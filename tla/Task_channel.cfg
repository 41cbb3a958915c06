SPECIFICATION FairChannelSpec
CONSTANTS
    Tasks = 2
    ListSize = 1
    Events = 2
    Silent <- MCSilent
    Files <- MCFiles
    Blocks = 2
    Words = {w1, w2}
    NeedsConsent = {1}
    Direct = {d1}
    ReuseFails = FALSE
    MaxFaults = 1
CHECK_DEADLOCK FALSE
INVARIANTS CommittedIsAnswered
PROPERTIES EveryTaskIsServed
