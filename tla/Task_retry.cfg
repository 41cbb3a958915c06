SPECIFICATION FairChannelSpec
CONSTANTS
    Tasks = 2
    ListSize = 1
    Events = 2
    Silent <- MCSilent
    Files <- MCFiles
    Blocks = 2
    Words = {w1}
    NeedsConsent = {}
    Direct = {}
    ReuseFails = TRUE
    MaxFaults = 1
CHECK_DEADLOCK FALSE
PROPERTIES PublicationIsRetrySafe
