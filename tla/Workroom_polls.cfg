SPECIFICATION FairSpec
CONSTANTS
    Events = 4
    MaxProcessed = 4
    MaxFailures = 2
    MaxEventFailures = 2
    Pollers = {p1, p2}
    Directed = {1, 2}
    Legacy = {3}
    Broken = {1}
    Malformed = {4}
    PageSize = 2
    Collecting = FALSE
    MaxCrashes = 1
    MaxAborts = 1
    MaxSaveFails = 1
    MaxFails = 1
    MaxGlitches = 2
    MaxFaults = 3
CHECK_DEADLOCK FALSE
INVARIANTS NothingSkipped QuarantineIsEarned
PROPERTIES CommittedIsNotHandledAgain EveryEventIsPassed
