SPECIFICATION Spec
CONSTANTS
    Events = 3
    MaxProcessed = 3
    MaxFailures = 2
    MaxEventFailures = 2
    Pollers = {p1}
    Directed = {1, 3}
    Legacy = {}
    Broken = {2}
    Malformed = {}
    PageSize = 2
    Collecting = TRUE
    MaxCrashes = 0
    MaxAborts = 0
    MaxSaveFails = 0
    MaxFails = 0
    MaxGlitches = 0
    MaxFaults = 0
CHECK_DEADLOCK FALSE
INVARIANTS CommittedIsReceived
