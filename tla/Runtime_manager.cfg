SPECIFICATION FairSpec
CONSTANTS
    Newest = 4
    Boot = 1
    Line <- MCLine
    Advisories <- MCAdvisories
    LocalPolicy = "COMPATIBLE"
    Bad = {3}
    MaxUpdates = 1
    MaxFaults = 3
CHECK_DEADLOCK FALSE
INVARIANTS RestartIsSafe ApprovalIsOneShot
PROPERTIES NoWayBack KeepsServing
