SPECIFICATION Spec
CONSTANTS
    Jobs = {j1, j2}
    Kinds = {"send", "upload", "submit", "download", "read", "save"}
    Parts = 2
    Attempts = 2
    MaxRequests = 2
    MaxFaults = 2
    MaxCrashes = 1
SYMMETRY Symmetry
CHECK_DEADLOCK FALSE
INVARIANTS PublishedIsComplete FailedIsDeleted FilesAreCleanedUp
