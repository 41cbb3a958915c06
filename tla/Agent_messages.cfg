SPECIFICATION Spec
CONSTANTS
    Incoming = {m1}
    Sends = {}
    Mirrored = {m1}
    MaxProcessed = 1
    Poison = {}
    Reads = {m1}
    MaxQueue = 2
    MaxCrashes = 1
    QuietRestart = TRUE
    MaxStops = 0
    MaxDrops = 0
    MaxRepeats = 1
    MaxSaveFails = 1
    MaxFails = 0
CHECK_DEADLOCK FALSE
INVARIANTS TypeOK MemoryIsDurable CopyPrecedesHandler AckedWasHandled
PROPERTIES ImplementsDelivery StagedUntilConfirmed LedgerIsHeeded
