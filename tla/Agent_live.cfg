SPECIFICATION MCFairSpec
CONSTANTS
    Incoming = {m1, m2}
    Sends = {o1}
    Mirrored = {o1}
    MaxProcessed = 1
    Poison = {}
    Reads = {}
    MaxQueue = 2
    MaxCrashes = 1
    QuietRestart = TRUE
    MaxStops = 1
    MaxDrops = 1
    MaxRepeats = 0
    MaxSaveFails = 0
    MaxFails = 1
CHECK_DEADLOCK FALSE
INVARIANTS AcceptedIsKept
PROPERTIES RemovedOnlyAfterReceipt EveryEnvelopeIsReceipted EveryMessageIsAcknowledged
