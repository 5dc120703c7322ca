SPECIFICATION LotSpec
CONSTANTS
    PartTarget = {p1}
    LotTarget = {l1, l2}
    NoTarget = none
    Values = {1, 2}
    Definitions = {1}
    Tick = {t1}
    MaxRows = 4
    MaxRemote = 3
    MaxAttempts = 2
    BatchSize = 2
    LeaseTime = 1
    MaxCrashes = 0
    MaxRetries = 0
    MaxLost = 0
    MaxOverruns = 0
    MaxBackfills = 0
CHECK_DEADLOCK FALSE
SYMMETRY ItemSymmetry
INVARIANTS InOrder PendingIsWaiting
