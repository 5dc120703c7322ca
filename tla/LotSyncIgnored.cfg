SPECIFICATION LotSpec
CONSTANTS
    PartTarget = {p1}
    LotTarget = {l1}
    NoTarget = none
    Values = {1, 2}
    Definitions = {1}
    Tick = {t1}
    MaxRows = 5
    MaxRemote = 2
    MaxAttempts = 1
    BatchSize = 2
    LeaseTime = 1
    MaxCrashes = 0
    MaxRetries = 0
    MaxLost = 0
    MaxOverruns = 0
    MaxBackfills = 0
CHECK_DEADLOCK FALSE
INVARIANT MirrorAlwaysSettles
