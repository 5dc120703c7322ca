SPECIFICATION Spec
CONSTANTS
    PartTarget = {p1}
    LotTarget = {l1}
    NoTarget = none
    Values = {v1}
    Tick = {t1, t2}
    MaxRows = 2
    MaxRemote = 2
    MaxAttempts = 2
    BatchSize = 2
    LeaseTime = 1
    MaxCrashes = 0
    MaxRetries = 0
    MaxLost = 0
    MaxOverruns = 1
CHECK_DEADLOCK FALSE
INVARIANT ReplayIsIdempotent
