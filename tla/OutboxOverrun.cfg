SPECIFICATION Spec
CONSTANTS
    PartTarget = {p1}
    LotTarget = {l1}
    NoTarget = none
    Values = {v1}
    Tick = {t1, t2}
    MaxRows = 3
    MaxRemote = 2
    MaxAttempts = 2
    BatchSize = 2
    LeaseTime = 1
    MaxCrashes = 0
    MaxRetries = 0
    MaxLost = 1
    MaxOverruns = 1
CHECK_DEADLOCK FALSE
SYMMETRY TickSymmetry
INVARIANTS TypeOK EffectsFollowDependencies NamesOwnObject
