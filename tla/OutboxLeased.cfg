SPECIFICATION Spec
CONSTANTS
    PartTarget = {p1}
    LotTarget = {l1}
    NoTarget = none
    Values = {v1}
    Tick = {t1, t2}
    MaxRows = 3
    MaxRemote = 2
    MaxAttempts = 2
    BatchSize = 2
    LeaseTime = 1
    MaxCrashes = 1
    MaxRetries = 1
    MaxLost = 1
    MaxOverruns = 0
CHECK_DEADLOCK FALSE
SYMMETRY TickSymmetry
INVARIANTS OneHolder NoNeedlessRepeat
PROPERTIES DeliveredIsFinal ImplementsDelivery
