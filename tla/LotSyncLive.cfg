SPECIFICATION LotFairSpec
CONSTANTS
    PartTarget = {p1}
    LotTarget = {l1}
    NoTarget = none
    Values = {1}
    Definitions = {1}
    Tick = {t1}
    MaxRows = 3
    MaxRemote = 2
    MaxAttempts = 2
    BatchSize = 2
    LeaseTime = 1
    MaxCrashes = 1
    MaxRetries = 0
    MaxLost = 1
    MaxOverruns = 0
    MaxBackfills = 1
CHECK_DEADLOCK FALSE
PROPERTIES LabelledGetsLot LeasesReclaimed Finishes
