SPECIFICATION Spec
CONSTANTS
    Code = {c1, c2}
    NoCode = none
    Item = {x1, x2}
    NoItem = nothing
    Instance = {x1}
    NoJob = nobody
    Job = {j1, j2}
    MaxBypasses = 1
CHECK_DEADLOCK FALSE
SYMMETRY ControllerSymmetry
INVARIANTS TypeOK RowsFitRequest NothingStaysLocked OneAtATime SubmissionHoldsQueue FormActsOnCard
