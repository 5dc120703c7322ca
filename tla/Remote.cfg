SPECIFICATION Spec
CONSTANTS
    parts = parts
    shelf = shelf
    Shelf = Shelf
    Name <- Names3
    Lower <- MCLower
    Definition = {d1, d2}
    Category <- MCCategory
    Places <- MCPlaces
    Part = {p1, p2}
    Item = {x1}
    NoTarget = none
    Tick = {t1, t2}
    MaxObjects = 6
    MaxMishaps = 1
    MaxPasses = 1
    MaxChanges = 1
    MaxRetries = 1
CHECK_DEADLOCK FALSE
SYMMETRY Interchangeable
INVARIANTS TypeOK FiledUnderPath OneNodePerPath
PROPERTY ForgetsOnlyTheGone
