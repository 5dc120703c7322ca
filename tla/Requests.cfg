SPECIFICATION Spec
CONSTANTS
    Request = {r1, r2, r3}
    Key = {k1}
    NoKey = NoKey
    Session = {s1, s2}
    Tab = {t1, t2}
    None = None
SYMMETRY Symmetry
INVARIANTS
    TypeOK
    TakesEffectOnce
    AnswersAreTrue
    ReservationsHaveOwners
    SignOutHolds
CHECK_DEADLOCK FALSE
