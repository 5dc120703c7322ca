SPECIFICATION Spec
CONSTANTS
    Call = {c1, c2, c3}
    Frame = {f1, f2}
    NoStream = none
CHECK_DEADLOCK FALSE
SYMMETRY CameraSymmetry
INVARIANTS TypeOK NoStrayStream HiddenIsOff OneScanPerStart NeverFrozen
