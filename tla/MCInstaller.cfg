SPECIFICATION Spec
CONSTANTS
    Installer = {p1, p2}
    Release = {r1, r2, r3}
    Binary = {b1, b2}
    None = None
    SameName = TRUE
SYMMETRY Symmetry
INVARIANTS
    CurrentIsUsable
    RunningServiceIsOwned
PROPERTIES
    FailureKeepsCurrent
CHECK_DEADLOCK FALSE
