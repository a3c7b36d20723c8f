SPECIFICATION Spec
CONSTANTS
    Certs = {c1, c2}
    Foreign = {f1}
    None = None
    NeedStreak = 1
    NeedWait = 1
    Deaths = 0
    Portal = FALSE
SYMMETRY Symmetry
INVARIANTS
    RemovalIsSafe
CHECK_DEADLOCK FALSE
