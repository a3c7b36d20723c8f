SPECIFICATION Spec
CONSTANTS
    Certs = {c1, c2, c3}
    Foreign = {f1}
    None = None
    NeedStreak = 1
    NeedWait = 1
    ForceAllowed = FALSE
    Deaths = 1
    Portal = TRUE
SYMMETRY Symmetry
INVARIANTS
    TypeOK
    LiveRegistered
    AddedKeyTracked
    WayBack
PROPERTIES
    ForeignUntouched
    OneAdditionAtATime
    RetirementKept
    KeepsCustody
CHECK_DEADLOCK FALSE
