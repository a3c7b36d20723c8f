SPECIFICATION Spec
CONSTANTS
    Certs = {c1, c2}
    Foreign = {}
    None = None
    NeedStreak = 2
    NeedWait = 3
    Resets = 0
    LoopDeaths = 0
    Deletions = 1
SYMMETRY Symmetry
PROPERTIES
    StandbyAfterSustainedFault
CHECK_DEADLOCK FALSE
