SPECIFICATION Spec
CONSTANTS
    Certs = {c1, c2}
    Foreign = {}
    None = None
    NeedStreak = 1
    NeedWait = 1
    Resets = 1
    LoopDeaths = 0
    Deletions = 1
SYMMETRY Symmetry
PROPERTIES
    NoticeUntilTrusted
CHECK_DEADLOCK FALSE
