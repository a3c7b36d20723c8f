SPECIFICATION Spec
CONSTANTS
    Certs = {c1, c2, c3}
    Foreign = {f1}
    None = None
    NeedStreak = 1
    NeedWait = 1
    Resets = 1
    LoopDeaths = 1
    Deletions = 1
SYMMETRY Symmetry
INVARIANTS
    TypeOK
    NoticeHasKey
PROPERTIES
    OneStandby
    AdoptsOnlyTrusted
    KeepsCustody
CHECK_DEADLOCK FALSE
