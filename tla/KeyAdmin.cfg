SPECIFICATION OneFirst
CONSTANTS
    Certs = {c1, c2}
    Foreign = {f1}
    None = None
    NeedStreak = 1
    NeedWait = 1
    ForceAllowed = TRUE
    Deaths = 0
    Portal = FALSE
    Commands = 1
INVARIANTS
    HandTypeOK
    LiveSurvivesHand
PROPERTIES
    ForeignNeedsOverride
    AdditionResolved
CHECK_DEADLOCK FALSE
