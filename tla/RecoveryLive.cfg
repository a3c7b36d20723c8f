SPECIFICATION FairSpec
CONSTANTS
    Certs = {c1, c2}
    Foreign = {}
    None = None
    NeedStreak = 1
    NeedWait = 1
    Resets = 0
    LoopDeaths = 1
    Deletions = 1
PROPERTIES
    UploadAnswered
CHECK_DEADLOCK FALSE
