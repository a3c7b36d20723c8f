SPECIFICATION Spec
CONSTANTS
    Callers = {p1, p2}
    Events = {e1}
    Refs = {r1, r2}
    Channels = {"email", "webhook"}
    Faults = 1
    None = None
SYMMETRY Symmetry
INVARIANTS
    TypeOK
    OnePagePerOutage
    NoticeKept
    OnceUnlessDoubtful
PROPERTIES
    KeepsTheBook
CHECK_DEADLOCK FALSE
