SPECIFICATION FairSpec
CONSTANTS
    Lifetime = 4
    MinRemaining = 4
    Comfort = 1
    AlertAfter = 2
    Faults = 2
INVARIANTS
    TypeOK
    PagedBeforeDead
    RenewedIsServed
PROPERTIES
    HealedIsQuiet
    SickIsPaged
CHECK_DEADLOCK FALSE
