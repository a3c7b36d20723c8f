SPECIFICATION FairSpec
CONSTANTS
  Order <- MCOrder
  Postfix = "postfix"
  MaxDeaths = 3
INVARIANTS
  TypeOK
  NoStray
  EveryRoleWatched
  UnaskedExitFails
  NothingOutlivesPid1
PROPERTIES
  ComesBack
  StopEnds
CHECK_DEADLOCK FALSE
