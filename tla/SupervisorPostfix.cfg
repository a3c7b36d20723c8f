SPECIFICATION FairSpec
CONSTANTS
  Order <- MCOrder
  Postfix = "postfix"
  MaxDeaths = 2
PROPERTY PostfixDeathStopsRelay
CHECK_DEADLOCK FALSE
