SPECIFICATION FairSpec
CONSTANTS
  d1 = d1
  d2 = d2
  Devices = {d1}
  Mac <- OwnMac
  FirstId = 2
  LastId = 3
  Unassigned = 254
  MaxNodes = 2
  MaxRoutes = 2
  NodeTimeout = 1
  Nested = FALSE
  MaxToken = 2
  MaxReboots = 1
PROPERTIES
  JoinCompletes
CHECK_DEADLOCK FALSE
