SPECIFICATION Spec
CONSTANTS
  d1 = d1
  d2 = d2
  Devices = {d1, d2}
  Mac <- SharedMac
  FirstId = 2
  LastId = 3
  Unassigned = 254
  MaxNodes = 2
  MaxRoutes = 2
  NodeTimeout = 1
  Nested = TRUE
  MaxToken = 2
  MaxReboots = 1
INVARIANTS
  DistinctIds
CHECK_DEADLOCK FALSE
