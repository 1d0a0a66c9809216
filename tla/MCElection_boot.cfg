SPECIFICATION FairSpec
CONSTANTS
  Nodes <- Three
  ScanTime = 1
  ElectionTime = 2
  AnnounceTime = 2
  JoinRetry = 1
  RouteUpdate = 2
  NodeTimeout = 3
  MaxTerm = 2
  MaxTroubles = 1
  Crowd = 2
INVARIANTS
  TypeOK
  OneCoordinator
PROPERTIES
  KeepsCoordinator
  Settles
CHECK_DEADLOCK FALSE
