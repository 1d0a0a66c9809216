SPECIFICATION FairSpec
CONSTANTS
  Nodes <- Two
  ScanTime = 1
  ElectionTime = 2
  AnnounceTime = 2
  JoinRetry = 1
  RouteUpdate = 2
  NodeTimeout = 3
  MaxTerm = 3
  MaxTroubles = 0
  Crowd = 2
PROPERTIES
  SplitHeals
CHECK_DEADLOCK FALSE
