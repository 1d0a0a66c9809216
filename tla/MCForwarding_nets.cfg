SPECIFICATION FairSpec
CONSTANTS
  n1 = n1
  n2 = n2
  n3 = n3
  Broadcast = Broadcast
  NoRoute = NoRoute
  Nodes <- MCNodes
  Places <- MCPlaces
  Hears <- MCHears
  Route <- MCRoute
  Destinations <- MCDestinations
  MaxSends <- MCMaxSends
  Modes <- OpenPatient
  Preemptive = TRUE
  MaxRetries = 1
  QueueDepth = 1
  HopLimit = 3
  MaxLosses <- MCMaxLosses
  DupCacheSize <- MCDupCacheSize
  SeqWindow = 4
  MaxSeq = 7
INVARIANTS
  TypeOK
  HandledOnce
  ArrivesUnlessLost
PROPERTIES
  DiesOut
  PacketsServed
CHECK_DEADLOCK FALSE
