SPECIFICATION LinkSpec
CONSTANTS
  n1 = n1
  n2 = n2
  Broadcast = Broadcast
  Nodes <- MCNodes
  Places <- MCPlaces
  Hears <- MCHears
  MaxSends <- MCMaxSends
  Sends1 = 2
  Sends2 = 0
  Modes <- OpenHasty
  Preemptive = TRUE
  MaxRetries = 1
  QueueDepth = 2
  HopLimit = 2
  MaxLosses <- MCMaxLosses
  Losses = 1
  SeqWindow = 4
  MaxSeq = 7
INVARIANTS
  OkMeansReceived
CHECK_DEADLOCK FALSE
