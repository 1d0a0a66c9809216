SPECIFICATION LinkFairSpec
CONSTANTS
  n1 = n1
  n2 = n2
  Broadcast = Broadcast
  Nodes <- MCNodes
  Places <- MCPlaces
  Hears <- MCHears
  MaxSends <- MCMaxSends
  Sends1 = 2
  Sends2 = 1
  Modes <- SecureHastyOrOpenPatient
  Preemptive = FALSE
  MaxRetries = 1
  QueueDepth = 2
  HopLimit = 2
  MaxLosses <- MCMaxLosses
  Losses = 2
  SeqWindow = 4
  MaxSeq = 7
INVARIANTS
  MacTypeOK
  OkMeansReceived
  RetryMasksLossInOpen
PROPERTIES
  SendReturns
CHECK_DEADLOCK FALSE
