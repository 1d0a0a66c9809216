SPECIFICATION Spec
CONSTANTS
  n1 = n1
  n2 = n2
  Nodes = {n1, n2}
  Talker = n1
  TalkerSends = 5
  OthersSend = 1
  SeqWindow = 3
  MaxSeq = 7
  MaxNodes = 2
  MaxCtlSeq = 3
  Layers = {"net"}
  AckReq = TRUE
  MaxSent <- MCMaxSent
  MaxRestarts = 1
INVARIANTS
  TypeOK
  AtMostOnce
  WindowExact
  ReplayInv
  AscendingAccepted
CHECK_DEADLOCK FALSE
