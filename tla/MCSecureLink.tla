---------------------------- MODULE MCSecureLink ----------------------------
(* SecureLink on small instances.  A window belongs to one source and one  *)
(* receiver, so one node that talks and one that mostly listens exercise   *)
(* it; three nodes fill a replay table of one slot.                        *)
EXTENDS SecureLink, TLC

CONSTANTS
  Talker,     \* the node that sends most
  TalkerSends,
  OthersSend

MCMaxSent == [n \in Nodes |-> IF n = Talker THEN TalkerSends ELSE OthersSend]
=============================================================================
