------------------------------ MODULE MacLink ------------------------------
(***************************************************************************)
(* The MAC layer on its own: the application hands frames for a node in    *)
(* range straight to mac_send, and what a receiver hands up needs no more  *)
(* than the callback's return.                                             *)
(***************************************************************************)
EXTENDS Mac

(* umesh_send / net_route of a frame with the node's next number.  The     *)
(* bound on what a node sends keeps its counter below the wrap.            *)
LinkSend(n) ==
  \E dst \in InRange(n) \cup {Broadcast}, ack_req \in BOOLEAN :
    /\ Cardinality({o \in outcomes : o.task[1] = n}) < MaxSends[n]
    /\ counter[n] < MaxSeq
    /\ MacSend(<<n, "app">>,
               [is_ack |-> FALSE, ack_req |-> ack_req,
                seq |-> counter[n] + 1, hop |-> HopLimit,
                src |-> n, dst |-> dst, link_src |-> n, link_dst |-> dst])
    /\ counter' = [counter EXCEPT ![n] = @ + 1]
    /\ UNCHANGED <<mode, mac, rx, rxq, replay, outcomes, heard, losses>>

(* rx_cb returns and on_phy_rx ends.                                       *)
HandUp(n) ==
  /\ rx[n] # NoFrame
  /\ rx' = [rx EXCEPT ![n] = NoFrame]
  /\ mac' = [mac EXCEPT ![n].rx_in_progress = FALSE]
  /\ UNCHANGED <<mode, tx, rxq, counter, replay, outcomes, heard, losses>>

LinkNext ==
  \E n \in Nodes :
    \/ LinkSend(n)
    \/ SendStep(<<n, "app">>)
    \/ ReceiveStep(n)
    \/ HandUp(n)

LinkSpec == MacInit /\ [][LinkNext]_macVars

(* The scheduler runs every task that is ready, and delays end.  Nobody    *)
(* makes the application send.                                             *)
LinkFairness ==
  \A n \in Nodes : /\ WF_macVars(SendStep(<<n, "app">>))
                   /\ WF_macVars(ReceiveStep(n))
                   /\ WF_macVars(HandUp(n))

LinkFairSpec == LinkSpec /\ LinkFairness

-----------------------------------------------------------------------------
(* Every mac_send returns to its caller, whatever the radio loses: neither *)
(* a busy channel nor a missing ACK holds the task for ever (mac.c, the    *)
(* two bounded loops).                                                     *)
SendReturns ==
  \A n \in Nodes :
    tx[<<n, "app">>].pc # "idle" ~> tx[<<n, "app">>].pc = "idle"
=============================================================================
