--------------------------- MODULE PacketService ---------------------------
(***************************************************************************)
(* What the network layer promises to the applications of a mesh: a packet *)
(* that is given to one was sent to it, or to everybody, by the source it  *)
(* names, and is given to it once as long as the nodes remember what they  *)
(* have handled.  Nothing is promised of when, in which order, or that it  *)
(* is given at all.                                                        *)
(***************************************************************************)
EXTENDS Naturals

CONSTANTS
  Nodes, Broadcast,
  Packets    \* what can be sent: records with src, dst and seq

VARIABLES
  sent,       \* the packets that were sent
  got,        \* got[n]: how often (at most 2) n was given a packet
  remembered  \* no node has forgotten a packet it has handled

vars == <<sent, got, remembered>>

Init == sent = {} /\ got = [n \in Nodes |-> <<>>] /\ remembered = TRUE

(* What is forgotten is forgotten for good.                                *)
Remembering == remembered' => remembered

(* One packet more is sent, under a number its source has not used.        *)
Send ==
  /\ UNCHANGED got
  /\ \E p \in sent' \ sent :
       /\ p \in Packets
       /\ sent' = sent \cup {p}
       /\ \A q \in sent : ~ (q.src = p.src /\ q.seq = p.seq)
  /\ Remembering

Get(n, p) ==
  /\ p.dst \in {n, Broadcast}
  /\ p \notin DOMAIN got[n]
  /\ got' = [got EXCEPT ![n] =
       [q \in DOMAIN got[n] \cup {p} |-> IF q = p THEN 1 ELSE got[n][q]]]
  /\ UNCHANGED sent
  /\ Remembering

GetAgain(n, p) ==
  /\ ~ remembered
  /\ p \in DOMAIN got[n]
  /\ got' = [got EXCEPT ![n] = [got[n] EXCEPT ![p] = 2]]
  /\ UNCHANGED <<sent, remembered>>

Forget ==
  /\ ~ remembered'
  /\ UNCHANGED <<sent, got>>

Next == Send \/ Forget \/ \E n \in Nodes, p \in sent : Get(n, p) \/ GetAgain(n, p)

Spec == Init /\ [][Next]_vars
=============================================================================
