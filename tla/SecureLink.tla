----------------------------- MODULE SecureLink -----------------------------
(***************************************************************************)
(* The protected link of uMesh: how a node numbers the frames it encrypts  *)
(* and how the nodes that hear them decide which to accept.                *)
(*                                                                         *)
(* A sender has three counters: sec.protected_counter (32 bits, cut to the *)
(* 16 bits of seq_num) for the frames that come with seq_num 0, and the    *)
(* 12-bit counters net.seq_num and discovery.seq_num for control frames.   *)
(* An ACK carries the number of the frame it acknowledges.  All of them    *)
(* are judged by one replay window per source at each receiver, because    *)
(* on_phy_rx decrypts a frame before it looks at link_dst.                 *)
(*                                                                         *)
(* The radio is the set of all frames sent: a frame may be received at any *)
(* time, any number of times, in any order, or never.  A rejected frame    *)
(* (UMESH_ERR_REPLAY) changes statistics only, which are left out: it is a *)
(* stuttering step.                                                        *)
(***************************************************************************)
EXTENDS ReplayWindow

CONSTANTS
  Nodes,        \* the nodes, each a sender and a receiver
  MaxNodes,     \* UMESH_MAX_NODES, the slots of the replay table
  MaxCtlSeq,    \* 0x0FFF, the mask of the two 12-bit counters
  Layers,       \* the layers in use that number their own frames
  AckReq,       \* whether data frames carry UMESH_FLAG_ACK_REQ
  MaxSent,      \* bound: how many protected frames each node sends
  MaxRestarts   \* bound: restarts of nodes

ASSUME MaxNodesAssumption    == MaxNodes \in Nat
ASSUME MaxCtlSeqAssumption   == MaxCtlSeq \in 1..MaxSeq
ASSUME LayersAssumption      == Layers \subseteq {"net", "discovery"}
ASSUME AckReqAssumption      == AckReq \in BOOLEAN
ASSUME MaxSentAssumption     == MaxSent \in [Nodes -> Nat]
ASSUME MaxRestartsAssumption == MaxRestarts \in Nat

VARIABLES
  protected_counter, \* sec.protected_counter of each node
  ctl_seq,           \* net.seq_num and discovery.seq_num of each node
  replay,            \* sec.replay of each node, by source
  air,               \* every protected frame sent
  sent,              \* history: how many frames each node has sent
  accepted,          \* history: times a receiver accepted a number of a source
  newest,            \* history: the latest frame of a source accepted
  restarts           \* how many restarts there were, for the bound

vars == <<protected_counter, ctl_seq, replay, air,
          sent, accepted, newest, restarts>>

(* A protected frame.  id is its place among the frames of its source: it  *)
(* is not on the wire, it tells frames apart when their numbers repeat.    *)
Frames == [src : Nodes, seq : Seqs, wants_ack : BOOLEAN, id : Nat \ {0}]

Slots  == [valid : BOOLEAN, window : Windows]
NoSlot == [valid |-> FALSE, window |-> EmptyWindow]

(* Every field keeps the width the code gives it.                          *)
TypeOK ==
  /\ protected_counter \in [Nodes -> Nat]
  /\ ctl_seq \in [Nodes -> [Layers -> 0..MaxCtlSeq]]
  /\ replay \in [Nodes -> [Nodes -> Slots]]
  /\ air \in SUBSET Frames
  /\ sent \in [Nodes -> Nat]
  /\ accepted \in [Nodes -> [Nodes -> [Seqs -> Nat]]]
  /\ newest \in [Nodes -> [Nodes -> Nat]]
  /\ restarts \in 0..MaxRestarts

Init ==
  /\ protected_counter = [n \in Nodes |-> 0]
  /\ ctl_seq = [n \in Nodes |-> [l \in Layers |-> 0]]
  /\ replay = [n \in Nodes |-> [s \in Nodes |-> NoSlot]]
  /\ air = {}
  /\ sent = [n \in Nodes |-> 0]
  /\ accepted = [n \in Nodes |-> [s \in Nodes |-> [q \in Seqs |-> 0]]]
  /\ newest = [n \in Nodes |-> [s \in Nodes |-> 0]]
  /\ restarts = 0

-----------------------------------------------------------------------------
(* Sending.                                                                *)

(* sec_encrypt_frame: a frame without a number takes the next value of the *)
(* counter, cut to 16 bits; a frame with one only pushes the counter up.   *)
SecEncryptFrame(n, seq, wants_ack) ==
  LET counter == protected_counter[n]
      next    == IF seq = 0 THEN counter + 1
                 ELSE IF seq > counter THEN seq ELSE counter
      number  == IF seq = 0 THEN next % (MaxSeq + 1) ELSE seq
  IN  /\ sent[n] < MaxSent[n]
      /\ protected_counter' = [protected_counter EXCEPT ![n] = next]
      /\ sent' = [sent EXCEPT ![n] = @ + 1]
      /\ air' = air \cup {[src |-> n, seq |-> number,
                           wants_ack |-> wants_ack, id |-> sent[n] + 1]}

(* next_seq of net.c and of discovery.c: masked, and 0 is skipped.         *)
NextSeqUnmasked(seq) == seq + 1
NextSeq(seq) == IF seq = MaxCtlSeq THEN 1 ELSE seq + 1

(* net_route with security on leaves seq_num 0: sec.c numbers the frame.   *)
SendData(n) ==
  /\ SecEncryptFrame(n, 0, AckReq)
  /\ UNCHANGED <<ctl_seq, replay, accepted, newest, restarts>>

(* A control frame: ROUTE_UPDATE and POWER_BEACON are numbered by net.c,   *)
(* JOIN, ASSIGN, LEAVE, ELECTION and the gradient beacons by discovery.c.  *)
SendControl(n, l) ==
  LET seq == NextSeq(ctl_seq[n][l])
  IN  /\ ctl_seq' = [ctl_seq EXCEPT ![n][l] = seq]
      /\ SecEncryptFrame(n, seq, FALSE)
      /\ UNCHANGED <<replay, accepted, newest, restarts>>

-----------------------------------------------------------------------------
(* Receiving.                                                              *)

SlotsInUse(n) == {s \in Nodes : replay[n][s].valid}

(* replay_find_or_alloc: the slot of the source, or a free one.  A slot is *)
(* never given back.                                                       *)
HasSlot(n, s) == replay[n][s].valid \/ Cardinality(SlotsInUse(n)) < MaxNodes

WindowOf(n, s) == IF replay[n][s].valid THEN replay[n][s].window
                                        ELSE EmptyWindow

Accepts(n, f) == /\ HasSlot(n, f.src)
                 /\ ReplayAccepts(WindowOf(n, f.src), f.seq)

(* The replay check of sec_decrypt_frame lets the frame pass: the window   *)
(* records it.                                                             *)
RecordFrame(n, f) ==
  /\ Accepts(n, f)
  /\ replay' = [replay EXCEPT ![n][f.src] =
                 [valid  |-> TRUE,
                  window |-> ReplayUpdate(WindowOf(n, f.src), f.seq)]]
  /\ accepted' = [accepted EXCEPT ![n][f.src][f.seq] = @ + 1]
  /\ newest' = [newest EXCEPT ![n][f.src] = IF f.id > @ THEN f.id ELSE @]

(* on_phy_rx of a frame that asks for no answer, is an ACK itself, or was  *)
(* only overheard.                                                         *)
Receive(n, f) ==
  /\ f.src # n
  /\ RecordFrame(n, f)
  /\ UNCHANGED <<protected_counter, ctl_seq, air, sent, restarts>>

(* on_phy_rx of a frame that asks the node for an ACK: the ACK repeats the *)
(* frame's number and is protected like any other frame of the node.       *)
ReceiveAndAck(n, f) ==
  /\ f.src # n
  /\ f.wants_ack
  /\ RecordFrame(n, f)
  /\ SecEncryptFrame(n, f.seq, FALSE)
  /\ UNCHANGED <<ctl_seq, restarts>>

(* A node loses its memory and is initialised again with the same epoch:   *)
(* sec_init clears its counter and its replay table, net_init and          *)
(* discovery_init clear theirs.  Its history starts anew.                  *)
Restart(n) ==
  /\ restarts < MaxRestarts
  /\ restarts' = restarts + 1
  /\ protected_counter' = [protected_counter EXCEPT ![n] = 0]
  /\ ctl_seq' = [ctl_seq EXCEPT ![n] = [l \in Layers |-> 0]]
  /\ replay' = [replay EXCEPT ![n] = [s \in Nodes |-> NoSlot]]
  /\ accepted' = [accepted EXCEPT ![n] =
                   [s \in Nodes |-> [q \in Seqs |-> 0]]]
  /\ newest' = [newest EXCEPT ![n] = [s \in Nodes |-> 0]]
  /\ UNCHANGED <<air, sent>>

Next ==
  \E n \in Nodes :
    \/ SendData(n)
    \/ \E l \in Layers : SendControl(n, l)
    \/ \E f \in air : Receive(n, f) \/ ReceiveAndAck(n, f)
    \/ Restart(n)

Spec == Init /\ [][Next]_vars

-----------------------------------------------------------------------------
(* A receiver accepts a sequence number of a source at most once between   *)
(* two of its own restarts, whatever the radio repeats, delays or          *)
(* reorders and whichever counter the number came from (sec.c, the         *)
(* sliding window of replay_check_and_update).                             *)
AtMostOnce ==
  \A n, s \in Nodes : \A q \in Seqs : accepted[n][s][q] <= 1

(* The window is exact: an offset of the bitmap is set if and only if the  *)
(* number it stands for was accepted, so a number inside the window is     *)
(* refused only when it was accepted before (sec.c: shifting the bitmap by *)
(* the distance the window moves loses no number that is still inside).    *)
WindowExact ==
  \A n, s \in Nodes :
    LET w == replay[n][s].window
    IN  replay[n][s].valid =>
          \A d \in Offsets : d <= w.last_seq =>
            (d \in w.window_bitmap <=> accepted[n][s][w.last_seq - d] > 0)

(* What makes the window safe in every step: a slot in use has marked its  *)
(* last number; the bits of its window stand for accepted numbers, and     *)
(* every accepted number is not above the last one and, when it is still   *)
(* inside the window, marked.  A slot that is free has accepted nothing    *)
(* (sec.c, replay_find_or_alloc and replay_check_and_update).              *)
Records(w, count) ==
  /\ 0 \in w.window_bitmap
  /\ \A d \in w.window_bitmap :
       d <= w.last_seq /\ count[w.last_seq - d] > 0
  /\ \A q \in Seqs :
       /\ count[q] <= 1
       /\ count[q] > 0 =>
            /\ q <= w.last_seq
            /\ w.last_seq - q \in Offsets => w.last_seq - q \in w.window_bitmap

ReplayInv ==
  \A n, s \in Nodes :
    IF replay[n][s].valid
    THEN Records(replay[n][s].window, accepted[n][s])
    ELSE \A q \in Seqs : accepted[n][s][q] = 0

(* A frame sent after every frame the receiver has accepted from the same  *)
(* source passes the replay check, as long as the numbers of the source    *)
(* have ascended - they need not do so across the counters, its restarts,  *)
(* its ACKs and the wrap - and the receiver has a slot for it: the window  *)
(* does not refuse new traffic (sec.c, `seq > rs->last_seq').              *)
Ascending(s) ==
  \A f, g \in {h \in air : h.src = s} : f.id < g.id => f.seq < g.seq

AscendingAccepted ==
  \A n \in Nodes : \A f \in air :
    /\ f.src # n /\ f.id > newest[n][f.src]
    /\ Ascending(f.src) /\ HasSlot(n, f.src)
    => Accepts(n, f)
=============================================================================
