-------------------------- MODULE SecureLinkProofs --------------------------
(***************************************************************************)
(* What holds of the protected link for every number of nodes, every width *)
(* of the window and of the sequence numbers, and any number of frames and *)
(* restarts: the replay window accepts a number at most once, and refuses  *)
(* none inside the window that it has not accepted.                        *)
(*                                                                         *)
(* The inductive invariant is TypeOK /\ ReplayInv: neither AtMostOnce nor  *)
(* WindowExact is inductive, for they do not say that no number above      *)
(* last_seq was accepted, nor that a slot in use is never the empty        *)
(* window that accepts everything.                                         *)
(***************************************************************************)
EXTENDS SecureLink, TLAPS

(* One more acceptance of seq.                                             *)
Bump(count, seq) == [count EXCEPT ![seq] = @ + 1]

-----------------------------------------------------------------------------
(* The replay window.                                                      *)

(* The update of a window with a number it accepts gives a window.         *)
LEMMA UpdateType ==
  ASSUME NEW w \in Windows, NEW seq \in Seqs, ReplayAccepts(w, seq)
  PROVE  ReplayUpdate(w, seq) \in Windows
<1> USE SeqWindowAssumption, MaxSeqAssumption
<1>1. 0 \in Offsets
  BY DEF Offsets
<1>2. CASE NeverUsed(w)
  BY <1>1, <1>2 DEF ReplayUpdate, Windows
<1>3. CASE ~ NeverUsed(w) /\ IsAhead(w, seq)
  <2>1. ShiftLeft(w.window_bitmap, seq - w.last_seq) \cup {0}
          \in SUBSET Offsets
    BY <1>1 DEF ShiftLeft
  <2> QED
    BY <1>3, <2>1 DEF ReplayUpdate, Windows
<1>4. CASE ~ NeverUsed(w) /\ ~ IsAhead(w, seq)
  <2>1. w.last_seq - seq \in Offsets
    BY <1>4 DEF ReplayAccepts, IsUnseen
  <2> QED
    BY <1>4, <2>1 DEF ReplayUpdate, Windows
<1> QED
  BY <1>2, <1>3, <1>4

(* The first number a free slot takes.                                     *)
LEMMA FirstRecord ==
  ASSUME NEW count \in [Seqs -> Nat], NEW seq \in Seqs,
         \A q \in Seqs : count[q] = 0
  PROVE  Records(ReplayUpdate(EmptyWindow, seq), Bump(count, seq))
<1> DEFINE v == ReplayUpdate(EmptyWindow, seq)
<1>1. v = [last_seq |-> seq, window_bitmap |-> {0}]
  BY DEF ReplayUpdate, NeverUsed, EmptyWindow
<1>2. seq \in Nat
  BY MaxSeqAssumption DEF Seqs
<1>3. \A q \in Seqs : Bump(count, seq)[q] = IF q = seq THEN 1 ELSE 0
  BY DEF Bump
<1>4. \A d \in v.window_bitmap :
         d <= v.last_seq /\ Bump(count, seq)[v.last_seq - d] > 0
  BY <1>1, <1>2, <1>3
<1>5. ASSUME NEW q \in Seqs
      PROVE  /\ Bump(count, seq)[q] <= 1
             /\ Bump(count, seq)[q] > 0 =>
                  /\ q <= v.last_seq
                  /\ v.last_seq - q \in Offsets =>
                       v.last_seq - q \in v.window_bitmap
  BY <1>1, <1>2, <1>3
<1> QED
  BY <1>1, <1>4, <1>5 DEF Records

(* A number that a slot in use accepts has not been accepted before.       *)
LEMMA AcceptedIsNew ==
  ASSUME NEW w \in Windows, NEW count \in [Seqs -> Nat], NEW seq \in Seqs,
         Records(w, count), ReplayAccepts(w, seq)
  PROVE  count[seq] = 0
<1>1. ~ NeverUsed(w)
  BY DEF Records, NeverUsed
<1>2. count[seq] \in Nat /\ seq \in Int /\ w.last_seq \in Int
  BY MaxSeqAssumption DEF Windows, Seqs
<1>3. CASE IsAhead(w, seq)
  BY <1>2, <1>3 DEF IsAhead, Records
<1>4. CASE IsUnseen(w, seq)
  BY <1>2, <1>4 DEF IsUnseen, Records
<1> QED
  BY <1>1, <1>3, <1>4 DEF ReplayAccepts

(* The window of a slot in use keeps its record.                           *)
LEMMA NextRecord ==
  ASSUME NEW w \in Windows, NEW count \in [Seqs -> Nat], NEW seq \in Seqs,
         Records(w, count), ReplayAccepts(w, seq)
  PROVE  Records(ReplayUpdate(w, seq), Bump(count, seq))
<1> DEFINE v    == ReplayUpdate(w, seq)
           next == Bump(count, seq)
<1>1. ~ NeverUsed(w)
  BY DEF Records, NeverUsed
<1>2. /\ seq \in Int /\ w.last_seq \in Int /\ \A q \in Seqs : q \in Int
      /\ w.last_seq \in Seqs
  BY MaxSeqAssumption DEF Windows, Seqs
<1>3. count[seq] = 0
  BY AcceptedIsNew
<1>4. \A q \in Seqs : next[q] = IF q = seq THEN 1 ELSE count[q]
  BY <1>3 DEF Bump
<1>5. \A d \in w.window_bitmap : d \in Nat /\ d \in Offsets
  BY SeqWindowAssumption DEF Windows, Offsets
<1>6. \A q \in Seqs : next[q] <= 1
  BY <1>4 DEF Records
<1>7. CASE IsAhead(w, seq)
  <2> DEFINE by == seq - w.last_seq
  <2>1. /\ v.last_seq = seq
        /\ v.window_bitmap = ShiftLeft(w.window_bitmap, by) \cup {0}
    BY <1>1, <1>7 DEF ReplayUpdate
  <2>2. by \in Nat /\ by > 0
    BY <1>2, <1>7 DEF IsAhead
  <2>3. ASSUME NEW d \in v.window_bitmap
        PROVE  d <= v.last_seq /\ next[v.last_seq - d] > 0
    <3>1. CASE d = 0
      BY <1>2, <1>4, <2>1, <3>1, MaxSeqAssumption DEF Seqs
    <3>2. CASE d # 0
      <4>1. PICK e \in w.window_bitmap : d = e + by
        BY <2>1, <3>2 DEF ShiftLeft
      <4>2. e <= w.last_seq /\ count[w.last_seq - e] > 0
        BY DEF Records
      <4>3. seq - d = w.last_seq - e /\ d <= seq /\ e \in Nat
        BY <1>2, <1>5, <4>1, <4>2
      <4>4. w.last_seq - e \in Seqs
        BY <1>2, <4>2, <4>3, MaxSeqAssumption DEF Seqs
      <4> QED
        BY <1>4, <2>1, <4>2, <4>3, <4>4
    <3> QED
      BY <3>1, <3>2
  <2>4. ASSUME NEW q \in Seqs, next[q] > 0, v.last_seq - q \in Offsets
        PROVE  v.last_seq - q \in v.window_bitmap
    <3>1. CASE q = seq
      BY <1>2, <2>1, <3>1
    <3>2. CASE q # seq
      <4>1. count[q] > 0
        BY <1>4, <2>4, <3>2
      <4>2. q <= w.last_seq
        BY <4>1 DEF Records
      <4>3. w.last_seq - q \in Offsets
        BY <1>2, <2>1, <2>2, <2>4, <4>2, SeqWindowAssumption DEF Offsets
      <4>4. w.last_seq - q \in w.window_bitmap
        BY <4>1, <4>3 DEF Records
      <4>5. seq - q = (w.last_seq - q) + by
        BY <1>2
      <4> QED
        BY <2>1, <2>4, <4>4, <4>5 DEF ShiftLeft
    <3> QED
      BY <3>1, <3>2
  <2>5. ASSUME NEW q \in Seqs, next[q] > 0
        PROVE  q <= v.last_seq
    BY <1>2, <1>4, <2>1, <2>2, <2>5 DEF Records
  <2>6. 0 \in v.window_bitmap
    BY <2>1
  <2> QED
    BY <1>6, <2>3, <2>4, <2>5, <2>6 DEF Records
<1>8. CASE ~ IsAhead(w, seq)
  <2> DEFINE delta == w.last_seq - seq
  <2>1. /\ v.last_seq = w.last_seq
        /\ v.window_bitmap = w.window_bitmap \cup {delta}
    BY <1>1, <1>8 DEF ReplayUpdate, Windows
  <2>2. delta \in Offsets /\ delta \in Nat
    BY <1>1, <1>8, SeqWindowAssumption
       DEF ReplayAccepts, IsUnseen, Offsets
  <2>3. ASSUME NEW d \in v.window_bitmap
        PROVE  d <= v.last_seq /\ next[v.last_seq - d] > 0
    <3>1. CASE d = delta
      BY <1>2, <1>4, <2>1, <2>2, <3>1, MaxSeqAssumption DEF Seqs
    <3>2. CASE d # delta
      <4>1. d \in w.window_bitmap
        BY <2>1, <3>2
      <4>2. d <= w.last_seq /\ count[w.last_seq - d] > 0 /\ d \in Nat
        BY <1>5, <4>1 DEF Records
      <4>3. w.last_seq - d \in Seqs
        BY <1>2, <4>2, MaxSeqAssumption DEF Seqs
      <4> QED
        BY <1>4, <2>1, <4>2, <4>3
    <3> QED
      BY <3>1, <3>2
  <2>4. ASSUME NEW q \in Seqs, next[q] > 0
        PROVE  /\ q <= v.last_seq
               /\ v.last_seq - q \in Offsets =>
                    v.last_seq - q \in v.window_bitmap
    <3>1. CASE q = seq
      BY <1>2, <2>1, <2>2, <3>1
    <3>2. CASE q # seq
      BY <1>4, <2>1, <2>4, <3>2 DEF Records
    <3> QED
      BY <3>1, <3>2
  <2>5. 0 \in v.window_bitmap
    BY <2>1 DEF Records
  <2> QED
    BY <1>6, <2>3, <2>4, <2>5 DEF Records
<1> QED
  BY <1>7, <1>8

-----------------------------------------------------------------------------
(* The state machine.                                                      *)

(* sec_encrypt_frame keeps the types of what it changes.                   *)
LEMMA EncryptType ==
  ASSUME NEW n \in Nodes, NEW seq \in Seqs, NEW wants_ack \in BOOLEAN,
         TypeOK, SecEncryptFrame(n, seq, wants_ack)
  PROVE  /\ protected_counter' \in [Nodes -> Nat]
         /\ sent' \in [Nodes -> Nat]
         /\ air' \in SUBSET Frames
<1> DEFINE counter == protected_counter[n]
           next    == IF seq = 0 THEN counter + 1
                      ELSE IF seq > counter THEN seq ELSE counter
           number  == IF seq = 0 THEN next % (MaxSeq + 1) ELSE seq
           frame   == [src |-> n, seq |-> number,
                       wants_ack |-> wants_ack, id |-> sent[n] + 1]
<1>1. counter \in Nat /\ sent[n] \in Nat /\ seq \in Nat
  BY MaxSeqAssumption DEF TypeOK, Seqs
<1>2. next \in Nat
  BY <1>1
<1>3. next % (MaxSeq + 1) \in 0..MaxSeq
  BY <1>2, MaxSeqAssumption
<1>4. number \in Seqs
  BY <1>3 DEF Seqs
<1>5. frame \in Frames
  BY <1>1, <1>4 DEF Frames
<1>6. /\ protected_counter' = [protected_counter EXCEPT ![n] = next]
      /\ sent' = [sent EXCEPT ![n] = @ + 1]
      /\ air' = air \cup {frame}
  BY DEF SecEncryptFrame
<1>7. protected_counter' \in [Nodes -> Nat]
  BY <1>2, <1>6 DEF TypeOK
<1>8. sent' \in [Nodes -> Nat]
  BY <1>1, <1>6 DEF TypeOK
<1>9. air' \in SUBSET Frames
  BY <1>5, <1>6 DEF TypeOK
<1> QED
  BY <1>7, <1>8, <1>9

(* An accepted frame keeps the types of the replay table and the history,  *)
(* and what the table records of it.                                       *)
LEMMA RecordStep ==
  ASSUME NEW n \in Nodes, NEW f \in Frames,
         TypeOK, ReplayInv, RecordFrame(n, f)
  PROVE  /\ replay' \in [Nodes -> [Nodes -> Slots]]
         /\ accepted' \in [Nodes -> [Nodes -> [Seqs -> Nat]]]
         /\ newest' \in [Nodes -> [Nodes -> Nat]]
         /\ ReplayInv'
<1> DEFINE s    == f.src
           w    == WindowOf(n, s)
           slot == [valid |-> TRUE, window |-> ReplayUpdate(w, f.seq)]
<1>1. s \in Nodes /\ f.seq \in Seqs /\ f.id \in Nat
  BY DEF Frames
<1>2. /\ replay \in [Nodes -> [Nodes -> Slots]]
      /\ accepted \in [Nodes -> [Nodes -> [Seqs -> Nat]]]
      /\ newest \in [Nodes -> [Nodes -> Nat]]
  BY DEF TypeOK
<1>3. EmptyWindow \in Windows
  BY MaxSeqAssumption DEF EmptyWindow, Windows, Seqs
<1>4. w \in Windows
  BY <1>1, <1>2, <1>3 DEF WindowOf, Slots
<1>5. ReplayAccepts(w, f.seq)
  BY DEF RecordFrame, Accepts
<1>6. slot \in Slots
  BY <1>1, <1>4, <1>5, UpdateType DEF Slots
<1>7. /\ replay' = [replay EXCEPT ![n][s] = slot]
      /\ accepted' = [accepted EXCEPT ![n][s] = Bump(@, f.seq)]
      /\ newest' = [newest EXCEPT ![n][s] = IF f.id > @ THEN f.id ELSE @]
  BY DEF RecordFrame, Bump
<1>8. replay' \in [Nodes -> [Nodes -> Slots]]
  BY <1>1, <1>2, <1>6, <1>7
<1>9. Bump(accepted[n][s], f.seq) \in [Seqs -> Nat]
  BY <1>1, <1>2 DEF Bump
<1>10. accepted' \in [Nodes -> [Nodes -> [Seqs -> Nat]]]
  BY <1>1, <1>2, <1>7, <1>9
<1>11. newest' \in [Nodes -> [Nodes -> Nat]]
  BY <1>1, <1>2, <1>7
<1>12. Records(slot.window, Bump(accepted[n][s], f.seq))
  <2>1. CASE replay[n][s].valid
    <3>1. w = replay[n][s].window
      BY <2>1 DEF WindowOf
    <3>2. Records(w, accepted[n][s])
      BY <1>1, <2>1, <3>1 DEF ReplayInv
    <3>3. accepted[n][s] \in [Seqs -> Nat]
      BY <1>1, <1>2
    <3>4. Records(ReplayUpdate(w, f.seq), Bump(accepted[n][s], f.seq))
      BY <1>1, <1>4, <1>5, <3>2, <3>3, NextRecord
    <3> QED
      BY <3>4
  <2>2. CASE ~ replay[n][s].valid
    <3>1. w = EmptyWindow
      BY <2>2 DEF WindowOf
    <3>2. \A q \in Seqs : accepted[n][s][q] = 0
      BY <1>1, <2>2 DEF ReplayInv
    <3> QED
      BY <1>1, <1>2, <3>1, <3>2, FirstRecord
  <2> QED
    BY <2>1, <2>2
<1>13. ReplayInv'
  <2> SUFFICES ASSUME NEW m \in Nodes, NEW t \in Nodes
               PROVE  IF replay'[m][t].valid
                      THEN Records(replay'[m][t].window, accepted'[m][t])
                      ELSE \A q \in Seqs : accepted'[m][t][q] = 0
    BY DEF ReplayInv, Records
  <2>1. CASE m = n /\ t = s
    <3>1. replay'[m][t] = slot
      BY <1>1, <1>2, <1>7, <2>1
    <3>2. accepted'[m][t] = Bump(accepted[n][s], f.seq)
      BY <1>1, <1>2, <1>7, <2>1
    <3> QED
      BY <1>12, <3>1, <3>2
  <2>2. CASE ~ (m = n /\ t = s)
    <3>1. replay'[m][t] = replay[m][t] /\ accepted'[m][t] = accepted[m][t]
      BY <1>1, <1>2, <1>7, <2>2
    <3> QED
      BY <3>1 DEF ReplayInv
  <2> QED
    BY <2>1, <2>2
<1> QED
  BY <1>8, <1>10, <1>11, <1>13

(* A step that leaves the replay table and the acceptances alone keeps     *)
(* ReplayInv.                                                              *)
LEMMA SameRecords ==
  ASSUME ReplayInv, UNCHANGED <<replay, accepted>>
  PROVE  ReplayInv'
BY DEF ReplayInv, Records

(* sec_init leaves no slot in use and nothing accepted.                    *)
LEMMA InitInv == Init => TypeOK /\ ReplayInv
<1> SUFFICES ASSUME Init PROVE TypeOK /\ ReplayInv
  OBVIOUS
<1>1. NoSlot \in Slots
  BY MaxSeqAssumption DEF NoSlot, Slots, EmptyWindow, Windows, Seqs
<1>2. TypeOK
  BY <1>1, MaxCtlSeqAssumption, MaxRestartsAssumption, MaxSeqAssumption
     DEF Init, TypeOK
<1>3. ReplayInv
  BY DEF Init, ReplayInv, NoSlot
<1> QED
  BY <1>2, <1>3

(* Every step keeps the invariant: frames sent leave the windows alone, a  *)
(* frame received is RecordStep, a restart empties the table.              *)
LEMMA NextInv == TypeOK /\ ReplayInv /\ [Next]_vars => TypeOK' /\ ReplayInv'
<1> SUFFICES ASSUME TypeOK, ReplayInv, [Next]_vars
             PROVE  TypeOK' /\ ReplayInv'
  OBVIOUS
<1>1. ASSUME NEW n \in Nodes, SendData(n)
      PROVE  TypeOK' /\ ReplayInv'
  <2>1. 0 \in Seqs
    BY MaxSeqAssumption DEF Seqs
  <2>2. /\ protected_counter' \in [Nodes -> Nat]
        /\ sent' \in [Nodes -> Nat]
        /\ air' \in SUBSET Frames
    BY <1>1, <2>1, EncryptType, AckReqAssumption DEF SendData
  <2>3. TypeOK'
    BY <1>1, <2>2 DEF SendData, TypeOK
  <2>4. ReplayInv'
    BY <1>1, SameRecords DEF SendData
  <2> QED
    BY <2>3, <2>4
<1>2. ASSUME NEW n \in Nodes, NEW l \in Layers, SendControl(n, l)
      PROVE  TypeOK' /\ ReplayInv'
  <2> DEFINE seq == NextSeq(ctl_seq[n][l])
  <2>1. ctl_seq[n][l] \in 0..MaxCtlSeq
    BY DEF TypeOK
  <2>2. seq \in 1..MaxCtlSeq
    BY <2>1, MaxCtlSeqAssumption, MaxSeqAssumption DEF NextSeq
  <2>3. seq \in Seqs /\ seq \in 0..MaxCtlSeq
    BY <2>2, MaxCtlSeqAssumption, MaxSeqAssumption DEF Seqs
  <2>4. /\ ctl_seq' = [ctl_seq EXCEPT ![n][l] = seq]
        /\ SecEncryptFrame(n, seq, FALSE)
        /\ UNCHANGED <<replay, accepted, newest, restarts>>
    BY <1>2 DEF SendControl
  <2>5. /\ protected_counter' \in [Nodes -> Nat]
        /\ sent' \in [Nodes -> Nat]
        /\ air' \in SUBSET Frames
    BY <2>3, <2>4, EncryptType
  <2>6. ctl_seq' \in [Nodes -> [Layers -> 0..MaxCtlSeq]]
    BY <2>3, <2>4 DEF TypeOK
  <2>7. TypeOK'
    BY <2>4, <2>5, <2>6 DEF TypeOK
  <2>8. ReplayInv'
    BY <2>4, SameRecords
  <2> QED
    BY <2>7, <2>8
<1>3. ASSUME NEW n \in Nodes, NEW f \in air, Receive(n, f)
      PROVE  TypeOK' /\ ReplayInv'
  <2>1. f \in Frames
    BY DEF TypeOK
  <2>2. /\ replay' \in [Nodes -> [Nodes -> Slots]]
        /\ accepted' \in [Nodes -> [Nodes -> [Seqs -> Nat]]]
        /\ newest' \in [Nodes -> [Nodes -> Nat]]
        /\ ReplayInv'
    BY <1>3, <2>1, RecordStep DEF Receive
  <2>3. TypeOK'
    BY <1>3, <2>2 DEF Receive, TypeOK
  <2> QED
    BY <2>2, <2>3
<1>4. ASSUME NEW n \in Nodes, NEW f \in air, ReceiveAndAck(n, f)
      PROVE  TypeOK' /\ ReplayInv'
  <2>1. f \in Frames /\ f.seq \in Seqs
    BY DEF TypeOK, Frames
  <2>2. /\ replay' \in [Nodes -> [Nodes -> Slots]]
        /\ accepted' \in [Nodes -> [Nodes -> [Seqs -> Nat]]]
        /\ newest' \in [Nodes -> [Nodes -> Nat]]
        /\ ReplayInv'
    BY <1>4, <2>1, RecordStep DEF ReceiveAndAck
  <2>3. /\ protected_counter' \in [Nodes -> Nat]
        /\ sent' \in [Nodes -> Nat]
        /\ air' \in SUBSET Frames
    BY <1>4, <2>1, EncryptType DEF ReceiveAndAck
  <2>4. TypeOK'
    BY <1>4, <2>2, <2>3 DEF ReceiveAndAck, TypeOK
  <2> QED
    BY <2>2, <2>4
<1>5. ASSUME NEW n \in Nodes, Restart(n)
      PROVE  TypeOK' /\ ReplayInv'
  <2>1. NoSlot \in Slots
    BY MaxSeqAssumption DEF NoSlot, Slots, EmptyWindow, Windows, Seqs
  <2>2. /\ protected_counter' \in [Nodes -> Nat]
        /\ ctl_seq' \in [Nodes -> [Layers -> 0..MaxCtlSeq]]
    BY <1>5, MaxCtlSeqAssumption, MaxSeqAssumption DEF Restart, TypeOK
  <2>3. /\ replay' \in [Nodes -> [Nodes -> Slots]]
        /\ accepted' \in [Nodes -> [Nodes -> [Seqs -> Nat]]]
        /\ newest' \in [Nodes -> [Nodes -> Nat]]
    BY <1>5, <2>1 DEF Restart, TypeOK
  <2>4. restarts' \in 0..MaxRestarts
    BY <1>5, MaxRestartsAssumption DEF Restart, TypeOK
  <2>5. TypeOK'
    BY <1>5, <2>2, <2>3, <2>4 DEF Restart, TypeOK
  <2>6. ASSUME NEW m \in Nodes, NEW s \in Nodes
        PROVE  IF replay'[m][s].valid
               THEN Records(replay'[m][s].window, accepted'[m][s])
               ELSE \A q \in Seqs : accepted'[m][s][q] = 0
    <3>1. CASE m = n
      BY <1>5, <3>1 DEF Restart, NoSlot, TypeOK
    <3>2. CASE m # n
      <4>1. replay'[m] = replay[m] /\ accepted'[m] = accepted[m]
        BY <1>5, <3>2 DEF Restart, TypeOK
      <4> QED
        BY <4>1 DEF ReplayInv
    <3> QED
      BY <3>1, <3>2
  <2> QED
    BY <2>5, <2>6 DEF ReplayInv, Records
<1>6. CASE UNCHANGED vars
  <2>1. TypeOK'
    BY <1>6 DEF vars, TypeOK
  <2>2. ReplayInv'
    BY <1>6, SameRecords DEF vars
  <2> QED
    BY <2>1, <2>2
<1> QED
  BY <1>1, <1>2, <1>3, <1>4, <1>5, <1>6 DEF Next

(* The bookkeeping of sec.c and of the two sequence counters keeps its     *)
(* types, and the slots keep their records, in every reachable state.      *)
THEOREM Invariance == Spec => [](TypeOK /\ ReplayInv)
BY InitInv, NextInv, PTL DEF Spec

(* Counters, sequence numbers and windows keep the widths umesh_ctx_t      *)
(* gives them.                                                             *)
THEOREM TypeCorrect == Spec => []TypeOK
BY Invariance, PTL

(* The replay table records what was accepted (replay_check_and_update).   *)
THEOREM RecordsKept == Spec => []ReplayInv
BY Invariance, PTL

(* replay_check_and_update lets no number of a source pass twice: no       *)
(* replayed, duplicated or reordered frame gets through.                   *)
THEOREM NoReplay == Spec => []AtMostOnce
<1>1. TypeOK /\ ReplayInv => AtMostOnce
  <2> SUFFICES ASSUME TypeOK, ReplayInv,
                      NEW n \in Nodes, NEW s \in Nodes, NEW q \in Seqs
               PROVE  accepted[n][s][q] <= 1
    BY DEF AtMostOnce
  <2>1. CASE replay[n][s].valid
    BY <2>1 DEF ReplayInv, Records
  <2>2. CASE ~ replay[n][s].valid
    <3>1. accepted[n][s][q] = 0
      BY <2>2 DEF ReplayInv
    <3> QED
      BY <3>1
  <2> QED
    BY <2>1, <2>2
<1> QED
  BY <1>1, Invariance, PTL

(* Inside the window the bitmap is the truth: shifting it loses nothing,   *)
(* and a late frame is refused only if its number was accepted before.     *)
THEOREM WindowIsExact == Spec => []WindowExact
<1>1. TypeOK /\ ReplayInv => WindowExact
  <2> SUFFICES ASSUME TypeOK, ReplayInv, NEW n \in Nodes, NEW s \in Nodes,
                      replay[n][s].valid,
                      NEW d \in Offsets, d <= replay[n][s].window.last_seq
               PROVE  d \in replay[n][s].window.window_bitmap
                        <=> accepted[n][s][replay[n][s].window.last_seq - d] > 0
    BY DEF WindowExact
  <2> DEFINE w     == replay[n][s].window
             count == accepted[n][s]
             q     == w.last_seq - d
  <2>1. w \in Windows
    BY DEF TypeOK, Slots
  <2>2. w.last_seq \in 0..MaxSeq /\ d \in Nat
    BY <2>1, SeqWindowAssumption DEF Windows, Seqs, Offsets
  <2>3. q \in Seqs /\ w.last_seq - q = d
    BY <2>2, MaxSeqAssumption DEF Seqs
  <2>4. Records(w, count)
    BY DEF ReplayInv
  <2>5. d \in w.window_bitmap => count[q] > 0
    BY <2>4 DEF Records
  <2>6. count[q] > 0 => d \in w.window_bitmap
    BY <2>3, <2>4 DEF Records
  <2> QED
    BY <2>5, <2>6
<1> QED
  BY <1>1, Invariance, PTL

-----------------------------------------------------------------------------
(* New traffic.                                                            *)

(* The last number of a slot in use is that of a frame of the source which *)
(* is not newer than the newest frame accepted from it                     *)
(* (replay_check_and_update moves last_seq only to a number it accepts).   *)
LastIsAccepted ==
  \A n, s \in Nodes : replay[n][s].valid =>
    \E g \in air : /\ g.src = s
                   /\ g.seq = replay[n][s].window.last_seq
                   /\ g.id <= newest[n][s]

(* A frame received from the air keeps LastIsAccepted: it becomes the last *)
(* number itself, or leaves that where it was.                             *)
LEMMA LastAfterRecord ==
  ASSUME TypeOK, ReplayInv, LastIsAccepted,
         NEW n \in Nodes, NEW f \in air, RecordFrame(n, f), air \subseteq air'
  PROVE  LastIsAccepted'
<1> DEFINE s == f.src
           w == WindowOf(n, s)
<1>1. f \in Frames /\ s \in Nodes /\ f.seq \in Seqs /\ f.id \in Nat
  BY DEF TypeOK, Frames
<1>2. /\ replay \in [Nodes -> [Nodes -> Slots]]
      /\ newest \in [Nodes -> [Nodes -> Nat]]
  BY DEF TypeOK
<1>3. /\ replay' = [replay EXCEPT ![n][s] =
                     [valid |-> TRUE, window |-> ReplayUpdate(w, f.seq)]]
      /\ newest' = [newest EXCEPT ![n][s] = IF f.id > @ THEN f.id ELSE @]
  BY DEF RecordFrame
<1>4. /\ replay'[n][s].window = ReplayUpdate(w, f.seq)
      /\ newest'[n][s] = IF f.id > newest[n][s] THEN f.id ELSE newest[n][s]
  BY <1>1, <1>2, <1>3
<1>5. newest[n][s] \in Nat /\ newest'[n][s] >= newest[n][s]
      /\ newest'[n][s] >= f.id /\ newest'[n][s] \in Nat
  BY <1>1, <1>2, <1>4
<1>6. \E g \in air' : /\ g.src = s
                      /\ g.seq = ReplayUpdate(w, f.seq).last_seq
                      /\ g.id <= newest'[n][s]
  <2>1. CASE NeverUsed(w) \/ IsAhead(w, f.seq)
    <3>1. ReplayUpdate(w, f.seq).last_seq = f.seq
      BY <2>1 DEF ReplayUpdate
    <3> QED
      BY <1>5, <3>1
  <2>2. CASE ~ (NeverUsed(w) \/ IsAhead(w, f.seq))
    <3>1. replay[n][s].valid
      BY <2>2 DEF WindowOf, EmptyWindow, NeverUsed
    <3>2. w = replay[n][s].window /\ w \in Windows
      BY <1>1, <1>2, <3>1 DEF WindowOf, Slots
    <3>3. ReplayUpdate(w, f.seq).last_seq = w.last_seq
      BY <2>2, <3>2 DEF ReplayUpdate, Windows
    <3>4. PICK g \in air : /\ g.src = s
                           /\ g.seq = w.last_seq
                           /\ g.id <= newest[n][s]
      BY <1>1, <3>1, <3>2 DEF LastIsAccepted
    <3>5. g.id \in Nat
      BY DEF TypeOK, Frames
    <3> QED
      BY <1>5, <3>3, <3>4, <3>5
  <2> QED
    BY <2>1, <2>2
<1>7. ASSUME NEW m \in Nodes, NEW t \in Nodes, replay'[m][t].valid
      PROVE  \E g \in air' : /\ g.src = t
                             /\ g.seq = replay'[m][t].window.last_seq
                             /\ g.id <= newest'[m][t]
  <2>1. CASE m = n /\ t = s
    BY <1>4, <1>6, <2>1
  <2>2. CASE ~ (m = n /\ t = s)
    <3>1. replay'[m][t] = replay[m][t] /\ newest'[m][t] = newest[m][t]
      BY <1>1, <1>2, <1>3, <2>2
    <3> QED
      BY <1>7, <3>1 DEF LastIsAccepted
  <2> QED
    BY <2>1, <2>2
<1> QED
  BY <1>7 DEF LastIsAccepted

(* More frames in the air change nothing that was accepted.                *)
LEMMA LastAfterSend ==
  ASSUME LastIsAccepted, air \subseteq air', UNCHANGED <<replay, newest>>
  PROVE  LastIsAccepted'
BY DEF LastIsAccepted

(* A number of a source whose numbers ascend is refused only if it is not  *)
(* newer than what was accepted (sec.c, `seq > rs->last_seq').             *)
THEOREM NewTrafficAccepted == Spec => []AscendingAccepted
<1>1. Init => LastIsAccepted
  BY DEF Init, LastIsAccepted, NoSlot
<1>2. TypeOK /\ ReplayInv /\ LastIsAccepted /\ [Next]_vars => LastIsAccepted'
  <2> SUFFICES ASSUME TypeOK, ReplayInv, LastIsAccepted, [Next]_vars
               PROVE  LastIsAccepted'
    OBVIOUS
  <2>1. ASSUME NEW n \in Nodes, SendData(n)
        PROVE  LastIsAccepted'
    BY <2>1, LastAfterSend DEF SendData, SecEncryptFrame
  <2>2. ASSUME NEW n \in Nodes, NEW l \in Layers, SendControl(n, l)
        PROVE  LastIsAccepted'
    BY <2>2, LastAfterSend DEF SendControl, SecEncryptFrame
  <2>3. ASSUME NEW n \in Nodes, NEW f \in air,
               Receive(n, f) \/ ReceiveAndAck(n, f)
        PROVE  LastIsAccepted'
    <3>1. RecordFrame(n, f) /\ air \subseteq air'
      BY <2>3 DEF Receive, ReceiveAndAck, SecEncryptFrame
    <3> QED
      BY <3>1, LastAfterRecord
  <2>4. ASSUME NEW n \in Nodes, Restart(n)
        PROVE  LastIsAccepted'
    <3> SUFFICES ASSUME NEW m \in Nodes, NEW s \in Nodes,
                        replay'[m][s].valid
                 PROVE  \E g \in air : /\ g.src = s
                                       /\ g.seq = replay'[m][s].window.last_seq
                                       /\ g.id <= newest'[m][s]
      BY <2>4 DEF LastIsAccepted, Restart
    <3>1. m # n
      BY <2>4 DEF Restart, NoSlot, TypeOK
    <3>2. replay'[m] = replay[m] /\ newest'[m] = newest[m]
      BY <2>4, <3>1 DEF Restart, TypeOK
    <3> QED
      BY <3>2 DEF LastIsAccepted
  <2>5. CASE UNCHANGED vars
    BY <2>5, LastAfterSend DEF vars
  <2> QED
    BY <2>1, <2>2, <2>3, <2>4, <2>5 DEF Next
<1>3. TypeOK /\ LastIsAccepted => AscendingAccepted
  <2> SUFFICES ASSUME TypeOK, LastIsAccepted, NEW n \in Nodes, NEW f \in air,
                      f.id > newest[n][f.src],
                      Ascending(f.src), HasSlot(n, f.src)
               PROVE  ReplayAccepts(WindowOf(n, f.src), f.seq)
    BY DEF AscendingAccepted, Accepts
  <2>1. f.src \in Nodes /\ f.id \in Nat /\ newest[n][f.src] \in Nat
    BY DEF TypeOK, Frames
  <2>2. CASE replay[n][f.src].valid
    <3>1. PICK g \in air : /\ g.src = f.src
                           /\ g.seq = replay[n][f.src].window.last_seq
                           /\ g.id <= newest[n][f.src]
      BY <2>1, <2>2 DEF LastIsAccepted
    <3>2. g.id < f.id
      <4>1. g.id \in Nat
        BY DEF TypeOK, Frames
      <4> QED
        BY <2>1, <3>1, <4>1
    <3>3. g.seq < f.seq
      BY <3>1, <3>2 DEF Ascending
    <3>4. f.seq \in Int /\ g.seq \in Int
      <4>1. f \in Frames /\ g \in Frames
        BY DEF TypeOK
      <4>2. f.seq \in Seqs /\ g.seq \in Seqs
        BY <4>1 DEF Frames
      <4> QED
        BY <4>2, MaxSeqAssumption DEF Seqs
    <3> QED
      BY <2>2, <3>1, <3>3, <3>4 DEF ReplayAccepts, WindowOf, IsAhead
  <2>3. CASE ~ replay[n][f.src].valid
    BY <2>3 DEF ReplayAccepts, WindowOf, NeverUsed, EmptyWindow
  <2> QED
    BY <2>2, <2>3
<1> QED
  BY <1>1, <1>2, <1>3, Invariance, PTL DEF Spec
=============================================================================
