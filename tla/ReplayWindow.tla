---------------------------- MODULE ReplayWindow ----------------------------
(***************************************************************************)
(* The sliding replay window uMesh keeps for one source                    *)
(* (umesh_replay_state_t, src/src/sec/sec.c): the highest sequence number  *)
(* accepted and a bitmap of SeqWindow bits.  Bit d of the bitmap stands    *)
(* for the sequence number last_seq - d, so the bitmap is modelled as the  *)
(* set of the offsets d whose bit is set.                                  *)
(***************************************************************************)
EXTENDS Integers, FiniteSets

CONSTANTS
  SeqWindow,  \* UMESH_SEQ_WINDOW, also the width of window_bitmap
  MaxSeq      \* UINT16_MAX, the largest value of frame.seq_num

ASSUME SeqWindowAssumption == SeqWindow \in Nat \ {0}
ASSUME MaxSeqAssumption    == MaxSeq \in Nat \ {0}

Seqs    == 0..MaxSeq
Offsets == 0..(SeqWindow - 1)

Windows == [last_seq : Seqs, window_bitmap : SUBSET Offsets]

(* What a freshly allocated slot holds.                                    *)
EmptyWindow == [last_seq |-> 0, window_bitmap |-> {}]

(* `!rs->window_bitmap && rs->last_seq == 0'                               *)
NeverUsed(w) == w.window_bitmap = {} /\ w.last_seq = 0

(* window_bitmap <<= by, in SeqWindow bits: what leaves the word is lost.  *)
ShiftLeftTooFar(bitmap, by) == {d + by + 1 : d \in bitmap} \cap Offsets
ShiftLeft(bitmap, by) == {d + by : d \in bitmap} \cap Offsets

(* The three answers of replay_check_and_update.                           *)
IsWellAhead(w, seq) == seq > w.last_seq + 1
IsAhead(w, seq) == seq > w.last_seq
IsInside(w, seq) == w.last_seq - seq \in Offsets
IsUnseen(w, seq) ==
  LET delta == w.last_seq - seq
  IN  delta \in Offsets /\ delta \notin w.window_bitmap

ReplayAccepts(w, seq) == NeverUsed(w) \/ IsAhead(w, seq) \/ IsUnseen(w, seq)

(* The window after an accepted sequence number; a rejected one leaves the *)
(* window as it was.                                                       *)
ReplayUpdateUnmarked(w, seq) ==
  IF NeverUsed(w) \/ IsAhead(w, seq)
  THEN [last_seq      |-> seq,
        window_bitmap |-> ShiftLeft(w.window_bitmap, seq - w.last_seq)]
  ELSE [w EXCEPT !.window_bitmap = @ \cup {w.last_seq - seq}]
ReplayUpdate(w, seq) ==
  IF NeverUsed(w)
  THEN [last_seq |-> seq, window_bitmap |-> {0}]
  ELSE IF IsAhead(w, seq)
  THEN [last_seq      |-> seq,
        window_bitmap |-> ShiftLeft(w.window_bitmap, seq - w.last_seq)
                          \cup {0}]
  ELSE [w EXCEPT !.window_bitmap = @ \cup {w.last_seq - seq}]
=============================================================================
