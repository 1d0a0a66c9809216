---------------------------- MODULE BoundedQueue ----------------------------
(***************************************************************************)
(* What a ring of bytes between one producer and one consumer promises: a  *)
(* first-in first-out queue of at most Bound bytes.  Each call happens at  *)
(* one moment, between its start and its end, and is answered by what the  *)
(* queue holds at that moment: no byte is refused while there is room, and *)
(* none is missed while there is one.                                      *)
(***************************************************************************)
EXTENDS Naturals, Sequences

CONSTANTS
  Bytes,   \* what can be pushed
  Bound,   \* how many bytes the queue holds
  None     \* the answer of a pop that found nothing

VARIABLES
  queue,   \* the bytes, the oldest first
  pushed,  \* the answer to the last push
  popped   \* the answer to the last pop

vars == <<queue, pushed, popped>>

Init == queue = <<>> /\ pushed = TRUE /\ popped = None

Push(byte) == /\ Len(queue) < Bound
              /\ queue' = Append(queue, byte)
              /\ pushed' = TRUE
              /\ UNCHANGED popped
Refuse     == /\ Len(queue) = Bound
              /\ pushed' = FALSE
              /\ UNCHANGED <<queue, popped>>
Pop        == /\ queue # <<>>
              /\ queue' = Tail(queue)
              /\ popped' = Head(queue)
              /\ UNCHANGED pushed
Miss       == /\ queue = <<>>
              /\ popped' = None
              /\ UNCHANGED <<queue, pushed>>

Next == (\E byte \in Bytes : Push(byte)) \/ Refuse \/ Pop \/ Miss

Spec == Init /\ [][Next]_vars
=============================================================================
