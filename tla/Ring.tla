-------------------------------- MODULE Ring --------------------------------
(***************************************************************************)
(* src/src/common/ring.c, access by access: ring_push in a producer and    *)
(* ring_pop in a consumer, of which one may be an interrupt of the other,  *)
(* and ring_count in either.  Whichever interrupts, its steps come between *)
(* two of the other's.  The index a side owns does not change under it, so *)
(* the places that matter are where it reads the other's index, touches a  *)
(* byte, and moves its own index.  The compiler has to keep that order: a  *)
(* byte may alias an index.                                                *)
(***************************************************************************)
EXTENDS Integers, Sequences

CONSTANTS
  Bytes,     \* the values of a byte
  Capacity,  \* ring_t.capacity
  None       \* no byte

(* The values of a uint16_t.                                               *)
U16 == 65536

(* capacity is a uint16_t, and not 0: ring_push divides by it.             *)
ASSUME CapacityAssumption ==
  Capacity \in Nat \ {0} /\ Capacity < U16 /\ None \notin Bytes

VARIABLES
  buf, head, tail,  \* ring_t
  pc,               \* where each side is in its call, if it is in one
  byte,             \* the byte each side has in its hands
  pushed, popped,   \* what the last ring_push and the last ring_pop returned
  ahead,            \* ring_count: head was not behind tail at the first look
  still,            \* history: neither index has moved since that look
  count             \* what the last ring_count of each side returned

ring   == <<buf, head, tail>>
counts == <<ahead, still, count>>
vars   == <<ring, pc, byte, pushed, popped, counts>>

Sides == {"producer", "consumer"}
Slots == 0..(Capacity - 1)

(* Indices stay inside the buffer, and each side in its own calls.         *)
TypeOK ==
  /\ buf \in [Slots -> Bytes \cup {None}] /\ head \in Slots /\ tail \in Slots
  /\ pc \in [Sides -> {"idle", "store", "publish", "load", "advance", "count"}]
  /\ pc["producer"] \notin {"load", "advance"}
  /\ pc["consumer"] \notin {"store", "publish"}
  /\ byte \in [Sides -> Bytes \cup {None}]
  /\ pushed \in BOOLEAN /\ popped \in Bytes \cup {None}
  /\ ahead \in [Sides -> BOOLEAN] /\ still \in [Sides -> BOOLEAN]
  /\ count \in [Sides -> 0..(U16 - 1)]

(* ring_init.  Nothing has been stored in the buffer yet.                  *)
Init ==
  /\ buf = [i \in Slots |-> None] /\ head = 0 /\ tail = 0
  /\ pc = [s \in Sides |-> "idle"] /\ byte = [s \in Sides |-> None]
  /\ pushed = TRUE /\ popped = None
  /\ ahead = [s \in Sides |-> TRUE] /\ still = [s \in Sides |-> FALSE]
  /\ count = [s \in Sides |-> 0]

(* (i + 1) % capacity of an index that is inside the buffer.               *)
NextSlot(i) == IF i + 1 = Capacity THEN 0 ELSE i + 1

FullAtLastSlot(h, t) == NextSlot(h) = Capacity - 1
FullIgnored(h, t)    == FALSE
Full(h, t)  == NextSlot(h) = t
Empty(h, t) == h = t

Moves(s, from, to) == pc[s] = from /\ pc' = [pc EXCEPT ![s] = to]
Takes(s, value)    == byte' = [byte EXCEPT ![s] = value]
IndexMoved         == still' = [s \in Sides |-> FALSE]
-----------------------------------------------------------------------------
(* ring_push: one free slot is left, or else ...                           *)
PushFull ==
  /\ pc["producer"] = "idle" /\ Full(head, tail)
  /\ pushed' = FALSE
  /\ UNCHANGED <<ring, pc, byte, popped, counts>>

(* ... the byte goes into the slot at head, ...                            *)
PushBegin(value) ==
  /\ ~ Full(head, tail)
  /\ Moves("producer", "idle", "store") /\ Takes("producer", value)
  /\ UNCHANGED <<ring, pushed, popped, counts>>

Store ==
  /\ Moves("producer", "store", "publish")
  /\ buf' = [buf EXCEPT ![head] = byte["producer"]]
  /\ UNCHANGED <<head, tail, byte, pushed, popped, counts>>

(* ... and only then head moves past it.                                   *)
Publish ==
  /\ Moves("producer", "publish", "idle") /\ Takes("producer", None)
  /\ head' = NextSlot(head) /\ pushed' = TRUE /\ IndexMoved
  /\ UNCHANGED <<buf, tail, popped, ahead, count>>

(* ring_pop                                                                *)
PopEmpty ==
  /\ pc["consumer"] = "idle" /\ Empty(head, tail)
  /\ popped' = None
  /\ UNCHANGED <<ring, pc, byte, pushed, counts>>

PopBegin ==
  /\ ~ Empty(head, tail)
  /\ Moves("consumer", "idle", "load")
  /\ UNCHANGED <<ring, byte, pushed, popped, counts>>

Load ==
  /\ Moves("consumer", "load", "advance") /\ Takes("consumer", buf[tail])
  /\ UNCHANGED <<ring, pushed, popped, counts>>

Advance ==
  /\ Moves("consumer", "advance", "idle") /\ Takes("consumer", None)
  /\ tail' = NextSlot(tail) /\ popped' = byte["consumer"] /\ IndexMoved
  /\ UNCHANGED <<buf, head, pushed, ahead, count>>

(* ring_count reads both indices to choose the branch, and again in it.    *)
CountLook(s) ==
  /\ Moves(s, "idle", "count")
  /\ ahead' = [ahead EXCEPT ![s] = head >= tail]
  /\ still' = [still EXCEPT ![s] = TRUE]
  /\ UNCHANGED <<ring, byte, pushed, popped, count>>

InUseShort(up) == IF up THEN head - tail ELSE Capacity - 1 - tail + head
InUse(up) == IF up THEN head - tail ELSE Capacity - tail + head

CountReturn(s) ==
  /\ Moves(s, "count", "idle")
  /\ count' = [count EXCEPT ![s] = InUse(ahead[s]) % U16]
  /\ ahead' = [ahead EXCEPT ![s] = TRUE] /\ still' = [still EXCEPT ![s] = FALSE]
  /\ UNCHANGED <<ring, byte, pushed, popped>>

Next ==
  \/ PushFull \/ (\E value \in Bytes : PushBegin(value)) \/ Store \/ Publish
  \/ PopEmpty \/ PopBegin \/ Load \/ Advance
  \/ \E s \in Sides : CountLook(s) \/ CountReturn(s)

Spec == Init /\ [][Next]_vars
-----------------------------------------------------------------------------
(* The bytes between tail and head, around the end of the buffer.          *)
Length  == IF head >= tail THEN head - tail ELSE Capacity - tail + head
Slot(i) == IF tail + i - 1 < Capacity THEN tail + i - 1
           ELSE tail + i - 1 - Capacity
Contents == [i \in 1..Length |-> buf[Slot(i)]]

Queue == INSTANCE BoundedQueue
           WITH queue <- Contents, Bound <- Capacity - 1

(* What a side saw when its call began stays true until the call is done,  *)
(* wherever the other side interrupts it (ring.c, ring_push, ring_pop).    *)
StaysTrue ==
  /\ pc["producer"] \in {"store", "publish"} =>
       /\ ~ Full(head, tail) /\ byte["producer"] \in Bytes
  /\ pc["producer"] = "publish" => buf[head] = byte["producer"]
  /\ pc["consumer"] \in {"load", "advance"} => ~ Empty(head, tail)
  /\ pc["consumer"] = "advance" => byte["consumer"] = buf[tail]

(* The two sides together behave as one queue of Capacity - 1 bytes, no    *)
(* matter where one interrupts the other: nothing is lost, overwritten or  *)
(* seen twice, and full and empty are never mistaken for each other        *)
(* (ring.c, ring_push and ring_pop).                                       *)
QueueSpec == Queue!Spec

(* ring_count is right when neither index moves while it looks (ring.c,    *)
(* ring_count).  When one does, any number may come out: with tail at 1 a  *)
(* consumer that sees head at 3 of 4 and then at 0 is told 65535.          *)
CountExact ==
  [][\A s \in Sides : pc[s] = "count" /\ pc'[s] = "idle" /\ still[s]
                        => count'[s] = Len(Contents)]_vars
=============================================================================
