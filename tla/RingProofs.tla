----------------------------- MODULE RingProofs -----------------------------
(***************************************************************************)
(* That the ring implements the bounded queue, for every capacity and      *)
(* every set of bytes.                                                     *)
(*                                                                         *)
(* TypeOK and StaysTrue together are inductive.  Under them the sequence   *)
(* Contents is empty exactly when head and tail meet and has Capacity - 1  *)
(* bytes exactly when the ring is full; Publish appends a byte to it,      *)
(* Advance takes its first, and every other step leaves it as it is.       *)
(***************************************************************************)
EXTENDS Ring, SequenceTheorems, TLAPS

Inv == TypeOK /\ StaysTrue

-----------------------------------------------------------------------------
(* The sequence of bytes in use.                                           *)

(* Its length and its elements.                                            *)
LEMMA ContentsProperties ==
  ASSUME TypeOK
  PROVE  /\ Length \in Nat /\ Length < Capacity
         /\ \A i \in 1..Length : Slot(i) \in Slots
         /\ Contents \in Seq(Bytes \cup {None})
         /\ Len(Contents) = Length
         /\ \A i \in 1..Length : Contents[i] = buf[Slot(i)]
  <1>1. Length \in Nat /\ Length < Capacity
    BY CapacityAssumption DEF TypeOK, Slots, Length, InUse
  <1>2. \A i \in 1..Length : Slot(i) \in Slots
    BY CapacityAssumption DEF TypeOK, Slots, Length, InUse, Slot
  <1>3. \A i \in 1..Length : buf[Slot(i)] \in Bytes \cup {None}
    BY <1>2 DEF TypeOK
  <1>4. Contents \in Seq(Bytes \cup {None}) /\ Len(Contents) = Length
    BY <1>1, <1>3 DEF Contents
  <1> QED BY <1>1, <1>2, <1>4 DEF Contents

LEMMA ContentsSeq ==
  TypeOK => Len(Contents) = Length /\ Contents \in Seq(Bytes \cup {None})
  BY ContentsProperties

(* Full and empty, as the code tells them apart, mean what they should.    *)
LEMMA FullEmpty ==
  ASSUME TypeOK
  PROVE  /\ Full(head, tail) <=> Length = Capacity - 1
         /\ Empty(head, tail) <=> Length = 0
  BY CapacityAssumption DEF TypeOK, Slots, Full, Empty, NextSlot, Length, InUse

(* An index that moves stays inside the buffer.                            *)
LEMMA NextSlotInside ==
  ASSUME NEW i \in Slots PROVE NextSlot(i) \in Slots
  BY CapacityAssumption DEF Slots, NextSlot

-----------------------------------------------------------------------------
(* What ring_count returns fits into a uint16_t.                           *)
LEMMA ModU16 == \A n \in Int : n % U16 \in 0..(U16 - 1)
  <1>1. \A n \in Int, k \in Nat \ {0} : n % k \in 0..(k - 1)
    OBVIOUS
  <1>2. U16 \in Nat \ {0}
    BY DEF U16
  <1> QED
    BY <1>1, <1>2

LEMMA InitInv == Init => Inv
  BY CapacityAssumption
     DEF Init, Inv, TypeOK, StaysTrue, Sides, Slots, U16

LEMMA NextInv == Inv /\ [Next]_vars => Inv'
  <1> SUFFICES ASSUME Inv, [Next]_vars PROVE Inv'
    OBVIOUS
  <1> USE CapacityAssumption DEF Inv, ring, counts
  <1>1. CASE PushFull
    BY <1>1 DEF PushFull, TypeOK, StaysTrue
  <1>2. ASSUME NEW value \in Bytes, PushBegin(value) PROVE Inv'
    <2>1. TypeOK'
      BY <1>2 DEF PushBegin, Moves, Takes, TypeOK, Sides
    <2>2. StaysTrue'
      BY <1>2 DEF PushBegin, Moves, Takes, TypeOK, StaysTrue, Sides
    <2> QED BY <2>1, <2>2
  <1>3. CASE Store
    <2>1. TypeOK'
      BY <1>3 DEF Store, Moves, TypeOK, StaysTrue, Sides
    <2>2. StaysTrue'
      BY <1>3 DEF Store, Moves, TypeOK, StaysTrue, Sides, Empty
    <2> QED BY <2>1, <2>2
  <1>4. CASE Publish
    <2>1. TypeOK'
      BY <1>4, NextSlotInside
         DEF Publish, Moves, Takes, IndexMoved, TypeOK, Sides
    <2>2. StaysTrue'
      BY <1>4 DEF Publish, Moves, Takes, TypeOK, StaysTrue, Sides, Empty, Full
    <2> QED BY <2>1, <2>2
  <1>5. CASE PopEmpty
    BY <1>5 DEF PopEmpty, TypeOK, StaysTrue
  <1>6. CASE PopBegin
    <2>1. TypeOK'
      BY <1>6 DEF PopBegin, Moves, TypeOK, Sides
    <2>2. StaysTrue'
      BY <1>6 DEF PopBegin, Moves, TypeOK, StaysTrue, Sides
    <2> QED BY <2>1, <2>2
  <1>7. CASE Load
    <2>1. TypeOK'
      BY <1>7 DEF Load, Moves, Takes, TypeOK, Sides
    <2>2. StaysTrue'
      BY <1>7 DEF Load, Moves, Takes, TypeOK, StaysTrue, Sides
    <2> QED BY <2>1, <2>2
  <1>8. CASE Advance
    <2>1. TypeOK'
      BY <1>8, NextSlotInside
         DEF Advance, Moves, Takes, IndexMoved, TypeOK, Sides, StaysTrue
    <2>2. StaysTrue'
      <3>1. Full(head', tail') => Full(head, tail) \/ Empty(head, tail)
        BY <1>8 DEF Advance, TypeOK, Slots, Full, Empty, NextSlot
      <3> QED BY <1>8, <3>1 DEF Advance, Moves, Takes, TypeOK, StaysTrue, Sides
    <2> QED BY <2>1, <2>2
  <1>9. ASSUME NEW s \in Sides, CountLook(s) PROVE Inv'
    <2>1. TypeOK'
      BY <1>9 DEF CountLook, Moves, TypeOK, Sides
    <2>2. StaysTrue'
      BY <1>9 DEF CountLook, Moves, TypeOK, StaysTrue, Sides
    <2> QED BY <2>1, <2>2
  <1>10. ASSUME NEW s \in Sides, CountReturn(s) PROVE Inv'
    <2>1. InUse(ahead[s]) % U16 \in 0..(U16 - 1)
      <3>1. InUse(ahead[s]) \in Int
        BY DEF InUse, TypeOK, Slots
      <3> QED BY <3>1, ModU16
    <2>2. TypeOK'
      BY <1>10, <2>1 DEF CountReturn, Moves, TypeOK, Sides
    <2>3. StaysTrue'
      BY <1>10 DEF CountReturn, Moves, TypeOK, StaysTrue, Sides
    <2> QED BY <2>2, <2>3
  <1>11. CASE UNCHANGED vars
    BY <1>11 DEF vars, TypeOK, StaysTrue
  <1> QED
    BY <1>1, <1>2, <1>3, <1>4, <1>5, <1>6, <1>7, <1>8, <1>9, <1>10, <1>11
       DEF Next

(* The invariant holds: what a call relies on stays true until it ends     *)
(* (ring.c, ring_push and ring_pop).                                       *)
THEOREM Invariance == Spec => []Inv
  BY InitInv, NextInv, PTL DEF Spec

(* Indices stay inside the buffer.                                         *)
THEOREM TypeCorrect == Spec => []TypeOK
  BY Invariance, PTL DEF Inv

(* What a side saw stays true until it is done.                            *)
THEOREM NothingMovesUnderneath == Spec => []StaysTrue
  BY Invariance, PTL DEF Inv

-----------------------------------------------------------------------------
(* What each step does to the sequence.                                    *)

(* A byte that is published was stored behind the last one.                *)
LEMMA PublishAppends ==
  ASSUME Inv, Publish
  PROVE  /\ Len(Contents) < Capacity - 1
         /\ Contents' = Append(Contents, byte["producer"])
  <1> DEFINE S == Bytes \cup {None}
             longer == Append(Contents, byte["producer"])
  <1>1. TypeOK' BY NextInv DEF Inv, Next
  <1>2. /\ pc["producer"] = "publish" /\ ~ Full(head, tail)
        /\ buf[head] = byte["producer"] /\ byte["producer"] \in S
        /\ head' = NextSlot(head) /\ UNCHANGED <<buf, tail>>
    BY DEF Inv, StaysTrue, Publish, Moves
  <1>3. Length < Capacity - 1
    BY <1>2, FullEmpty, ContentsProperties, CapacityAssumption DEF Inv
  <1>4. Length' = Length + 1 /\ Slot(Length + 1) = head
    BY <1>2, CapacityAssumption
       DEF Inv, TypeOK, Slots, Length, InUse, Slot, Full, NextSlot
  <1>5. (Len(Contents) = Length /\ Contents \in Seq(Bytes \cup {None}))'
    BY <1>1, ContentsSeq, PTL
  <1>6. longer \in Seq(S) /\ Len(longer) = Length + 1
    BY <1>2, ContentsProperties DEF Inv
  <1>7. \A i \in 1..(Length + 1) : Contents'[i] = longer[i]
    <2> SUFFICES ASSUME NEW i \in 1..(Length + 1)
                 PROVE  Contents'[i] = longer[i]
      OBVIOUS
    <2>1. Contents'[i] = buf[Slot(i)]
      BY <1>2, <1>4 DEF Contents, Slot
    <2>2. CASE i = Length + 1
      BY <2>1, <2>2, <1>2, <1>4, ContentsProperties DEF Inv
    <2>3. CASE i # Length + 1
      <3>1. i \in 1..Length BY <2>3, ContentsProperties DEF Inv
      <3> QED BY <2>1, <3>1, <1>2, ContentsProperties DEF Inv
    <2> QED BY <2>2, <2>3
  <1> HIDE DEF longer, S
  <1>8. Contents' = longer
    BY <1>4, <1>5, <1>6, <1>7, SeqEqual
  <1> QED BY <1>3, <1>8, ContentsProperties DEF Inv, longer

(* A byte that is popped was the oldest.                                   *)
LEMMA AdvanceTakesFirst ==
  ASSUME Inv, Advance
  PROVE  /\ Contents # <<>> /\ Contents' = Tail(Contents)
         /\ byte["consumer"] = Head(Contents)
  <1> DEFINE S == Bytes \cup {None}
  <1>1. TypeOK' BY NextInv DEF Inv, Next
  <1>2. /\ ~ Empty(head, tail) /\ buf[tail] = byte["consumer"]
        /\ tail' = NextSlot(tail) /\ UNCHANGED <<buf, head>>
    BY DEF Inv, StaysTrue, Advance, Moves
  <1>3. Length > 0 /\ Length' = Length - 1 /\ Slot(1) = tail
    BY <1>2, CapacityAssumption
       DEF Inv, TypeOK, Slots, Length, InUse, Slot, Empty, NextSlot
  <1>4. /\ Contents \in Seq(S) /\ Len(Contents) = Length /\ Contents # <<>>
    BY <1>3, ContentsProperties DEF Inv
  <1>5. (Len(Contents) = Length /\ Contents \in Seq(Bytes \cup {None}))'
    BY <1>1, ContentsSeq, PTL
  <1>6. /\ Tail(Contents) \in Seq(S) /\ Len(Tail(Contents)) = Length - 1
        /\ \A i \in 1..(Length - 1) : Tail(Contents)[i] = Contents[i + 1]
    BY <1>4, HeadTailProperties
  <1>7. \A i \in 1..(Length - 1) : Contents'[i] = Tail(Contents)[i]
    <2> SUFFICES ASSUME NEW i \in 1..(Length - 1)
                 PROVE  Contents'[i] = Tail(Contents)[i]
      OBVIOUS
    <2>1. i + 1 \in 1..Length /\ i \in 1..Length' BY <1>3, ContentsProperties DEF Inv
    <2>2. Slot(i)' = Slot(i + 1)
      BY <2>1, <1>2, CapacityAssumption
         DEF Inv, TypeOK, Slots, Length, InUse, Slot, NextSlot
    <2>3. Contents'[i] = buf[Slot(i)'] BY <2>1, <1>2 DEF Contents
    <2> QED BY <2>1, <2>2, <2>3, <1>6, ContentsProperties DEF Inv
  <1>8. Contents' = Tail(Contents)
    BY <1>3, <1>5, <1>6, <1>7, SeqEqual
  <1>9. Head(Contents) = buf[tail]
    BY <1>3, <1>4, ContentsProperties DEF Inv
  <1> QED BY <1>2, <1>4, <1>8, <1>9

(* The slot a byte is stored in is not in use.                             *)
LEMMA StoreOutside ==
  ASSUME Inv, Store
  PROVE  Contents' = Contents
  <1>1. /\ ~ Full(head, tail) /\ UNCHANGED <<head, tail>>
        /\ buf' = [buf EXCEPT ![head] = byte["producer"]]
    BY DEF Inv, StaysTrue, Store, Moves
  <1>2. \A i \in 1..Length : Slot(i) # head
    BY CapacityAssumption DEF Inv, TypeOK, Slots, Length, InUse, Slot
  <1>3. Length' = Length /\ \A i \in 1..Length : Slot(i)' = Slot(i)
    BY <1>1 DEF Length, InUse, Slot
  <1>4. \A i \in 1..Length : buf'[Slot(i)] = buf[Slot(i)]
    BY <1>1, <1>2, ContentsProperties DEF Inv, TypeOK
  <1> QED BY <1>3, <1>4 DEF Contents

(* The ring implements the bounded queue (ring.c).                         *)
THEOREM Implementation == Spec => QueueSpec
  <1>1. Init => Queue!Init
    <2> SUFFICES ASSUME Init PROVE Queue!Init
      OBVIOUS
    <2>1. Contents \in Seq(Bytes \cup {None}) /\ Len(Contents) = 0
      BY InitInv, ContentsProperties DEF Inv, Init, Length, InUse
    <2> QED BY <2>1, EmptySeq DEF Queue!Init, Init
  <1>2. Inv /\ [Next]_vars => [Queue!Next]_Queue!vars
    <2> SUFFICES ASSUME Inv, [Next]_vars PROVE [Queue!Next]_Queue!vars
      OBVIOUS
    <2> DEFINE same == UNCHANGED <<Contents, pushed, popped>>
    <2>1. CASE PushFull
      <3>1. Len(Contents) = Capacity - 1
        BY <2>1, FullEmpty, ContentsProperties DEF Inv, PushFull
      <3>2. UNCHANGED Contents
        BY <2>1 DEF PushFull, ring, Contents, Length, InUse, Slot
      <3> QED BY <2>1, <3>1, <3>2 DEF PushFull, Queue!Next, Queue!Refuse
    <2>2. CASE Publish
      <3>1. byte["producer"] \in Bytes
        BY <2>2 DEF Inv, StaysTrue, Publish, Moves
      <3>2. Queue!Push(byte["producer"])
        BY <2>2, PublishAppends DEF Publish, Queue!Push
      <3> QED BY <3>1, <3>2 DEF Queue!Next
    <2>3. CASE PopEmpty
      <3>1. Contents = <<>>
        BY <2>3, FullEmpty, ContentsProperties, EmptySeq DEF Inv, PopEmpty
      <3>2. UNCHANGED Contents
        BY <2>3 DEF PopEmpty, ring, Contents, Length, InUse, Slot
      <3> QED BY <2>3, <3>1, <3>2 DEF PopEmpty, Queue!Next, Queue!Miss
    <2>4. CASE Advance
      BY <2>4, AdvanceTakesFirst DEF Advance, Queue!Next, Queue!Pop
    <2>5. CASE Store
      BY <2>5, StoreOutside DEF Store, Queue!vars
    <2>6. CASE \/ \E value \in Bytes : PushBegin(value)
               \/ PopBegin \/ Load \/ UNCHANGED vars
               \/ \E s \in Sides : CountLook(s) \/ CountReturn(s)
      <3>1. UNCHANGED <<buf, head, tail, pushed, popped>>
        BY <2>6 DEF PushBegin, PopBegin, Load, CountLook, CountReturn, vars, ring
      <3> QED BY <3>1 DEF Contents, Length, InUse, Slot, Queue!vars
    <2> QED BY <2>1, <2>2, <2>3, <2>4, <2>5, <2>6 DEF Next
  <1> QED BY <1>1, <1>2, Invariance, PTL DEF Spec, QueueSpec, Queue!Spec

(* What ring_count saw stays true while neither index moves.               *)
LookStaysTrue ==
  \A s \in Sides : pc[s] = "count" /\ still[s] => (ahead[s] <=> head >= tail)

LEMMA LookInit == Init => LookStaysTrue
  BY DEF Init, LookStaysTrue

LEMMA LookNext == Inv /\ LookStaysTrue /\ [Next]_vars => LookStaysTrue'
  <1> SUFFICES ASSUME Inv, LookStaysTrue, [Next]_vars, NEW s \in Sides,
                      pc'[s] = "count", still'[s]
               PROVE  ahead'[s] <=> head' >= tail'
    BY DEF LookStaysTrue
  <1> USE DEF Inv, TypeOK, ring, counts
  <1>1. CASE UNCHANGED <<head, tail, pc, still, ahead>>
    BY <1>1 DEF LookStaysTrue
  <1>2. ASSUME NEW value \in Bytes, PushBegin(value)
        PROVE  ahead'[s] <=> head' >= tail'
    BY <1>2 DEF PushBegin, Moves, LookStaysTrue, Sides
  <1>3. CASE Store \/ PopBegin \/ Load
    BY <1>3 DEF Store, PopBegin, Load, Moves, LookStaysTrue, Sides
  <1>4. CASE Publish \/ Advance
    BY <1>4 DEF Publish, Advance, IndexMoved
  <1>5. ASSUME NEW t \in Sides, CountLook(t)
        PROVE  ahead'[s] <=> head' >= tail'
    BY <1>5 DEF CountLook, Moves, LookStaysTrue
  <1>6. ASSUME NEW t \in Sides, CountReturn(t)
        PROVE  ahead'[s] <=> head' >= tail'
    BY <1>6 DEF CountReturn, Moves, LookStaysTrue
  <1> QED
    BY <1>1, <1>2, <1>3, <1>4, <1>5, <1>6 DEF Next, PushFull, PopEmpty, vars

(* A count that no move of an index disturbs is right (ring.c, ring_count).*)
THEOREM CountIsExact == Spec => CountExact
  <1>1. Inv /\ LookStaysTrue /\ [Next]_vars =>
          [\A s \in Sides : pc[s] = "count" /\ pc'[s] = "idle" /\ still[s]
                             => count'[s] = Len(Contents)]_vars
    <2> SUFFICES ASSUME Inv, LookStaysTrue, Next, NEW s \in Sides,
                        pc[s] = "count", pc'[s] = "idle", still[s]
                 PROVE  count'[s] = Len(Contents)
      OBVIOUS
    <2>1. CountReturn(s)
      <3>1. ~ (PushFull \/ PopEmpty)
        BY DEF PushFull, PopEmpty
      <3>2. ASSUME NEW t \in Sides, NEW from, NEW to, Moves(t, from, to),
                   to # "count"
            PROVE  t = s /\ from = "count"
        BY <3>2 DEF Moves, Inv, TypeOK
      <3>3. ~ \E value \in Bytes : PushBegin(value)
        BY <3>2 DEF PushBegin, Sides
      <3>4. ~ (Store \/ Publish \/ PopBegin \/ Load \/ Advance)
        BY <3>2 DEF Store, Publish, PopBegin, Load, Advance, Sides
      <3>5. ~ \E t \in Sides : CountLook(t)
        BY DEF CountLook, Moves, Inv, TypeOK
      <3>6. \A t \in Sides : CountReturn(t) => t = s
        BY <3>2 DEF CountReturn
      <3> QED BY <3>1, <3>3, <3>4, <3>5, <3>6 DEF Next
    <2>2. InUse(ahead[s]) = Length
      BY DEF LookStaysTrue, Length, InUse
    <2>3. Length % U16 = Length
      BY ContentsProperties, CapacityAssumption DEF Inv, U16
    <2> QED
      BY <2>1, <2>2, <2>3, ContentsProperties DEF CountReturn, Inv, TypeOK
  <1> QED
    BY <1>1, InitInv, NextInv, LookInit, LookNext, PTL DEF Spec, CountExact
=============================================================================
