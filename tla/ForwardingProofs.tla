-------------------------- MODULE ForwardingProofs --------------------------
(***************************************************************************)
(* A packet is handled once, for every set of nodes, ranges, routes - also *)
(* those that form a loop - and cache sizes, with security or without, and *)
(* however the tasks of a node interleave.                                 *)
(*                                                                         *)
(* What is handled is in the cache, and stays there while the cache holds  *)
(* all the packets there are.  That it does, is an argument about all the  *)
(* frames under way: source and number identify a packet (Identified), so  *)
(* that a cache without repetitions (Distinct) never has more entries than *)
(* there are numbers in use.                                               *)
(*                                                                         *)
(* And a packet arrives, in a network without security and losses: what is *)
(* under way is where the routes lead, with as many hops left (OnWay), so  *)
(* that nobody on the way drops it; and whatever has been sent, accepted   *)
(* or forwarded has got to the next hop (SentReached, OkReached,           *)
(* ForwardedReached), where it is handled once the network is at rest.     *)
(*                                                                         *)
(* To the applications all this is a packet service: nothing is under way  *)
(* or in a cache that was not sent (ServiceInv), so that every delivery is *)
(* one of what was sent.                                                   *)
(***************************************************************************)
EXTENDS Forwarding, MacLinkProofs, WellFoundedInduction

-----------------------------------------------------------------------------
(* The frames under way: those a task is sending, those in a queue except  *)
(* for the ACKs, which no network layer sees, and those being handled.     *)
Sending  == {tx[t].frame : t \in {u \in Tasks : tx[u].pc # "idle"}}
Waiting  == {f \in Frames : ~ f.is_ack /\ \E n \in Nodes : f \in Queued(rxq[n])}
Handling == {rx[n] : n \in Nodes} \ {NoFrame}
UnderWay == Sending \cup Waiting \cup Handling

(* The packets they carry, and those in the caches.                        *)
Cached  == {p \in Packets : \E n \in Nodes : Seen(n, p)}
Carried == {PacketOf(f) : f \in UnderWay}
Known   == Carried \cup Cached

(* The numbers in use.                                                     *)
Numbers == {p \in Nodes \X Seqs : p[2] \in 1..counter[p[1]]}

(* A frame for everybody on the link is one for everybody.                 *)
Addressed == \A f \in UnderWay : f.link_dst = Broadcast => f.dst = Broadcast

(* Source and number identify a packet, and the number is one its source   *)
(* has used.                                                               *)
Identified ==
  /\ \A p \in Known : p.seq \in 1..counter[p.src]
  /\ \A p, q \in Known : p.src = q.src /\ p.seq = q.seq => p = q

(* No packet is twice in a cache.                                          *)
Distinct ==
  \A n \in Nodes : \A i, j \in Slots :
    /\ dup_cache[n].entry[i] = dup_cache[n].entry[j]
    /\ dup_cache[n].entry[i] # NoPacket
    => i = j

(* What was handled is in the cache.                                       *)
HandledIsSeen ==
  CacheHolds => \A n \in Nodes :
    \A p \in DOMAIN delivered[n] \cup DOMAIN forwarded[n] : Seen(n, p)

Types ==
  /\ TypeOK
  /\ DOMAIN delivered = Nodes /\ delivered = [n \in Nodes |-> delivered[n]]
  /\ DOMAIN forwarded = Nodes /\ forwarded = [n \in Nodes |-> forwarded[n]]

ForwardingInv ==
  /\ Types
  /\ Addressed
  /\ Identified
  /\ Distinct
  /\ HandledIsSeen
  /\ HandledOnce

-----------------------------------------------------------------------------
(* The cache.                                                              *)

LEMMA Least ==
  ASSUME NEW S, S \subseteq Nat, S # {}
  PROVE  \E i \in S : \A j \in S : i <= j
<1>1. \E R : IsWellFoundedOn(R, Nat) /\ \A x, y \in Nat : x < y => <<x, y>> \in R
  <2>1. \A x, y \in Nat : x < y => <<x, y>> \in OpToRel(<, Nat)
    BY DEF OpToRel
  <2> QED
    BY <2>1, NatLessThanWellFounded
<1>2. PICK R : IsWellFoundedOn(R, Nat) /\ \A x, y \in Nat : x < y => <<x, y>> \in R
  BY <1>1
<1>3. \E x \in S : \A y \in S : ~ (<<y, x>> \in R)
  <2>1. IsWellFoundedOn(R, Nat) /\ S \subseteq Nat /\ S # {}
    BY <1>2
  <2>2. \A T : T \subseteq Nat /\ T # {} => \E x \in T : \A y \in T : ~ (<<y, x>> \in R)
    BY <2>1, WFMin, Zenon
  <2> QED
    BY <2>1, <2>2
<1>4. PICK x \in S : \A y \in S : ~ (<<y, x>> \in R)
  BY <1>3
<1>5. \A y \in S : ~ (y < x)
  BY <1>2, <1>4
<1>6. \A y \in S : x \in Nat /\ y \in Nat
  OBVIOUS
<1>7. \A y \in S : x <= y
  BY <1>5, <1>6
<1> QED
  BY <1>7

LEMMA NoPacketIsNone == \A p \in Packets : p # NoPacket
<1>1. ASSUME NEW p \in Packets
      PROVE  p # NoPacket
  <2>1. "src" \in DOMAIN p
    BY DEF Packets
  <2>2. "src" \notin DOMAIN NoPacket
    BY DEF NoPacket
  <2> QED
    BY <2>1, <2>2
<1> QED
  BY <1>1

LEMMA PacketType == \A f \in Frames : PacketOf(f) \in Packets
BY DEF PacketOf, Packets, Frames

LEMMA SizeFacts ==
  ASSUME MacTypeOK
  PROVE  CacheSize \in Nat \ {0} /\ 0 \in Slots /\ Slots \subseteq Nat
<1>1. mode.place \in Places
  BY ModesAssumption DEF MacTypeOK
<1>2. CacheSize \in Nat \ {0}
  BY <1>1, DupCacheSizeAssumption DEF CacheSize
<1> QED
  BY <1>2 DEF Slots

LEMMA RestInRange ==
  ASSUME NEW t \in Nat, NEW k \in Nat \ {0}
  PROVE  t % k \in 0..(k - 1)
BY SMT

(* net_dup_cache_seen writes one slot, a free one while there is any.      *)
LEMMA InsertStep ==
  ASSUME MacTypeOK, NEW cache \in Caches, NEW packet \in Packets
  PROVE  /\ Insert(cache, packet) \in Caches
         /\ \E slot \in Slots :
              /\ \A i \in Slots : Insert(cache, packet).entry[i]
                                    = IF i = slot THEN packet ELSE cache.entry[i]
              /\ (\E i \in Slots : cache.entry[i] = NoPacket) => cache.entry[slot] = NoPacket
<1> DEFINE free == {i \in Slots : cache.entry[i] = NoPacket}
           slot == InsertSlot(cache)
<1>1. CacheSize \in Nat \ {0} /\ Slots \subseteq Nat
  BY SizeFacts
<1>2. slot \in Slots /\ (free # {} => cache.entry[slot] = NoPacket)
  <2>1. CASE free # {}
    <3>1. \E i \in free : \A j \in free : i <= j
      <4>1. free \subseteq Nat
        BY <1>1
      <4> HIDE DEF free
      <4> QED
        BY <2>1, <4>1, Least
    <3>2. \E i \in Slots : /\ cache.entry[i] = NoPacket
                           /\ \A j \in Slots : cache.entry[j] = NoPacket => i <= j
      BY <3>1
    <3>3. slot = CHOOSE i \in Slots :
                   /\ cache.entry[i] = NoPacket
                   /\ \A j \in Slots : cache.entry[j] = NoPacket => i <= j
      BY <2>1 DEF InsertSlot
    <3> QED
      BY <3>2, <3>3
  <2>2. CASE free = {}
    <3>1. slot = cache.next
      BY <2>2 DEF InsertSlot
    <3> QED
      BY <2>2, <3>1 DEF Caches
  <2> QED
    BY <2>1, <2>2
<1> HIDE DEF slot
<1> DEFINE entry == [cache.entry EXCEPT ![slot] = packet]
           next  == (slot + 1) % CacheSize
<1>3. Insert(cache, packet) = [entry |-> entry, next |-> next]
  BY DEF Insert, slot
<1>4. cache.entry \in [Slots -> Packets \cup {NoPacket}]
  BY DEF Caches
<1>5. entry \in [Slots -> Packets \cup {NoPacket}]
  BY <1>2, <1>4
<1>6. next \in Slots
  BY <1>1, <1>2, RestInRange DEF Slots
<1>7. \A i \in Slots : entry[i] = IF i = slot THEN packet ELSE cache.entry[i]
  BY <1>2, <1>4
<1> HIDE DEF entry, next
<1>8. Insert(cache, packet) \in Caches
  BY <1>3, <1>5, <1>6 DEF Caches
<1>9. Insert(cache, packet).entry = entry
  BY <1>3
<1> QED
  BY <1>2, <1>7, <1>8, <1>9

(* While the cache holds all the packets, there is room for one it does    *)
(* not know.                                                               *)
LEMMA RoomForOneMore ==
  ASSUME MacTypeOK, dup_cache \in [Nodes -> Caches], Distinct, Identified, CacheHolds,
         NEW n \in Nodes, NEW packet \in Known \cap Packets, ~ Seen(n, packet),
         Known \subseteq Packets
  PROVE  \E i \in Slots : dup_cache[n].entry[i] = NoPacket
<1> SUFFICES ASSUME \A i \in Slots : dup_cache[n].entry[i] # NoPacket
             PROVE  FALSE
  OBVIOUS
<1> DEFINE new  == <<packet.src, packet.seq>>
           rest == Numbers \ {new}
           at   == [i \in Slots |-> <<dup_cache[n].entry[i].src, dup_cache[n].entry[i].seq>>]
<1>1. CacheSize \in Nat \ {0}
  BY SizeFacts
<1>2. IsFiniteSet(Slots) /\ Cardinality(Slots) = CacheSize
  <2>1. 0 \in Int /\ CacheSize - 1 \in Int /\ ~ (0 > CacheSize - 1)
        /\ (CacheSize - 1) - 0 + 1 = CacheSize
    BY <1>1
  <2> QED
    BY <2>1, FS_Interval DEF Slots
<1>3. IsFiniteSet(Numbers) /\ Cardinality(Numbers) \in Nat /\ Cardinality(Numbers) <= CacheSize
  <2>1. IsFiniteSet(Nodes) /\ IsFiniteSet(Seqs)
    BY NodesAssumption, MaxSeqAssumption, FS_Interval DEF Seqs
  <2>2. IsFiniteSet(Nodes \X Seqs)
    BY <2>1, FS_Product
  <2>3. Numbers \subseteq Nodes \X Seqs
    BY DEF Numbers
  <2>4. IsFiniteSet(Numbers)
    BY <2>2, <2>3, FS_Subset
  <2> QED
    BY <2>4, FS_CardinalityType DEF CacheHolds, Numbers
<1>4. \A p \in Known : <<p.src, p.seq>> \in Numbers
  <2> TAKE p \in Known
  <2>1. p.src \in Nodes /\ p.seq \in Seqs /\ p.seq \in 1..counter[p.src]
    BY DEF Identified, Packets
  <2> QED
    BY <2>1 DEF Numbers
<1>5. IsFiniteSet(rest) /\ Cardinality(rest) < Cardinality(Slots)
  <2>1. new \in Numbers
    BY <1>4
  <2> HIDE DEF new
  <2>2. IsFiniteSet(rest) /\ Cardinality(rest) = Cardinality(Numbers) - 1
    BY <1>3, <2>1, FS_RemoveElement
  <2> QED
    BY <1>1, <1>2, <1>3, <2>2
<1>6. \A i \in Slots : dup_cache[n].entry[i] \in Known /\ dup_cache[n].entry[i] # packet
  <2> TAKE i \in Slots
  <2>1. dup_cache[n].entry[i] \in Packets \cup {NoPacket} /\ dup_cache[n].entry[i] # NoPacket
    BY DEF Caches
  <2>2. Seen(n, dup_cache[n].entry[i])
    BY DEF Seen
  <2>3. dup_cache[n].entry[i] \in Cached
    BY <2>1, <2>2 DEF Cached
  <2> QED
    BY <2>3 DEF Known, Seen
<1>7. at \in [Slots -> rest]
  <2>1. ASSUME NEW i \in Slots
        PROVE  <<dup_cache[n].entry[i].src, dup_cache[n].entry[i].seq>> \in rest
    <3>1. dup_cache[n].entry[i] \in Known /\ dup_cache[n].entry[i] # packet
      BY <1>6
    <3>2. ~ (dup_cache[n].entry[i].src = packet.src /\ dup_cache[n].entry[i].seq = packet.seq)
      BY <3>1 DEF Identified
    <3> QED
      BY <1>4, <3>1, <3>2
  <2> QED
    BY <2>1
<1>8. PICK i \in Slots, j \in Slots : i # j /\ at[i] = at[j]
  <2> HIDE DEF at, rest
  <2> QED
    BY <1>2, <1>5, <1>7, FS_PigeonHole
<1>9. dup_cache[n].entry[i] = dup_cache[n].entry[j]
  BY <1>6, <1>8 DEF Identified
<1> QED
  BY <1>8, <1>9 DEF Distinct

-----------------------------------------------------------------------------
(* What the steps of the MAC do to the frames under way.                   *)

LEMMA UnderWayFrames ==
  ASSUME MacTypeOK
  PROVE  Sending \subseteq Frames /\ Waiting \subseteq Frames /\ Handling \subseteq Frames
<1>1. Sending \subseteq Frames
  BY SendUnderWay DEF Sending
<1>2. Handling \subseteq Frames
  BY DEF Handling, MacTypeOK
<1> QED
  BY <1>1, <1>2 DEF Waiting

(* A step of mac_send is about the frame its task sends.                   *)
LEMMA SendStepTask ==
  ASSUME MacTypeOK, NEW t \in Tasks, SendStep(t)
  PROVE  /\ tx[t] \in Sends /\ tx[t].pc # "idle"
         /\ \A u \in Tasks \ {t} : tx'[u] = tx[u]
         /\ tx'[t].frame = tx[t].frame \/ tx'[t].pc = "idle"
<1>1. /\ tx \in [Tasks -> Sends \cup {Idle}] /\ tx[t].pc # "idle"
  BY DEF SendStep, RaiseFlag, SetMatch, ChannelBusy, Transmit, SendFails, AckTimeout, MacTypeOK
<1>2. tx[t] \in Sends
  BY <1>1, SendUnderWay
<1>0. Idle.pc = "idle"
  BY DEF Idle
<1>3. ASSUME NextRetry(t)
      PROVE  /\ \A u \in Tasks \ {t} : tx'[u] = tx[u]
             /\ tx'[t].frame = tx[t].frame \/ tx'[t].pc = "idle"
  <2>1. /\ \A u \in Tasks \ {t} : tx'[u] = tx[u]
        /\ \/ tx'[t] = [tx[t] EXCEPT !.pc = "start", !.retry = @ + 1]
           \/ tx'[t] = Idle
    BY <1>1, <1>3, NextRetryStep
  <2> QED
    BY <1>0, <1>2, <2>1 DEF Sends
<1>4. ASSUME NEW result \in Results, Return(t, result)
      PROVE  /\ \A u \in Tasks \ {t} : tx'[u] = tx[u]
             /\ tx'[t].frame = tx[t].frame \/ tx'[t].pc = "idle"
  BY <1>0, <1>1, <1>4, ReturnStep
<1>5. "OK" \in Results
  BY DEF Results
<1>6. CASE RaiseFlag(t)
  BY <1>1, <1>2, <1>6 DEF RaiseFlag, Sends
<1>7. CASE SetMatch(t)
  BY <1>1, <1>2, <1>7 DEF SetMatch, Sends
<1>8. CASE ChannelBusy(t)
  BY <1>1, <1>2, <1>3, <1>8 DEF ChannelBusy, Sends
<1>9. CASE Transmit(t)
  BY <1>1, <1>2, <1>4, <1>5, <1>9 DEF Transmit, Sends
<1>10. CASE SendFails(t)
  BY <1>1, <1>2, <1>3, <1>10 DEF SendFails
<1>11. CASE AckTimeout(t)
  BY <1>1, <1>2, <1>3, <1>4, <1>5, <1>11 DEF AckTimeout
<1> QED
  BY <1>1, <1>2, <1>6, <1>7, <1>8, <1>9, <1>10, <1>11 DEF SendStep

(* It only sends what the task is sending.                                 *)
LEMMA SendStepFrames ==
  ASSUME MacTypeOK, NEW t \in Tasks, SendStep(t)
  PROVE  UnderWay' \subseteq UnderWay
<1>1. /\ rx' = rx /\ tx[t].pc # "idle" /\ t[1] \in Nodes
  BY SendStepTask DEF SendStep, RaiseFlag, SetMatch, ChannelBusy, Transmit, SendFails, AckTimeout, Tasks
<1>2. tx[t] \in Sends /\ tx[t].frame \in Frames /\ tx[t].frame \in Sending
  BY <1>1, SendUnderWay DEF Sending
<1>3. /\ \A u \in Tasks \ {t} : tx'[u] = tx[u]
      /\ tx'[t].frame = tx[t].frame \/ tx'[t].pc = "idle"
  BY SendStepTask
<1>4. Sending' \subseteq Sending
  <2> SUFFICES ASSUME NEW u \in Tasks, tx'[u].pc # "idle"
               PROVE  tx'[u].frame \in Sending
    BY DEF Sending
  <2>1. CASE u = t
    BY <1>2, <1>3, <2>1
  <2>2. CASE u # t
    <3>1. tx'[u] = tx[u]
      BY <1>3, <2>2
    <3> QED
      BY <3>1 DEF Sending
  <2> QED
    BY <2>1, <2>2
<1>5. \A m \in Nodes : Queued(rxq'[m]) \subseteq Queued(rxq[m]) \cup {tx[t].frame}
  <2>1. CASE Transmit(t)
    <3>1. rxq \in [Nodes -> Seq(Frames)] /\ \A m \in Nodes : Len(rxq[m]) <= QueueDepth
      BY DEF MacTypeOK
    <3>2. PhySend(t[1], tx[t].frame, rxq)
      BY <2>1 DEF Transmit
    <3>3. \A m \in Nodes : \/ rxq'[m] = rxq[m]
                           \/ /\ m \in InRange(t[1])
                              /\ Queued(rxq'[m]) = Queued(rxq[m]) \cup {tx[t].frame}
      BY <1>1, <1>2, <3>1, <3>2, PhySendStep
    <3> QED
      BY <3>3
  <2>2. CASE ~ Transmit(t)
    BY <2>2 DEF SendStep, RaiseFlag, SetMatch, ChannelBusy, SendFails, AckTimeout
  <2> QED
    BY <2>1, <2>2
<1>6. Waiting' \subseteq Waiting \cup Sending
  BY <1>2, <1>5 DEF Waiting
<1>7. Handling' = Handling
  BY <1>1 DEF Handling
<1> QED
  BY <1>4, <1>6, <1>7 DEF UnderWay

(* on_phy_rx hands up what was in the queue, and what it sends is an ACK.  *)
LEMMA ReceiveStepFrames ==
  ASSUME MacTypeOK, NEW n \in Nodes, ReceiveStep(n)
  PROVE  UnderWay' \subseteq UnderWay
<1> DEFINE frame == Head(rxq[n])
<1>1. tx' = tx /\ rxq[n] # <<>> /\ rx \in [Nodes -> Frames \cup {NoFrame}]
  BY DEF ReceiveStep, DropReplay, ReceiveAck, ReceiveData, MayReceive, MacTypeOK
<1>2. /\ frame \in Frames
      /\ Dequeued(n) \in [Nodes -> Seq(Frames)]
      /\ \A m \in Nodes : Len(Dequeued(n)[m]) <= QueueDepth
      /\ \A m \in Nodes : Queued(Dequeued(n)[m]) \subseteq Queued(rxq[m])
      /\ frame \in Queued(rxq[n])
  BY <1>1, DequeueStep
<1>3. \A m \in Nodes : \A f \in Queued(rxq'[m]) : f \in Queued(rxq[m]) \/ f.is_ack
  <2>1. CASE rxq' = Dequeued(n)
    BY <1>2, <2>1
  <2>2. CASE rxq' # Dequeued(n)
    <3>1. PhySend(n, AckFor(n, frame), Dequeued(n))
      BY <2>2 DEF ReceiveStep, DropReplay, ReceiveAck, ReceiveData
    <3>2. AckFor(n, frame) \in Frames /\ AckFor(n, frame).is_ack
      BY <1>2, AckType DEF AckFor
    <3>3. \A m \in Nodes : \/ rxq'[m] = Dequeued(n)[m]
                           \/ /\ m \in InRange(n)
                              /\ Queued(rxq'[m]) = Queued(Dequeued(n)[m]) \cup {AckFor(n, frame)}
      <4> HIDE DEF frame
      <4> QED
        BY <1>2, <3>1, <3>2, PhySendStep
    <3> QED
      BY <1>2, <3>2, <3>3
  <2> QED
    BY <2>1, <2>2
<1>4. Waiting' \subseteq Waiting
  BY <1>3 DEF Waiting
<1>5. Handling' \subseteq Handling \cup Waiting
  <2>1. CASE rx' = rx
    BY <2>1 DEF Handling
  <2>2. CASE rx' # rx
    <3>1. rx' = [rx EXCEPT ![n] = frame] /\ ~ frame.is_ack
      BY <2>2 DEF ReceiveStep, DropReplay, ReceiveAck, ReceiveData
    <3>2. frame \in Waiting
      BY <1>2, <3>1 DEF Waiting
    <3>3. \A m \in Nodes : rx'[m] = rx[m] \/ rx'[m] = frame
      BY <1>1, <3>1
    <3> QED
      BY <3>2, <3>3 DEF Handling
  <2> QED
    BY <2>1, <2>2
<1>6. Sending' = Sending
  BY <1>1 DEF Sending
<1> QED
  BY <1>4, <1>5, <1>6 DEF UnderWay

(* The counters only go up.                                                *)
Counting == \A s \in Nodes : counter[s] \in Nat /\ counter'[s] \in Nat /\ counter[s] <= counter'[s]

LEMMA ProtectCounts ==
  ASSUME MacTypeOK, NEW n \in Nodes, NEW frame \in Frames, Protect(n, frame)
  PROVE  Counting /\ counter' \in [Nodes -> Seqs]
<1>1. counter \in [Nodes -> Seqs] /\ frame.seq \in Seqs /\ Seqs \subseteq Nat
  BY MaxSeqAssumption DEF MacTypeOK, Frames, Seqs
<1>0. frame.seq \in Nat /\ \A s \in Nodes : counter[s] \in Nat
  BY <1>1
<1>2. CASE Secure /\ frame.seq > counter[n]
  <2>1. counter' = [counter EXCEPT ![n] = frame.seq]
    BY <1>2 DEF Protect
  <2>2. \A s \in Nodes : counter'[s] = IF s = n THEN frame.seq ELSE counter[s]
    BY <1>1, <2>1
  <2>3. counter' \in [Nodes -> Seqs]
    BY <1>1, <2>1
  <2>4. \A s \in Nodes : counter[s] \in Nat /\ counter'[s] \in Nat /\ counter[s] <= counter'[s]
    BY <1>0, <1>2, <2>2
  <2> QED
    BY <2>3, <2>4 DEF Counting
<1>3. CASE ~ (Secure /\ frame.seq > counter[n])
  <2>1. counter' = counter
    BY <1>3 DEF Protect
  <2>2. \A s \in Nodes : counter[s] \in Nat /\ counter[s] <= counter[s]
    BY <1>0
  <2> QED
    BY <1>1, <2>1, <2>2 DEF Counting
<1> QED
  BY <1>2, <1>3

LEMMA MacStepCounts ==
  ASSUME MacTypeOK, NEW n \in Nodes, MacStep(n)
  PROVE  Counting
<1>1. \A s \in Nodes : counter[s] \in Nat
  BY MaxSeqAssumption DEF MacTypeOK, Seqs
<1>2. CASE counter' = counter
  BY <1>1, <1>2 DEF Counting
<1>3. CASE counter' # counter
  <2>1. ReceiveData(n) /\ Protect(n, Head(rxq[n])) /\ rxq[n] # <<>>
    BY <1>3 DEF MacStep, SendStep, RaiseFlag, SetMatch, ChannelBusy, Transmit, SendFails, AckTimeout,
                ReceiveStep, DropReplay, ReceiveAck, ReceiveData, MayReceive
  <2>2. Head(rxq[n]) \in Frames
    BY <2>1, DequeueStep
  <2> QED
    BY <2>1, <2>2, ProtectCounts
<1> QED
  BY <1>2, <1>3

-----------------------------------------------------------------------------
(* What the parts of the invariant need to last.                           *)

LEMMA KnownPackets ==
  ASSUME MacTypeOK
  PROVE  Known \subseteq Packets
<1>1. Carried \subseteq Packets
  BY UnderWayFrames, PacketType DEF Carried, UnderWay
<1> QED
  BY <1>1 DEF Known, Cached

LEMMA SameSize ==
  ASSUME mode' = mode
  PROVE  CacheSize' = CacheSize /\ Slots' = Slots /\ Caches' = Caches
BY DEF CacheSize, Slots, Caches

(* Fewer numbers were in use before.                                       *)
LEMMA HeldBefore ==
  ASSUME MacTypeOK', mode' = mode, Counting, CacheHolds'
  PROVE  CacheHolds
<1>1. Numbers \subseteq Numbers'
  <2> SUFFICES ASSUME NEW p \in Nodes \X Seqs, p[2] \in 1..counter[p[1]]
               PROVE  p[2] \in 1..counter'[p[1]]
    BY DEF Numbers
  <2>1. /\ counter[p[1]] \in Nat /\ counter'[p[1]] \in Nat /\ counter[p[1]] <= counter'[p[1]]
    BY DEF Counting
  <2> QED
    BY <2>1
<1>2. IsFiniteSet(Numbers')
  <2>1. IsFiniteSet(Nodes) /\ IsFiniteSet(Seqs)
    BY NodesAssumption, MaxSeqAssumption, FS_Interval DEF Seqs
  <2>2. IsFiniteSet(Nodes \X Seqs)
    BY <2>1, FS_Product
  <2>3. Numbers' \subseteq Nodes \X Seqs
    BY DEF Numbers
  <2> QED
    BY <2>2, <2>3, FS_Subset
<1>3. /\ Cardinality(Numbers) <= Cardinality(Numbers')
      /\ Cardinality(Numbers) \in Nat /\ Cardinality(Numbers') \in Nat
  BY <1>1, <1>2, FS_Subset, FS_CardinalityType
<1>4. CacheSize \in Nat
  <2>1. mode.place \in Places
    BY ModesAssumption DEF MacTypeOK
  <2> QED
    BY <2>1, DupCacheSizeAssumption DEF CacheSize
<1>5. Cardinality(Numbers') <= CacheSize
  BY SameSize DEF CacheHolds, Numbers
<1>6. Cardinality(Numbers) <= CacheSize
  BY <1>3, <1>4, <1>5
<1> QED
  BY <1>6 DEF CacheHolds, Numbers

(* No new packet.                                                          *)
LEMMA IdentifiedLasts ==
  ASSUME MacTypeOK, Identified, Counting, Known' \subseteq Known
  PROVE  Identified'
<1>1. ASSUME NEW p \in Known'
      PROVE  p.seq \in 1..counter'[p.src]
  <2>1. p \in Packets /\ p.seq \in 1..counter[p.src]
    BY KnownPackets DEF Identified
  <2>2. p.src \in Nodes
    BY <2>1 DEF Packets
  <2>3. counter[p.src] \in Nat /\ counter'[p.src] \in Nat /\ counter[p.src] <= counter'[p.src]
    BY <2>2 DEF Counting
  <2> QED
    BY <2>1, <2>3
<1>2. \A p, q \in Known' : p.src = q.src /\ p.seq = q.seq => p = q
  BY DEF Identified
<1> QED
  BY <1>1, <1>2 DEF Identified

(* Steps in which no node handles a packet.                                *)
LEMMA NoneHandled ==
  ASSUME ForwardingInv, MacTypeOK', mode' = mode, Counting, Addressed', Identified',
         UNCHANGED <<dup_cache, delivered, forwarded>>
  PROVE  ForwardingInv'
<1>1. CacheSize' = CacheSize /\ Slots' = Slots /\ Caches' = Caches
  BY SameSize
<1>2. CacheHolds' => CacheHolds
  BY HeldBefore
<1>3. Types'
  BY <1>1 DEF ForwardingInv, Types, TypeOK
<1>4. Distinct'
  BY <1>1 DEF ForwardingInv, Distinct
<1>5. HandledIsSeen'
  BY <1>1, <1>2 DEF ForwardingInv, HandledIsSeen, Seen
<1>6. HandledOnce'
  BY <1>2 DEF ForwardingInv, HandledOnce
<1> QED
  BY <1>3, <1>4, <1>5, <1>6 DEF ForwardingInv

LEMMA CountFacts ==
  ASSUME NEW bag, NEW packet
  PROVE  /\ DOMAIN Count(bag, packet) = DOMAIN bag \cup {packet}
         /\ packet \notin DOMAIN bag =>
              /\ Count(bag, packet)[packet] = 1
              /\ \A p \in DOMAIN bag : Count(bag, packet)[p] = bag[p]
BY DEF Count

(* The packet enters the cache of its node, and leaves all others there as *)
(* long as there is room.                                                  *)
LEMMA Insertion ==
  ASSUME ForwardingInv, mode' = mode, NEW n \in Nodes, NEW packet \in Known, ~ Seen(n, packet),
         dup_cache' = [dup_cache EXCEPT ![n] = Insert(@, packet)]
  PROVE  /\ dup_cache' \in [Nodes -> Caches]
         /\ Cached' \subseteq Cached \cup {packet}
         /\ Distinct'
         /\ Seen(n, packet)'
         /\ \A m \in Nodes, p \in Packets : Seen(m, p)' => Seen(m, p) \/ (m = n /\ p = packet)
         /\ CacheHolds => \A m \in Nodes, p \in Packets : Seen(m, p) => Seen(m, p)'
<1>1. /\ MacTypeOK /\ dup_cache \in [Nodes -> Caches] /\ packet \in Packets
      /\ Slots' = Slots
  BY KnownPackets, SameSize DEF ForwardingInv, Types, TypeOK
<1> DEFINE cache == dup_cache[n]
<1>2. cache \in Caches /\ dup_cache'[n] = Insert(cache, packet)
      /\ \A m \in Nodes \ {n} : dup_cache'[m] = dup_cache[m]
  BY <1>1
<1> HIDE DEF cache
<1>3. Insert(cache, packet) \in Caches
  BY <1>1, <1>2, InsertStep
<1>4. PICK slot \in Slots :
        /\ \A i \in Slots : Insert(cache, packet).entry[i]
                               = IF i = slot THEN packet ELSE cache.entry[i]
        /\ (\E i \in Slots : cache.entry[i] = NoPacket) => cache.entry[slot] = NoPacket
  BY <1>1, <1>2, InsertStep
<1>5. \A i \in Slots : dup_cache'[n].entry[i] = IF i = slot THEN packet ELSE dup_cache[n].entry[i]
  BY <1>2, <1>4 DEF cache
<1>6. dup_cache' \in [Nodes -> Caches]
  BY <1>1, <1>2, <1>3
<1>7. \A m \in Nodes, p \in Packets : Seen(m, p)' => Seen(m, p) \/ (m = n /\ p = packet)
  BY <1>1, <1>2, <1>5 DEF Seen
<1>8. Cached' \subseteq Cached \cup {packet}
  BY <1>7 DEF Cached
<1>9. Distinct'
  <2> SUFFICES ASSUME NEW m \in Nodes, NEW i \in Slots, NEW j \in Slots,
                      dup_cache'[m].entry[i] = dup_cache'[m].entry[j],
                      dup_cache'[m].entry[i] # NoPacket
               PROVE  i = j
    BY <1>1 DEF Distinct
  <2>1. CASE m # n
    BY <1>2, <2>1 DEF ForwardingInv, Distinct
  <2>2. CASE m = n
    BY <1>5, <2>2 DEF ForwardingInv, Distinct, Seen
  <2> QED
    BY <2>1, <2>2
<1>10. Seen(n, packet)'
  BY <1>1, <1>5 DEF Seen
<1>11. ASSUME CacheHolds, NEW m \in Nodes, NEW p \in Packets, Seen(m, p)
       PROVE  Seen(m, p)'
  <2>1. CASE m # n
    BY <1>1, <1>2, <1>11, <2>1 DEF Seen
  <2>2. CASE m = n
    <3>1. \E i \in Slots : dup_cache[n].entry[i] = NoPacket
      BY <1>1, <1>11, RoomForOneMore, KnownPackets DEF ForwardingInv
    <3>2. dup_cache[n].entry[slot] = NoPacket
      BY <1>4, <3>1 DEF cache
    <3>3. PICK i \in Slots : dup_cache[n].entry[i] = p
      BY <1>11, <2>2 DEF Seen
    <3>4. i # slot
      BY <3>2, <3>3, NoPacketIsNone
    <3>5. dup_cache'[n].entry[i] = p
      BY <1>5, <3>3, <3>4
    <3> QED
      BY <1>1, <2>2, <3>5 DEF Seen
  <2> QED
    BY <2>1, <2>2
<1> QED
  BY <1>6, <1>7, <1>8, <1>9, <1>10, <1>11

(* Steps in which a node handles a packet that is not in its cache.        *)
Handed(n, packet) ==
  /\ packet.dst \in {n, Broadcast}
  /\ delivered' = [delivered EXCEPT ![n] = Count(@, packet)] /\ forwarded' = forwarded
SetOut(n, packet) ==
  /\ forwarded' = [forwarded EXCEPT ![n] = Count(@, packet)] /\ delivered' = delivered

LEMMA OneHandled ==
  ASSUME ForwardingInv, MacTypeOK', mode' = mode, Counting, Addressed', Carried' \subseteq Known,
         NEW n \in Nodes, NEW packet \in Known, ~ Seen(n, packet),
         dup_cache' = [dup_cache EXCEPT ![n] = Insert(@, packet)],
         \/ Handed(n, packet)
         \/ SetOut(n, packet)
         \/ UNCHANGED <<delivered, forwarded>>
  PROVE  ForwardingInv'
<1>1. /\ MacTypeOK /\ packet \in Packets
      /\ CacheSize' = CacheSize /\ Slots' = Slots /\ Caches' = Caches
      /\ DOMAIN delivered = Nodes /\ DOMAIN forwarded = Nodes
      /\ \A m \in Nodes : DOMAIN delivered[m] \subseteq Packets /\ DOMAIN forwarded[m] \subseteq Packets
  BY KnownPackets, SameSize DEF ForwardingInv, Types, TypeOK
<1>2. CacheHolds' => CacheHolds
  BY HeldBefore
<1>3. /\ dup_cache' \in [Nodes -> Caches]
      /\ Cached' \subseteq Cached \cup {packet}
      /\ Distinct'
      /\ Seen(n, packet)'
      /\ CacheHolds => \A m \in Nodes, p \in Packets : Seen(m, p) => Seen(m, p)'
  BY Insertion
<1>4. Identified'
  <2>1. Known' \subseteq Known
    BY <1>3 DEF Known
  <2> QED
    BY <1>1, <2>1, IdentifiedLasts DEF ForwardingInv
<1>5. /\ DOMAIN delivered' = Nodes /\ delivered' = [m \in Nodes |-> delivered'[m]]
      /\ DOMAIN forwarded' = Nodes /\ forwarded' = [m \in Nodes |-> forwarded'[m]]
      /\ \A m \in Nodes \ {n} : delivered'[m] = delivered[m] /\ forwarded'[m] = forwarded[m]
      /\ delivered'[n] = delivered[n]
          \/ (packet.dst \in {n, Broadcast} /\ delivered'[n] = Count(delivered[n], packet)
              /\ forwarded'[n] = forwarded[n])
      /\ forwarded'[n] = forwarded[n]
          \/ (forwarded'[n] = Count(forwarded[n], packet) /\ delivered'[n] = delivered[n])
  <2>1. CASE Handed(n, packet)
    BY <1>1, <2>1 DEF Handed, ForwardingInv, Types
  <2>2. CASE SetOut(n, packet)
    BY <1>1, <2>2 DEF SetOut, ForwardingInv, Types
  <2>3. CASE UNCHANGED <<delivered, forwarded>>
    BY <1>1, <2>3 DEF ForwardingInv, Types
  <2> QED
    BY <2>1, <2>2, <2>3
<1>6. \A m \in Nodes :
        /\ DOMAIN delivered'[m] \subseteq DOMAIN delivered[m] \cup {packet}
        /\ DOMAIN forwarded'[m] \subseteq DOMAIN forwarded[m] \cup {packet}
        /\ m # n => /\ DOMAIN delivered'[m] = DOMAIN delivered[m]
                    /\ DOMAIN forwarded'[m] = DOMAIN forwarded[m]
  <2>1. /\ DOMAIN Count(delivered[n], packet) = DOMAIN delivered[n] \cup {packet}
        /\ DOMAIN Count(forwarded[n], packet) = DOMAIN forwarded[n] \cup {packet}
    BY CountFacts
  <2> QED
    BY <1>5, <2>1
<1>7. Types'
  BY <1>1, <1>3, <1>5, <1>6 DEF Types, TypeOK
<1>8. HandledIsSeen'
  <2> SUFFICES ASSUME CacheHolds', NEW m \in Nodes,
                      NEW p \in DOMAIN delivered'[m] \cup DOMAIN forwarded'[m]
               PROVE  Seen(m, p)'
    BY DEF HandledIsSeen
  <2>1. CASE p \in DOMAIN delivered[m] \cup DOMAIN forwarded[m]
    <3>1. Seen(m, p) /\ p \in Packets
      BY <1>1, <1>2, <2>1 DEF ForwardingInv, HandledIsSeen
    <3> QED
      BY <1>2, <1>3, <3>1
  <2>2. CASE ~ (p \in DOMAIN delivered[m] \cup DOMAIN forwarded[m])
    BY <1>3, <1>6, <2>2
  <2> QED
    BY <2>1, <2>2
<1>9. HandledOnce'
  <2> SUFFICES ASSUME CacheHolds', NEW m \in Nodes
               PROVE  /\ \A p \in DOMAIN delivered'[m] :
                           delivered'[m][p] = 1 /\ p.dst \in {m, Broadcast}
                      /\ \A p \in DOMAIN forwarded'[m] : forwarded'[m][p] = 1
                      /\ DOMAIN delivered'[m] \cap DOMAIN forwarded'[m] = {}
    BY DEF HandledOnce
  <2>1. /\ \A p \in DOMAIN delivered[m] : delivered[m][p] = 1 /\ p.dst \in {m, Broadcast}
        /\ \A p \in DOMAIN forwarded[m] : forwarded[m][p] = 1
        /\ DOMAIN delivered[m] \cap DOMAIN forwarded[m] = {}
    BY <1>2 DEF ForwardingInv, HandledOnce
  <2>2. CASE m # n
    BY <1>5, <2>1, <2>2
  <2>3. CASE m = n
    <3>1. packet \notin DOMAIN delivered[n] \cup DOMAIN forwarded[n]
      BY <1>2 DEF ForwardingInv, HandledIsSeen
    <3>2. CASE delivered'[n] = delivered[n] /\ forwarded'[n] = forwarded[n]
      BY <2>1, <2>3, <3>2
    <3>3. CASE /\ packet.dst \in {n, Broadcast} /\ delivered'[n] = Count(delivered[n], packet)
               /\ forwarded'[n] = forwarded[n]
      <4>1. /\ DOMAIN delivered'[n] = DOMAIN delivered[n] \cup {packet}
            /\ delivered'[n][packet] = 1
            /\ \A p \in DOMAIN delivered[n] : delivered'[n][p] = delivered[n][p]
        <5>1. packet \notin DOMAIN delivered[n]
          BY <3>1
        <5>2. /\ DOMAIN Count(delivered[n], packet) = DOMAIN delivered[n] \cup {packet}
              /\ Count(delivered[n], packet)[packet] = 1
              /\ \A p \in DOMAIN delivered[n] : Count(delivered[n], packet)[p] = delivered[n][p]
          BY <5>1, CountFacts
        <5> QED
          BY <3>3, <5>2
      <4> QED
        BY <2>1, <2>3, <3>1, <3>3, <4>1
    <3>4. CASE forwarded'[n] = Count(forwarded[n], packet) /\ delivered'[n] = delivered[n]
      <4>1. /\ DOMAIN forwarded'[n] = DOMAIN forwarded[n] \cup {packet}
            /\ forwarded'[n][packet] = 1
            /\ \A p \in DOMAIN forwarded[n] : forwarded'[n][p] = forwarded[n][p]
        <5>1. packet \notin DOMAIN forwarded[n]
          BY <3>1
        <5>2. /\ DOMAIN Count(forwarded[n], packet) = DOMAIN forwarded[n] \cup {packet}
              /\ Count(forwarded[n], packet)[packet] = 1
              /\ \A p \in DOMAIN forwarded[n] : Count(forwarded[n], packet)[p] = forwarded[n][p]
          BY <5>1, CountFacts
        <5> QED
          BY <3>4, <5>2
      <4> QED
        BY <2>1, <2>3, <3>1, <3>4, <4>1
    <3> QED
      BY <1>5, <3>2, <3>3, <3>4
  <2> QED
    BY <2>2, <2>3
<1> QED
  BY <1>3, <1>4, <1>7, <1>8, <1>9 DEF ForwardingInv

-----------------------------------------------------------------------------
(* The steps.                                                              *)

LEMMA InitForwarding == Init => ForwardingInv
<1> SUFFICES ASSUME Init PROVE ForwardingInv
  OBVIOUS
<1>1. MacTypeOK
  BY MacInitType DEF Init
<1>2. /\ tx = [t \in Tasks |-> Idle] /\ rx = [n \in Nodes |-> NoFrame]
      /\ rxq = [n \in Nodes |-> <<>>]
      /\ dup_cache = [n \in Nodes |-> [entry |-> [i \in Slots |-> NoPacket], next |-> 0]]
      /\ delivered = [n \in Nodes |-> <<>>] /\ forwarded = [n \in Nodes |-> <<>>]
  BY DEF Init, MacInit
<1>3. \A n \in Nodes : /\ \A i \in Slots : dup_cache[n].entry[i] = NoPacket
                       /\ \A p \in Packets : ~ Seen(n, p)
                       /\ DOMAIN delivered[n] = {} /\ DOMAIN forwarded[n] = {}
  BY <1>2, NoPacketIsNone DEF Seen
<1>4. UnderWay = {}
  <2>1. Idle.pc = "idle"
    BY DEF Idle
  <2>2. Sending = {}
    BY <1>2, <2>1 DEF Sending
  <2>3. \A n \in Nodes : Queued(rxq[n]) = {}
    <3>1. <<>> \in Seq(Frames)
      OBVIOUS
    <3>2. Queued(<<>>) = {}
      BY <3>1, QueuedEmpty
    <3> QED
      BY <1>2, <3>2
  <2>4. Waiting = {}
    BY <2>3 DEF Waiting
  <2>5. Handling = {}
    BY <1>2 DEF Handling
  <2> QED
    BY <2>2, <2>4, <2>5 DEF UnderWay
<1>5. Known = {}
  BY <1>3, <1>4 DEF Known, Carried, Cached
<1>6. Types
  <2>1. dup_cache \in [Nodes -> Caches]
    <3>1. 0 \in Slots
      BY <1>1, SizeFacts
    <3>2. [entry |-> [i \in Slots |-> NoPacket], next |-> 0] \in Caches
      BY <3>1 DEF Caches
    <3> QED
      BY <1>2, <3>2
  <2> QED
    BY <1>1, <1>2, <1>3, <2>1 DEF Types, TypeOK
<1> QED
  BY <1>3, <1>4, <1>5, <1>6
  DEF ForwardingInv, Addressed, Identified, Distinct, HandledIsSeen, HandledOnce

LEMMA MacStepKeeps ==
  ASSUME ForwardingInv, NEW n \in Nodes, MacStep(n)
  PROVE  ForwardingInv'
<1>1. MacTypeOK
  BY DEF ForwardingInv, Types, TypeOK
<1>2. /\ (\E t \in Tasks : SendStep(t)) \/ ReceiveStep(n)
      /\ UNCHANGED <<dup_cache, delivered, forwarded>>
  BY DEF MacStep, Tasks
<1>3. MacTypeOK' /\ UnderWay' \subseteq UnderWay
  BY <1>1, <1>2, SendStepType, ReceiveStepType, SendStepFrames, ReceiveStepFrames
<1>4. mode' = mode
  BY DEF MacStep, SendStep, RaiseFlag, SetMatch, ChannelBusy, Transmit, SendFails, AckTimeout,
         ReceiveStep, DropReplay, ReceiveAck, ReceiveData
<1>5. Counting
  BY <1>1, MacStepCounts
<1>6. Addressed'
  BY <1>3 DEF ForwardingInv, Addressed
<1>7. Known' \subseteq Known
  <2>1. Carried' \subseteq Carried
    BY <1>3 DEF Carried
  <2>2. Cached' = Cached
    BY <1>2, <1>4, SameSize DEF Cached, Seen
  <2> QED
    BY <2>1, <2>2 DEF Known
<1>8. Identified'
  BY <1>1, <1>5, <1>7, IdentifiedLasts DEF ForwardingInv
<1> QED
  BY <1>2, <1>3, <1>4, <1>5, <1>6, <1>8, NoneHandled

(* The next hop is a node, or everybody.                                   *)
LEMMA HopFacts ==
  ASSUME MacTypeOK, NEW n \in Nodes, NEW dst \in Addresses, NextHop(n, dst) # NoRoute
  PROVE  /\ NextHop(n, dst) \in Addresses
         /\ NextHop(n, dst) = Broadcast <=> dst = Broadcast
<1>1. mode.place \in Places
  BY ModesAssumption DEF MacTypeOK
<1>2. dst # Broadcast => Route[mode.place][n][dst] \in Nodes \cup {NoRoute}
  BY <1>1, RouteAssumption DEF Addresses
<1> QED
  BY <1>2, BroadcastAssumption DEF NextHop, Addresses

(* mac_send puts a frame under way.                                        *)
LEMMA OneMoreFrame ==
  ASSUME MacTypeOK, NEW t \in Tasks, NEW frame \in Frames, MacSend(t, frame), rxq' = rxq
  PROVE  LET sent == [frame EXCEPT !.ack_req = @ /\ Broadcast \notin {frame.dst, frame.link_dst}]
         IN  /\ sent \in Frames /\ sent.dst = frame.dst /\ sent.link_dst = frame.link_dst
             /\ sent.src = frame.src /\ sent.seq = frame.seq
             /\ sent.hop = frame.hop /\ sent.is_ack = frame.is_ack
             /\ sent.ack_req = (frame.ack_req /\ Broadcast \notin {frame.dst, frame.link_dst})
             /\ Sending' \subseteq Sending \cup {sent}
             /\ Waiting' = Waiting
<1> DEFINE sent == [frame EXCEPT !.ack_req = @ /\ Broadcast \notin {frame.dst, frame.link_dst}]
<1>1. /\ tx'[t].frame = sent
      /\ \A u \in Tasks \ {t} : tx'[u] = tx[u]
  BY MacSendStep
<1>2. /\ sent \in Frames /\ sent.dst = frame.dst /\ sent.link_dst = frame.link_dst
      /\ sent.src = frame.src /\ sent.seq = frame.seq
      /\ sent.hop = frame.hop /\ sent.is_ack = frame.is_ack
      /\ sent.ack_req = (frame.ack_req /\ Broadcast \notin {frame.dst, frame.link_dst})
  BY DEF Frames
<1> HIDE DEF sent
<1>3. Sending' \subseteq Sending \cup {sent}
  <2> SUFFICES ASSUME NEW u \in Tasks, tx'[u].pc # "idle"
               PROVE  tx'[u].frame \in Sending \cup {sent}
    BY DEF Sending
  <2>1. CASE u = t
    BY <1>1, <2>1
  <2>2. CASE u # t
    <3>1. tx'[u] = tx[u]
      BY <1>1, <2>2
    <3> QED
      BY <3>1 DEF Sending
  <2> QED
    BY <2>1, <2>2
<1>4. Waiting' = Waiting
  BY DEF Waiting
<1> QED
  BY <1>2, <1>3, <1>4 DEF sent

(* What the application hands over starts with all its hops and the next   *)
(* number of its source.                                                   *)
LEMMA AppSendFrame ==
  ASSUME MacTypeOK, NEW n \in Nodes, AppSend(n)
  PROVE  /\ UNCHANGED <<mode, mac, rx, rxq, replay, outcomes, heard, losses,
                        dup_cache, delivered, forwarded>>
         /\ counter[n] \in Nat /\ counter[n] + 1 \in Seqs
         /\ counter' = [counter EXCEPT ![n] = @ + 1]
         /\ tx[<<n, "app">>].pc = "idle" /\ tx' \in [Tasks -> Sends \cup {Idle}]
         /\ tx'[<<n, "app">>].pc = "start" /\ tx'[<<n, "app">>].retry = 0
         /\ \A u \in Tasks \ {<<n, "app">>} : tx'[u] = tx[u]
         /\ \E sent \in Frames :
              /\ tx'[<<n, "app">>].frame = sent
              /\ ~ sent.is_ack /\ sent.hop = HopLimit
              /\ sent.src = n /\ sent.seq = counter[n] + 1
              /\ sent.dst \in Destinations[mode.place][n]
              /\ NextHop(n, sent.dst) # NoRoute /\ sent.link_dst = NextHop(n, sent.dst)
              /\ UnderWay' \subseteq UnderWay \cup {sent}
<1>1. PICK dst \in Destinations[mode.place][n], ack_req \in BOOLEAN :
        /\ counter[n] < MaxSeq
        /\ NextHop(n, dst) # NoRoute
        /\ MacSend(<<n, "app">>,
                   [is_ack |-> FALSE, ack_req |-> ack_req,
                    seq |-> counter[n] + 1, hop |-> HopLimit,
                    src |-> n, dst |-> dst,
                    link_src |-> n, link_dst |-> NextHop(n, dst)])
        /\ counter' = [counter EXCEPT ![n] = @ + 1]
        /\ UNCHANGED <<mode, mac, rx, rxq, replay, outcomes, heard, losses,
                       dup_cache, delivered, forwarded>>
  BY DEF AppSend
<1> DEFINE number == counter[n] + 1
           frame  == [is_ack |-> FALSE, ack_req |-> ack_req, seq |-> number, hop |-> HopLimit,
                      src |-> n, dst |-> dst, link_src |-> n, link_dst |-> NextHop(n, dst)]
           sent   == [frame EXCEPT !.ack_req = @ /\ Broadcast \notin {frame.dst, frame.link_dst}]
<1>2. counter \in [Nodes -> Seqs] /\ counter[n] \in Nat /\ number \in Seqs
  <2>1. counter \in [Nodes -> Seqs] /\ counter[n] \in 0..MaxSeq
    BY DEF MacTypeOK, Seqs
  <2> QED
    BY <1>1, <2>1, MaxSeqAssumption DEF Seqs
<1>3. dst \in Addresses
  <2>1. mode.place \in Places
    BY ModesAssumption DEF MacTypeOK
  <2> QED
    BY <2>1, DestinationsAssumption DEF Addresses
<1>4. frame \in Frames
  <2>1. HopLimit \in 0..HopLimit
    BY MacBoundsAssumption
  <2>2. NextHop(n, dst) \in Addresses
    BY <1>1, <1>3, HopFacts
  <2> HIDE DEF number
  <2> QED
    BY <1>2, <1>3, <2>1, <2>2 DEF Frames
<1>5. <<n, "app">> \in Tasks /\ MacSend(<<n, "app">>, frame) /\ tx[<<n, "app">>].pc = "idle"
  BY <1>1 DEF Tasks, MacSend
<1>6. /\ frame.dst = dst /\ frame.link_dst = NextHop(n, dst) /\ frame.src = n /\ frame.seq = number
      /\ frame.hop = HopLimit /\ frame.is_ack = FALSE
  OBVIOUS
<1> HIDE DEF frame
<1>7. /\ sent \in Frames /\ sent.dst = dst /\ sent.link_dst = NextHop(n, dst)
      /\ sent.src = n /\ sent.seq = number /\ sent.hop = HopLimit /\ sent.is_ack = FALSE
      /\ Sending' \subseteq Sending \cup {sent} /\ Waiting' = Waiting
  BY <1>1, <1>4, <1>5, <1>6, OneMoreFrame
<1>8. /\ tx' \in [Tasks -> Sends \cup {Idle}]
      /\ tx'[<<n, "app">>].pc = "start" /\ tx'[<<n, "app">>].retry = 0
      /\ tx'[<<n, "app">>].frame = sent
      /\ \A u \in Tasks \ {<<n, "app">>} : tx'[u] = tx[u]
  BY <1>4, <1>5, MacSendStep
<1> HIDE DEF sent
<1>9. UnderWay' \subseteq UnderWay \cup {sent}
  <2>1. Handling' = Handling
    BY <1>1 DEF Handling
  <2> QED
    BY <1>7, <2>1 DEF UnderWay
<1> QED
  BY <1>1, <1>2, <1>5, <1>7, <1>8, <1>9

LEMMA AppSendKeeps ==
  ASSUME ForwardingInv, NEW n \in Nodes, AppSend(n)
  PROVE  ForwardingInv'
<1>1. MacTypeOK
  BY DEF ForwardingInv, Types, TypeOK
<1> DEFINE number == counter[n] + 1
<1>2. /\ UNCHANGED <<mode, mac, rx, rxq, replay, outcomes, heard, losses,
                     dup_cache, delivered, forwarded>>
      /\ counter' = [counter EXCEPT ![n] = @ + 1] /\ tx' \in [Tasks -> Sends \cup {Idle}]
  BY <1>1, AppSendFrame
<1>3. counter \in [Nodes -> Seqs] /\ counter[n] \in Nat /\ number \in Seqs
  BY <1>1, AppSendFrame DEF MacTypeOK
<1>4. PICK sent \in Frames :
        /\ sent.src = n /\ sent.seq = number
        /\ NextHop(n, sent.dst) # NoRoute /\ sent.link_dst = NextHop(n, sent.dst)
        /\ UnderWay' \subseteq UnderWay \cup {sent}
  BY <1>1, AppSendFrame
<1>5. sent.src = n /\ sent.seq = number /\ sent.dst \in Addresses
  BY <1>4 DEF Frames
<1>6. MacTypeOK'
  <2>1. counter' \in [Nodes -> Seqs]
    BY <1>2, <1>3
  <2>2. LossCap' = LossCap
    BY <1>2 DEF LossCap, MayLose
  <2> QED
    BY <1>1, <1>2, <2>1, <2>2 DEF MacTypeOK
<1>7. Counting /\ counter'[n] = number
  <2>1. \A s \in Nodes : counter'[s] = IF s = n THEN number ELSE counter[s]
    BY <1>2, <1>3
  <2>2. \A s \in Nodes : counter[s] \in Nat
    BY <1>3, MaxSeqAssumption DEF Seqs
  <2> QED
    BY <2>1, <2>2 DEF Counting
<1>8. Addressed'
  <2>1. sent.link_dst = Broadcast => sent.dst = Broadcast
    BY <1>1, <1>4, <1>5, HopFacts
  <2> QED
    BY <1>4, <2>1 DEF ForwardingInv, Addressed
<1>9. Identified'
  <2> DEFINE new == PacketOf(sent)
  <2>1. new.src = n /\ new.seq = number
    BY <1>5 DEF PacketOf
  <2>2. Known' \subseteq Known \cup {new}
    <3>1. Carried' \subseteq Carried \cup {new}
      BY <1>4 DEF Carried
    <3>2. Cached' = Cached
      BY <1>2, SameSize DEF Cached, Seen
    <3> QED
      BY <3>1, <3>2 DEF Known
  <2> HIDE DEF new
  <2>3. \A p \in Known : p.src \in Nodes /\ p.seq \in Nat /\ p.seq \in 1..counter[p.src]
    <3>1. Known \subseteq Packets
      BY <1>1, KnownPackets
    <3>2. \A p \in Known : p.src \in Nodes /\ p.seq \in Seqs
      BY <3>1 DEF Packets
    <3> QED
      BY <3>2, MaxSeqAssumption DEF ForwardingInv, Identified, Seqs
  <2>4. \A p \in Known : p.seq \in 1..counter'[p.src]
    BY <1>7, <2>3 DEF Counting
  <2>5. new.seq \in 1..counter'[new.src]
    BY <1>3, <1>7, <2>1
  <2>6. \A p \in Known : ~ (p.src = new.src /\ p.seq = new.seq)
    BY <1>3, <2>1, <2>3
  <2> QED
    BY <2>2, <2>4, <2>5, <2>6 DEF ForwardingInv, Identified
<1> QED
  BY <1>2, <1>6, <1>7, <1>8, <1>9, NoneHandled

(* The frame that a node handles.                                          *)
LEMMA HandledFrame ==
  ASSUME MacTypeOK, NEW n \in Nodes, rx[n] # NoFrame
  PROVE  rx[n] \in Frames /\ rx[n] \in UnderWay /\ PacketOf(rx[n]) \in Known
<1>1. rx[n] \in Frames
  BY DEF MacTypeOK
<1>2. rx[n] \in Handling
  BY DEF Handling
<1> QED
  BY <1>1, <1>2 DEF UnderWay, Known, Carried

(* The handler returns.                                                    *)
LEMMA ReturnFacts ==
  ASSUME MacTypeOK, NEW n \in Nodes, HandlerReturns(n)
  PROVE  /\ mode' = mode /\ rxq' = rxq /\ Handling' \subseteq Handling
         /\ tx' \in [Tasks -> Sends \cup {Idle}] /\ counter' \in [Nodes -> Seqs] => MacTypeOK'
<1>1. /\ mode' = mode /\ rxq' = rxq /\ rx' = [rx EXCEPT ![n] = NoFrame]
      /\ mac' = [mac EXCEPT ![n].rx_in_progress = FALSE]
      /\ UNCHANGED <<replay, outcomes, heard, losses>>
  BY DEF HandlerReturns
<1>2. mac \in [Nodes -> MacStates] /\ rx \in [Nodes -> Frames \cup {NoFrame}]
  BY DEF MacTypeOK, MacStates
<1>3. mac' \in [Nodes -> MacStates]
  BY <1>1, <1>2 DEF MacStates
<1>4. rx' \in [Nodes -> Frames \cup {NoFrame}]
  BY <1>1, <1>2
<1>5. Handling' \subseteq Handling
  BY <1>1, <1>2 DEF Handling
<1>6. LossCap' = LossCap
  BY <1>1 DEF LossCap, MayLose
<1> QED
  BY <1>1, <1>3, <1>4, <1>5, <1>6 DEF MacTypeOK, MacStates

(* What a node forwards is the packet it has received, with a hop less and *)
(* for its own next hop.                                                   *)
LEMMA ForwardFrame ==
  ASSUME MacTypeOK, NEW n \in Nodes, Forward(n)
  PROVE  /\ rx[n] # NoFrame /\ Transit(n, rx[n]) /\ ~ Seen(n, PacketOf(rx[n]))
         /\ dup_cache' = [dup_cache EXCEPT ![n] = Insert(@, PacketOf(rx[n]))]
         /\ forwarded' = [forwarded EXCEPT ![n] = Count(@, PacketOf(rx[n]))]
         /\ Protect(n, rx[n]) /\ HandlerReturns(n) /\ delivered' = delivered
         /\ tx[<<n, "rx">>].pc = "idle" /\ tx' \in [Tasks -> Sends \cup {Idle}]
         /\ tx'[<<n, "rx">>].pc = "start" /\ tx'[<<n, "rx">>].retry = 0
         /\ \A u \in Tasks \ {<<n, "rx">>} : tx'[u] = tx[u]
         /\ \E sent \in Frames :
              /\ tx'[<<n, "rx">>].frame = sent
              /\ sent.is_ack = rx[n].is_ack /\ sent.hop = rx[n].hop - 1
              /\ PacketOf(sent) = PacketOf(rx[n])
              /\ sent.link_dst = NextHop(n, sent.dst) /\ sent.link_dst # Broadcast
              /\ UnderWay' \subseteq UnderWay \cup {sent}
<1> DEFINE frame == Relayed(n, rx[n])
           sent  == [frame EXCEPT !.ack_req = @ /\ Broadcast \notin {frame.dst, frame.link_dst}]
<1>1. /\ rx[n] # NoFrame /\ Transit(n, rx[n]) /\ ~ Seen(n, PacketOf(rx[n]))
      /\ rx[n].hop > 1 /\ NextHop(n, rx[n].dst) # NoRoute
      /\ dup_cache' = [dup_cache EXCEPT ![n] = Insert(@, PacketOf(rx[n]))]
      /\ forwarded' = [forwarded EXCEPT ![n] = Count(@, PacketOf(rx[n]))]
      /\ MacSend(<<n, "rx">>, frame) /\ Protect(n, rx[n]) /\ HandlerReturns(n)
      /\ delivered' = delivered
  BY DEF Forward, Forwardable
<1>2. rx[n] \in Frames /\ rxq' = rxq /\ Handling' \subseteq Handling
  BY <1>1, HandledFrame, ReturnFacts
<1>3. rx[n].dst \in Addresses /\ rx[n].dst # Broadcast
  BY <1>1, <1>2 DEF Frames, Transit
<1>4. /\ NextHop(n, rx[n].dst) \in Addresses /\ NextHop(n, rx[n].dst) # Broadcast
  BY <1>1, <1>3, HopFacts
<1>5. /\ frame \in Frames /\ frame.dst = rx[n].dst /\ frame.link_dst = NextHop(n, rx[n].dst)
      /\ frame.src = rx[n].src /\ frame.seq = rx[n].seq /\ frame.ack_req = rx[n].ack_req
      /\ frame.hop = rx[n].hop - 1 /\ frame.is_ack = rx[n].is_ack
  <2> DEFINE hop == rx[n].hop - 1
  <2>1. hop \in 0..HopLimit
    BY <1>1, <1>2, MacBoundsAssumption DEF Frames
  <2>2. frame = [rx[n] EXCEPT !.hop = hop, !.link_src = n, !.link_dst = NextHop(n, rx[n].dst)]
    BY DEF Relayed
  <2> HIDE DEF frame
  <2>3. /\ frame \in Frames /\ frame.dst = rx[n].dst /\ frame.link_dst = NextHop(n, rx[n].dst)
        /\ frame.src = rx[n].src /\ frame.seq = rx[n].seq /\ frame.ack_req = rx[n].ack_req
        /\ frame.hop = hop /\ frame.is_ack = rx[n].is_ack
    <3> HIDE DEF hop
    <3> QED
      BY <1>2, <1>4, <2>1, <2>2 DEF Frames, Addresses
  <2> QED
    BY <2>3
<1> HIDE DEF frame
<1>6. <<n, "rx">> \in Tasks /\ tx[<<n, "rx">>].pc = "idle"
  BY <1>1 DEF Tasks, MacSend
<1>7. /\ sent \in Frames /\ sent.dst = rx[n].dst /\ sent.link_dst = NextHop(n, rx[n].dst)
      /\ sent.src = rx[n].src /\ sent.seq = rx[n].seq
      /\ sent.hop = rx[n].hop - 1 /\ sent.is_ack = rx[n].is_ack
      /\ sent.ack_req = (rx[n].ack_req /\ Broadcast \notin {frame.dst, frame.link_dst})
      /\ Sending' \subseteq Sending \cup {sent} /\ Waiting' = Waiting
  BY <1>1, <1>2, <1>5, <1>6, OneMoreFrame
<1>8. /\ tx' \in [Tasks -> Sends \cup {Idle}]
      /\ tx'[<<n, "rx">>].pc = "start" /\ tx'[<<n, "rx">>].retry = 0
      /\ tx'[<<n, "rx">>].frame = sent
      /\ \A u \in Tasks \ {<<n, "rx">>} : tx'[u] = tx[u]
  BY <1>1, <1>5, <1>6, MacSendStep
<1>9. sent.ack_req = rx[n].ack_req
  <2>1. rx[n].ack_req \in BOOLEAN
    BY <1>2 DEF Frames
  <2> HIDE DEF sent
  <2> QED
    BY <1>3, <1>4, <1>5, <1>7, <2>1
<1> HIDE DEF sent
<1>10. PacketOf(sent) = PacketOf(rx[n])
  BY <1>7, <1>9 DEF PacketOf
<1>11. UnderWay' \subseteq UnderWay \cup {sent}
  BY <1>2, <1>7 DEF UnderWay
<1> QED
  BY <1>1, <1>4, <1>6, <1>7, <1>8, <1>10, <1>11

LEMMA NetStepKeeps ==
  ASSUME ForwardingInv, NEW n \in Nodes, NetStep(n)
  PROVE  ForwardingInv'
<1> DEFINE packet == PacketOf(rx[n])
<1>1. /\ MacTypeOK /\ rx[n] # NoFrame /\ HandlerReturns(n)
      /\ tx \in [Tasks -> Sends \cup {Idle}] /\ counter \in [Nodes -> Seqs]
  BY DEF NetStep, Ignore, Deliver, DropTransit, Forward, ForwardingInv, Types, TypeOK, MacTypeOK
<1>2. /\ rx[n] \in Frames /\ rx[n] \in UnderWay /\ packet \in Known
      /\ mode' = mode /\ rxq' = rxq /\ Handling' \subseteq Handling
      /\ tx' \in [Tasks -> Sends \cup {Idle}] /\ counter' \in [Nodes -> Seqs] => MacTypeOK'
  BY <1>1, HandledFrame, ReturnFacts
<1>3. ASSUME tx' = tx, counter' = counter
      PROVE  /\ MacTypeOK' /\ Counting /\ Addressed' /\ Carried' \subseteq Carried
  <2>1. UnderWay' \subseteq UnderWay
    BY <1>2, <1>3 DEF UnderWay, Sending, Waiting
  <2>2. \A s \in Nodes : counter[s] \in Nat
    BY <1>1, MaxSeqAssumption DEF Seqs
  <2>3. Counting
    BY <1>3, <2>2 DEF Counting
  <2> QED
    BY <1>1, <1>2, <1>3, <2>1, <2>3 DEF ForwardingInv, Addressed, Carried
<1>4. CASE Ignore(n)
  <2>1. /\ tx' = tx /\ counter' = counter
        /\ UNCHANGED <<dup_cache, delivered, forwarded>>
    BY <1>4 DEF Ignore
  <2>2. Cached' = Cached
    BY <1>2, <2>1, SameSize DEF Cached, Seen
  <2>3. Known' \subseteq Known
    BY <1>3, <2>1, <2>2 DEF Known
  <2>4. Identified'
    BY <1>1, <1>3, <2>1, <2>3, IdentifiedLasts DEF ForwardingInv
  <2> QED
    BY <1>2, <1>3, <2>1, <2>4, NoneHandled
<1>5. CASE Deliver(n)
  <2>1. /\ tx' = tx /\ counter' = counter /\ forwarded' = forwarded
        /\ ForMe(n, rx[n]) /\ ~ Seen(n, packet) /\ ~ Transit(n, rx[n])
        /\ dup_cache' = [dup_cache EXCEPT ![n] = Insert(@, packet)]
        /\ delivered' = [delivered EXCEPT ![n] = Count(@, packet)]
    BY <1>5 DEF Deliver
  <2>2. packet.dst \in {n, Broadcast}
    <3>1. packet.dst = rx[n].dst
      BY DEF PacketOf
    <3> QED
      BY <1>2, <2>1, <3>1 DEF ForMe, Transit, ForwardingInv, Addressed
  <2>3. Handed(n, packet)
    BY <2>1, <2>2 DEF Handed
  <2>4. Carried' \subseteq Known
    BY <1>3, <2>1 DEF Known
  <2> HIDE DEF packet
  <2> QED
    BY <1>2, <1>3, <2>1, <2>3, <2>4, OneHandled
<1>6. CASE DropTransit(n)
  <2>1. /\ tx' = tx /\ counter' = counter /\ UNCHANGED <<delivered, forwarded>>
        /\ ~ Seen(n, packet)
        /\ dup_cache' = [dup_cache EXCEPT ![n] = Insert(@, packet)]
    BY <1>6 DEF DropTransit
  <2>2. Carried' \subseteq Known
    BY <1>3, <2>1 DEF Known
  <2> HIDE DEF packet
  <2> QED
    BY <1>2, <1>3, <2>1, <2>2, OneHandled
<1>7. CASE Forward(n)
  <2>1. /\ ~ Seen(n, packet)
        /\ dup_cache' = [dup_cache EXCEPT ![n] = Insert(@, packet)]
        /\ forwarded' = [forwarded EXCEPT ![n] = Count(@, packet)]
        /\ Protect(n, rx[n]) /\ delivered' = delivered
        /\ tx' \in [Tasks -> Sends \cup {Idle}]
    BY <1>1, <1>7, ForwardFrame
  <2>2. PICK sent \in Frames :
          /\ PacketOf(sent) = packet /\ sent.link_dst # Broadcast
          /\ UnderWay' \subseteq UnderWay \cup {sent}
    BY <1>1, <1>7, ForwardFrame
  <2>3. Addressed'
    BY <2>2 DEF ForwardingInv, Addressed
  <2>4. Carried' \subseteq Known
    BY <1>2, <2>2 DEF Carried, Known
  <2>5. Counting /\ counter' \in [Nodes -> Seqs]
    BY <1>1, <1>2, <2>1, ProtectCounts
  <2>6. MacTypeOK'
    BY <1>2, <2>1, <2>5
  <2>7. SetOut(n, packet)
    BY <2>1 DEF SetOut
  <2> HIDE DEF packet
  <2> QED
    BY <1>2, <2>1, <2>3, <2>4, <2>5, <2>6, <2>7, OneHandled
<1> QED
  BY <1>4, <1>5, <1>6, <1>7 DEF NetStep

LEMMA ForwardingStep == ForwardingInv /\ [Next]_vars => ForwardingInv'
<1> SUFFICES ASSUME ForwardingInv, [Next]_vars PROVE ForwardingInv'
  OBVIOUS
<1>1. ASSUME NEW n \in Nodes, AppSend(n) PROVE ForwardingInv'
  BY <1>1, AppSendKeeps
<1>2. ASSUME NEW n \in Nodes, MacStep(n) PROVE ForwardingInv'
  BY <1>2, MacStepKeeps
<1>3. ASSUME NEW n \in Nodes, NetStep(n) PROVE ForwardingInv'
  BY <1>3, NetStepKeeps
<1>4. CASE UNCHANGED vars
  BY <1>4
  DEF vars, ForwardingInv, Types, TypeOK, MacTypeOK, LossCap, MayLose, Caches, Slots, CacheSize,
      Addressed, Identified, Known, Carried, Cached, UnderWay, Sending, Waiting, Handling, Seen,
      Distinct, HandledIsSeen, HandledOnce, CacheHolds
<1> QED
  BY <1>1, <1>2, <1>3, <1>4 DEF Next

(* ForwardingInv holds in every state a network can get into.              *)
THEOREM ForwardingInvariance == Spec => []ForwardingInv
BY InitForwarding, ForwardingStep, PTL DEF Spec

(* The MAC state, the caches and the tallies keep their types.             *)
THEOREM TypeCorrect == Spec => []TypeOK
<1>1. ForwardingInv => TypeOK
  BY DEF ForwardingInv, Types
<1> QED
  BY <1>1, ForwardingInvariance, PTL

(* No node delivers or forwards a packet twice while its cache holds all   *)
(* the packets there are.                                                  *)
THEOREM PacketsAreHandledOnce == Spec => []HandledOnce
<1>1. ForwardingInv => HandledOnce
  BY DEF ForwardingInv
<1> QED
  BY <1>1, ForwardingInvariance, PTL

-----------------------------------------------------------------------------
(* A frame or packet for one node that the routes lead to.                 *)
Through(x) == x.dst \in Nodes /\ Reaches(x.src, x.dst)

(* A packet has got to m.                                                  *)
Handled(m) == DOMAIN delivered[m] \cup DOMAIN forwarded[m]
AtHand(m, f, p) == ~ f.is_ack /\ f.link_dst = m /\ PacketOf(f) = p
Reached(m, p) ==
  /\ m \in Nodes
  /\ \/ p \in Handled(m)
     \/ \E f \in Queued(rxq[m]) : AtHand(m, f, p)
     \/ rx[m] # NoFrame /\ AtHand(m, rx[m], p)

(* The frames under way are where the routes lead, with as many hops left. *)
Fits(f) ==
  /\ ~ f.is_ack
  /\ Through(f) => \E k \in 0..(HopLimit - 1) :
                     f.hop = HopLimit - k /\ f.link_dst = Way(f.src, f.dst)[k + 1]
OnWay == \A f \in UnderWay : Fits(f)

(* What a task sends.                                                      *)
Aimed   == \A t \in Tasks : tx[t].pc # "idle" =>
             tx[t].frame.link_dst = NextHop(t[1], tx[t].frame.dst)
Own     == \A n \in Nodes : tx[<<n, "app">>].pc # "idle" =>
             tx[<<n, "app">>].frame.src = n /\ tx[<<n, "app">>].frame.dst # n
Clear   == \A n \in Nodes : tx[<<n, "rx">>].pc # "idle" => ~ mac[n].rx_in_progress

(* What a node has handled.                                                *)
SeenHandled ==
  \A m \in Nodes : \A p \in Packets : Seen(m, p) /\ Through(p) => p \in Handled(m)
Ends ==
  \A m \in Nodes : /\ \A p \in DOMAIN delivered[m] : p.dst \in {m, Broadcast}
                   /\ \A p \in DOMAIN forwarded[m] : p.dst # m

(* Whatever has been sent once has got to the next hop.                    *)
Out(t) == \/ tx[t].pc = "wait"
          \/ t[2] = "rx" /\ tx[t].pc # "idle" /\ tx[t].retry > 0
SentReached ==
  \A t \in Tasks : Out(t) /\ Through(tx[t].frame) =>
    Reached(tx[t].frame.link_dst, PacketOf(tx[t].frame))
OkReached ==
  \A o \in outcomes : o.task[2] = "app" /\ o.result = "OK" /\ Through(o.frame) =>
    Reached(Way(o.frame.src, o.frame.dst)[1], PacketOf(o.frame))
Relaying(m, p) == tx[<<m, "rx">>].pc # "idle" /\ PacketOf(tx[<<m, "rx">>].frame) = p
ForwardedReached ==
  \A m \in Nodes : \A p \in DOMAIN forwarded[m] : Through(p) =>
    Relaying(m, p) \/ Reached(NextHop(m, p.dst), p)

ArrivalInv ==
  /\ ForwardingInv
  /\ OnWay /\ Aimed /\ Own /\ Clear
  /\ SeenHandled /\ Ends
  /\ losses = 0 => SentReached /\ OkReached /\ ForwardedReached

-----------------------------------------------------------------------------
(* Routes.                                                                 *)

(* Way is what its definition says it is: the recursion has a solution up  *)
(* to every number of hops, as the least number without one would have.    *)
LEMMA WayStep ==
  ASSUME NEW n, NEW dst
  PROVE  Way(n, dst) = [k \in 0..HopLimit |->
                          IF k = 0 THEN n
                          ELSE IF Way(n, dst)[k - 1] \in {dst, NoRoute} THEN Way(n, dst)[k - 1]
                          ELSE NextHop(Way(n, dst)[k - 1], dst)]
<1> DEFINE Next1(x) == IF x \in {dst, NoRoute} THEN x ELSE NextHop(x, dst)
           Up(at, K) == at = [k \in 0..K |-> IF k = 0 THEN n ELSE Next1(at[k - 1])]
           Bad == {K \in Nat : ~ \E at : Up(at, K)}
<1>1. Bad = {}
  <2> SUFFICES ASSUME Bad # {} PROVE FALSE
    OBVIOUS
  <2>1. PICK K \in Bad : \A J \in Bad : K <= J
    <3>1. Bad \subseteq Nat
      OBVIOUS
    <3> HIDE DEF Bad
    <3> QED
      BY <3>1, Least
  <2>2. K \in Nat /\ ~ \E at : Up(at, K)
    BY <2>1
  <2>3. CASE K = 0
    <3> DEFINE at == [k \in 0..0 |-> n]
    <3>1. Up(at, 0)
      OBVIOUS
    <3> QED
      BY <2>2, <2>3, <3>1
  <2>4. CASE K # 0
    <3>1. K - 1 \in Nat /\ K - 1 \notin Bad
      BY <2>1, <2>2, <2>4
    <3>2. PICK at : Up(at, K - 1)
      BY <3>1
    <3> DEFINE more == [k \in 0..K |-> IF k = K THEN Next1(at[K - 1]) ELSE at[k]]
    <3>3. ASSUME NEW k \in 0..K
          PROVE  more[k] = IF k = 0 THEN n ELSE Next1(more[k - 1])
      <4>1. CASE k = K
        <5>1. k - 1 \in 0..K /\ k - 1 # K /\ k # 0
          BY <2>2, <2>4, <4>1
        <5>2. more[k - 1] = at[K - 1] /\ more[k] = Next1(at[K - 1])
          BY <4>1, <5>1
        <5> QED
          BY <5>1, <5>2
      <4>2. CASE k # K
        <5>1. k \in 0..(K - 1)
          BY <2>2, <4>2
        <5>2. more[k] = at[k] /\ at[k] = IF k = 0 THEN n ELSE Next1(at[k - 1])
          BY <3>2, <4>2, <5>1
        <5>3. k # 0 => k - 1 \in 0..K /\ k - 1 # K
          BY <2>2, <5>1
        <5>4. k # 0 => more[k - 1] = at[k - 1]
          BY <5>3
        <5> QED
          BY <5>2, <5>4
      <4> QED
        BY <4>1, <4>2
    <3>4. Up(more, K)
      <4>1. more = [k \in 0..K |-> more[k]]
        OBVIOUS
      <4> HIDE DEF more, Next1
      <4> QED
        BY <3>3, <4>1
    <3> QED
      BY <2>2, <3>4
  <2> QED
    BY <2>3, <2>4
<1>2. HopLimit \in Nat
  BY MacBoundsAssumption
<1>3. \E at : Up(at, HopLimit)
  BY <1>1, <1>2
<1>4. Way(n, dst) = CHOOSE at : Up(at, HopLimit)
  BY DEF Way
<1>5. Up(Way(n, dst), HopLimit)
  <2> HIDE DEF Up
  <2> QED
    BY <1>3, <1>4
<1> QED
  BY <1>5

(* A route that leads to dst stays there, and never comes to a dead end.   *)
LEMMA WayFacts ==
  ASSUME NEW n \in Nodes, NEW dst \in Nodes, Reaches(n, dst)
  PROVE  /\ Way(n, dst)[0] = n /\ Way(n, dst)[HopLimit] = dst
         /\ \A k \in 0..HopLimit : Way(n, dst)[k] # NoRoute
         /\ \A k \in 0..(HopLimit - 1) :
              Way(n, dst)[k + 1] = IF Way(n, dst)[k] = dst THEN dst
                                   ELSE NextHop(Way(n, dst)[k], dst)
<1> DEFINE at == Way(n, dst)
<1>1. at = [k \in 0..HopLimit |-> IF k = 0 THEN n
                                  ELSE IF at[k - 1] \in {dst, NoRoute} THEN at[k - 1]
                                  ELSE NextHop(at[k - 1], dst)]
  BY WayStep
<1>2. HopLimit \in Nat \ {0}
  BY MacBoundsAssumption
<1>3. at[HopLimit] = dst
  BY DEF Reaches
<1> HIDE DEF at
<1>4. at[0] = n
  BY <1>1, <1>2
<1>5. \A k \in 0..(HopLimit - 1) :
        at[k + 1] = IF at[k] \in {dst, NoRoute} THEN at[k] ELSE NextHop(at[k], dst)
  <2> TAKE k \in 0..(HopLimit - 1)
  <2>1. k + 1 \in 0..HopLimit /\ k + 1 # 0 /\ (k + 1) - 1 = k
    BY <1>2
  <2> QED
    BY <1>1, <2>1
<1>6. ASSUME NEW k \in 0..HopLimit, at[k] = NoRoute
      PROVE  FALSE
  <2> DEFINE Left == {j \in Nat : k <= j /\ j <= HopLimit /\ at[j] # NoRoute}
  <2>1. HopLimit \in Left
    BY <1>2, <1>3, RouteAssumption
  <2>2. PICK j \in Left : \A i \in Left : j <= i
    <3>1. Left \subseteq Nat
      OBVIOUS
    <3> HIDE DEF Left
    <3> QED
      BY <2>1, <3>1, Least
  <2>3. j \in Nat /\ k <= j /\ j <= HopLimit /\ j # k
    BY <1>6, <2>2
  <2>4. j - 1 \in 0..(HopLimit - 1) /\ (j - 1) + 1 = j /\ k <= j - 1 /\ j - 1 < j
    BY <1>2, <2>3
  <2>5. at[j - 1] = NoRoute
    BY <1>2, <2>2, <2>3, <2>4
  <2>6. at[j] = NoRoute
    BY <1>5, <2>4, <2>5
  <2> QED
    BY <2>2, <2>6
<1>7. \A k \in 0..(HopLimit - 1) : at[k + 1] = IF at[k] = dst THEN dst ELSE NextHop(at[k], dst)
  <2> TAKE k \in 0..(HopLimit - 1)
  <2>1. k \in 0..HopLimit
    BY <1>2
  <2> QED
    BY <1>5, <1>6, <2>1
<1> QED
  BY <1>3, <1>4, <1>6, <1>7 DEF at

(* The routes of a network never change.                                   *)
LEMMA SameRoutes ==
  ASSUME mode' = mode
  PROVE  /\ \A n \in Nodes, d \in Addresses : NextHop(n, d)' = NextHop(n, d)
         /\ \A n \in Nodes, d \in Addresses : Way(n, d)' = Way(n, d)
         /\ \A n \in Nodes, d \in Addresses : Reaches(n, d)' = Reaches(n, d)
BY DEF NextHop, Way, Reaches

LEMMA SameThrough ==
  ASSUME mode' = mode
  PROVE  \A x \in Frames \cup Packets : Through(x)' = Through(x)
<1>1. \A x \in Frames \cup Packets : x.src \in Nodes /\ x.dst \in Addresses
  BY DEF Frames, Packets
<1> QED
  BY <1>1, SameRoutes DEF Through

LEMMA PacketThrough ==
  \A f : /\ PacketOf(f).src = f.src /\ PacketOf(f).dst = f.dst
         /\ Through(PacketOf(f)) = Through(f)
BY DEF PacketOf, Through

(* Where a frame under way to n has come to, and what is to happen there.  *)
LEMMA Underway ==
  ASSUME ArrivalInv, NEW f \in UnderWay, Through(f)
  PROVE  /\ f \in Frames /\ f.src \in Nodes /\ f.dst \in Nodes /\ f.link_dst # Broadcast
         /\ f.link_dst # f.dst =>
              /\ f.hop > 1 /\ NextHop(f.link_dst, f.dst) # NoRoute
              /\ \E k \in 0..(HopLimit - 1) :
                   /\ f.hop - 1 = HopLimit - k
                   /\ NextHop(f.link_dst, f.dst) = Way(f.src, f.dst)[k + 1]
<1>1. MacTypeOK
  BY DEF ArrivalInv, ForwardingInv, Types, TypeOK
<1>2. /\ f \in Frames /\ f.src \in Nodes /\ f.dst \in Nodes /\ f.link_dst # Broadcast
      /\ Reaches(f.src, f.dst)
  <2>1. f \in Frames
    BY <1>1, UnderWayFrames DEF UnderWay
  <2>2. f.src \in Nodes
    BY <2>1 DEF Frames
  <2>3. f.dst \in Nodes /\ Reaches(f.src, f.dst)
    BY DEF Through
  <2>4. f.link_dst # Broadcast
    BY <2>3, BroadcastAssumption DEF ArrivalInv, ForwardingInv, Addressed
  <2> QED
    BY <2>1, <2>2, <2>3, <2>4
<1> DEFINE at == Way(f.src, f.dst)
<1>3. /\ at[HopLimit] = f.dst
      /\ \A k \in 0..HopLimit : at[k] # NoRoute
      /\ \A k \in 0..(HopLimit - 1) :
           at[k + 1] = IF at[k] = f.dst THEN f.dst ELSE NextHop(at[k], f.dst)
  BY <1>2, WayFacts
<1>4. PICK k \in 0..(HopLimit - 1) : f.hop = HopLimit - k /\ f.link_dst = at[k + 1]
  BY DEF ArrivalInv, OnWay, Fits
<1>5. HopLimit \in Nat \ {0}
  BY MacBoundsAssumption
<1> HIDE DEF at
<1>6. CASE f.link_dst # f.dst
  <2>1. k + 1 # HopLimit
    BY <1>3, <1>4, <1>6
  <2>2. k + 1 \in 0..(HopLimit - 1) /\ (k + 1) + 1 \in 0..HopLimit /\ f.hop - 1 = HopLimit - (k + 1)
        /\ f.hop > 1
    BY <1>4, <1>5, <2>1
  <2>3. at[(k + 1) + 1] = NextHop(f.link_dst, f.dst)
    BY <1>3, <1>4, <1>6, <2>2
  <2>4. NextHop(f.link_dst, f.dst) # NoRoute
    BY <1>3, <2>2, <2>3
  <2> QED
    BY <1>2, <2>2, <2>3, <2>4 DEF at
<1> QED
  BY <1>2, <1>6

-----------------------------------------------------------------------------
(* The steps of the MAC.                                                   *)

(* What has got somewhere stays there, or has been handled.                *)
Lasting ==
  \A m \in Nodes, p \in Packets : Reached(m, p) /\ Through(p) => Reached(m, p)'

(* mac_send takes nothing out of a queue, and what it transmits without a  *)
(* loss is in the queue of everybody in range.                             *)
LEMMA SendStepQueues ==
  ASSUME MacTypeOK, NEW t \in Tasks, SendStep(t)
  PROVE  /\ losses \in Nat /\ losses' \in Nat /\ losses <= losses'
         /\ \A m \in Nodes : Queued(rxq[m]) \subseteq Queued(rxq'[m])
         /\ Transmit(t) /\ losses' = 0 =>
              \A m \in InRange(t[1]) : tx[t].frame \in Queued(rxq'[m])
<1>1. /\ tx[t].frame \in Frames /\ t[1] \in Nodes
  BY SendStepTask, SendUnderWay
<1>2. rxq \in [Nodes -> Seq(Frames)] /\ \A m \in Nodes : Len(rxq[m]) <= QueueDepth
  BY DEF MacTypeOK
<1>3. losses \in Nat /\ LossCap \in Nat /\ LossCap > 0
  BY Bounds DEF MacTypeOK
<1>4. CASE Transmit(t)
  <2>1. PhySend(t[1], tx[t].frame, rxq)
    BY <1>4 DEF Transmit
  <2>2. /\ losses' \in 0..LossCap /\ losses' >= losses
        /\ \A m \in Nodes : \/ rxq'[m] = rxq[m]
                            \/ /\ m \in InRange(t[1])
                               /\ Queued(rxq'[m]) = Queued(rxq[m]) \cup {tx[t].frame}
        /\ \A m \in InRange(t[1]) : tx[t].frame \in Queued(rxq'[m]) \/ OneMoreLoss
    BY <1>1, <1>2, <2>1, PhySendStep
  <2>3. losses' = 0 => ~ OneMoreLoss
    BY <1>3, <2>2 DEF OneMoreLoss
  <2> QED
    BY <1>3, <2>2, <2>3
<1>5. CASE ~ Transmit(t)
  <2>1. rxq' = rxq /\ (losses' = losses \/ losses' = losses + 1)
    BY <1>5 DEF SendStep, RaiseFlag, SetMatch, ChannelBusy, SendFails, AckTimeout
  <2> QED
    BY <1>3, <1>5, <2>1
<1> QED
  BY <1>4, <1>5

LEMMA SendStepLasting ==
  ASSUME MacTypeOK, NEW t \in Tasks, SendStep(t),
         UNCHANGED <<dup_cache, delivered, forwarded>>
  PROVE  Lasting
<1>1. rx' = rx
  BY DEF SendStep, RaiseFlag, SetMatch, ChannelBusy, Transmit, SendFails, AckTimeout
<1>2. \A m \in Nodes : Queued(rxq[m]) \subseteq Queued(rxq'[m])
  BY SendStepQueues
<1> QED
  BY <1>1, <1>2 DEF Lasting, Reached, Handled, AtHand

(* Unless something is lost, a mac_send whose frame has not got to the     *)
(* next hop has not come further than its first transmission.              *)
LEMMA SendStepOut ==
  ASSUME ArrivalInv, Settled, NEW t \in Tasks, SendStep(t), losses' = 0,
         UNCHANGED <<dup_cache, delivered, forwarded>>,
         Through(tx[t].frame), NEW m \in Nodes, m = tx[t].frame.link_dst,
         NEW p \in Packets, p = PacketOf(tx[t].frame)
  PROVE  \/ Reached(m, p)'
         \/ /\ Out(t)' => Out(t)
            /\ t[2] = "rx" => tx'[t].pc # "idle"
            /\ \A o \in outcomes' \ outcomes : o.result # "OK"
<1> DEFINE f == tx[t].frame
<1>1. /\ MacTypeOK /\ tx \in [Tasks -> Sends \cup {Idle}] /\ losses = 0
      /\ tx[t] \in Sends /\ tx[t].pc # "idle" /\ f \in Frames
  <2>1. MacTypeOK /\ tx \in [Tasks -> Sends \cup {Idle}]
    BY DEF ArrivalInv, ForwardingInv, Types, TypeOK, MacTypeOK
  <2>2. losses = 0
    <3>1. losses \in Nat /\ losses <= losses'
      BY <2>1, SendStepQueues
    <3> QED
      BY <3>1
  <2> QED
    BY <2>1, <2>2, SendStepTask, SendUnderWay
<1>2. t[1] \in Nodes /\ t[2] \in {"app", "rx"} /\ t = <<t[1], t[2]>>
  BY DEF Tasks
<1>3. /\ f.dst \in Nodes /\ f.link_dst \in Nodes /\ f.link_dst \in InRange(t[1]) /\ ~ f.is_ack
  <2>1. f \in UnderWay
    BY <1>1 DEF UnderWay, Sending
  <2>2. f.dst \in Nodes /\ f.link_dst # Broadcast /\ ~ f.is_ack
    BY <2>1, Underway DEF ArrivalInv, OnWay, Fits
  <2>3. f.link_dst = NextHop(t[1], f.dst) /\ f.link_dst \in Addresses
    BY <1>1 DEF ArrivalInv, Aimed, Frames
  <2>4. NextHop(t[1], f.dst) = Route[mode.place][t[1]][f.dst]
    BY <2>2, BroadcastAssumption DEF NextHop
  <2>5. mode.place \in Places
    BY <1>1, ModesAssumption DEF MacTypeOK
  <2>6. f.link_dst \in Nodes
    BY <2>2, <2>3 DEF Addresses
  <2>7. f.link_dst # NoRoute
    BY <2>6, RouteAssumption
  <2> QED
    BY <1>2, <2>2, <2>3, <2>4, <2>5, <2>6, <2>7 DEF Settled, InRange
<1>4. SentReached
  BY <1>1 DEF ArrivalInv
<1>5. Reached(m, p) => Reached(m, p)'
  BY <1>1, SendStepLasting, PacketThrough DEF Lasting
<1>7. ASSUME NextRetry(t), t[2] = "app"
      PROVE  ~ Out(t)' /\ \A o \in outcomes' \ outcomes : o.result # "OK"
  <2>1. Idle.pc = "idle"
    BY DEF Idle
  <2>2. /\ \/ /\ tx'[t] = [tx[t] EXCEPT !.pc = "start", !.retry = @ + 1]
              /\ outcomes' = outcomes
           \/ /\ tx'[t] = Idle
              /\ \E result \in {"NO_ACK", "MAX_RETRIES"} :
                   outcomes' = outcomes \cup {[task |-> t, frame |-> f, result |-> result]}
    BY <1>1, <1>7, NextRetryStep
  <2>3. tx'[t].pc \in {"start", "idle"}
    BY <1>1, <2>1, <2>2 DEF Sends
  <2>4. \A o \in outcomes' \ outcomes : o.result # "OK"
    BY <2>2
  <2> QED
    BY <1>7, <2>3, <2>4 DEF Out
<1>8. CASE RaiseFlag(t) \/ SetMatch(t)
  <2>1. /\ tx'[t].pc \in {"match", "cca"} /\ tx'[t].retry = tx[t].retry
        /\ outcomes' = outcomes
    BY <1>1, <1>8 DEF RaiseFlag, SetMatch, Sends
  <2> QED
    BY <1>1, <2>1 DEF Out
<1>9. CASE ChannelBusy(t)
  <2>1. t[2] = "app"
    BY <1>1, <1>2, <1>9 DEF ChannelBusy, ArrivalInv, Clear
  <2>2. CASE NextRetry(t)
    BY <1>7, <2>1, <2>2
  <2>3. CASE tx' = [tx EXCEPT ![t].attempt = @ + 1] /\ outcomes' = outcomes
    <3>1. tx'[t].pc = "cca"
      BY <1>1, <1>9, <2>3 DEF ChannelBusy, Sends
    <3> QED
      BY <2>1, <2>3, <3>1 DEF Out
  <2> QED
    BY <1>9, <2>1, <2>2, <2>3 DEF ChannelBusy
<1>10. CASE Transmit(t)
  <2>1. f \in Queued(rxq'[m])
    BY <1>1, <1>3, <1>10, SendStepQueues
  <2> QED
    BY <1>3, <2>1 DEF Reached, AtHand
<1>11. CASE SendFails(t)
  <2>1. losses' = losses + 1
    BY <1>11 DEF SendFails
  <2> QED
    BY <1>1, <2>1
<1>12. CASE AckTimeout(t)
  <2>1. Out(t)
    BY <1>12 DEF AckTimeout, Out
  <2>2. Reached(m, p)
    BY <1>4, <2>1 DEF SentReached
  <2> QED
    BY <1>5, <2>2
<1> QED
  BY <1>8, <1>9, <1>10, <1>11, <1>12 DEF SendStep

(* What a step of mac_send leaves behind in the history.                   *)
LEMMA SendStepOutcomes ==
  ASSUME MacTypeOK, NEW t \in Tasks, SendStep(t)
  PROVE  /\ outcomes \subseteq outcomes'
         /\ \A o \in outcomes' \ outcomes : o.task = t /\ o.frame = tx[t].frame
         /\ tx'[t].pc = "idle" => \E o \in outcomes' : o.task = t /\ o.frame = tx[t].frame
<1> DEFINE Told(result) == [task |-> t, frame |-> tx[t].frame, result |-> result]
<1>1. /\ tx[t].pc # "idle" /\ tx[t] \in Sends /\ tx \in [Tasks -> Sends \cup {Idle}]
  BY SendStepTask DEF MacTypeOK
<1>2. NextRetry(t) => \/ outcomes' = outcomes /\ tx'[t].pc # "idle"
                      \/ \E result \in Results : outcomes' = outcomes \cup {Told(result)}
  <2> SUFFICES ASSUME NextRetry(t)
               PROVE  \/ outcomes' = outcomes /\ tx'[t].pc # "idle"
                      \/ \E result \in Results : outcomes' = outcomes \cup {Told(result)}
    OBVIOUS
  <2>1. \/ /\ outcomes' = outcomes
           /\ tx'[t] = [tx[t] EXCEPT !.pc = "start", !.retry = @ + 1]
        \/ \E result \in {"NO_ACK", "MAX_RETRIES"} : outcomes' = outcomes \cup {Told(result)}
    BY <1>1, NextRetryStep
  <2>2. [tx[t] EXCEPT !.pc = "start", !.retry = @ + 1].pc = "start"
    BY <1>1 DEF Sends
  <2> QED
    BY <2>1, <2>2 DEF Results
<1>3. \A result \in Results : Return(t, result) => outcomes' = outcomes \cup {Told(result)}
  BY DEF Return
<1>4. \/ outcomes' = outcomes /\ tx'[t].pc # "idle"
      \/ \E result \in Results : outcomes' = outcomes \cup {Told(result)}
  <2>1. "OK" \in Results
    BY DEF Results
  <2>2. NextRetry(t) \/ Return(t, "OK") =>
          \/ outcomes' = outcomes /\ tx'[t].pc # "idle"
          \/ \E result \in Results : outcomes' = outcomes \cup {Told(result)}
    BY <1>2, <1>3, <2>1
  <2> HIDE DEF Told
  <2>3. CASE RaiseFlag(t)
    BY <1>1, <2>3 DEF RaiseFlag, Sends
  <2>4. CASE SetMatch(t)
    BY <1>1, <2>4 DEF SetMatch, Sends
  <2>5. CASE ChannelBusy(t)
    BY <1>1, <2>2, <2>5 DEF ChannelBusy, Sends
  <2>6. CASE Transmit(t)
    BY <1>1, <2>2, <2>6 DEF Transmit, Sends
  <2>7. CASE SendFails(t)
    BY <2>2, <2>7 DEF SendFails
  <2>8. CASE AckTimeout(t)
    BY <2>2, <2>8 DEF AckTimeout
  <2> QED
    BY <2>3, <2>4, <2>5, <2>6, <2>7, <2>8 DEF SendStep
<1>5. \A result : Told(result).task = t /\ Told(result).frame = tx[t].frame
  OBVIOUS
<1> HIDE DEF Told
<1> QED
  BY <1>4, <1>5

(* What is under way was so before, or is where it should be.              *)
LEMMA WayLasts ==
  ASSUME ArrivalInv, mode' = mode,
         \A f \in UnderWay' : f \in UnderWay \/ (f \in Frames /\ Fits(f))
  PROVE  OnWay'
<1> SUFFICES ASSUME NEW f \in UnderWay'
             PROVE  Fits(f)'
  BY DEF OnWay
<1>1. f \in Frames
  BY UnderWayFrames DEF ArrivalInv, ForwardingInv, Types, TypeOK, UnderWay
<1>2. f.src \in Nodes /\ f.dst \in Addresses
  BY <1>1 DEF Frames
<1>3. Through(f)' = Through(f) /\ Way(f.src, f.dst)' = Way(f.src, f.dst)
  BY <1>1, <1>2, SameThrough, SameRoutes
<1>4. Fits(f)
  BY DEF ArrivalInv, OnWay
<1> QED
  BY <1>3, <1>4 DEF Fits

LEMMA HandledLasts ==
  ASSUME ArrivalInv, mode' = mode, UNCHANGED <<dup_cache, delivered, forwarded>>
  PROVE  SeenHandled' /\ Ends'
<1>1. Ends'
  BY DEF ArrivalInv, Ends
<1>2. ASSUME NEW m \in Nodes, NEW p \in Packets, Seen(m, p)', Through(p)'
      PROVE  p \in Handled(m)'
  <2>1. Seen(m, p)
    BY <1>2, SameSize DEF Seen
  <2>2. Through(p)
    BY <1>2, SameThrough
  <2> QED
    BY <2>1, <2>2 DEF ArrivalInv, SeenHandled, Handled
<1> QED
  BY <1>1, <1>2 DEF SeenHandled

(* What got to the next hop did, as long as nothing is lost.               *)
LEMMA SendStepReached ==
  ASSUME ArrivalInv, Settled, NEW t \in Tasks, SendStep(t), MacTypeOK',
         mode' = mode, losses' = 0, UNCHANGED <<dup_cache, delivered, forwarded>>
  PROVE  SentReached' /\ OkReached' /\ ForwardedReached'
<1> DEFINE f == tx[t].frame
           p == PacketOf(f)
<1>1. /\ MacTypeOK /\ tx[t].pc # "idle" /\ f \in Frames /\ p \in Packets
      /\ \A u \in Tasks \ {t} : tx'[u] = tx[u]
      /\ tx'[t].frame = f \/ tx'[t].pc = "idle"
  <2>1. MacTypeOK
    BY DEF ArrivalInv, ForwardingInv, Types, TypeOK
  <2> QED
    BY <2>1, SendStepTask, SendUnderWay, PacketType
<1>2. losses = 0
  <2>1. losses \in Nat /\ losses <= losses'
    BY <1>1, SendStepQueues
  <2> QED
    BY <2>1
<1>3. SentReached /\ OkReached /\ ForwardedReached
  BY <1>2 DEF ArrivalInv
<1>4. \A m \in Nodes, q \in Packets : Reached(m, q) /\ Through(q) => Reached(m, q)'
  BY <1>1, SendStepLasting DEF Lasting
<1>5. Through(f) => /\ f.link_dst \in Nodes /\ f.src \in Nodes /\ f.dst \in Nodes
                    /\ f.link_dst = NextHop(t[1], f.dst)
  <2>1. f \in UnderWay
    BY <1>1 DEF UnderWay, Sending
  <2>2. Through(f) => f.link_dst # Broadcast /\ f.src \in Nodes /\ f.dst \in Nodes
    BY <2>1, Underway
  <2> QED
    BY <1>1, <2>2 DEF ArrivalInv, Aimed, Frames, Addresses
<1>6. ASSUME Through(f), NEW m \in Nodes, m = f.link_dst, NEW q \in Packets, q = p
      PROVE  \/ Reached(m, q)'
             \/ /\ ~ Out(t)'
                /\ t[2] = "rx" => tx'[t].pc # "idle"
                /\ \A o \in outcomes' \ outcomes : o.result # "OK"
  <2>1. \/ Reached(m, q)'
        \/ /\ Out(t)' => Out(t)
           /\ t[2] = "rx" => tx'[t].pc # "idle"
           /\ \A o \in outcomes' \ outcomes : o.result # "OK"
    BY <1>1, <1>6, SendStepOut
  <2>2. Out(t) => Reached(m, q)'
    <3>1. Out(t) => Reached(m, q)
      BY <1>3, <1>6 DEF SentReached
    <3> QED
      BY <1>4, <1>6, <3>1, PacketThrough
  <2> QED
    BY <2>1, <2>2
<1>8. ASSUME NEW u \in Tasks, Out(u)', Through(tx[u].frame)'
      PROVE  \E m \in Nodes, q \in Packets :
               m = tx'[u].frame.link_dst /\ q = PacketOf(tx'[u].frame) /\ Reached(m, q)'
  <2>1. tx'[u].pc # "idle"
    BY <1>8 DEF Out
  <2>2. tx'[u].frame \in Frames
    <3>1. tx'[u] \in Sends \cup {Idle} /\ Idle.pc = "idle"
      BY DEF MacTypeOK, Idle
    <3>2. tx'[u] \in Sends
      BY <2>1, <3>1
    <3> QED
      BY <3>2 DEF Sends
  <2>3. Through(tx'[u].frame)
    BY <1>8, <2>2, SameThrough DEF Through
  <2>4. CASE u = t
    BY <1>1, <1>5, <1>6, <1>8, <2>1, <2>3, <2>4
  <2>5. CASE u # t
    <3>1. tx'[u] = tx[u] /\ Out(u)
      BY <1>1, <1>8, <2>5 DEF Out
    <3>2. Reached(tx[u].frame.link_dst, PacketOf(tx[u].frame))
      BY <1>3, <2>3, <3>1 DEF SentReached
    <3>3. tx[u].frame.link_dst \in Nodes /\ PacketOf(tx[u].frame) \in Packets
      BY <2>2, <3>1, <3>2, PacketType DEF Reached
    <3>4. Through(PacketOf(tx[u].frame))
      BY <2>3, <3>1, PacketThrough
    <3> QED
      BY <1>4, <3>1, <3>2, <3>3, <3>4
  <2> QED
    BY <2>4, <2>5
<1>9. SentReached'
  <2> SUFFICES ASSUME NEW u \in Tasks, Out(u)', Through(tx[u].frame)'
               PROVE  Reached(tx[u].frame.link_dst, PacketOf(tx[u].frame))'
    BY DEF SentReached
  <2> QED
    BY <1>8 DEF Reached, Handled, AtHand
<1>10. ASSUME NEW o \in outcomes', o.task[2] = "app", o.result = "OK", Through(o.frame)'
       PROVE  \E m \in Nodes, q \in Packets :
                /\ m = Way(o.frame.src, o.frame.dst)'[1] /\ q = PacketOf(o.frame)
                /\ Reached(m, q)'
  <2>1. o.frame \in Frames
    BY DEF MacTypeOK
  <2>2. o.frame.src \in Nodes /\ o.frame.dst \in Addresses /\ PacketOf(o.frame) \in Packets
    BY <2>1, PacketType DEF Frames
  <2>3. Through(o.frame) /\ Way(o.frame.src, o.frame.dst)' = Way(o.frame.src, o.frame.dst)
    BY <1>10, <2>1, <2>2, SameThrough, SameRoutes
  <2>4. CASE o \in outcomes
    <3>1. Reached(Way(o.frame.src, o.frame.dst)[1], PacketOf(o.frame))
      BY <1>3, <1>10, <2>3, <2>4 DEF OkReached
    <3>2. Way(o.frame.src, o.frame.dst)[1] \in Nodes
      BY <3>1 DEF Reached
    <3>3. Through(PacketOf(o.frame))
      BY <2>3, PacketThrough
    <3> QED
      BY <1>4, <2>2, <2>3, <3>1, <3>2, <3>3
  <2>5. CASE o \notin outcomes
    <3>1. o.task = t /\ o.frame = f
      BY <1>1, <2>5, SendStepOutcomes
    <3>2. PICK q \in Packets : q = p
      BY <1>1
    <3>3. PICK m \in Nodes : m = f.link_dst
      BY <1>5, <2>3, <3>1
    <3>4. Reached(m, q)'
      BY <1>6, <1>10, <2>3, <2>5, <3>1, <3>2, <3>3
    <3>5. t[1] \in Nodes /\ t = <<t[1], "app">>
      BY <1>10, <3>1 DEF Tasks
    <3>6. f.src = t[1] /\ f.dst # f.src
      BY <1>1, <3>5 DEF ArrivalInv, Own
    <3>7. Way(f.src, f.dst)[1] = m
      <4>1. 0 \in 0..(HopLimit - 1) /\ 0 + 1 = 1
        BY MacBoundsAssumption
      <4>2. Way(f.src, f.dst)[0] = f.src
            /\ Way(f.src, f.dst)[0 + 1] = IF Way(f.src, f.dst)[0] = f.dst THEN f.dst
                                          ELSE NextHop(Way(f.src, f.dst)[0], f.dst)
        BY <1>5, <2>3, <3>1, <4>1, WayFacts DEF Through
      <4> QED
        BY <1>5, <2>3, <3>1, <3>3, <3>6, <4>1, <4>2
    <3>8. m = Way(o.frame.src, o.frame.dst)'[1] /\ q = PacketOf(o.frame)
      BY <2>3, <3>1, <3>2, <3>7
    <3> QED
      BY <3>4, <3>8
  <2> QED
    BY <2>4, <2>5
<1>11. OkReached'
  <2> SUFFICES ASSUME NEW o \in outcomes', o.task[2] = "app", o.result = "OK", Through(o.frame)'
               PROVE  Reached(Way(o.frame.src, o.frame.dst)[1], PacketOf(o.frame))'
    BY DEF OkReached
  <2> QED
    BY <1>10 DEF Reached, Handled, AtHand
<1>12. ASSUME NEW m \in Nodes, NEW q \in DOMAIN forwarded[m], Through(q)', ~ Relaying(m, q)'
       PROVE  \E h \in Nodes : h = NextHop(m, q.dst)' /\ Reached(h, q)'
  <2>1. q \in Packets
    BY DEF ArrivalInv, ForwardingInv, Types, TypeOK
  <2>2. q.src \in Nodes /\ q.dst \in Addresses
    BY <2>1 DEF Packets
  <2>3. Through(q) /\ NextHop(m, q.dst)' = NextHop(m, q.dst)
    BY <1>12, <2>1, <2>2, SameThrough, SameRoutes
  <2>4. CASE Reached(NextHop(m, q.dst), q)
    <3>1. NextHop(m, q.dst) \in Nodes
      BY <2>4 DEF Reached
    <3> QED
      BY <1>4, <2>1, <2>3, <2>4, <3>1
  <2>5. CASE Relaying(m, q)
    <3>1. t = <<m, "rx">>
      BY <1>1, <1>12, <2>5 DEF Relaying, Tasks
    <3>2. p = q /\ Through(f) /\ f.dst = q.dst
      BY <2>3, <2>5, <3>1, PacketThrough DEF Relaying
    <3>3. PICK h \in Nodes : h = f.link_dst
      BY <1>5, <3>2
    <3>4. tx'[t].pc = "idle"
      <4>1. tx'[t].pc # "idle" => Relaying(m, q)'
        BY <1>1, <3>1, <3>2 DEF Relaying
      <4> QED
        BY <1>12, <4>1
    <3>5. Reached(h, q)'
      BY <1>6, <2>1, <3>1, <3>2, <3>3, <3>4
    <3>6. h = NextHop(m, q.dst)'
      BY <1>5, <2>3, <3>1, <3>2, <3>3
    <3> QED
      BY <3>5, <3>6
  <2> QED
    BY <1>3, <2>3, <2>4, <2>5 DEF ForwardedReached
<1>13. ForwardedReached'
  <2> SUFFICES ASSUME NEW m \in Nodes, NEW q \in DOMAIN forwarded'[m], Through(q)',
                      ~ Relaying(m, q)'
               PROVE  Reached(NextHop(m, q.dst), q)'
    BY DEF ForwardedReached
  <2> QED
    BY <1>12 DEF Reached, Handled, AtHand
<1> QED
  BY <1>9, <1>11, <1>13

(* Every step of mac_send.                                                 *)
LEMMA SendStepArrives ==
  ASSUME ArrivalInv, Settled, NEW t \in Tasks, SendStep(t), ForwardingInv', UnderWay' \subseteq UnderWay,
         UNCHANGED <<dup_cache, delivered, forwarded>>
  PROVE  ArrivalInv'
<1>1. MacTypeOK /\ MacTypeOK'
  BY DEF ArrivalInv, ForwardingInv, Types, TypeOK
<1>2. /\ tx[t] \in Sends /\ tx[t].pc # "idle"
      /\ \A u \in Tasks \ {t} : tx'[u] = tx[u]
      /\ tx'[t].frame = tx[t].frame \/ tx'[t].pc = "idle"
      /\ tx[t].frame \in UnderWay /\ tx[t].frame \in Frames
  <2>1. /\ tx[t] \in Sends /\ tx[t].pc # "idle"
        /\ \A u \in Tasks \ {t} : tx'[u] = tx[u]
        /\ tx'[t].frame = tx[t].frame \/ tx'[t].pc = "idle"
    BY <1>1, SendStepTask
  <2> QED
    BY <2>1 DEF UnderWay, Sending, Sends
<1>3. mode' = mode
  BY DEF SendStep, RaiseFlag, SetMatch, ChannelBusy, Transmit, SendFails, AckTimeout
<1>4. OnWay'
  BY <1>1, <1>3, WayLasts
<1>5. SeenHandled' /\ Ends'
  BY <1>3, HandledLasts
<1>6. Aimed'
  <2> SUFFICES ASSUME NEW u \in Tasks, tx'[u].pc # "idle"
               PROVE  (tx[u].frame.link_dst = NextHop(u[1], tx[u].frame.dst))'
    BY DEF Aimed
  <2>1. tx'[u].frame = tx[u].frame /\ tx[u].pc # "idle"
    BY <1>2
  <2>2. tx[u].frame \in Frames /\ u[1] \in Nodes
    BY <1>1, <2>1, SendUnderWay
  <2>3. PICK d \in Addresses : d = tx[u].frame.dst
    BY <2>2 DEF Frames
  <2>4. NextHop(u[1], d)' = NextHop(u[1], d)
    BY <1>3, <2>2, SameRoutes
  <2>5. tx[u].frame.link_dst = NextHop(u[1], d)
    BY <2>1, <2>3 DEF ArrivalInv, Aimed
  <2> QED
    BY <2>1, <2>3, <2>4, <2>5 DEF NextHop
<1>7. Own'
  <2> SUFFICES ASSUME NEW n \in Nodes, tx'[<<n, "app">>].pc # "idle"
               PROVE  tx'[<<n, "app">>].frame.src = n /\ tx'[<<n, "app">>].frame.dst # n
    BY DEF Own
  <2>1. <<n, "app">> \in Tasks
    BY DEF Tasks
  <2>2. tx'[<<n, "app">>].frame = tx[<<n, "app">>].frame /\ tx[<<n, "app">>].pc # "idle"
    BY <1>2, <2>1
  <2> QED
    BY <2>2 DEF ArrivalInv, Own
<1>8. Clear'
  <2> SUFFICES ASSUME NEW n \in Nodes, tx'[<<n, "rx">>].pc # "idle"
               PROVE  ~ mac'[n].rx_in_progress
    BY DEF Clear
  <2>1. <<n, "rx">> \in Tasks
    BY DEF Tasks
  <2>2. tx[<<n, "rx">>].pc # "idle"
    BY <1>2, <2>1
  <2>3. mac \in [Nodes -> MacStates]
    BY <1>1 DEF MacTypeOK, MacStates
  <2>4. mac'[n].rx_in_progress = mac[n].rx_in_progress
    BY <2>3 DEF SendStep, RaiseFlag, SetMatch, ChannelBusy, Transmit, SendFails, AckTimeout, MacStates
  <2> QED
    BY <2>2, <2>4 DEF ArrivalInv, Clear
<1>9. losses' = 0 => SentReached' /\ OkReached' /\ ForwardedReached'
  BY <1>1, <1>3, SendStepReached
<1> QED
  BY <1>4, <1>5, <1>6, <1>7, <1>8, <1>9 DEF ArrivalInv

(* on_phy_rx moves a frame from the queue to the network layer.            *)
LEMMA ReceiveStepLasting ==
  ASSUME MacTypeOK, ~ Secure, NEW n \in Nodes, ReceiveStep(n),
         UNCHANGED <<dup_cache, delivered, forwarded>>
  PROVE  /\ Lasting
         /\ losses' = 0 => losses = 0
         /\ \A m \in Nodes : mac'[m].rx_in_progress => mac[m].rx_in_progress \/ tx[<<m, "rx">>].pc = "idle"
<1> DEFINE frame == Head(rxq[n])
<1>1. /\ ReceiveAck(n) \/ ReceiveData(n)
      /\ rx[n] = NoFrame /\ rxq[n] # <<>> /\ tx[<<n, "rx">>].pc = "idle"
  <2>1. Fresh(n, frame)
    BY DEF Fresh
  <2> QED
    BY <2>1 DEF ReceiveStep, DropReplay, ReceiveAck, ReceiveData, MayReceive, RxTaskIdle
<1>2. /\ frame \in Frames
      /\ Dequeued(n) \in [Nodes -> Seq(Frames)]
      /\ \A m \in Nodes : Len(Dequeued(n)[m]) <= QueueDepth
      /\ Queued(rxq[n]) = Queued(Dequeued(n)[n]) \cup {frame}
      /\ \A m \in Nodes \ {n} : Dequeued(n)[m] = rxq[m]
  BY <1>1, DequeueStep
<1>3. rx \in [Nodes -> Frames \cup {NoFrame}] /\ mac \in [Nodes -> MacStates]
      /\ losses \in Nat /\ LossCap \in Nat /\ LossCap > 0
  BY Bounds DEF MacTypeOK, MacStates
<1> HIDE DEF frame
<1>4. (\A m \in Nodes : Queued(Dequeued(n)[m]) \subseteq Queued(rxq'[m])) /\ losses <= losses' /\ losses' \in Nat
  <2>1. CASE rxq' = Dequeued(n) /\ losses' = losses
    BY <1>3, <2>1
  <2>2. CASE PhySend(n, AckFor(n, frame), Dequeued(n))
    <3>1. AckFor(n, frame) \in Frames
      BY <1>2, AckType
    <3>2. /\ losses' \in 0..LossCap /\ losses' >= losses
          /\ \A m \in Nodes : \/ rxq'[m] = Dequeued(n)[m]
                              \/ /\ m \in InRange(n)
                                 /\ Queued(rxq'[m]) = Queued(Dequeued(n)[m]) \cup {AckFor(n, frame)}
      BY <1>2, <2>2, <3>1, PhySendStep
    <3> QED
      BY <1>3, <3>2
  <2> QED
    BY <1>1, <2>1, <2>2 DEF ReceiveAck, ReceiveData, frame
<1>5. frame.is_ack \/ rx' = [rx EXCEPT ![n] = frame]
  BY <1>1 DEF ReceiveAck, ReceiveData, frame
<1>6. \A m \in Nodes \ {n} : rx'[m] = rx[m]
  BY <1>1, <1>3 DEF ReceiveAck, ReceiveData
<1>7. ASSUME NEW m \in Nodes, NEW p \in Packets, Reached(m, p)
      PROVE  Reached(m, p)'
  <2>1. CASE p \in Handled(m)
    BY <2>1 DEF Reached, Handled
  <2>2. CASE rx[m] # NoFrame /\ AtHand(m, rx[m], p)
    <3>1. rx'[m] = rx[m]
      BY <1>1, <1>6, <2>2
    <3> QED
      BY <2>2, <3>1 DEF Reached, AtHand
  <2>3. CASE \E f \in Queued(rxq[m]) : AtHand(m, f, p)
    <3>1. PICK f \in Queued(rxq[m]) : AtHand(m, f, p)
      BY <2>3
    <3>2. CASE f \in Queued(Dequeued(n)[m])
      BY <1>4, <3>1, <3>2 DEF Reached, AtHand
    <3>3. CASE f \notin Queued(Dequeued(n)[m])
      <4>1. m = n /\ f = frame
        BY <1>2, <3>1, <3>3
      <4>2. rx'[n] = frame
        BY <1>3, <1>5, <3>1, <4>1 DEF AtHand
      <4>3. frame # NoFrame
        BY <1>2, FrameIsSome
      <4> QED
        BY <3>1, <4>1, <4>2, <4>3 DEF Reached, AtHand
    <3> QED
      BY <3>2, <3>3
  <2> QED
    BY <1>7, <2>1, <2>2, <2>3 DEF Reached
<1>8. Lasting
  BY <1>7 DEF Lasting
<1>9. \A m \in Nodes : mac'[m].rx_in_progress => mac[m].rx_in_progress \/ tx[<<m, "rx">>].pc = "idle"
  <2>1. \A m \in Nodes \ {n} : mac'[m].rx_in_progress = mac[m].rx_in_progress
    BY <1>1, <1>3 DEF ReceiveAck, ReceiveData, MacStates
  <2> QED
    BY <1>1, <2>1
<1> QED
  BY <1>3, <1>4, <1>8, <1>9

(* What the tasks are doing goes on, but for those that begin to send.     *)
Begins(t) ==
  /\ tx[t].pc = "idle" /\ tx'[t].pc = "start" /\ tx'[t].retry = 0
  /\ tx'[t].frame.link_dst = NextHop(t[1], tx'[t].frame.dst)
  /\ t[2] = "app" => tx'[t].frame.src = t[1] /\ tx'[t].frame.dst # t[1]

LEMMA TasksGoOn ==
  ASSUME ArrivalInv, mode' = mode, MacTypeOK', Lasting, outcomes' = outcomes,
         losses' = 0 => losses = 0,
         \A t \in Tasks : tx'[t] = tx[t] \/ Begins(t),
         \A m \in Nodes : \A p \in DOMAIN forwarded'[m] :
           p \in Packets /\ (p \in DOMAIN forwarded[m] \/ Relaying(m, p)')
  PROVE  /\ Aimed' /\ Own'
         /\ losses' = 0 => SentReached' /\ OkReached' /\ ForwardedReached'
<1>1. MacTypeOK
  BY DEF ArrivalInv, ForwardingInv, Types, TypeOK
<1>2. \A t \in Tasks : tx'[t].pc # "idle" => tx'[t].frame \in Frames
  <2> TAKE t \in Tasks
  <2>1. tx'[t] \in Sends \cup {Idle} /\ Idle.pc = "idle"
    BY DEF MacTypeOK, Idle
  <2> QED
    BY <2>1 DEF Sends
<1>3. Aimed'
  <2> SUFFICES ASSUME NEW t \in Tasks, tx'[t].pc # "idle"
               PROVE  (tx[t].frame.link_dst = NextHop(t[1], tx[t].frame.dst))'
    BY DEF Aimed
  <2>1. PICK d \in Addresses : d = tx'[t].frame.dst
    BY <1>2 DEF Frames
  <2>2. tx'[t].frame.link_dst = NextHop(t[1], d)
    BY <2>1 DEF ArrivalInv, Aimed, Begins
  <2>3. t[1] \in Nodes
    BY DEF Tasks
  <2>4. NextHop(t[1], d)' = NextHop(t[1], d)
    BY <2>3, SameRoutes
  <2> QED
    BY <2>1, <2>2, <2>4 DEF NextHop
<1>4. Own'
  <2> SUFFICES ASSUME NEW n \in Nodes, tx'[<<n, "app">>].pc # "idle"
               PROVE  tx'[<<n, "app">>].frame.src = n /\ tx'[<<n, "app">>].frame.dst # n
    BY DEF Own
  <2>1. <<n, "app">> \in Tasks
    BY DEF Tasks
  <2> QED
    BY <2>1 DEF ArrivalInv, Own, Begins
<1> SUFFICES ASSUME losses' = 0
             PROVE  SentReached' /\ OkReached' /\ ForwardedReached'
  BY <1>3, <1>4
<1>5. SentReached /\ OkReached /\ ForwardedReached
  BY DEF ArrivalInv
<1>6. \A m \in Nodes, p \in Packets : Reached(m, p) /\ Through(p) => Reached(m, p)'
  BY DEF Lasting
<1>7. SentReached'
  <2> SUFFICES ASSUME NEW t \in Tasks, Out(t)', Through(tx[t].frame)'
               PROVE  Reached(tx[t].frame.link_dst, PacketOf(tx[t].frame))'
    BY DEF SentReached
  <2>1. tx'[t].pc # "idle" /\ tx'[t] = tx[t]
    BY DEF Out, Begins
  <2>2. PICK f \in Frames : f = tx[t].frame /\ f = tx'[t].frame
    BY <1>2, <2>1
  <2>3. Through(f) /\ Out(t)
    <3>1. Through(f)'
      BY <2>2 DEF Through
    <3> QED
      BY <2>1, <3>1, SameThrough DEF Out
  <2>4. Reached(f.link_dst, PacketOf(f))
    BY <1>5, <2>2, <2>3 DEF SentReached
  <2>5. f.link_dst \in Nodes /\ PacketOf(f) \in Packets
    BY <2>4, PacketType DEF Reached
  <2>6. Reached(f.link_dst, PacketOf(f))'
    BY <1>6, <2>3, <2>4, <2>5, PacketThrough
  <2> QED
    BY <2>2, <2>6 DEF Reached, Handled, AtHand
<1>8. OkReached'
  <2> SUFFICES ASSUME NEW o \in outcomes, o.task[2] = "app", o.result = "OK", Through(o.frame)'
               PROVE  Reached(Way(o.frame.src, o.frame.dst)[1], PacketOf(o.frame))'
    BY DEF OkReached
  <2>1. o.frame \in Frames
    BY <1>1 DEF MacTypeOK
  <2>2. o.frame.src \in Nodes /\ o.frame.dst \in Addresses /\ PacketOf(o.frame) \in Packets
    BY <2>1, PacketType DEF Frames
  <2>3. Through(o.frame) /\ Way(o.frame.src, o.frame.dst)' = Way(o.frame.src, o.frame.dst)
    BY <2>1, <2>2, SameThrough, SameRoutes
  <2>4. PICK m \in Nodes : m = Way(o.frame.src, o.frame.dst)[1] /\ Reached(m, PacketOf(o.frame))
    BY <1>5, <2>3 DEF OkReached, Reached
  <2>5. Reached(m, PacketOf(o.frame))'
    BY <1>6, <2>2, <2>3, <2>4, PacketThrough
  <2> QED
    BY <2>3, <2>4, <2>5 DEF Reached, Handled, AtHand
<1>9. ForwardedReached'
  <2> SUFFICES ASSUME NEW m \in Nodes, NEW p \in DOMAIN forwarded'[m], Through(p)', ~ Relaying(m, p)'
               PROVE  Reached(NextHop(m, p.dst), p)'
    BY DEF ForwardedReached
  <2>1. p \in Packets /\ p \in DOMAIN forwarded[m]
    OBVIOUS
  <2>2. p.dst \in Addresses /\ Through(p)
    BY <2>1, SameThrough DEF Packets
  <2>3. NextHop(m, p.dst)' = NextHop(m, p.dst)
    BY <2>2, SameRoutes
  <2>4. ~ Relaying(m, p)
    <3>1. <<m, "rx">> \in Tasks
      BY DEF Tasks
    <3> QED
      BY <3>1 DEF Relaying, Begins
  <2>5. PICK h \in Nodes : h = NextHop(m, p.dst) /\ Reached(h, p)
    BY <1>5, <2>1, <2>2, <2>4 DEF ForwardedReached, Reached
  <2>6. Reached(h, p)'
    BY <1>6, <2>1, <2>2, <2>5
  <2> QED
    BY <2>3, <2>5, <2>6 DEF Reached, Handled, AtHand
<1> QED
  BY <1>7, <1>8, <1>9

(* Every step of on_phy_rx.                                                *)
LEMMA ReceiveStepArrives ==
  ASSUME ArrivalInv, ~ Secure, NEW n \in Nodes, ReceiveStep(n), ForwardingInv',
         UnderWay' \subseteq UnderWay,
         UNCHANGED <<dup_cache, delivered, forwarded>>
  PROVE  ArrivalInv'
<1>1. MacTypeOK /\ MacTypeOK'
  BY DEF ArrivalInv, ForwardingInv, Types, TypeOK
<1>2. mode' = mode /\ tx' = tx /\ outcomes' = outcomes
  BY DEF ReceiveStep, DropReplay, ReceiveAck, ReceiveData
<1>3. /\ Lasting
      /\ losses' = 0 => losses = 0
      /\ \A m \in Nodes : mac'[m].rx_in_progress => mac[m].rx_in_progress \/ tx[<<m, "rx">>].pc = "idle"
  BY <1>1, ReceiveStepLasting
<1>4. OnWay'
  BY <1>1, <1>2, WayLasts
<1>5. SeenHandled' /\ Ends'
  BY <1>2, HandledLasts
<1>6. \A m \in Nodes : \A p \in DOMAIN forwarded[m] : p \in Packets
  BY DEF ArrivalInv, ForwardingInv, Types, TypeOK
<1>7. /\ Aimed' /\ Own'
      /\ losses' = 0 => SentReached' /\ OkReached' /\ ForwardedReached'
  BY <1>1, <1>2, <1>3, <1>6, TasksGoOn
<1>8. Clear'
  BY <1>2, <1>3 DEF ArrivalInv, Clear
<1> QED
  BY <1>4, <1>5, <1>7, <1>8 DEF ArrivalInv

-----------------------------------------------------------------------------
(* The steps of the network layer.                                         *)

(* umesh_send and net_route.                                               *)
LEMMA AppSendArrives ==
  ASSUME ArrivalInv, Settled, NEW n \in Nodes, AppSend(n), ForwardingInv'
  PROVE  ArrivalInv'
<1>1. MacTypeOK /\ MacTypeOK'
  BY DEF ArrivalInv, ForwardingInv, Types, TypeOK
<1>2. /\ UNCHANGED <<mode, mac, rx, rxq, outcomes, losses, dup_cache, delivered, forwarded>>
      /\ tx[<<n, "app">>].pc = "idle"
      /\ tx'[<<n, "app">>].pc = "start" /\ tx'[<<n, "app">>].retry = 0
      /\ \A u \in Tasks \ {<<n, "app">>} : tx'[u] = tx[u]
  BY <1>1, AppSendFrame
<1>3. PICK sent \in Frames :
        /\ tx'[<<n, "app">>].frame = sent
        /\ ~ sent.is_ack /\ sent.hop = HopLimit /\ sent.src = n
        /\ sent.dst \in Destinations[mode.place][n]
        /\ NextHop(n, sent.dst) # NoRoute /\ sent.link_dst = NextHop(n, sent.dst)
        /\ UnderWay' \subseteq UnderWay \cup {sent}
  BY <1>1, AppSendFrame
<1>4. sent.dst # n
  <2>1. mode.place \in Places
    BY <1>1, ModesAssumption DEF MacTypeOK
  <2> QED
    BY <1>3, <2>1 DEF Settled
<1>5. Fits(sent)
  <2> SUFFICES ASSUME Through(sent)
               PROVE  \E k \in 0..(HopLimit - 1) :
                        sent.hop = HopLimit - k /\ sent.link_dst = Way(sent.src, sent.dst)[k + 1]
    BY <1>3 DEF Fits
  <2>1. HopLimit \in Nat \ {0}
    BY MacBoundsAssumption
  <2>2. 0 \in 0..(HopLimit - 1) /\ HopLimit = HopLimit - 0
    BY <2>1
  <2>3. /\ Way(n, sent.dst)[0] = n
        /\ Way(n, sent.dst)[0 + 1] = IF Way(n, sent.dst)[0] = sent.dst THEN sent.dst
                                     ELSE NextHop(Way(n, sent.dst)[0], sent.dst)
    BY <1>3, <2>2, WayFacts DEF Through
  <2> QED
    BY <1>3, <1>4, <2>2, <2>3
<1>6. OnWay'
  BY <1>2, <1>3, <1>5, WayLasts
<1>7. SeenHandled' /\ Ends'
  BY <1>2, HandledLasts
<1>8. Lasting
  BY <1>2 DEF Lasting, Reached, Handled, AtHand
<1>9. \A t \in Tasks : tx'[t] = tx[t] \/ Begins(t)
  <2>1. Begins(<<n, "app">>)
    BY <1>2, <1>3, <1>4 DEF Begins
  <2> QED
    BY <1>2, <2>1
<1>10. \A m \in Nodes : \A p \in DOMAIN forwarded[m] : p \in Packets
  BY DEF ArrivalInv, ForwardingInv, Types, TypeOK
<1>11. /\ Aimed' /\ Own'
       /\ losses' = 0 => SentReached' /\ OkReached' /\ ForwardedReached'
  BY <1>1, <1>2, <1>8, <1>9, <1>10, TasksGoOn
<1>12. Clear'
  <2>1. \A m \in Nodes : <<m, "rx">> \in Tasks \ {<<n, "app">>}
    BY DEF Tasks
  <2> QED
    BY <1>2, <2>1 DEF ArrivalInv, Clear
<1> QED
  BY <1>6, <1>7, <1>11, <1>12 DEF ArrivalInv

(* on_mac_rx handles a packet that the routes lead to its destination, now *)
(* or earlier; and it handles nothing else.                                *)
LEMMA NetStepHandled ==
  ASSUME ArrivalInv, NEW n \in Nodes, NetStep(n), NEW packet, packet = PacketOf(rx[n])
  PROVE  /\ \A m \in Nodes : /\ DOMAIN delivered[m] \subseteq DOMAIN delivered'[m]
                             /\ DOMAIN forwarded[m] \subseteq DOMAIN forwarded'[m]
         /\ ForMe(n, rx[n]) /\ Through(packet) => packet \in Handled(n)'
         /\ \A m \in Nodes, p \in Packets :
              Seen(m, p)' /\ Through(p) => Seen(m, p) \/ p \in Handled(m)'
         /\ \A m \in Nodes : \A p \in DOMAIN delivered'[m] :
              p \in DOMAIN delivered[m] \/ p.dst \in {m, Broadcast}
         /\ \A m \in Nodes : \A p \in DOMAIN forwarded'[m] :
              \/ p \in DOMAIN forwarded[m]
              \/ p \in Packets /\ p.dst # m /\ Relaying(m, p)'
<1>1. /\ MacTypeOK /\ ForwardingInv /\ rx[n] # NoFrame /\ HandlerReturns(n) /\ SeenHandled
      /\ delivered = [m \in Nodes |-> delivered[m]] /\ forwarded = [m \in Nodes |-> forwarded[m]]
  BY DEF NetStep, Ignore, Deliver, DropTransit, Forward, ArrivalInv, ForwardingInv, Types, TypeOK
<1>2. /\ rx[n] \in Frames /\ rx[n] \in UnderWay /\ packet \in Known /\ packet \in Packets
      /\ mode' = mode /\ packet.dst = rx[n].dst /\ Through(packet) = Through(rx[n])
  BY <1>1, HandledFrame, ReturnFacts, PacketType, PacketThrough
<1>3. CASE Ignore(n)
  <2>1. UNCHANGED <<dup_cache, delivered, forwarded>> /\ (ForMe(n, rx[n]) => Seen(n, packet))
    BY <1>3 DEF Ignore
  <2>2. \A m \in Nodes, p \in Packets : Seen(m, p)' => Seen(m, p)
    BY <1>2, <2>1, SameSize DEF Seen
  <2> QED
    BY <1>1, <1>2, <2>1, <2>2 DEF SeenHandled, Handled
<1>4. ASSUME ~ Seen(n, packet), dup_cache' = [dup_cache EXCEPT ![n] = Insert(@, packet)]
      PROVE  \A m \in Nodes, p \in Packets : Seen(m, p)' => Seen(m, p) \/ (m = n /\ p = packet)
  BY <1>1, <1>2, <1>4, Insertion
<1>5. CASE Deliver(n)
  <2>1. /\ forwarded' = forwarded
        /\ ForMe(n, rx[n]) /\ ~ Seen(n, packet) /\ ~ Transit(n, rx[n])
        /\ dup_cache' = [dup_cache EXCEPT ![n] = Insert(@, packet)]
        /\ delivered' = [delivered EXCEPT ![n] = Count(@, packet)]
    BY <1>5 DEF Deliver
  <2>2. packet.dst \in {n, Broadcast}
    BY <1>1, <1>2, <2>1 DEF ForMe, Transit, ForwardingInv, Addressed
  <2>3. /\ DOMAIN delivered'[n] = DOMAIN delivered[n] \cup {packet}
        /\ \A m \in Nodes \ {n} : delivered'[m] = delivered[m]
    BY <1>1, <2>1, CountFacts
  <2>4. packet \in Handled(n)'
    BY <2>3 DEF Handled
  <2> QED
    BY <1>4, <2>1, <2>2, <2>3, <2>4
<1>6. CASE DropTransit(n)
  <2>1. /\ UNCHANGED <<delivered, forwarded>> /\ Transit(n, rx[n]) /\ ~ Seen(n, packet)
        /\ ~ Forwardable(n, rx[n])
        /\ dup_cache' = [dup_cache EXCEPT ![n] = Insert(@, packet)]
    BY <1>6 DEF DropTransit
  <2>2. ~ Through(packet)
    <3> SUFFICES ASSUME Through(rx[n]) PROVE FALSE
      BY <1>2
    <3>1. PICK f \in UnderWay : f = rx[n]
      BY <1>2
    <3>2. f.link_dst = n /\ f.dst # n
      BY <2>1, <3>1 DEF Transit
    <3>3. f.hop > 1 /\ NextHop(f.link_dst, f.dst) # NoRoute
      BY <3>1, <3>2, Underway
    <3> QED
      BY <2>1, <3>1, <3>2, <3>3 DEF Forwardable
  <2> QED
    BY <1>4, <2>1, <2>2
<1>7. CASE Forward(n)
  <2>1. /\ delivered' = delivered /\ Transit(n, rx[n]) /\ ~ Seen(n, packet)
        /\ dup_cache' = [dup_cache EXCEPT ![n] = Insert(@, packet)]
        /\ forwarded' = [forwarded EXCEPT ![n] = Count(@, packet)]
        /\ tx'[<<n, "rx">>].pc = "start" /\ PacketOf(tx'[<<n, "rx">>].frame) = packet
    BY <1>1, <1>7, ForwardFrame
  <2>2. packet.dst # n
    BY <1>2, <2>1 DEF Transit
  <2>3. /\ DOMAIN forwarded'[n] = DOMAIN forwarded[n] \cup {packet}
        /\ \A m \in Nodes \ {n} : forwarded'[m] = forwarded[m]
    BY <1>1, <2>1, CountFacts
  <2>4. packet \in Handled(n)'
    BY <2>3 DEF Handled
  <2>5. \A p : p = packet => Relaying(n, p)'
    BY <2>1 DEF Relaying, PacketOf
  <2> QED
    BY <1>2, <1>4, <2>1, <2>2, <2>3, <2>4, <2>5
<1> QED
  BY <1>3, <1>5, <1>6, <1>7 DEF NetStep

(* Every step of on_mac_rx.                                                *)
LEMMA NetStepArrives ==
  ASSUME ArrivalInv, NEW n \in Nodes, NetStep(n), ForwardingInv'
  PROVE  ArrivalInv'
<1>1. /\ MacTypeOK /\ MacTypeOK' /\ ForwardingInv /\ rx[n] # NoFrame /\ HandlerReturns(n)
      /\ rx \in [Nodes -> Frames \cup {NoFrame}] /\ mac \in [Nodes -> MacStates]
  BY DEF NetStep, Ignore, Deliver, DropTransit, Forward, ArrivalInv, ForwardingInv, Types, TypeOK,
         MacTypeOK, MacStates
<1>2. /\ UNCHANGED <<mode, rxq, outcomes, losses>> /\ rx' = [rx EXCEPT ![n] = NoFrame]
      /\ mac' = [mac EXCEPT ![n].rx_in_progress = FALSE]
  BY <1>1 DEF HandlerReturns
<1>3. PICK packet : packet = PacketOf(rx[n])
  OBVIOUS
<1>4. /\ \A m \in Nodes : /\ DOMAIN delivered[m] \subseteq DOMAIN delivered'[m]
                          /\ DOMAIN forwarded[m] \subseteq DOMAIN forwarded'[m]
      /\ ForMe(n, rx[n]) /\ Through(packet) => packet \in Handled(n)'
      /\ \A m \in Nodes, p \in Packets :
           Seen(m, p)' /\ Through(p) => Seen(m, p) \/ p \in Handled(m)'
      /\ \A m \in Nodes : \A p \in DOMAIN delivered'[m] :
           p \in DOMAIN delivered[m] \/ p.dst \in {m, Broadcast}
      /\ \A m \in Nodes : \A p \in DOMAIN forwarded'[m] :
           \/ p \in DOMAIN forwarded[m]
           \/ p \in Packets /\ p.dst # m /\ Relaying(m, p)'
  BY <1>3, NetStepHandled
<1>5. \A m \in Nodes, p \in Packets : p \in Handled(m) => p \in Handled(m)'
  BY <1>4 DEF Handled
<1>6. Lasting
  <2> SUFFICES ASSUME NEW m \in Nodes, NEW p \in Packets, Reached(m, p), Through(p)
               PROVE  Reached(m, p)'
    BY DEF Lasting
  <2>1. CASE p \in Handled(m)
    BY <1>5, <2>1 DEF Reached
  <2>2. CASE \E f \in Queued(rxq[m]) : AtHand(m, f, p)
    BY <1>2, <2>2 DEF Reached, AtHand
  <2>3. CASE rx[m] # NoFrame /\ AtHand(m, rx[m], p)
    <3>1. CASE m = n
      <4>1. ForMe(n, rx[n]) /\ p = packet
        BY <1>3, <2>3, <3>1 DEF AtHand, ForMe
      <4> QED
        BY <1>4, <3>1, <4>1 DEF Reached
    <3>2. CASE m # n
      <4>1. rx'[m] = rx[m]
        BY <1>1, <1>2, <3>2
      <4> QED
        BY <2>3, <4>1 DEF Reached, AtHand
    <3> QED
      BY <3>1, <3>2
  <2> QED
    BY <2>1, <2>2, <2>3 DEF Reached
<1>7. SeenHandled'
  <2> SUFFICES ASSUME NEW m \in Nodes, NEW p \in Packets, Seen(m, p)', Through(p)'
               PROVE  p \in Handled(m)'
    BY DEF SeenHandled
  <2>1. Through(p)
    BY <1>2, SameThrough
  <2> QED
    BY <1>4, <1>5, <2>1 DEF ArrivalInv, SeenHandled
<1>8. Ends'
  BY <1>4 DEF ArrivalInv, Ends
<1>9. /\ OnWay'
      /\ \A t \in Tasks : tx'[t] = tx[t] \/ Begins(t)
  <2>1. CASE Forward(n)
    <3>1. /\ Transit(n, rx[n]) /\ tx[<<n, "rx">>].pc = "idle"
          /\ tx'[<<n, "rx">>].pc = "start" /\ tx'[<<n, "rx">>].retry = 0
          /\ \A u \in Tasks \ {<<n, "rx">>} : tx'[u] = tx[u]
      BY <1>1, <2>1, ForwardFrame
    <3>2. PICK sent \in Frames :
            /\ tx'[<<n, "rx">>].frame = sent
            /\ sent.is_ack = rx[n].is_ack /\ sent.hop = rx[n].hop - 1
            /\ PacketOf(sent) = PacketOf(rx[n])
            /\ sent.link_dst = NextHop(n, sent.dst)
            /\ UnderWay' \subseteq UnderWay \cup {sent}
      BY <1>1, <2>1, ForwardFrame
    <3>3. PICK f \in UnderWay : f = rx[n]
      BY <1>1, HandledFrame
    <3>4. Fits(sent)
      <4>1. sent.src = f.src /\ sent.dst = f.dst /\ Through(sent) = Through(f)
        BY <3>2, <3>3 DEF PacketOf, Through
      <4>2. ~ f.is_ack
        BY DEF ArrivalInv, OnWay, Fits
      <4>3. f.link_dst = n /\ f.dst # n
        BY <3>1, <3>3 DEF Transit
      <4>4. Through(f) => \E k \in 0..(HopLimit - 1) :
                            /\ f.hop - 1 = HopLimit - k
                            /\ NextHop(f.link_dst, f.dst) = Way(f.src, f.dst)[k + 1]
        BY <4>3, Underway
      <4> QED
        BY <3>2, <3>3, <4>1, <4>2, <4>3, <4>4 DEF Fits
    <3>5. OnWay'
      BY <1>2, <3>2, <3>4, WayLasts
    <3>6. Begins(<<n, "rx">>)
      BY <3>1, <3>2 DEF Begins
    <3> QED
      BY <3>1, <3>5, <3>6
  <2>2. CASE ~ Forward(n)
    <3>1. tx' = tx
      BY <2>2 DEF NetStep, Ignore, Deliver, DropTransit
    <3>2. Handling' \subseteq Handling
      BY <1>1, ReturnFacts
    <3>3. UnderWay' \subseteq UnderWay
      BY <1>2, <3>1, <3>2 DEF UnderWay, Sending, Waiting
    <3>4. OnWay'
      BY <1>2, <3>3, WayLasts
    <3> QED
      BY <3>1, <3>4
  <2> QED
    BY <2>1, <2>2
<1>10. \A m \in Nodes : \A p \in DOMAIN forwarded'[m] :
         p \in Packets /\ (p \in DOMAIN forwarded[m] \/ Relaying(m, p)')
  BY <1>1, <1>4 DEF ForwardingInv, Types, TypeOK
<1>11. /\ Aimed' /\ Own'
       /\ losses' = 0 => SentReached' /\ OkReached' /\ ForwardedReached'
  BY <1>1, <1>2, <1>6, <1>9, <1>10, TasksGoOn
<1>12. Clear'
  <2> SUFFICES ASSUME NEW m \in Nodes, tx'[<<m, "rx">>].pc # "idle"
               PROVE  ~ mac'[m].rx_in_progress
    BY DEF Clear
  <2>1. CASE m = n
    BY <1>1, <1>2, <2>1 DEF MacStates
  <2>2. CASE m # n
    <3>1. tx'[<<m, "rx">>] = tx[<<m, "rx">>]
      <4>1. <<m, "rx">> \in Tasks \ {<<n, "rx">>}
        BY <2>2 DEF Tasks
      <4>2. Forward(n) \/ tx' = tx
        BY DEF NetStep, Ignore, Deliver, DropTransit
      <4> QED
        BY <1>1, <4>1, <4>2, ForwardFrame
    <3>2. mac'[m] = mac[m]
      BY <1>1, <1>2, <2>2
    <3> QED
      BY <3>1, <3>2 DEF ArrivalInv, Clear
  <2> QED
    BY <2>1, <2>2
<1> QED
  BY <1>7, <1>8, <1>9, <1>11, <1>12 DEF ArrivalInv

-----------------------------------------------------------------------------
(* The network.                                                            *)

LEMMA InitArrives == Init => ArrivalInv
<1> SUFFICES ASSUME Init PROVE ArrivalInv
  OBVIOUS
<1>1. ForwardingInv
  BY InitForwarding
<1>2. /\ tx = [t \in Tasks |-> Idle] /\ rx = [n \in Nodes |-> NoFrame]
      /\ rxq = [n \in Nodes |-> <<>>] /\ outcomes = {}
      /\ dup_cache = [n \in Nodes |-> [entry |-> [i \in Slots |-> NoPacket], next |-> 0]]
      /\ delivered = [n \in Nodes |-> <<>>] /\ forwarded = [n \in Nodes |-> <<>>]
  BY DEF Init, MacInit
<1>3. \A t \in Tasks : tx[t].pc = "idle"
  BY <1>2 DEF Idle
<1>4. \A n \in Nodes : <<n, "app">> \in Tasks /\ <<n, "rx">> \in Tasks
  BY DEF Tasks
<1>5. UnderWay = {}
  <2>1. \A n \in Nodes : Queued(rxq[n]) = {}
    BY <1>2 DEF Queued
  <2> QED
    BY <1>2, <1>3, <2>1 DEF UnderWay, Sending, Waiting, Handling
<1>6. \A n \in Nodes : DOMAIN delivered[n] = {} /\ DOMAIN forwarded[n] = {}
  BY <1>2
<1>7. \A m \in Nodes, p \in Packets : ~ Seen(m, p)
  BY <1>2, NoPacketIsNone DEF Seen
<1> QED
  BY <1>1, <1>2, <1>3, <1>4, <1>5, <1>6, <1>7
  DEF ArrivalInv, OnWay, Aimed, Own, Clear, SeenHandled, Ends, SentReached, Out, OkReached,
      ForwardedReached

LEMMA ArrivalStep ==
  ASSUME Open, Settled, ArrivalInv, [Next]_vars
  PROVE  ArrivalInv'
<1>1. ForwardingInv'
  BY ForwardingStep DEF ArrivalInv
<1>2. MacTypeOK /\ ~ Secure
  BY DEF Open, Secure, ArrivalInv, ForwardingInv, Types, TypeOK, MacTypeOK
<1>3. ASSUME NEW n \in Nodes, AppSend(n) PROVE ArrivalInv'
  BY <1>1, <1>3, AppSendArrives
<1>4. ASSUME NEW n \in Nodes, MacStep(n) PROVE ArrivalInv'
  <2>1. UNCHANGED <<dup_cache, delivered, forwarded>>
    BY <1>4 DEF MacStep
  <2>2. ASSUME NEW t \in Tasks, SendStep(t) PROVE ArrivalInv'
    BY <1>1, <1>2, <2>1, <2>2, SendStepFrames, SendStepArrives
  <2>3. CASE ReceiveStep(n)
    BY <1>1, <1>2, <2>1, <2>3, ReceiveStepFrames, ReceiveStepArrives
  <2> QED
    BY <1>4, <2>2, <2>3 DEF MacStep, Tasks
<1>5. ASSUME NEW n \in Nodes, NetStep(n) PROVE ArrivalInv'
  BY <1>1, <1>5, NetStepArrives
<1>6. CASE UNCHANGED vars
  <2>1. /\ UNCHANGED <<mode, mac, tx, rx, rxq, outcomes, losses, dup_cache, delivered, forwarded>>
    BY <1>6 DEF vars
  <2>2. UnderWay' = UnderWay
    BY <2>1 DEF UnderWay, Sending, Waiting, Handling
  <2>3. Lasting
    BY <2>1 DEF Lasting, Reached, Handled, AtHand
  <2>4. OnWay'
    BY <2>1, <2>2, WayLasts
  <2>5. SeenHandled' /\ Ends'
    BY <2>1, HandledLasts
  <2>6. \A m \in Nodes : \A p \in DOMAIN forwarded[m] : p \in Packets
    BY DEF ArrivalInv, ForwardingInv, Types, TypeOK
  <2>7. MacTypeOK'
    BY <1>1 DEF ForwardingInv, Types, TypeOK
  <2>8. /\ Aimed' /\ Own'
        /\ losses' = 0 => SentReached' /\ OkReached' /\ ForwardedReached'
    BY <2>1, <2>3, <2>6, <2>7, TasksGoOn
  <2>9. Clear'
    BY <2>1 DEF ArrivalInv, Clear
  <2> QED
    BY <1>1, <2>4, <2>5, <2>8, <2>9 DEF ArrivalInv
<1> QED
  BY <1>3, <1>4, <1>5, <1>6 DEF Next

(* ArrivalInv holds in every state of a network without security whose     *)
(* routes are settled.                                                     *)
THEOREM ArrivalInvariance ==
  ASSUME Open, Settled
  PROVE  Spec => []ArrivalInv
<1>1. ArrivalInv /\ [Next]_vars => ArrivalInv'
  BY ArrivalStep
<1> QED
  BY <1>1, InitArrives, PTL DEF Spec

(* At rest a packet that has got somewhere has been handled there, and     *)
(* then it has got to the next hop as well: so it has got to dst.          *)
LEMMA ReachedIsDelivered ==
  ASSUME ArrivalInv, AtRest, losses = 0,
         NEW p \in Packets, Through(p), Reached(Way(p.src, p.dst)[1], p)
  PROVE  p \in DOMAIN delivered[p.dst]
<1> DEFINE at == Way(p.src, p.dst)
<1>1. p.src \in Nodes /\ p.dst \in Nodes /\ p.dst # Broadcast
  BY BroadcastAssumption DEF Through, Packets
<1>2. /\ at[HopLimit] = p.dst
      /\ \A k \in 0..(HopLimit - 1) :
           at[k + 1] = IF at[k] = p.dst THEN p.dst ELSE NextHop(at[k], p.dst)
  BY <1>1, WayFacts DEF Through
<1>3. \A m : Reached(m, p) => m \in Nodes /\ p \in Handled(m)
  <2>1. \A m \in Nodes : rxq[m] = <<>> /\ rx[m] = NoFrame
    BY DEF AtRest
  <2>2. Queued(<<>>) = {}
    BY DEF Queued
  <2> QED
    BY <2>1, <2>2 DEF Reached
<1>4. ASSUME NEW m \in Nodes, p \in Handled(m), p \notin DOMAIN delivered[p.dst]
      PROVE  m # p.dst /\ Reached(NextHop(m, p.dst), p)
  <2>1. p \notin DOMAIN delivered[m]
    <3>1. p \in DOMAIN delivered[m] => p.dst = m
      BY <1>1 DEF ArrivalInv, Ends
    <3> QED
      BY <1>4, <3>1
  <2>2. p \in DOMAIN forwarded[m]
    BY <1>4, <2>1 DEF Handled
  <2>3. p.dst # m
    BY <2>2 DEF ArrivalInv, Ends
  <2>4. ~ Relaying(m, p)
    BY DEF AtRest, Relaying
  <2> QED
    BY <2>2, <2>3, <2>4 DEF ArrivalInv, ForwardedReached
<1>5. HopLimit \in Nat \ {0}
  BY MacBoundsAssumption
<1> HIDE DEF at
<1> SUFFICES ASSUME p \notin DOMAIN delivered[p.dst] PROVE FALSE
  OBVIOUS
<1> DEFINE Short == {k \in Nat : 1 <= k /\ k <= HopLimit /\ ~ Reached(at[k], p)}
<1>6. HopLimit \in Short
  <2>1. ~ Reached(p.dst, p)
    BY <1>3, <1>4
  <2> QED
    BY <1>2, <1>5, <2>1
<1>7. PICK k \in Short : \A j \in Short : k <= j
  <2>1. Short \subseteq Nat
    OBVIOUS
  <2> HIDE DEF Short
  <2> QED
    BY <1>6, <2>1, Least
<1>8. k \in Nat /\ 1 <= k /\ k <= HopLimit /\ ~ Reached(at[k], p) /\ k # 1
  BY <1>7 DEF at
<1>9. k - 1 \in 0..(HopLimit - 1) /\ (k - 1) + 1 = k /\ 1 <= k - 1 /\ k - 1 <= HopLimit /\ k - 1 \in Nat
      /\ k - 1 < k
  BY <1>5, <1>8
<1>10. Reached(at[k - 1], p)
  BY <1>7, <1>8, <1>9
<1>11. at[k - 1] # p.dst /\ Reached(NextHop(at[k - 1], p.dst), p)
  BY <1>3, <1>4, <1>10
<1>12. at[k] = NextHop(at[k - 1], p.dst)
  BY <1>2, <1>9, <1>11
<1> QED
  BY <1>8, <1>11, <1>12

(* Without losses and security every packet whose first mac_send succeeds  *)
(* reaches its destination, over settled routes of any length up to the    *)
(* hop limit, whatever else is sent.                                       *)
THEOREM PacketsArrive ==
  ASSUME Open, Settled
  PROVE  Spec => []ArrivesUnlessLost
<1>1. ArrivalInv => ArrivesUnlessLost
  <2> SUFFICES ASSUME ArrivalInv, AtRest, losses = 0, NEW o \in outcomes,
                      o.task[2] = "app", o.result = "OK", o.frame.dst # Broadcast,
                      Reaches(o.frame.src, o.frame.dst)
               PROVE  PacketOf(o.frame) \in DOMAIN delivered[o.frame.dst]
    BY DEF ArrivesUnlessLost
  <2>1. o.frame \in Frames
    BY DEF ArrivalInv, ForwardingInv, Types, TypeOK, MacTypeOK
  <2>2. PICK p \in Packets : p = PacketOf(o.frame)
    BY <2>1, PacketType
  <2>3. p.src = o.frame.src /\ p.dst = o.frame.dst /\ Through(o.frame) /\ Through(p)
    BY <2>1, <2>2 DEF Frames, Addresses, PacketOf, Through
  <2>4. Reached(Way(p.src, p.dst)[1], p)
    BY <2>2, <2>3 DEF ArrivalInv, OkReached
  <2>5. p \in DOMAIN delivered[p.dst]
    BY <2>3, <2>4, ReachedIsDelivered
  <2> QED
    BY <2>2, <2>3, <2>5
<1> QED
  BY <1>1, ArrivalInvariance, PTL

-----------------------------------------------------------------------------
(* The network layer is a packet service.                                  *)

(* Whatever is under way or in a cache was sent, and its source has used   *)
(* the number.                                                             *)
ServiceInv ==
  /\ ForwardingInv
  /\ Known \subseteq Accepted
  /\ \A p \in Accepted : p.seq \in 1..counter[p.src]

LEMMA AcceptedPackets ==
  ASSUME MacTypeOK
  PROVE  Accepted \subseteq Packets
<1>1. \A o \in outcomes : o.frame \in Frames
  BY DEF MacTypeOK
<1>2. \A n \in Nodes : tx[<<n, "app">>].pc # "idle" => tx[<<n, "app">>].frame \in Frames
  BY SendUnderWay DEF Tasks
<1> QED
  BY <1>1, <1>2, PacketType DEF Accepted

(* mac_send forgets no packet of the application, and invents none: when   *)
(* it ends, its frame is in the outcome.                                   *)
LEMMA SendStepAccepted ==
  ASSUME MacTypeOK, NEW t \in Tasks, SendStep(t)
  PROVE  Accepted' = Accepted
<1>1. /\ tx[t].pc # "idle"
      /\ \A u \in Tasks \ {t} : tx'[u] = tx[u]
      /\ tx'[t].frame = tx[t].frame \/ tx'[t].pc = "idle"
  BY SendStepTask
<1>2. /\ outcomes \subseteq outcomes'
      /\ \A o \in outcomes' \ outcomes : o.task = t /\ o.frame = tx[t].frame
      /\ tx'[t].pc = "idle" => \E o \in outcomes' : o.task = t /\ o.frame = tx[t].frame
  BY SendStepOutcomes
<1>3. \A n \in Nodes : <<n, "app">> \in Tasks /\ <<n, "app">>[2] = "app"
  BY DEF Tasks
<1>4. t[2] = "app" => t[1] \in Nodes /\ t = <<t[1], "app">>
  BY DEF Tasks
<1>5. t[2] = "app" => PacketOf(tx[t].frame) \in Accepted
  BY <1>1, <1>4 DEF Accepted
<1>6. Accepted' \subseteq Accepted
  <2>1. ASSUME NEW o \in outcomes', o.task[2] = "app"
        PROVE  PacketOf(o.frame) \in Accepted
    <3>1. CASE o \in outcomes
      BY <2>1, <3>1 DEF Accepted
    <3>2. CASE o \notin outcomes
      BY <1>2, <1>5, <2>1, <3>2
    <3> QED
      BY <3>1, <3>2
  <2>2. ASSUME NEW n \in Nodes, tx'[<<n, "app">>].pc # "idle"
        PROVE  PacketOf(tx'[<<n, "app">>].frame) \in Accepted
    <3>1. tx[<<n, "app">>].pc # "idle" /\ tx'[<<n, "app">>].frame = tx[<<n, "app">>].frame
      BY <1>1, <1>3, <2>2
    <3> QED
      BY <3>1 DEF Accepted
  <2> QED
    BY <2>1, <2>2 DEF Accepted, PacketOf
<1>7. Accepted \subseteq Accepted'
  <2>1. ASSUME NEW o \in outcomes, o.task[2] = "app"
        PROVE  PacketOf(o.frame) \in Accepted'
    BY <1>2, <2>1 DEF Accepted, PacketOf
  <2>2. ASSUME NEW n \in Nodes, tx[<<n, "app">>].pc # "idle"
        PROVE  PacketOf(tx[<<n, "app">>].frame) \in Accepted'
    <3>1. CASE tx'[<<n, "app">>].pc = "idle"
      <4>1. t = <<n, "app">>
        BY <1>1, <1>3, <2>2, <3>1
      <4>2. PICK o \in outcomes' : o.task = <<n, "app">> /\ o.frame = tx[<<n, "app">>].frame
        BY <1>2, <3>1, <4>1
      <4> QED
        BY <1>3, <4>2 DEF Accepted, PacketOf
    <3>2. CASE tx'[<<n, "app">>].pc # "idle"
      <4>1. tx'[<<n, "app">>].frame = tx[<<n, "app">>].frame
        BY <1>1, <1>3, <3>2
      <4> QED
        BY <3>2, <4>1 DEF Accepted, PacketOf
    <3> QED
      BY <3>1, <3>2
  <2> QED
    BY <2>1, <2>2 DEF Accepted
<1> QED
  BY <1>6, <1>7

(* A step that neither sends nor delivers changes nothing that the service *)
(* speaks of, but for what is remembered.                                  *)
LEMMA NothingServed ==
  ASSUME MacTypeOK', mode' = mode, Counting, Accepted' = Accepted, delivered' = delivered
  PROVE  [Service!Next]_Service!vars
<1>1. CacheHolds' => CacheHolds
  BY HeldBefore
<1>2. CASE ~ CacheHolds'
  BY <1>2 DEF Service!Next, Service!Forget
<1>3. CASE CacheHolds'
  <2>1. CacheHolds' = CacheHolds
    BY <1>1, <1>3 DEF CacheHolds
  <2> QED
    BY <2>1 DEF Service!vars
<1> QED
  BY <1>2, <1>3

LEMMA StillServed ==
  ASSUME ServiceInv, ForwardingInv', Counting, Known' \subseteq Known, Accepted' = Accepted
  PROVE  ServiceInv'
<1>1. MacTypeOK /\ Accepted \subseteq Packets
  BY AcceptedPackets DEF ServiceInv, ForwardingInv, Types, TypeOK
<1>2. \A p \in Accepted : p.seq \in 1..counter'[p.src]
  <2> TAKE p \in Accepted
  <2>1. p.src \in Nodes /\ p.seq \in Seqs /\ p.seq \in 1..counter[p.src]
    BY <1>1 DEF ServiceInv, Packets
  <2>2. counter[p.src] \in Nat /\ counter'[p.src] \in Nat /\ counter[p.src] <= counter'[p.src]
    BY <2>1 DEF Counting
  <2> QED
    BY <2>1, <2>2
<1> QED
  BY <1>2 DEF ServiceInv

(* umesh_send.                                                             *)
LEMMA AppSendServes ==
  ASSUME ServiceInv, NEW n \in Nodes, AppSend(n), ForwardingInv'
  PROVE  ServiceInv' /\ Service!Send
<1>1. MacTypeOK /\ MacTypeOK' /\ Accepted \subseteq Packets
  BY AcceptedPackets DEF ServiceInv, ForwardingInv, Types, TypeOK
<1>2. /\ UNCHANGED <<mode, outcomes, dup_cache, delivered>>
      /\ counter[n] \in Nat /\ counter[n] + 1 \in Seqs
      /\ counter' = [counter EXCEPT ![n] = @ + 1]
      /\ tx[<<n, "app">>].pc = "idle" /\ tx'[<<n, "app">>].pc = "start"
      /\ \A u \in Tasks \ {<<n, "app">>} : tx'[u] = tx[u]
  BY <1>1, AppSendFrame
<1>3. PICK sent \in Frames :
        /\ tx'[<<n, "app">>].frame = sent /\ sent.src = n /\ sent.seq = counter[n] + 1
        /\ UnderWay' \subseteq UnderWay \cup {sent}
  BY <1>1, AppSendFrame
<1>4. PICK p \in Packets : p = PacketOf(sent)
  BY PacketType
<1>5. p.src = n /\ p.seq = counter[n] + 1
  BY <1>3, <1>4 DEF PacketOf
<1>6. Accepted' = Accepted \cup {p}
  <2>1. \A m \in Nodes : m # n => tx'[<<m, "app">>] = tx[<<m, "app">>]
    BY <1>2 DEF Tasks
  <2>2. p \in Accepted'
    <3>1. tx'[<<n, "app">>].pc # "idle" /\ PacketOf(tx'[<<n, "app">>].frame) = p
      BY <1>2, <1>3, <1>4
    <3> QED
      BY <3>1 DEF Accepted, PacketOf
  <2>3. ASSUME NEW q \in Accepted PROVE q \in Accepted'
    <3>1. CASE \E o \in {u \in outcomes : u.task[2] = "app"} : q = PacketOf(o.frame)
      BY <1>2, <3>1 DEF Accepted, PacketOf
    <3>2. CASE \E m \in Nodes : tx[<<m, "app">>].pc # "idle" /\ q = PacketOf(tx[<<m, "app">>].frame)
      <4> PICK m \in Nodes : tx[<<m, "app">>].pc # "idle" /\ q = PacketOf(tx[<<m, "app">>].frame)
        BY <3>2
      <4>1. tx'[<<m, "app">>].pc # "idle" /\ q = PacketOf(tx'[<<m, "app">>].frame)
        BY <1>2, <2>1
      <4> QED
        BY <4>1 DEF Accepted, PacketOf
    <3> QED
      BY <3>1, <3>2 DEF Accepted
  <2>4. ASSUME NEW q \in Accepted' PROVE q \in Accepted \cup {p}
    <3>1. CASE \E o \in {u \in outcomes : u.task[2] = "app"} : q = PacketOf(o.frame)
      BY <3>1 DEF Accepted
    <3>2. CASE \E m \in Nodes : tx'[<<m, "app">>].pc # "idle" /\ q = PacketOf(tx'[<<m, "app">>].frame)
      <4> PICK m \in Nodes : tx'[<<m, "app">>].pc # "idle" /\ q = PacketOf(tx'[<<m, "app">>].frame)
        BY <3>2
      <4>1. CASE m = n
        BY <1>3, <1>4, <4>1
      <4>2. CASE m # n
        <5>1. tx[<<m, "app">>].pc # "idle" /\ q = PacketOf(tx[<<m, "app">>].frame)
          BY <2>1, <4>2
        <5> QED
          BY <5>1 DEF Accepted
      <4> QED
        BY <4>1, <4>2
    <3> QED
      BY <1>2, <3>1, <3>2 DEF Accepted, PacketOf
  <2> QED
    BY <2>2, <2>3, <2>4
<1>7. /\ \A s \in Nodes : counter'[s] = IF s = n THEN counter[n] + 1 ELSE counter[s]
      /\ \A s \in Nodes : counter[s] \in Nat
  BY <1>1, <1>2, MaxSeqAssumption DEF MacTypeOK, Seqs
<1>8. Counting
  BY <1>2, <1>7 DEF Counting
<1>9. \A q \in Accepted : ~ (q.src = p.src /\ q.seq = p.seq)
  <2> TAKE q \in Accepted
  <2>1. q.seq \in 1..counter[q.src]
    BY DEF ServiceInv
  <2> QED
    BY <1>2, <1>5, <2>1
<1>10. Service!Send
  <2>1. p \in Accepted' \ Accepted
    BY <1>6, <1>9
  <2>2. CacheHolds' => CacheHolds
    BY <1>1, <1>2, <1>8, HeldBefore
  <2> QED
    BY <1>2, <1>6, <1>9, <2>1, <2>2 DEF Service!Send, Service!Remembering
<1>11. Known' \subseteq Accepted'
  <2>1. Carried' \subseteq Carried \cup {p}
    BY <1>3, <1>4 DEF Carried
  <2>2. Cached' = Cached
    BY <1>2, SameSize DEF Cached, Seen
  <2> QED
    BY <1>6, <2>1, <2>2 DEF ServiceInv, Known
<1>12. \A q \in Accepted' : q.seq \in 1..counter'[q.src]
  <2> SUFFICES ASSUME NEW q \in Accepted PROVE q.seq \in 1..counter'[q.src]
    <3>1. p.seq \in 1..counter'[p.src]
      BY <1>2, <1>5, <1>7
    <3> QED
      BY <1>6, <3>1
  <2>1. q.src \in Nodes /\ q.seq \in 1..counter[q.src]
    BY <1>1 DEF ServiceInv, Packets
  <2> QED
    BY <1>7, <2>1
<1> QED
  BY <1>10, <1>11, <1>12 DEF ServiceInv

(* on_mac_rx: it handles what has come, and whoever forwards it leaves     *)
(* alone what identifies it.                                               *)
LEMMA NetStepServes ==
  ASSUME ServiceInv, NEW n \in Nodes, NetStep(n), ForwardingInv'
  PROVE  ServiceInv' /\ [Service!Next]_Service!vars
<1> DEFINE packet == PacketOf(rx[n])
<1>1. /\ MacTypeOK /\ MacTypeOK' /\ ForwardingInv /\ Known \subseteq Accepted
      /\ Known \subseteq Packets /\ delivered = [m \in Nodes |-> delivered[m]]
  BY KnownPackets DEF ServiceInv, ForwardingInv, Types, TypeOK
<1>2. rx[n] # NoFrame /\ HandlerReturns(n)
  BY DEF NetStep, Ignore, Deliver, DropTransit, Forward
<1>3. /\ rx[n] \in Frames /\ rx[n] \in UnderWay /\ packet \in Known
      /\ mode' = mode /\ rxq' = rxq /\ Handling' \subseteq Handling /\ outcomes' = outcomes
  BY <1>1, <1>2, HandledFrame, ReturnFacts DEF HandlerReturns
<1>4. Carried' \subseteq Known /\ Counting /\ Accepted' = Accepted
  <2>1. CASE Forward(n)
    <3>1. PICK sent \in Frames :
            PacketOf(sent) = packet /\ UnderWay' \subseteq UnderWay \cup {sent}
      BY <1>1, <2>1, ForwardFrame
    <3>2. Carried' \subseteq Known
      BY <1>3, <3>1 DEF Carried, Known
    <3>3. \A u \in Tasks \ {<<n, "rx">>} : tx'[u] = tx[u]
      BY <1>1, <2>1, ForwardFrame
    <3>4. \A m \in Nodes : tx'[<<m, "app">>] = tx[<<m, "app">>]
      BY <3>3 DEF Tasks
    <3>5. Accepted' = Accepted
      BY <1>3, <3>4 DEF Accepted, PacketOf
    <3>6. Protect(n, rx[n])
      BY <1>1, <2>1, ForwardFrame
    <3>7. Counting
      BY <1>1, <1>3, <3>6, ProtectCounts
    <3> QED
      BY <3>2, <3>5, <3>7
  <2>2. CASE ~ Forward(n)
    <3>1. tx' = tx /\ counter' = counter
      BY <2>2 DEF NetStep, Ignore, Deliver, DropTransit
    <3>2. Carried' \subseteq Known
      BY <1>3, <3>1 DEF Carried, Known, UnderWay, Sending, Waiting
    <3>3. \A s \in Nodes : counter[s] \in Nat
      BY <1>1, MaxSeqAssumption DEF MacTypeOK, Seqs
    <3>4. Counting
      BY <3>1, <3>3 DEF Counting
    <3>5. Accepted' = Accepted
      BY <1>3, <3>1 DEF Accepted, PacketOf
    <3> QED
      BY <3>2, <3>4, <3>5
  <2> QED
    BY <2>1, <2>2
<1>5. Cached' \subseteq Known
  <2>1. CASE Ignore(n)
    BY <1>3, <2>1, SameSize DEF Ignore, Cached, Seen, Known
  <2>2. CASE ~ Ignore(n)
    <3>1. ~ Seen(n, packet) /\ dup_cache' = [dup_cache EXCEPT ![n] = Insert(@, packet)]
      BY <2>2 DEF NetStep, Deliver, DropTransit, Forward
    <3> HIDE DEF packet
    <3>2. Cached' \subseteq Cached \cup {packet}
      BY <1>1, <1>3, <3>1, Insertion
    <3> QED
      BY <1>3, <3>2 DEF Known
  <2> QED
    BY <2>1, <2>2
<1>6. ServiceInv'
  BY <1>4, <1>5, StillServed DEF Known
<1>7. CASE Deliver(n)
  <2>1. /\ ForMe(n, rx[n]) /\ ~ Seen(n, packet) /\ ~ Transit(n, rx[n])
        /\ delivered' = [delivered EXCEPT ![n] = Count(@, packet)] /\ counter' = counter
    BY <1>7 DEF Deliver
  <2>2. packet \in Accepted /\ packet.dst \in {n, Broadcast}
    <3>1. packet.dst = rx[n].dst
      BY DEF PacketOf
    <3> QED
      BY <1>1, <1>3, <2>1, <3>1 DEF ForMe, Transit, ForwardingInv, Addressed
  <2> HIDE DEF packet
  <2>3. CacheHolds' = CacheHolds
    BY <1>3, <2>1, SameSize DEF CacheHolds
  <2>4. CASE packet \notin DOMAIN delivered[n]
    <3>1. Count(delivered[n], packet)
            = [p \in DOMAIN delivered[n] \cup {packet} |-> IF p = packet THEN 1 ELSE delivered[n][p]]
      BY <2>4 DEF Count
    <3>2. Service!Get(n, packet)
      BY <1>4, <2>1, <2>2, <2>3, <2>4, <3>1 DEF Service!Get, Service!Remembering
    <3> QED
      BY <1>6, <2>2, <3>2 DEF Service!Next
  <2>5. CASE packet \in DOMAIN delivered[n]
    <3>1. ~ CacheHolds
      BY <1>1, <2>1, <2>5 DEF ForwardingInv, HandledIsSeen
    <3>2. Count(delivered[n], packet) = [delivered[n] EXCEPT ![packet] = 2]
      BY <2>5 DEF Count
    <3>3. Service!GetAgain(n, packet)
      BY <1>4, <2>1, <2>3, <2>5, <3>1, <3>2 DEF Service!GetAgain
    <3> QED
      BY <1>6, <2>2, <3>3 DEF Service!Next
  <2> QED
    BY <2>4, <2>5
<1>8. CASE ~ Deliver(n)
  <2>1. delivered' = delivered
    BY <1>1, <1>8, ForwardFrame DEF NetStep, Ignore, DropTransit
  <2> QED
    BY <1>1, <1>3, <1>4, <1>6, <2>1, NothingServed
<1> QED
  BY <1>7, <1>8

LEMMA ServiceStep ==
  ASSUME ServiceInv, [Next]_vars
  PROVE  ServiceInv' /\ [Service!Next]_Service!vars
<1>1. ForwardingInv' /\ MacTypeOK /\ MacTypeOK'
  BY ForwardingStep DEF ServiceInv, ForwardingInv, Types, TypeOK
<1>2. ASSUME NEW n \in Nodes, AppSend(n)
      PROVE  ServiceInv' /\ [Service!Next]_Service!vars
  BY <1>1, <1>2, AppSendServes DEF Service!Next
<1>3. ASSUME NEW n \in Nodes, MacStep(n)
      PROVE  ServiceInv' /\ [Service!Next]_Service!vars
  <2>1. UNCHANGED <<mode, dup_cache, delivered>>
    BY <1>3 DEF MacStep, SendStep, RaiseFlag, SetMatch, ChannelBusy, Transmit, SendFails, AckTimeout,
                ReceiveStep, DropReplay, ReceiveAck, ReceiveData
  <2>2. Counting
    BY <1>1, <1>3, MacStepCounts
  <2>3. Accepted' = Accepted /\ UnderWay' \subseteq UnderWay
    <3>1. CASE ReceiveStep(n)
      <4>1. tx' = tx /\ outcomes' = outcomes
        BY <3>1 DEF ReceiveStep, DropReplay, ReceiveAck, ReceiveData
      <4> QED
        BY <1>1, <3>1, <4>1, ReceiveStepFrames DEF Accepted, PacketOf
    <3>2. CASE \E t \in Tasks : SendStep(t)
      BY <1>1, <3>2, SendStepAccepted, SendStepFrames
    <3> QED
      BY <1>3, <3>1, <3>2 DEF MacStep, Tasks
  <2>4. Known' \subseteq Known
    <3>1. Cached' = Cached
      BY <2>1, SameSize DEF Cached, Seen
    <3> QED
      BY <2>3, <3>1 DEF Known, Carried
  <2> QED
    BY <1>1, <2>1, <2>2, <2>3, <2>4, NothingServed, StillServed
<1>4. ASSUME NEW n \in Nodes, NetStep(n)
      PROVE  ServiceInv' /\ [Service!Next]_Service!vars
  BY <1>1, <1>4, NetStepServes
<1>5. CASE UNCHANGED vars
  <2>1. UNCHANGED <<mode, tx, rx, rxq, counter, outcomes, dup_cache, delivered>>
    BY <1>5 DEF vars
  <2>2. Accepted' = Accepted
    BY <2>1 DEF Accepted, PacketOf
  <2>3. Known' \subseteq Known
    BY <2>1, SameSize DEF Known, Carried, Cached, UnderWay, Sending, Waiting, Handling, Seen
  <2>4. \A s \in Nodes : counter[s] \in Nat
    BY <1>1, MaxSeqAssumption DEF MacTypeOK, Seqs
  <2>5. Counting
    BY <2>1, <2>4 DEF Counting
  <2> QED
    BY <1>1, <2>1, <2>2, <2>3, <2>5, NothingServed, StillServed
<1> QED
  BY <1>2, <1>3, <1>4, <1>5 DEF Next

(* The network layer gives applications what was sent to them, and once    *)
(* while the caches hold: over any routes, with or without security.       *)
THEOREM PacketsAreServed == Spec => PacketsServed
<1>1. Init => ServiceInv /\ Service!Init
  <2> SUFFICES ASSUME Init PROVE ServiceInv /\ Service!Init
    OBVIOUS
  <2>1. ForwardingInv /\ MacTypeOK
    BY InitForwarding DEF ForwardingInv, Types, TypeOK
  <2>2. /\ tx = [t \in Tasks |-> Idle] /\ outcomes = {}
        /\ counter = [m \in Nodes |-> 0] /\ delivered = [m \in Nodes |-> <<>>]
    BY DEF Init, MacInit
  <2>3. Accepted = {}
    BY <2>2 DEF Accepted, Idle, Tasks
  <2>4. Known = {}
    <3>1. \A p \in Known : p.src \in Nodes /\ p.seq \in 1..counter[p.src]
      BY <2>1, KnownPackets DEF ForwardingInv, Identified, Packets
    <3> QED
      BY <2>2, <3>1
  <2>5. CacheHolds
    <3>1. {p \in Nodes \X Seqs : p[2] \in 1..counter[p[1]]} = {}
      BY <2>2
    <3> QED
      BY <2>1, <3>1, SizeFacts, FS_EmptySet DEF CacheHolds
  <2> QED
    BY <2>1, <2>2, <2>3, <2>4, <2>5 DEF ServiceInv, Service!Init
<1>2. ServiceInv /\ [Next]_vars => ServiceInv' /\ [Service!Next]_Service!vars
  BY ServiceStep
<1> QED
  BY <1>1, <1>2, PTL DEF Spec, PacketsServed, Service!Spec

-----------------------------------------------------------------------------
(* Sends that end.                                                         *)

(* A mac_send of either task of a forwarding node, and so also the one     *)
(* net_forward_frame blocks the rx task with, only ever gets to a later    *)
(* round, stage or look at the channel, or ends: none is without end.      *)
THEOREM ForwardersGetOn ==
  Spec => [][\A t \in Tasks : SendGetsOn(t)]_vars
<1>1. TypeOK /\ [Next]_vars => [\A t \in Tasks : SendGetsOn(t)]_vars
  <2> SUFFICES ASSUME TypeOK, Next, NEW t \in Tasks, tx[t].pc # "idle"
               PROVE  tx'[t] = tx[t] \/ tx'[t] = Idle \/ Further(tx[t], tx'[t])
    BY DEF SendGetsOn
  <2>1. PICK n \in Nodes : AppSend(n) \/ MacStep(n) \/ NetStep(n)
    BY DEF Next
  <2>2. MacTypeOK /\ tx \in [Tasks -> Sends \cup {Idle}]
    BY DEF TypeOK, MacTypeOK
  <2>3. ASSUME NEW u, NEW frame, MacSend(u, frame)
        PROVE  tx'[t] = tx[t]
    BY <2>2, <2>3 DEF MacSend
  <2>4. CASE AppSend(n) \/ NetStep(n)
    BY <2>3, <2>4 DEF AppSend, NetStep, Ignore, Deliver, DropTransit, Forward
  <2>5. CASE MacStep(n)
    <3>1. CASE ReceiveStep(n)
      BY <3>1 DEF ReceiveStep, DropReplay, ReceiveAck, ReceiveData
    <3>2. ASSUME NEW task \in {"app", "rx"}, SendStep(<<n, task>>)
          PROVE  tx'[t] = tx[t] \/ tx'[t] = Idle \/ Further(tx[t], tx'[t])
      <4>1. <<n, task>> \in Tasks
        BY DEF Tasks
      <4> QED
        BY <2>2, <3>2, <4>1, SendStepGetsOn
    <3> QED
      BY <2>5, <3>1, <3>2 DEF MacStep
  <2> QED
    BY <2>1, <2>4, <2>5
<1> QED
  BY <1>1, TypeCorrect, PTL DEF Spec
=============================================================================
