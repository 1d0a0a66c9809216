--------------------------- MODULE MacLinkProofs ---------------------------
(***************************************************************************)
(* What holds of a MAC link for any number of nodes in any place, any      *)
(* depth of the receive queues, any number of retries, sends and losses:   *)
(* the types always; and on the single-threaded port, where a callback     *)
(* runs in the delays of mac_send only, that an acknowledged send was      *)
(* received, and that retransmission makes up for fewer losses than it has *)
(* rounds.  The ESP32 port, whose tasks preempt each other, has no such    *)
(* theorem: the run `race' shows the two flags of mac_send overtaken.      *)
(*                                                                         *)
(* The first part is about mac_send and on_phy_rx alone, whatever is above *)
(* them: each of their steps keeps the mac state, the sends under way and  *)
(* the receive queues in the types umesh_ctx_t gives them, and what        *)
(* phy_send does to the queues and to the count of losses.                 *)
(* ForwardingProofs rests on it, too.                                      *)
(*                                                                         *)
(* OkMeansReceived is not inductive.  An ACK says only a source and a      *)
(* number, so the argument has to follow it: every ACK in a queue answers  *)
(* a frame its sender heard (AcksAnswer), a source numbers a frame once    *)
(* (NumberedOnce), so an ACK that matches what mac_send waits for (Awaits) *)
(* is for the frame mac_send has under way, and for no earlier one.        *)
(***************************************************************************)
EXTENDS MacLink, FiniteSetTheorems, TLAPS

(* The frames in a queue.                                                  *)
Queued(q) == {q[i] : i \in 1..Len(q)}

-----------------------------------------------------------------------------
(* Queues and frames.                                                      *)

(* xQueueSend appends.                                                     *)
LEMMA QueuedAppend ==
  ASSUME NEW S, NEW q \in Seq(S), NEW e \in S
  PROVE  /\ Append(q, e) \in Seq(S)
         /\ Len(Append(q, e)) = Len(q) + 1
         /\ Queued(Append(q, e)) = Queued(q) \cup {e}
<1>1. /\ Append(q, e) \in Seq(S)
      /\ Len(Append(q, e)) = Len(q) + 1
      /\ Len(q) \in Nat
  OBVIOUS
<1>2. \A i \in 1..Len(q) : Append(q, e)[i] = q[i]
  OBVIOUS
<1>3. Append(q, e)[Len(q) + 1] = e
  OBVIOUS
<1>4. ASSUME NEW x \in Queued(Append(q, e))
      PROVE  x \in Queued(q) \cup {e}
  <2>1. PICK i \in 1..(Len(q) + 1) : x = Append(q, e)[i]
    BY <1>1 DEF Queued
  <2>2. i \in 1..Len(q) \/ i = Len(q) + 1
    BY <1>1, <2>1
  <2> QED
    BY <1>2, <1>3, <2>1, <2>2 DEF Queued
<1>5. ASSUME NEW x \in Queued(q) \cup {e}
      PROVE  x \in Queued(Append(q, e))
  <2>1. CASE x \in Queued(q)
    <3>1. PICK i \in 1..Len(q) : x = q[i]
      BY <2>1 DEF Queued
    <3>2. i \in 1..(Len(q) + 1) /\ x = Append(q, e)[i]
      BY <1>1, <1>2, <3>1
    <3> QED
      BY <1>1, <3>2 DEF Queued
  <2>2. CASE x = e
    <3>1. Len(q) + 1 \in 1..(Len(q) + 1)
      BY <1>1
    <3> QED
      BY <1>1, <1>3, <2>2, <3>1 DEF Queued
  <2> QED
    BY <2>1, <2>2
<1>6. Queued(Append(q, e)) = Queued(q) \cup {e}
  BY <1>4, <1>5
<1> QED
  BY <1>1, <1>6

(* The rx task takes the oldest frame.                                     *)
LEMMA QueuedTail ==
  ASSUME NEW S, NEW q \in Seq(S), q # <<>>
  PROVE  /\ Head(q) \in S /\ Tail(q) \in Seq(S)
         /\ Len(Tail(q)) = Len(q) - 1
         /\ Queued(q) = Queued(Tail(q)) \cup {Head(q)}
<1>1. /\ Head(q) \in S /\ Tail(q) \in Seq(S)
      /\ Len(Tail(q)) = Len(q) - 1
      /\ Len(q) \in Nat /\ Len(q) >= 1
      /\ Head(q) = q[1]
  OBVIOUS
<1>2. \A i \in 1..(Len(q) - 1) : Tail(q)[i] = q[i + 1]
  OBVIOUS
<1>3. ASSUME NEW x \in Queued(q)
      PROVE  x \in Queued(Tail(q)) \cup {Head(q)}
  <2>1. PICK i \in 1..Len(q) : x = q[i]
    BY DEF Queued
  <2>2. CASE i = 1
    BY <1>1, <2>1, <2>2
  <2>3. CASE i # 1
    <3>1. i - 1 \in 1..(Len(q) - 1) /\ (i - 1) + 1 = i
      BY <1>1, <2>3
    <3>2. Tail(q)[i - 1] = x
      BY <1>2, <2>1, <3>1
    <3> QED
      BY <1>1, <3>1, <3>2 DEF Queued
  <2> QED
    BY <2>2, <2>3
<1>4. ASSUME NEW x \in Queued(Tail(q)) \cup {Head(q)}
      PROVE  x \in Queued(q)
  <2>1. CASE x = Head(q)
    <3>1. 1 \in 1..Len(q)
      BY <1>1
    <3> QED
      BY <1>1, <2>1, <3>1 DEF Queued
  <2>2. CASE x \in Queued(Tail(q))
    <3>1. PICK i \in 1..(Len(q) - 1) : x = Tail(q)[i]
      BY <1>1, <2>2 DEF Queued
    <3>2. i + 1 \in 1..Len(q) /\ x = q[i + 1]
      BY <1>1, <1>2, <3>1
    <3> QED
      BY <3>2 DEF Queued
  <2> QED
    BY <2>1, <2>2
<1>5. Queued(q) = Queued(Tail(q)) \cup {Head(q)}
  BY <1>3, <1>4
<1> QED
  BY <1>1, <1>5

(* Nothing is in an empty queue, and something in any other.               *)
LEMMA QueuedEmpty ==
  ASSUME NEW S, NEW q \in Seq(S)
  PROVE  /\ Queued(q) \subseteq S
         /\ q = <<>> <=> Queued(q) = {}
<1>1. \A i \in 1..Len(q) : q[i] \in S
  OBVIOUS
<1>2. q # <<>> => 1 \in 1..Len(q)
  OBVIOUS
<1>3. q = <<>> => Len(q) = 0
  OBVIOUS
<1> QED
  BY <1>1, <1>2, <1>3 DEF Queued

(* A frame is not the mark of an rx task without one.                      *)
LEMMA FrameIsSome == \A f \in Frames : f # NoFrame
<1>1. ASSUME NEW f \in Frames
      PROVE  f # NoFrame
  <2>1. "seq" \in DOMAIN f
    BY DEF Frames
  <2>2. "seq" \notin DOMAIN NoFrame
    BY DEF NoFrame
  <2> QED
    BY <2>1, <2>2
<1> QED
  BY <1>1

-----------------------------------------------------------------------------
(* The radio.                                                              *)

(* The bounds on the losses are numbers.                                   *)
LEMMA Bounds ==
  ASSUME MacTypeOK
  PROVE  /\ MayLose \in Nat /\ MaxRetries \in Nat
         /\ LossCap \in Nat /\ LossCap > MaxRetries
         /\ \A n \in Nodes : InRange(n) \subseteq Nodes /\ n \notin InRange(n)
<1>1. mode.place \in Places
  BY ModesAssumption DEF MacTypeOK
<1>2. MayLose \in Nat /\ MaxRetries \in Nat
  BY <1>1, MacBoundsAssumption DEF MayLose
<1>3. LossCap \in Nat /\ LossCap > MaxRetries
  BY <1>2 DEF LossCap
<1>4. \A n \in Nodes : InRange(n) \subseteq Nodes /\ n \notin InRange(n)
  BY <1>1, HearsAssumption DEF InRange
<1> QED
  BY <1>2, <1>3, <1>4

(* One more loss, as far as they are counted.                              *)
OneMoreLoss == losses' > losses \/ losses' = LossCap

(* What phy_send does: every queue keeps what it has and gains at most the *)
(* frame, in range of the sender; and a node in range that does not get it *)
(* is counted as a loss.                                                   *)
LEMMA PhySendStep ==
  ASSUME MacTypeOK, NEW n \in Nodes, NEW frame \in Frames, NEW queues,
         queues \in [Nodes -> Seq(Frames)],
         \A m \in Nodes : Len(queues[m]) <= QueueDepth,
         PhySend(n, frame, queues)
  PROVE  /\ losses' \in 0..LossCap /\ losses' >= losses
         /\ rxq' \in [Nodes -> Seq(Frames)]
         /\ \A m \in Nodes : Len(rxq'[m]) <= QueueDepth
         /\ \A m \in Nodes : \/ rxq'[m] = queues[m]
                             \/ /\ m \in InRange(n)
                                /\ Queued(rxq'[m]) = Queued(queues[m]) \cup {frame}
         /\ \A m \in InRange(n) : frame \in Queued(rxq'[m]) \/ OneMoreLoss
<1>1. PICK deaf \in SUBSET InRange(n) :
        LET missed == deaf \cup (InRange(n) \cap Full(queues))
        IN  /\ losses' = IF losses + Cardinality(missed) > LossCap THEN LossCap
                         ELSE losses + Cardinality(missed)
            /\ rxq' = [m \in Nodes |-> IF m \in InRange(n) \ missed
                                       THEN Append(queues[m], frame)
                                       ELSE queues[m]]
  BY DEF PhySend
<1> DEFINE missed == deaf \cup (InRange(n) \cap Full(queues))
<1> HIDE DEF missed
<1>2. /\ losses' = IF losses + Cardinality(missed) > LossCap THEN LossCap
                   ELSE losses + Cardinality(missed)
      /\ rxq' = [m \in Nodes |-> IF m \in InRange(n) \ missed
                                 THEN Append(queues[m], frame)
                                 ELSE queues[m]]
  BY <1>1 DEF missed
<1>3. InRange(n) \subseteq Nodes /\ LossCap \in Nat
  BY Bounds
<1>4. missed \subseteq Nodes
  BY <1>3 DEF missed
<1>5. IsFiniteSet(missed)
  BY <1>4, NodesAssumption, FS_Subset
<1>6. Cardinality(missed) \in Nat /\ (missed # {} => Cardinality(missed) > 0)
  <2>1. Cardinality(missed) \in Nat
    BY <1>5, FS_CardinalityType
  <2>2. missed # {} => Cardinality(missed) # 0
    BY <1>5, FS_EmptySet
  <2> QED
    BY <2>1, <2>2
<1>7. losses \in 0..LossCap
  BY DEF MacTypeOK
<1>8. losses' \in 0..LossCap /\ losses' >= losses
  BY <1>2, <1>3, <1>6, <1>7
<1>9. missed # {} => OneMoreLoss
  BY <1>2, <1>3, <1>6, <1>7 DEF OneMoreLoss
<1>10. ASSUME NEW m \in Nodes, m \in InRange(n) \ missed
       PROVE  /\ rxq'[m] \in Seq(Frames)
              /\ Len(rxq'[m]) <= QueueDepth
              /\ Queued(rxq'[m]) = Queued(queues[m]) \cup {frame}
  <2>1. rxq'[m] = Append(queues[m], frame)
    BY <1>2, <1>10
  <2>2. queues[m] \in Seq(Frames) /\ Len(queues[m]) \in Nat
    OBVIOUS
  <2>3. Len(queues[m]) # QueueDepth
    BY <1>10 DEF missed, Full
  <2>4. Len(queues[m]) + 1 <= QueueDepth
    BY <2>2, <2>3, MacBoundsAssumption
  <2> QED
    BY <2>1, <2>2, <2>4, QueuedAppend
<1>11. ASSUME NEW m \in Nodes, m \notin InRange(n) \ missed
       PROVE  rxq'[m] = queues[m]
  BY <1>2, <1>11
<1>12. rxq' \in [Nodes -> Seq(Frames)]
  <2>1. \A m \in Nodes : rxq'[m] \in Seq(Frames)
    BY <1>10, <1>11
  <2>2. rxq' = [m \in Nodes |-> rxq'[m]]
    BY <1>2
  <2> QED
    BY <2>1, <2>2
<1>13. \A m \in InRange(n) : frame \in Queued(rxq'[m]) \/ OneMoreLoss
  BY <1>3, <1>9, <1>10
<1> QED
  BY <1>8, <1>10, <1>11, <1>12, <1>13

-----------------------------------------------------------------------------
(* The types.                                                              *)

(* umesh_init leaves every flag down and nothing under way.                *)
LEMMA MacInitType == MacInit => MacTypeOK
<1> SUFFICES ASSUME MacInit PROVE MacTypeOK
  OBVIOUS
<1>1. 0 \in Seqs
  BY MaxSeqAssumption DEF Seqs
<1>2. NoMatch \in Matches
  BY <1>1 DEF NoMatch, Matches, Addresses
<1>3. EmptyWindow \in Windows
  BY <1>1 DEF EmptyWindow, Windows
<1>4. mode \in Modes /\ mode.place \in Places
  BY ModesAssumption DEF MacInit
<1>5. 0 \in 0..LossCap
  BY <1>4, MacBoundsAssumption DEF LossCap, MayLose
<1>6. mac \in [Nodes -> [waiting_ack : BOOLEAN, ack_received : BOOLEAN,
                         match : Matches, rx_in_progress : BOOLEAN]]
  BY <1>2 DEF MacInit
<1>7. tx \in [Tasks -> Sends \cup {Idle}]
  BY DEF MacInit
<1>8. /\ rxq \in [Nodes -> Seq(Frames)]
      /\ \A n \in Nodes : Len(rxq[n]) <= QueueDepth
  BY MacBoundsAssumption DEF MacInit
<1>9. replay \in [Nodes -> [Nodes -> Windows]]
  BY <1>3 DEF MacInit
<1>10. /\ rx \in [Nodes -> Frames \cup {NoFrame}]
       /\ counter \in [Nodes -> Seqs]
       /\ outcomes \in SUBSET [task : Tasks, frame : Frames, result : Results]
       /\ heard \in [Nodes -> SUBSET Frames]
       /\ losses \in 0..LossCap
  BY <1>1, <1>5 DEF MacInit
<1> QED
  BY <1>4, <1>6, <1>7, <1>8, <1>9, <1>10 DEF MacTypeOK

(* A task that is in mac_send has a frame, and a round and an attempt      *)
(* within their bounds.                                                    *)
LEMMA SendUnderWay ==
  ASSUME MacTypeOK, NEW t \in Tasks, tx[t].pc # "idle"
  PROVE  /\ tx[t] \in Sends
         /\ tx[t].frame \in Frames
         /\ tx[t].retry \in 0..MaxRetries /\ tx[t].attempt \in 0..MaxRetries
         /\ t[1] \in Nodes
<1>1. tx[t] \in Sends \cup {Idle}
  BY DEF MacTypeOK
<1>2. tx[t] \in Sends
  BY <1>1 DEF Idle
<1> QED
  BY <1>2 DEF Sends, Tasks

(* mac_send takes a frame as it is, but for the ACK request of a broadcast. *)
LEMMA MacSendStep ==
  ASSUME MacTypeOK, NEW t \in Tasks, NEW frame \in Frames, MacSend(t, frame)
  PROVE  /\ tx' \in [Tasks -> Sends \cup {Idle}]
         /\ tx'[t].pc = "start"
         /\ tx'[t].retry = 0
         /\ tx'[t].frame =
              [frame EXCEPT !.ack_req = @ /\ Broadcast \notin {frame.dst,
                                                               frame.link_dst}]
         /\ \A u \in Tasks \ {t} : tx'[u] = tx[u]
<1> DEFINE sent == [frame EXCEPT
                      !.ack_req = @ /\ Broadcast \notin {frame.dst,
                                                         frame.link_dst}]
           next == [pc |-> "start", frame |-> sent, retry |-> 0, attempt |-> 0]
<1>1. tx' = [tx EXCEPT ![t] = next]
  BY DEF MacSend
<1>2. sent \in Frames
  BY DEF Frames
<1>3. next \in Sends
  BY <1>2, MacBoundsAssumption DEF Sends
<1>4. tx \in [Tasks -> Sends \cup {Idle}]
  BY DEF MacTypeOK
<1> HIDE DEF sent
<1>5. tx'[t] = next
  BY <1>1, <1>4
<1>6. tx' \in [Tasks -> Sends \cup {Idle}]
  BY <1>1, <1>3, <1>4
<1>7. \A u \in Tasks \ {t} : tx'[u] = tx[u]
  BY <1>1, <1>4
<1> QED
  BY <1>5, <1>6, <1>7 DEF sent

(* The result of mac_send is one of those umesh.h names.                   *)
LEMMA ReturnStep ==
  ASSUME MacTypeOK, NEW t \in Tasks, tx[t].pc # "idle",
         NEW result \in Results, Return(t, result)
  PROVE  /\ tx' \in [Tasks -> Sends \cup {Idle}]
         /\ outcomes' \in SUBSET [task : Tasks, frame : Frames,
                                  result : Results]
         /\ tx'[t] = Idle
         /\ \A u \in Tasks \ {t} : tx'[u] = tx[u]
<1>1. tx \in [Tasks -> Sends \cup {Idle}]
  BY DEF MacTypeOK
<1>2. tx[t].frame \in Frames
  BY SendUnderWay
<1>3. tx' = [tx EXCEPT ![t] = Idle]
  BY DEF Return
<1>4. /\ tx' \in [Tasks -> Sends \cup {Idle}]
      /\ tx'[t] = Idle
      /\ \A u \in Tasks \ {t} : tx'[u] = tx[u]
  BY <1>1, <1>3
<1>5. outcomes' \in SUBSET [task : Tasks, frame : Frames, result : Results]
  BY <1>2 DEF Return, MacTypeOK
<1> QED
  BY <1>4, <1>5

(* A failed round starts the next one or ends mac_send with an error.      *)
LEMMA NextRetryStep ==
  ASSUME MacTypeOK, NEW t \in Tasks, tx[t].pc # "idle", NextRetry(t)
  PROVE  /\ tx' \in [Tasks -> Sends \cup {Idle}]
         /\ outcomes' \in SUBSET [task : Tasks, frame : Frames,
                                  result : Results]
         /\ \A u \in Tasks \ {t} : tx'[u] = tx[u]
         /\ \/ /\ tx[t].retry < MaxRetries
               /\ tx'[t] = [tx[t] EXCEPT !.pc = "start", !.retry = @ + 1]
               /\ outcomes' = outcomes
            \/ /\ tx[t].retry = MaxRetries
               /\ tx'[t] = Idle
               /\ \E result \in {"NO_ACK", "MAX_RETRIES"} :
                    outcomes' = outcomes \cup
                      {[task |-> t, frame |-> tx[t].frame, result |-> result]}
<1>1. /\ tx \in [Tasks -> Sends \cup {Idle}]
      /\ outcomes \in SUBSET [task : Tasks, frame : Frames, result : Results]
  BY DEF MacTypeOK
<1>2. /\ tx[t] \in Sends
      /\ tx[t].retry \in 0..MaxRetries
  BY SendUnderWay
<1>3. MaxRetries \in Nat
  BY MacBoundsAssumption
<1>4. CASE tx[t].retry < MaxRetries
  <2> DEFINE next == [tx[t] EXCEPT !.pc = "start", !.retry = @ + 1]
  <2>1. tx' = [tx EXCEPT ![t].pc = "start", ![t].retry = @ + 1]
        /\ outcomes' = outcomes
    BY <1>4 DEF NextRetry
  <2>2. tx' = [tx EXCEPT ![t] = next]
    BY <1>1, <1>2, <2>1 DEF Sends
  <2>3. tx[t].retry + 1 \in 0..MaxRetries
    BY <1>2, <1>3, <1>4
  <2>4. next \in Sends
    BY <1>2, <2>3 DEF Sends
  <2> HIDE DEF next
  <2>5. /\ tx' \in [Tasks -> Sends \cup {Idle}]
        /\ tx'[t] = next
        /\ \A u \in Tasks \ {t} : tx'[u] = tx[u]
    BY <1>1, <2>2, <2>4
  <2> QED
    BY <1>1, <1>4, <2>1, <2>5 DEF next
<1>5. CASE ~ tx[t].retry < MaxRetries
  <2>1. PICK result \in {"NO_ACK", "MAX_RETRIES"} : Return(t, result)
    BY <1>5 DEF NextRetry
  <2>2. result \in Results
    BY DEF Results
  <2>3. tx[t].retry = MaxRetries
    BY <1>2, <1>3, <1>5
  <2>4. outcomes' = outcomes \cup
          {[task |-> t, frame |-> tx[t].frame, result |-> result]}
    BY <2>1 DEF Return
  <2>5. /\ tx' \in [Tasks -> Sends \cup {Idle}]
        /\ outcomes' \in SUBSET [task : Tasks, frame : Frames,
                                 result : Results]
        /\ tx'[t] = Idle
        /\ \A u \in Tasks \ {t} : tx'[u] = tx[u]
    BY <2>1, <2>2, ReturnStep
  <2> QED
    BY <2>3, <2>4, <2>5
<1> QED
  BY <1>4, <1>5

(* The flags and the ACK a node waits for.                                 *)
MacStates == [waiting_ack : BOOLEAN, ack_received : BOOLEAN,
              match : Matches, rx_in_progress : BOOLEAN]

(* Every step of mac_send keeps the types.                                 *)
LEMMA SendStepType ==
  ASSUME MacTypeOK, NEW t \in Tasks, SendStep(t)
  PROVE  MacTypeOK'
<1> USE DEF MacStates
<1>0. /\ mode' = mode
      /\ LossCap' = LossCap
      /\ t[1] \in Nodes
      /\ mac \in [Nodes -> MacStates]
      /\ tx \in [Tasks -> Sends \cup {Idle}]
  BY DEF SendStep, RaiseFlag, SetMatch, ChannelBusy, Transmit, SendFails,
         AckTimeout, LossCap, MayLose, Tasks, MacTypeOK
<1>zero. 0 \in 0..MaxRetries
  BY MacBoundsAssumption
<1>1. CASE RaiseFlag(t)
  <2>1. tx[t] \in Sends
    BY <1>1, SendUnderWay DEF RaiseFlag
  <2>2. CASE NeedsAck(tx[t].frame)
    <3> DEFINE next == [tx[t] EXCEPT !.pc = "match"]
    <3>1. mac' \in [Nodes -> MacStates]
      <4> DEFINE up == [mac[t[1]] EXCEPT !.waiting_ack = TRUE,
                                         !.ack_received = FALSE]
      <4>1. mac' = [mac EXCEPT ![t[1]] = up]
        BY <1>0, <1>1, <2>2 DEF RaiseFlag
      <4>2. up \in MacStates
        BY <1>0
      <4> HIDE DEF up
      <4> QED
        BY <1>0, <4>1, <4>2
    <3>2. tx' = [tx EXCEPT ![t] = next]
      BY <1>1, <2>2, <1>0 DEF RaiseFlag
    <3>3. next \in Sends
      BY <2>1 DEF Sends
    <3>4. tx' \in [Tasks -> Sends \cup {Idle}]
      BY <1>0, <3>2, <3>3
    <3> QED
      BY <1>0, <1>1, <3>1, <3>4 DEF RaiseFlag, MacTypeOK
  <2>3. CASE ~ NeedsAck(tx[t].frame)
    <3> DEFINE next == [tx[t] EXCEPT !.pc = "cca", !.attempt = 0]
    <3>2. tx' = [tx EXCEPT ![t] = next]
      BY <1>1, <2>3, <1>0 DEF RaiseFlag
    <3>3. next \in Sends
      BY <1>zero, <2>1 DEF Sends
    <3>4. tx' \in [Tasks -> Sends \cup {Idle}]
      BY <1>0, <3>2, <3>3
    <3> QED
      BY <1>0, <1>1, <2>3, <3>4 DEF RaiseFlag, MacTypeOK
  <2> QED
    BY <2>2, <2>3
<1>2. CASE SetMatch(t)
  <2> DEFINE next  == [tx[t] EXCEPT !.pc = "cca", !.attempt = 0]
             match == [src |-> tx[t].frame.link_dst, dst |-> tx[t].frame.src,
                       seq |-> tx[t].frame.seq]
  <2>1. tx[t] \in Sends /\ tx[t].frame \in Frames
    BY <1>2, SendUnderWay DEF SetMatch
  <2>2. tx' = [tx EXCEPT ![t] = next]
    BY <1>0, <1>2 DEF SetMatch
  <2>3. next \in Sends
    BY <1>zero, <2>1 DEF Sends
  <2>4. tx' \in [Tasks -> Sends \cup {Idle}]
    BY <1>0, <2>2, <2>3
  <2>5. match \in Matches
    BY <2>1 DEF Matches, Frames, Addresses
  <2>6. mac' = [mac EXCEPT ![t[1]].match = match]
    BY <1>2 DEF SetMatch
  <2> HIDE DEF match
  <2>7. mac' \in [Nodes -> MacStates]
    BY <1>0, <2>5, <2>6
  <2> QED
    BY <1>0, <1>2, <2>4, <2>7 DEF SetMatch, MacTypeOK
<1>3. CASE ChannelBusy(t)
  <2>1. CASE tx[t].attempt < MaxRetries
    <3> DEFINE next == [tx[t] EXCEPT !.attempt = @ + 1]
    <3>1. tx[t] \in Sends /\ tx[t].attempt \in 0..MaxRetries
      BY <1>3, SendUnderWay DEF ChannelBusy
    <3>2. tx' = [tx EXCEPT ![t] = next]
      BY <1>0, <1>3, <2>1 DEF ChannelBusy
    <3>3. tx[t].attempt + 1 \in 0..MaxRetries
      BY <2>1, <3>1, MacBoundsAssumption
    <3>4. next \in Sends
      BY <3>1, <3>3 DEF Sends
    <3>5. tx' \in [Tasks -> Sends \cup {Idle}]
      BY <1>0, <3>2, <3>4
    <3> QED
      BY <1>0, <1>3, <2>1, <3>5 DEF ChannelBusy, MacTypeOK
  <2>2. CASE ~ tx[t].attempt < MaxRetries
    <3>1. /\ tx' \in [Tasks -> Sends \cup {Idle}]
          /\ outcomes' \in SUBSET [task : Tasks, frame : Frames,
                                   result : Results]
      BY <1>3, <2>2, NextRetryStep DEF ChannelBusy
    <3>2. mac' = [mac EXCEPT ![t[1]].waiting_ack = FALSE]
      BY <1>3, <2>2 DEF ChannelBusy
    <3>3. mac' \in [Nodes -> MacStates]
      BY <1>0, <3>2
    <3> QED
      BY <1>0, <1>3, <2>2, <3>1, <3>3 DEF ChannelBusy, MacTypeOK
  <2> QED
    BY <2>1, <2>2
<1>4. CASE Transmit(t)
  <2>1. tx[t] \in Sends /\ tx[t].frame \in Frames
    BY <1>4, SendUnderWay DEF Transmit
  <2>2. /\ losses' \in 0..LossCap
        /\ rxq' \in [Nodes -> Seq(Frames)]
        /\ \A m \in Nodes : Len(rxq'[m]) <= QueueDepth
    BY <1>0, <1>4, <2>1, PhySendStep DEF Transmit, MacTypeOK
  <2>3. CASE NeedsAck(tx[t].frame)
    <3> DEFINE next == [tx[t] EXCEPT !.pc = "wait"]
    <3>1. tx' = [tx EXCEPT ![t] = next]
      BY <1>0, <1>4, <2>3 DEF Transmit
    <3>2. next \in Sends
      BY <2>1 DEF Sends
    <3>3. tx' \in [Tasks -> Sends \cup {Idle}]
      BY <1>0, <3>1, <3>2
    <3> QED
      BY <1>0, <1>4, <2>2, <2>3, <3>3 DEF Transmit, MacTypeOK
  <2>4. CASE ~ NeedsAck(tx[t].frame)
    <3>1. Return(t, "OK") /\ "OK" \in Results /\ tx[t].pc # "idle"
      BY <1>4, <2>4 DEF Transmit, Results
    <3>2. /\ tx' \in [Tasks -> Sends \cup {Idle}]
          /\ outcomes' \in SUBSET [task : Tasks, frame : Frames,
                                   result : Results]
      BY <3>1, ReturnStep
    <3> QED
      BY <1>0, <1>4, <2>2, <3>2 DEF Transmit, MacTypeOK
  <2> QED
    BY <2>3, <2>4
<1>5. CASE SendFails(t)
  <2>1. /\ tx' \in [Tasks -> Sends \cup {Idle}]
        /\ outcomes' \in SUBSET [task : Tasks, frame : Frames,
                                 result : Results]
    BY <1>5, NextRetryStep DEF SendFails
  <2>2. mac' \in [Nodes -> MacStates]
    BY <1>0, <1>5 DEF SendFails
  <2>3. losses' \in 0..LossCap
    <3>1. losses \in 0..LossCap
      BY DEF MacTypeOK
    <3>2. losses < MayLose /\ losses' = losses + 1
      BY <1>5 DEF SendFails
    <3> QED
      BY <3>1, <3>2, Bounds DEF LossCap
  <2> QED
    BY <1>0, <1>5, <2>1, <2>2, <2>3 DEF SendFails, MacTypeOK
<1>6. CASE AckTimeout(t)
  <2>1. /\ tx' \in [Tasks -> Sends \cup {Idle}]
        /\ outcomes' \in SUBSET [task : Tasks, frame : Frames,
                                 result : Results]
    <3>1. CASE mac[t[1]].ack_received
      <4>1. Return(t, "OK") /\ "OK" \in Results /\ tx[t].pc # "idle"
        BY <1>6, <3>1 DEF AckTimeout, Results
      <4> QED
        BY <4>1, ReturnStep
    <3>2. CASE ~ mac[t[1]].ack_received
      BY <1>6, <3>2, NextRetryStep DEF AckTimeout
    <3> QED
      BY <3>1, <3>2
  <2>2. mac' \in [Nodes -> MacStates]
    BY <1>0, <1>6 DEF AckTimeout
  <2> QED
    BY <1>0, <1>6, <2>1, <2>2 DEF AckTimeout, MacTypeOK
<1> QED
  BY <1>1, <1>2, <1>3, <1>4, <1>5, <1>6 DEF SendStep

(* The update of a window with a number it accepts gives a window          *)
(* (replay_check_and_update).                                              *)
LEMMA WindowUpdateType ==
  ASSUME NEW w \in Windows, NEW seq \in Seqs, ReplayAccepts(w, seq)
  PROVE  ReplayUpdate(w, seq) \in Windows
<1> USE SeqWindowAssumption, MaxSeqAssumption
<1>1. 0 \in Offsets
  BY DEF Offsets
<1>2. CASE NeverUsed(w)
  BY <1>1, <1>2 DEF ReplayUpdate, Windows
<1>3. CASE ~ NeverUsed(w) /\ IsAhead(w, seq)
  BY <1>1, <1>3 DEF ReplayUpdate, Windows, ShiftLeft
<1>4. CASE ~ NeverUsed(w) /\ ~ IsAhead(w, seq)
  BY <1>4 DEF ReplayUpdate, Windows, ReplayAccepts, IsUnseen
<1> QED
  BY <1>2, <1>3, <1>4

(* What on_phy_rx takes from the queue of its node is a frame, and the     *)
(* queue is shorter by it.                                                 *)
LEMMA DequeueStep ==
  ASSUME MacTypeOK, NEW n \in Nodes, rxq[n] # <<>>
  PROVE  /\ Head(rxq[n]) \in Frames
         /\ Dequeued(n) \in [Nodes -> Seq(Frames)]
         /\ \A m \in Nodes : Len(Dequeued(n)[m]) <= QueueDepth
         /\ Queued(rxq[n]) = Queued(Dequeued(n)[n]) \cup {Head(rxq[n])}
         /\ \A m \in Nodes \ {n} : Dequeued(n)[m] = rxq[m]
<1>1. rxq \in [Nodes -> Seq(Frames)] /\ \A m \in Nodes : Len(rxq[m]) <= QueueDepth
  BY DEF MacTypeOK
<1>2. /\ Head(rxq[n]) \in Frames /\ Tail(rxq[n]) \in Seq(Frames)
      /\ Len(Tail(rxq[n])) = Len(rxq[n]) - 1
      /\ Queued(rxq[n]) = Queued(Tail(rxq[n])) \cup {Head(rxq[n])}
  BY <1>1, QueuedTail
<1>3. /\ Dequeued(n) \in [Nodes -> Seq(Frames)]
      /\ Dequeued(n)[n] = Tail(rxq[n])
      /\ \A m \in Nodes \ {n} : Dequeued(n)[m] = rxq[m]
  BY <1>1, <1>2 DEF Dequeued
<1>4. Len(Tail(rxq[n])) <= QueueDepth
  <2>1. rxq[n] \in Seq(Frames) /\ Len(rxq[n]) \in Nat /\ Len(rxq[n]) <= QueueDepth
    BY <1>1
  <2> QED
    BY <1>2, <2>1, MacBoundsAssumption
<1> QED
  BY <1>1, <1>2, <1>3, <1>4

(* The replay windows stay windows.                                        *)
LEMMA RememberType ==
  ASSUME MacTypeOK, NEW n \in Nodes, NEW frame \in Frames,
         Fresh(n, frame), Remember(n, frame)
  PROVE  replay' \in [Nodes -> [Nodes -> Windows]]
<1>1. replay \in [Nodes -> [Nodes -> Windows]]
  BY DEF MacTypeOK
<1>2. frame.src \in Nodes /\ frame.seq \in Seqs
  BY DEF Frames
<1>3. CASE Secure
  <2> DEFINE next == ReplayUpdate(replay[n][frame.src], frame.seq)
  <2>1. next \in Windows
    BY <1>1, <1>2, <1>3, WindowUpdateType DEF Fresh
  <2>2. replay' = [replay EXCEPT ![n][frame.src] = next]
    BY <1>3 DEF Remember
  <2> HIDE DEF next
  <2> QED
    BY <1>1, <1>2, <2>1, <2>2
<1>4. CASE ~ Secure
  BY <1>1, <1>4 DEF Remember
<1> QED
  BY <1>3, <1>4

(* The ACK that answers a frame is a frame.                                *)
LEMMA AckType ==
  ASSUME NEW n \in Nodes, NEW frame \in Frames
  PROVE  AckFor(n, frame) \in Frames
<1>1. 0 \in 0..HopLimit
  BY MacBoundsAssumption
<1> QED
  BY <1>1 DEF AckFor, Frames, Addresses

(* Every run of on_phy_rx keeps the types.                                 *)
LEMMA ReceiveStepType ==
  ASSUME MacTypeOK, NEW n \in Nodes, ReceiveStep(n)
  PROVE  MacTypeOK'
<1> USE DEF MacStates
<1> DEFINE frame == Head(rxq[n])
<1>0. /\ mode' = mode
      /\ LossCap' = LossCap
      /\ rxq[n] # <<>>
      /\ mac \in [Nodes -> MacStates]
  BY DEF ReceiveStep, DropReplay, ReceiveAck, ReceiveData, LossCap, MayLose,
         MacTypeOK, MayReceive
<1>1. /\ frame \in Frames
      /\ Dequeued(n) \in [Nodes -> Seq(Frames)]
      /\ \A m \in Nodes : Len(Dequeued(n)[m]) <= QueueDepth
  BY <1>0, DequeueStep
<1>2. CASE DropReplay(n)
  BY <1>0, <1>1, <1>2 DEF DropReplay, MacTypeOK
<1>3. CASE ReceiveAck(n)
  <2>1. replay' \in [Nodes -> [Nodes -> Windows]]
    BY <1>1, <1>3, RememberType DEF ReceiveAck
  <2>2. mac' = [mac EXCEPT ![n].ack_received = @ \/ AckMatches(n, frame)]
    BY <1>3 DEF ReceiveAck
  <2>3. AckMatches(n, frame) \in BOOLEAN
    BY DEF AckMatches
  <2>4. mac' \in [Nodes -> MacStates]
    BY <1>0, <2>2, <2>3
  <2> QED
    BY <1>0, <1>1, <1>3, <2>1, <2>4 DEF ReceiveAck, MacTypeOK
<1>4. CASE ReceiveData(n)
  <2>1. replay' \in [Nodes -> [Nodes -> Windows]]
    BY <1>1, <1>4, RememberType DEF ReceiveData
  <2>2. mac' \in [Nodes -> MacStates]
    BY <1>0, <1>4 DEF ReceiveData
  <2>3. /\ rx' \in [Nodes -> Frames \cup {NoFrame}]
        /\ heard' \in [Nodes -> SUBSET Frames]
    BY <1>1, <1>4 DEF ReceiveData, MacTypeOK
  <2>4. /\ rxq' \in [Nodes -> Seq(Frames)]
        /\ \A m \in Nodes : Len(rxq'[m]) <= QueueDepth
        /\ counter' \in [Nodes -> Seqs]
        /\ losses' \in 0..LossCap
    <3>1. CASE WantsAck(n, frame)
      <4>1. PhySend(n, AckFor(n, frame), Dequeued(n)) /\ Protect(n, frame)
        BY <1>4, <3>1 DEF ReceiveData
      <4>2. counter' \in [Nodes -> Seqs]
        BY <1>1, <4>1 DEF Protect, MacTypeOK, Frames
      <4> QED
        BY <1>1, <4>1, <4>2, AckType, PhySendStep
    <3>2. CASE ~ WantsAck(n, frame)
      BY <1>1, <1>4, <3>2 DEF ReceiveData, MacTypeOK
    <3> QED
      BY <3>1, <3>2
  <2> QED
    BY <1>0, <1>1, <1>4, <2>1, <2>2, <2>3, <2>4 DEF ReceiveData, MacTypeOK
<1> QED
  BY <1>2, <1>3, <1>4 DEF ReceiveStep

-----------------------------------------------------------------------------
(* How long mac_send can take.                                             *)

(* The stages of a round, in their order.                                  *)
Stage(pc) == CASE pc = "start" -> 0 [] pc = "match" -> 1
               [] pc = "cca"   -> 2 [] pc = "wait"  -> 3

(* A later round, or a later stage of the same round, or one more look at  *)
(* a busy channel.                                                         *)
Further(send, next) ==
  \/ send.retry < next.retry
  \/ /\ send.retry = next.retry
     /\ \/ Stage(send.pc) < Stage(next.pc)
        \/ /\ send.pc = "cca" /\ next.pc = "cca"
           /\ send.attempt < next.attempt

(* A step leaves the send of task t alone, ends it, or takes it further.   *)
SendGetsOn(t) ==
  tx[t].pc # "idle" =>
    tx'[t] = tx[t] \/ tx'[t] = Idle \/ Further(tx[t], tx'[t])

(* No step of mac_send goes back: not the retry loop of mac_send and not   *)
(* the back-off of phy_send_with_cca.                                      *)
LEMMA SendStepGetsOn ==
  ASSUME MacTypeOK, NEW t \in Tasks, SendStep(t)
  PROVE  /\ tx'[t] = Idle \/ Further(tx[t], tx'[t])
         /\ \A u \in Tasks \ {t} : tx'[u] = tx[u]
<1>1. /\ tx[t].pc # "idle" /\ tx \in [Tasks -> Sends \cup {Idle}]
      /\ RaiseFlag(t) \/ SetMatch(t) \/ ChannelBusy(t) \/ Transmit(t) \/ SendFails(t)
         \/ AckTimeout(t)
  BY DEF SendStep, RaiseFlag, SetMatch, ChannelBusy, Transmit, SendFails, AckTimeout,
         MacTypeOK
<1>2. tx[t] \in Sends /\ tx[t].retry \in Int /\ tx[t].attempt \in Int
  BY <1>1, SendUnderWay DEF Sends
<1>3. CASE Return(t, "OK")
  BY <1>1, <1>3, ReturnStep DEF Results
<1>4. CASE NextRetry(t)
  <2>1. /\ \A u \in Tasks \ {t} : tx'[u] = tx[u]
        /\ tx'[t] = Idle \/ tx'[t] = [tx[t] EXCEPT !.pc = "start", !.retry = @ + 1]
    BY <1>1, <1>4, NextRetryStep
  <2>2. [tx[t] EXCEPT !.pc = "start", !.retry = @ + 1].retry = tx[t].retry + 1
    BY <1>2 DEF Sends
  <2>3. ASSUME tx'[t] = [tx[t] EXCEPT !.pc = "start", !.retry = @ + 1]
        PROVE  tx[t].retry < tx'[t].retry
    BY <1>2, <2>2, <2>3
  <2> QED
    BY <2>1, <2>3 DEF Further
<1>5. CASE tx' = [tx EXCEPT ![t].attempt = @ + 1] /\ tx[t].pc = "cca"
  <2>1. tx'[t] = [tx[t] EXCEPT !.attempt = @ + 1] /\ \A u \in Tasks \ {t} : tx'[u] = tx[u]
    BY <1>1, <1>5
  <2>2. tx'[t].pc = "cca" /\ tx'[t].retry = tx[t].retry /\ tx'[t].attempt = tx[t].attempt + 1
    BY <1>2, <1>5, <2>1 DEF Sends
  <2>3. tx[t].attempt < tx'[t].attempt
    BY <1>2, <2>2
  <2> QED
    BY <1>5, <2>1, <2>2, <2>3 DEF Further
<1>6. ASSUME NEW pc, Stage(tx[t].pc) < Stage(pc),
             \/ tx' = [tx EXCEPT ![t].pc = pc]
             \/ tx' = [tx EXCEPT ![t].pc = pc, ![t].attempt = 0]
      PROVE  Further(tx[t], tx'[t]) /\ \A u \in Tasks \ {t} : tx'[u] = tx[u]
  <2>1. /\ tx'[t] = [tx[t] EXCEPT !.pc = pc] \/ tx'[t] = [tx[t] EXCEPT !.pc = pc, !.attempt = 0]
        /\ \A u \in Tasks \ {t} : tx'[u] = tx[u]
    BY <1>1, <1>6
  <2>2. tx'[t].pc = pc /\ tx'[t].retry = tx[t].retry
    BY <1>2, <2>1 DEF Sends
  <2> QED
    BY <1>6, <2>1, <2>2 DEF Further
<1>7. Stage("start") = 0 /\ Stage("match") = 1 /\ Stage("cca") = 2 /\ Stage("wait") = 3
  BY DEF Stage
<1>8. CASE RaiseFlag(t)
  <2>1. tx[t].pc = "start"
        /\ (tx' = [tx EXCEPT ![t].pc = "match"] \/ tx' = [tx EXCEPT ![t].pc = "cca", ![t].attempt = 0])
    BY <1>8 DEF RaiseFlag
  <2> QED
    BY <1>6, <1>7, <2>1
<1>9. CASE SetMatch(t)
  <2>1. tx[t].pc = "match" /\ tx' = [tx EXCEPT ![t].pc = "cca", ![t].attempt = 0]
    BY <1>9 DEF SetMatch
  <2>2. Stage(tx[t].pc) < Stage("cca")
    BY <1>7, <2>1
  <2> QED
    BY <1>6, <2>1, <2>2
<1>10. CASE ChannelBusy(t) \/ SendFails(t) \/ AckTimeout(t)
  BY <1>3, <1>4, <1>5, <1>10 DEF ChannelBusy, SendFails, AckTimeout
<1>11. CASE Transmit(t)
  <2>1. tx[t].pc = "cca" /\ (tx' = [tx EXCEPT ![t].pc = "wait"] \/ Return(t, "OK"))
    BY <1>11 DEF Transmit
  <2>2. Stage(tx[t].pc) < Stage("wait")
    BY <1>7, <2>1
  <2> QED
    BY <1>3, <1>6, <2>1, <2>2
<1> QED
  BY <1>1, <1>8, <1>9, <1>10, <1>11

-----------------------------------------------------------------------------
(* MacLink: its tasks.                                                     *)

(* The application task of n, and the frame it is sending, if any.         *)
App(n)     == <<n, "app">>
Pc(n)      == tx[App(n)].pc
Busy(n)    == Pc(n) # "idle"
Frame(n)   == tx[App(n)].frame

-----------------------------------------------------------------------------
(* The invariant.                                                          *)

(* The rx task sends nothing of its own here, and the node counts as       *)
(* receiving exactly while rx_cb runs (on_phy_rx).                         *)
RxTaskAt(n) ==
  /\ tx[<<n, "rx">>] = Idle
  /\ mac[n].rx_in_progress <=> rx[n] # NoFrame

(* What mac_send has under way is the node's own, over one hop, and asks   *)
(* for an ACK only where somebody can give one.                            *)
OwnFrameAt(n) ==
  Busy(n) =>
    /\ ~ Frame(n).is_ack
    /\ Frame(n).src = n
    /\ Frame(n).dst = Frame(n).link_dst
    /\ Frame(n).link_dst \in InRange(n) \cup {Broadcast}
    /\ Frame(n).ack_req => NeedsAck(Frame(n))

(* The data frames of the network: under way, queued or heard.             *)
DataKnown == {f \in Frames :
            ~ f.is_ack /\ \E n \in Nodes : \/ Busy(n) /\ f = Frame(n)
                                           \/ f \in heard[n]
                                           \/ f \in Queued(rxq[n])}

(* net.seq_num gives every number once.                                    *)
NumberedOnce ==
  /\ \A f \in DataKnown : f.seq <= counter[f.src]
  /\ \A f, g \in DataKnown : f.src = g.src /\ f.seq = g.seq => f = g

(* Every ACK answers a frame that its sender heard.                        *)
AcksAnswer ==
  \A n \in Nodes :
    /\ \A d \in heard[n] : ~ d.is_ack
    /\ \A a \in Queued(rxq[n]) :
         a.is_ack => \E d \in heard[a.src] : a = AckFor(a.src, d)

(* From the moment the fields are set to the end of the round, mac_send    *)
(* waits for the ACK of its frame; and once the other flag is up, that     *)
(* frame was received.                                                     *)
AwaitsAt(n) ==
  /\ Pc(n) \in {"match", "wait"} => NeedsAck(Frame(n))
  /\ Pc(n) = "match" => ~ mac[n].ack_received
  /\ Pc(n) \in {"match", "cca", "wait"} /\ NeedsAck(Frame(n)) =>
       mac[n].waiting_ack
  /\ Pc(n) \in {"cca", "wait"} /\ NeedsAck(Frame(n)) =>
       /\ mac[n].match = [src |-> Frame(n).link_dst, dst |-> Frame(n).src,
                          seq |-> Frame(n).seq]
       /\ mac[n].ack_received => Frame(n) \in heard[Frame(n).link_dst]

(* OkMeansReceived, and the link destination can hear at all.              *)
AckedReceived ==
  \A o \in outcomes :
    Acknowledged(o) => /\ o.frame.link_dst \in Nodes
                       /\ o.frame \in heard[o.frame.link_dst]

LinkInv ==
  /\ MacTypeOK
  /\ \A n \in Nodes : RxTaskAt(n) /\ OwnFrameAt(n) /\ AwaitsAt(n)
  /\ NumberedOnce
  /\ AcksAnswer
  /\ AckedReceived

-----------------------------------------------------------------------------
(* The types.                                                              *)

LEMMA AppTask ==
  /\ \A n \in Nodes : App(n) \in Tasks /\ App(n)[1] = n /\ App(n)[2] = "app"
  /\ \A m, n \in Nodes : App(m) = App(n) => m = n
  /\ \A m, n \in Nodes : /\ <<m, "rx">> # App(n)
                         /\ <<m, "rx">> \in Tasks
BY DEF App, Tasks

(* The frame umesh_send makes.                                             *)
NewFrame(n, dst, ack_req) ==
  [is_ack |-> FALSE, ack_req |-> ack_req, seq |-> counter[n] + 1,
   hop |-> HopLimit, src |-> n, dst |-> dst, link_src |-> n, link_dst |-> dst]

LEMMA LinkSendStep ==
  ASSUME MacTypeOK, NEW n \in Nodes, LinkSend(n)
  PROVE  \E dst \in InRange(n) \cup {Broadcast}, ack_req \in BOOLEAN :
           /\ NewFrame(n, dst, ack_req) \in Frames
           /\ MacSend(App(n), NewFrame(n, dst, ack_req))
           /\ counter' = [counter EXCEPT ![n] = @ + 1]
           /\ counter[n] + 1 \in Seqs
           /\ UNCHANGED <<mode, mac, rx, rxq, replay, outcomes, heard, losses>>
<1>1. PICK dst \in InRange(n) \cup {Broadcast}, ack_req \in BOOLEAN :
        /\ counter[n] < MaxSeq
        /\ MacSend(App(n), NewFrame(n, dst, ack_req))
        /\ counter' = [counter EXCEPT ![n] = @ + 1]
        /\ UNCHANGED <<mode, mac, rx, rxq, replay, outcomes, heard, losses>>
  BY DEF LinkSend, App, NewFrame
<1>2. counter[n] \in Seqs
  BY DEF MacTypeOK
<1>3. counter[n] + 1 \in Seqs
  BY <1>1, <1>2, MaxSeqAssumption DEF Seqs
<1>4. dst \in Addresses
  BY Bounds DEF Addresses
<1>5. HopLimit \in 0..HopLimit
  BY MacBoundsAssumption
<1>6. NewFrame(n, dst, ack_req) \in Frames
  BY <1>3, <1>4, <1>5 DEF NewFrame, Frames
<1> QED
  BY <1>1, <1>3, <1>6

(* The steps of the application and of rx_cb keep the types, too.          *)
LEMMA NextType == MacTypeOK /\ [LinkNext]_macVars => MacTypeOK'
<1> SUFFICES ASSUME MacTypeOK, [LinkNext]_macVars
             PROVE  MacTypeOK'
  OBVIOUS
<1>1. ASSUME NEW n \in Nodes, LinkSend(n)
      PROVE  MacTypeOK'
  <2>1. PICK dst \in InRange(n) \cup {Broadcast}, ack_req \in BOOLEAN :
          /\ NewFrame(n, dst, ack_req) \in Frames
          /\ MacSend(App(n), NewFrame(n, dst, ack_req))
          /\ counter' = [counter EXCEPT ![n] = @ + 1]
          /\ counter[n] + 1 \in Seqs
          /\ UNCHANGED <<mode, mac, rx, rxq, replay, outcomes, heard, losses>>
    BY <1>1, LinkSendStep
  <2>2. tx' \in [Tasks -> Sends \cup {Idle}]
    BY <2>1, AppTask, MacSendStep
  <2>3. counter' \in [Nodes -> Seqs]
    BY <2>1 DEF MacTypeOK
  <2> QED
    BY <2>1, <2>2, <2>3 DEF MacTypeOK, LossCap, MayLose
<1>2. ASSUME NEW n \in Nodes, SendStep(<<n, "app">>)
      PROVE  MacTypeOK'
  BY <1>2, AppTask, SendStepType DEF App
<1>3. ASSUME NEW n \in Nodes, ReceiveStep(n)
      PROVE  MacTypeOK'
  BY <1>3, ReceiveStepType
<1>4. ASSUME NEW n \in Nodes, HandUp(n)
      PROVE  MacTypeOK'
  <2>1. rx' \in [Nodes -> Frames \cup {NoFrame}]
    BY <1>4 DEF HandUp, MacTypeOK
  <2>2. mac' \in [Nodes -> MacStates]
    BY <1>4 DEF HandUp, MacTypeOK, MacStates
  <2> QED
    BY <1>4, <2>1, <2>2 DEF HandUp, MacTypeOK, MacStates, LossCap, MayLose
<1>5. CASE UNCHANGED macVars
  BY <1>5 DEF macVars, MacTypeOK, LossCap, MayLose
<1> QED
  BY <1>1, <1>2, <1>3, <1>4, <1>5 DEF LinkNext

(* The mac state of umesh_ctx_t, the queues and the counters keep their    *)
(* types on every port.                                                    *)
THEOREM LinkTypeCorrect == LinkSpec => []MacTypeOK
<1>1. MacInit => MacTypeOK
  BY MacInitType
<1> QED
  BY <1>1, NextType, PTL DEF LinkSpec

(* Every step of a mac_send takes it to a later round, stage or look at    *)
(* the channel, or ends it.  As all three are bounded (LinkTypeCorrect),   *)
(* so is the number of steps of every send, whatever is lost, answered or  *)
(* heard meanwhile, and on every port: neither loop starts again.          *)
THEOREM SendsGetOn ==
  LinkSpec => [][\A t \in Tasks : SendGetsOn(t)]_macVars
<1>1. MacTypeOK /\ [LinkNext]_macVars => [\A t \in Tasks : SendGetsOn(t)]_macVars
  <2> SUFFICES ASSUME MacTypeOK, LinkNext, NEW t \in Tasks, tx[t].pc # "idle"
               PROVE  tx'[t] = tx[t] \/ tx'[t] = Idle \/ Further(tx[t], tx'[t])
    BY DEF SendGetsOn
  <2>1. PICK n \in Nodes : LinkSend(n) \/ SendStep(App(n)) \/ ReceiveStep(n) \/ HandUp(n)
    BY DEF LinkNext, App
  <2>2. CASE LinkSend(n)
    <3>1. tx[App(n)].pc = "idle" /\ \E next : tx' = [tx EXCEPT ![App(n)] = next]
      BY <2>2 DEF LinkSend, MacSend, App
    <3> QED
      BY <3>1 DEF MacTypeOK
  <2>3. CASE SendStep(App(n))
    BY <2>3, AppTask, SendStepGetsOn
  <2>4. CASE ReceiveStep(n) \/ HandUp(n)
    BY <2>4 DEF ReceiveStep, DropReplay, ReceiveAck, ReceiveData, HandUp
  <2> QED
    BY <2>1, <2>2, <2>3, <2>4
<1> QED
  BY <1>1, LinkTypeCorrect, PTL DEF LinkSpec

-----------------------------------------------------------------------------
(* What one step does to the task and the node that take it, and what it   *)
(* leaves to the others.                                                   *)

(* Nothing a node heard is forgotten, and no counter goes back.            *)
Grows ==
  /\ \A m \in Nodes : heard[m] \subseteq heard'[m]
  /\ \A m \in Nodes : counter'[m] >= counter[m]

(* A step of mac_send goes on with its frame or returns, and touches the   *)
(* flags of its own node only.                                             *)
LEMMA SendEffect ==
  ASSUME MacTypeOK, NEW n \in Nodes, SendStep(App(n))
  PROVE  /\ UNCHANGED <<mode, rx, counter, replay, heard>>
         /\ tx[App(n)] \in Sends
         /\ tx'[App(n)] \in Sends \cup {Idle}
         /\ tx'[App(n)].pc # "idle" =>
              /\ tx'[App(n)].frame = tx[App(n)].frame
              /\ tx'[App(n)].frame \in Frames
         /\ \A u \in Tasks \ {App(n)} : tx'[u] = tx[u]
         /\ \A m \in Nodes \ {n} : mac'[m] = mac[m]
         /\ mac'[n].rx_in_progress = mac[n].rx_in_progress
<1> DEFINE t == App(n)
<1> HIDE DEF t
<1>1. t \in Tasks /\ t[1] = n
  BY AppTask DEF t
<1>2. /\ tx \in [Tasks -> Sends \cup {Idle}]
      /\ mac \in [Nodes -> MacStates]
      /\ SendStep(t)
  BY DEF MacTypeOK, MacStates, t
<1>3. MacTypeOK'
  BY <1>1, <1>2, SendStepType
<1>4. UNCHANGED <<mode, rx, counter, replay, heard>>
  BY <1>2 DEF SendStep, RaiseFlag, SetMatch, ChannelBusy, Transmit, SendFails,
              AckTimeout
<1>5. tx[t].pc # "idle"
  BY <1>2 DEF SendStep, RaiseFlag, SetMatch, ChannelBusy, Transmit, SendFails,
              AckTimeout
<1>6. tx[t] \in Sends /\ tx[t].frame \in Frames
  BY <1>1, <1>5, SendUnderWay
<1>7. /\ \A m \in Nodes \ {n} : mac'[m] = mac[m]
      /\ mac'[n].rx_in_progress = mac[n].rx_in_progress
  <2>1. CASE RaiseFlag(t)
    BY <1>1, <1>2, <2>1 DEF RaiseFlag, MacStates
  <2>2. CASE SetMatch(t)
    <3> DEFINE match == [src |-> tx[t].frame.link_dst, dst |-> tx[t].frame.src,
                         seq |-> tx[t].frame.seq]
    <3>1. mac' = [mac EXCEPT ![n].match = match]
      BY <1>1, <2>2 DEF SetMatch
    <3> HIDE DEF match
    <3> QED
      BY <1>2, <3>1 DEF MacStates
  <2>3. CASE mac' = [mac EXCEPT ![t[1]].waiting_ack = FALSE]
    BY <1>1, <1>2, <2>3 DEF MacStates
  <2>4. CASE UNCHANGED mac
    BY <2>4
  <2> QED
    BY <1>2, <2>1, <2>2, <2>3, <2>4
       DEF SendStep, ChannelBusy, Transmit, SendFails, AckTimeout
<1>8. /\ \A u \in Tasks \ {t} : tx'[u] = tx[u]
      /\ tx'[t].pc # "idle" => tx'[t].frame = tx[t].frame
  <2>1. CASE NextRetry(t)
    <3>1. \A u \in Tasks \ {t} : tx'[u] = tx[u]
      BY <1>1, <1>5, <2>1, NextRetryStep
    <3>2. tx'[t] = Idle \/ tx'[t] = [tx[t] EXCEPT !.pc = "start", !.retry = @ + 1]
      BY <1>1, <1>5, <2>1, NextRetryStep
    <3>3. CASE tx'[t] = Idle
      BY <3>1, <3>3 DEF Idle
    <3>4. CASE tx'[t] = [tx[t] EXCEPT !.pc = "start", !.retry = @ + 1]
      <4>1. tx'[t].frame = tx[t].frame
        BY <1>6, <3>4 DEF Sends
      <4> QED
        BY <3>1, <4>1
    <3> QED
      BY <3>2, <3>3, <3>4
  <2>2. CASE Return(t, "OK")
    BY <1>1, <1>5, <2>2, ReturnStep DEF Idle, Results
  <2>3. CASE RaiseFlag(t)
    BY <1>1, <1>2, <1>6, <2>3 DEF RaiseFlag, Sends
  <2>4. CASE SetMatch(t)
    BY <1>1, <1>2, <1>6, <2>4 DEF SetMatch, Sends
  <2>5. CASE tx' = [tx EXCEPT ![t].attempt = @ + 1]
    BY <1>1, <1>2, <1>6, <2>5 DEF Sends
  <2>6. CASE tx' = [tx EXCEPT ![t].pc = "wait"]
    BY <1>1, <1>2, <1>6, <2>6 DEF Sends
  <2> QED
    BY <1>2, <2>1, <2>2, <2>3, <2>4, <2>5, <2>6
       DEF SendStep, ChannelBusy, Transmit, SendFails, AckTimeout
<1>9. tx'[t] \in Sends \cup {Idle}
  BY <1>1, <1>3 DEF MacTypeOK
<1> QED
  BY <1>4, <1>6, <1>7, <1>8, <1>9 DEF t

(* What mac_send queues anywhere is its frame.                             *)
LEMMA SendQueues ==
  ASSUME MacTypeOK, NEW n \in Nodes, SendStep(App(n)), NEW m \in Nodes,
         NEW f \in Queued(rxq'[m])
  PROVE  f \in Queued(rxq[m]) \/ f = Frame(n)
<1>1. CASE Transmit(App(n))
  <2>1. Frame(n) \in Frames /\ PhySend(n, Frame(n), rxq)
    BY <1>1, AppTask, SendUnderWay DEF Transmit, Frame
  <2>2. /\ rxq \in [Nodes -> Seq(Frames)]
        /\ \A k \in Nodes : Len(rxq[k]) <= QueueDepth
    BY DEF MacTypeOK
  <2>3. \A k \in Nodes : \/ rxq'[k] = rxq[k]
                         \/ /\ k \in InRange(n)
                            /\ Queued(rxq'[k]) = Queued(rxq[k]) \cup {Frame(n)}
    BY <2>1, <2>2, PhySendStep
  <2> QED
    BY <2>3
<1>2. CASE ~ Transmit(App(n))
  <2>1. rxq' = rxq
    BY <1>2 DEF SendStep, RaiseFlag, SetMatch, ChannelBusy, SendFails,
                AckTimeout
  <2> QED
    BY <2>1
<1> QED
  BY <1>1, <1>2

(* A frame that on_phy_rx takes leaves the queue; if it was data, the node *)
(* has heard it, and what it queues anywhere is the ACK that answers it.   *)
LEMMA ReceiveEffect ==
  ASSUME MacTypeOK, NEW n \in Nodes, ReceiveStep(n)
  PROVE  /\ UNCHANGED <<mode, tx, outcomes>>
         /\ Head(rxq[n]) \in Frames /\ Head(rxq[n]) \in Queued(rxq[n])
         /\ \A m \in Nodes \ {n} : mac'[m] = mac[m] /\ rx'[m] = rx[m]
                                   /\ heard'[m] = heard[m]
         /\ mac'[n].waiting_ack = mac[n].waiting_ack
         /\ mac'[n].match = mac[n].match
         /\ mac'[n].ack_received =>
              mac[n].ack_received \/ /\ Head(rxq[n]).is_ack
                                     /\ AckMatches(n, Head(rxq[n]))
         /\ \/ /\ heard' = heard
               /\ rx' = rx
               /\ mac'[n].rx_in_progress = mac[n].rx_in_progress
            \/ /\ ~ Head(rxq[n]).is_ack
               /\ heard'[n] = heard[n] \cup {Head(rxq[n])}
               /\ rx'[n] = Head(rxq[n])
               /\ mac'[n].rx_in_progress
         /\ \A m \in Nodes : \A f \in Queued(rxq'[m]) :
              \/ f \in Queued(rxq[m])
              \/ f = AckFor(n, Head(rxq[n])) /\ Head(rxq[n]) \in heard'[n]
         /\ Grows
<1> DEFINE frame == Head(rxq[n])
<1>1. /\ mac \in [Nodes -> MacStates]
      /\ rxq \in [Nodes -> Seq(Frames)]
      /\ counter \in [Nodes -> Seqs]
      /\ heard \in [Nodes -> SUBSET Frames]
      /\ rx \in [Nodes -> Frames \cup {NoFrame}]
      /\ rxq[n] # <<>>
  BY DEF MacTypeOK, MacStates, ReceiveStep, DropReplay, ReceiveAck,
         ReceiveData, MayReceive
<1>2. /\ frame \in Frames /\ frame \in Queued(rxq[n])
      /\ Dequeued(n) \in [Nodes -> Seq(Frames)]
      /\ \A m \in Nodes : Len(Dequeued(n)[m]) <= QueueDepth
      /\ \A m \in Nodes : Queued(Dequeued(n)[m]) \subseteq Queued(rxq[m])
  BY <1>1, DequeueStep
<1>3. UNCHANGED <<mode, tx, outcomes>>
  BY DEF ReceiveStep, DropReplay, ReceiveAck, ReceiveData
<1>4. \A s \in Seqs : s \in Int
  BY MaxSeqAssumption DEF Seqs
<1>5. CASE DropReplay(n)
  <2>1. Grows
    BY <1>1, <1>4, <1>5 DEF DropReplay, Grows
  <2> QED
    BY <1>2, <1>3, <1>5, <2>1 DEF DropReplay
<1>6. CASE ReceiveAck(n)
  <2>1. Grows
    BY <1>1, <1>4, <1>6 DEF ReceiveAck, Grows
  <2>2. mac' = [mac EXCEPT ![n].ack_received = @ \/ AckMatches(n, frame)]
    BY <1>6 DEF ReceiveAck
  <2>3. /\ \A m \in Nodes \ {n} : mac'[m] = mac[m]
        /\ mac'[n].waiting_ack = mac[n].waiting_ack
        /\ mac'[n].match = mac[n].match
        /\ mac'[n].rx_in_progress = mac[n].rx_in_progress
        /\ mac'[n].ack_received =>
             mac[n].ack_received \/ AckMatches(n, frame)
    BY <1>1, <2>2 DEF MacStates
  <2> QED
    BY <1>2, <1>3, <1>6, <2>1, <2>3 DEF ReceiveAck
<1>7. CASE ReceiveData(n)
  <2>1. /\ \A m \in Nodes \ {n} : mac'[m] = mac[m] /\ rx'[m] = rx[m]
                                  /\ heard'[m] = heard[m]
        /\ mac'[n].waiting_ack = mac[n].waiting_ack
        /\ mac'[n].match = mac[n].match
        /\ mac'[n].ack_received = mac[n].ack_received
        /\ mac'[n].rx_in_progress
        /\ heard'[n] = heard[n] \cup {frame}
        /\ rx'[n] = frame
        /\ ~ frame.is_ack
    BY <1>1, <1>7 DEF ReceiveData, MacStates
  <2>2. \A m \in Nodes : \A f \in Queued(rxq'[m]) :
          f \in Queued(rxq[m]) \/ f = AckFor(n, frame)
    <3>1. CASE WantsAck(n, frame)
      <4>1. PhySend(n, AckFor(n, frame), Dequeued(n))
        BY <1>7, <3>1 DEF ReceiveData
      <4>2. AckFor(n, frame) \in Frames
        BY <1>2, AckType
      <4>3. \A m \in Nodes :
              \/ rxq'[m] = Dequeued(n)[m]
              \/ /\ m \in InRange(n)
                 /\ Queued(rxq'[m]) =
                      Queued(Dequeued(n)[m]) \cup {AckFor(n, frame)}
        BY <1>2, <4>1, <4>2, PhySendStep
      <4> QED
        BY <1>2, <4>3
    <3>2. CASE ~ WantsAck(n, frame)
      BY <1>2, <1>7, <3>2 DEF ReceiveData
    <3> QED
      BY <3>1, <3>2
  <2>3. \A m \in Nodes : counter'[m] >= counter[m]
    <3>1. counter' = counter \/ Protect(n, frame)
      BY <1>7 DEF ReceiveData
    <3>2. frame.seq \in Int /\ \A m \in Nodes : counter[m] \in Int
      BY <1>1, <1>2, <1>4 DEF Frames
    <3> DEFINE seq == frame.seq
    <3>3. \/ counter' = counter
          \/ seq > counter[n] /\ counter' = [counter EXCEPT ![n] = seq]
      BY <3>1 DEF Protect
    <3> HIDE DEF seq
    <3>4. seq \in Int
      BY <3>2 DEF seq
    <3>5. counter \in [Nodes -> Seqs]
      BY <1>1
    <3> QED
      BY <3>2, <3>3, <3>4, <3>5
  <2>4. Grows
    BY <2>1, <2>3 DEF Grows
  <2> QED
    BY <1>2, <1>3, <2>1, <2>2, <2>4
<1> QED
  BY <1>5, <1>6, <1>7 DEF ReceiveStep

-----------------------------------------------------------------------------
(* The invariant is inductive, one operation at a time.                    *)

(* The numbers stay unique when no new frame appears.                      *)
LEMMA NumberedOnceKept ==
  ASSUME MacTypeOK, MacTypeOK', NumberedOnce, DataKnown' \subseteq DataKnown, Grows
  PROVE  NumberedOnce'
<1>1. ASSUME NEW f \in DataKnown'
      PROVE  f.seq <= counter'[f.src]
  <2>1. f \in DataKnown /\ f \in Frames
    BY DEF DataKnown
  <2>2. f.src \in Nodes /\ f.seq \in Seqs
    BY <2>1 DEF Frames
  <2>3. /\ counter[f.src] \in Seqs /\ counter'[f.src] \in Seqs
        /\ counter'[f.src] >= counter[f.src]
    BY <2>2 DEF MacTypeOK, Grows
  <2>4. f.seq <= counter[f.src]
    BY <2>1 DEF NumberedOnce
  <2>5. \A s \in Seqs : s \in Int
    BY MaxSeqAssumption DEF Seqs
  <2> QED
    BY <2>2, <2>3, <2>4, <2>5
<1>2. \A f, g \in DataKnown' : f.src = g.src /\ f.seq = g.seq => f = g
  BY DEF NumberedOnce
<1> QED
  BY <1>1, <1>2 DEF NumberedOnce

(* An outcome that was right stays right: nothing heard is forgotten.      *)
LEMMA OkKept ==
  ASSUME AckedReceived, Grows, UNCHANGED outcomes
  PROVE  AckedReceived'
BY DEF AckedReceived, Acknowledged, Grows

(* umesh_send: a new frame with a number of its own.                       *)
LEMMA LinkSendInv ==
  ASSUME LinkInv, NEW n \in Nodes, LinkSend(n)
  PROVE  LinkInv'
<1>1. MacTypeOK /\ MacTypeOK'
  BY NextType DEF LinkInv, LinkNext
<1>2. PICK dst \in InRange(n) \cup {Broadcast}, ack_req \in BOOLEAN :
        /\ NewFrame(n, dst, ack_req) \in Frames
        /\ MacSend(App(n), NewFrame(n, dst, ack_req))
        /\ counter' = [counter EXCEPT ![n] = @ + 1]
        /\ counter[n] + 1 \in Seqs
        /\ UNCHANGED <<mode, mac, rx, rxq, replay, outcomes, heard, losses>>
  BY <1>1, LinkSendStep
<1> DEFINE new == NewFrame(n, dst, ack_req)
           f   == [new EXCEPT !.ack_req = @ /\ Broadcast \notin {new.dst,
                                                                 new.link_dst}]
<1>3. /\ ~ f.is_ack /\ f.src = n /\ f.dst = f.link_dst /\ f.link_dst = dst
      /\ f.seq = counter[n] + 1
      /\ f.ack_req => NeedsAck(f)
      /\ f \in Frames
  BY <1>2 DEF NewFrame, NeedsAck, Frames
<1> HIDE DEF f
<1>4. /\ tx'[App(n)].pc = "start"
      /\ tx'[App(n)].frame = f
      /\ \A u \in Tasks \ {App(n)} : tx'[u] = tx[u]
  BY <1>1, <1>2, AppTask, MacSendStep DEF f
<1>5. \A m \in Nodes \ {n} : tx'[App(m)] = tx[App(m)]
  BY <1>4, AppTask
<1>6. \A m \in Nodes : RxTaskAt(m)'
  BY <1>2, <1>4, AppTask DEF LinkInv, RxTaskAt
<1>7. \A m \in Nodes : OwnFrameAt(m)'
  <2>1. OwnFrameAt(n)'
    BY <1>2, <1>3, <1>4 DEF OwnFrameAt, Frame, InRange
  <2>2. \A m \in Nodes \ {n} : OwnFrameAt(m)'
    BY <1>2, <1>5 DEF LinkInv, OwnFrameAt, Frame, Busy, Pc, InRange
  <2> QED
    BY <2>1, <2>2
<1>8. \A m \in Nodes : AwaitsAt(m)'
  <2>1. AwaitsAt(n)'
    BY <1>4 DEF AwaitsAt, Pc
  <2>2. \A m \in Nodes \ {n} : AwaitsAt(m)'
    BY <1>2, <1>5 DEF LinkInv, AwaitsAt, Frame, Pc
  <2> QED
    BY <2>1, <2>2
<1>9. NumberedOnce'
  <2>1. DataKnown' \subseteq DataKnown \cup {f}
    BY <1>2, <1>4, <1>5 DEF DataKnown, Frame, Busy, Pc
  <2>2. /\ counter'[n] = counter[n] + 1
        /\ \A m \in Nodes \ {n} : counter'[m] = counter[m]
        /\ \A m \in Nodes : counter[m] \in Int
    BY <1>1, <1>2, MaxSeqAssumption DEF MacTypeOK, Seqs
  <2>3. \A g \in DataKnown : g.src \in Nodes /\ g.seq \in Int
                         /\ g.seq <= counter[g.src]
    BY MaxSeqAssumption DEF LinkInv, NumberedOnce, DataKnown, Frames, Seqs
  <2>4. ASSUME NEW g \in DataKnown'
        PROVE  g.seq <= counter'[g.src]
    BY <1>3, <2>1, <2>2, <2>3
  <2>5. ASSUME NEW g \in DataKnown', NEW h \in DataKnown', g.src = h.src, g.seq = h.seq
        PROVE  g = h
    <3>1. \A k \in DataKnown : ~ (k.src = n /\ k.seq = counter[n] + 1)
      BY <2>2, <2>3
    <3>2. g \in DataKnown /\ h \in DataKnown => g = h
      BY <2>5 DEF LinkInv, NumberedOnce
    <3> QED
      BY <1>3, <2>1, <2>5, <3>1, <3>2
  <2> QED
    BY <2>4, <2>5 DEF NumberedOnce
<1>10. AcksAnswer'
  BY <1>2 DEF LinkInv, AcksAnswer, AckFor
<1>11. AckedReceived'
  BY <1>2 DEF LinkInv, AckedReceived, Acknowledged
<1> QED
  BY <1>1, <1>6, <1>7, <1>8, <1>9, <1>10, <1>11 DEF LinkInv

(* mac_send: the flags and the match of its own node only, the frame as it *)
(* is, and a result when a round is the last one or the ACK was there.     *)
LEMMA SendInv ==
  ASSUME ~ Preemptive, LinkInv, NEW n \in Nodes, SendStep(App(n))
  PROVE  LinkInv'
<1>1. MacTypeOK /\ MacTypeOK'
  BY NextType DEF LinkInv, LinkNext, App
<1>2. /\ UNCHANGED <<mode, rx, counter, replay, heard>>
      /\ tx[App(n)] \in Sends
      /\ tx'[App(n)] \in Sends \cup {Idle}
      /\ tx'[App(n)].pc # "idle" =>
           /\ tx'[App(n)].frame = tx[App(n)].frame
           /\ tx'[App(n)].frame \in Frames
      /\ \A u \in Tasks \ {App(n)} : tx'[u] = tx[u]
      /\ \A m \in Nodes \ {n} : mac'[m] = mac[m]
      /\ mac'[n].rx_in_progress = mac[n].rx_in_progress
  BY <1>1, SendEffect
<1>3. Busy(n) /\ Frame(n) \in Frames
  BY <1>2 DEF Busy, Pc, Frame, Sends
<1>4. \A m \in Nodes \ {n} : tx'[App(m)] = tx[App(m)]
  BY <1>2, AppTask
<1>5. Grows
  <2>1. \A s \in Seqs : s >= s
    BY MaxSeqAssumption DEF Seqs
  <2> QED
    BY <1>1, <1>2, <2>1 DEF Grows, MacTypeOK
<1>6. \A m \in Nodes : RxTaskAt(m)'
  BY <1>2, AppTask DEF LinkInv, RxTaskAt
<1>7. \A m \in Nodes : OwnFrameAt(m)'
  <2>1. OwnFrameAt(n)'
    BY <1>2, <1>3 DEF LinkInv, OwnFrameAt, Frame, Busy, Pc, InRange
  <2>2. \A m \in Nodes \ {n} : OwnFrameAt(m)'
    BY <1>2, <1>4 DEF LinkInv, OwnFrameAt, Frame, Busy, Pc, InRange
  <2> QED
    BY <2>1, <2>2
<1>8. DataKnown' \subseteq DataKnown
  <2> SUFFICES ASSUME NEW f \in DataKnown' PROVE f \in DataKnown
    OBVIOUS
  <2>1. PICK m \in Nodes : \/ Busy(m)' /\ f = Frame(m)'
                           \/ f \in heard'[m]
                           \/ f \in Queued(rxq'[m])
    BY DEF DataKnown
  <2>2. f \in Frames /\ ~ f.is_ack
    BY DEF DataKnown
  <2>3. CASE Busy(m)' /\ f = Frame(m)'
    BY <1>2, <1>3, <1>4, <2>2, <2>3 DEF DataKnown, Busy, Pc, Frame
  <2>4. CASE f \in heard'[m]
    BY <1>2, <2>2, <2>4 DEF DataKnown
  <2>5. CASE f \in Queued(rxq'[m])
    <3>1. f \in Queued(rxq[m]) \/ f = Frame(n)
      BY <1>1, <2>5, SendQueues
    <3> QED
      BY <1>3, <2>2, <3>1 DEF DataKnown
  <2> QED
    BY <2>1, <2>3, <2>4, <2>5
<1>9. NumberedOnce'
  BY <1>1, <1>5, <1>8, NumberedOnceKept DEF LinkInv
<1>10. AcksAnswer'
  <2>1. ASSUME NEW m \in Nodes, NEW a \in Queued(rxq'[m]), a.is_ack
        PROVE  a \in Queued(rxq[m])
    <3>1. ~ Frame(n).is_ack
      BY <1>3 DEF LinkInv, OwnFrameAt
    <3>2. a \in Queued(rxq[m]) \/ a = Frame(n)
      BY <1>1, SendQueues
    <3> QED
      BY <2>1, <3>1, <3>2
  <2> QED
    BY <1>2, <2>1 DEF LinkInv, AcksAnswer, AckFor
<1>11. \A m \in Nodes \ {n} : AwaitsAt(m)'
  BY <1>2, <1>4 DEF LinkInv, AwaitsAt, Frame, Pc
<1>12. ~ ChannelBusy(App(n))
  <2>1. RxTaskIdle(n)
    BY AppTask DEF SendStep, MayRun
  <2> QED
    BY <2>1, AppTask DEF ChannelBusy, LinkInv, RxTaskAt, RxTaskIdle
<1>13. AwaitsAt(n)' /\ AckedReceived'
  <2> DEFINE t == App(n)
             f == Frame(n)
  <2>0. /\ tx \in [Tasks -> Sends \cup {Idle}]
        /\ mac \in [Nodes -> MacStates]
        /\ t \in Tasks /\ t[1] = n
        /\ f.ack_req => NeedsAck(f)
        /\ f.link_dst # Broadcast => f.link_dst \in Nodes
    BY <1>1, <1>3, AppTask DEF MacTypeOK, MacStates, LinkInv, OwnFrameAt,
                               Frames, Addresses
  <2> HIDE DEF t
  <2>1. CASE RaiseFlag(t)
    <3>1. CASE NeedsAck(f)
      <4>1. tx'[t].pc = "match" /\ tx'[t].frame = f
        BY <1>2, <2>0, <2>1, <3>1 DEF RaiseFlag, Frame, t, Sends
      <4>2. mac'[n].waiting_ack /\ ~ mac'[n].ack_received
        BY <2>0, <2>1, <3>1 DEF RaiseFlag, Frame, t, MacStates
      <4>3. AwaitsAt(n)'
        BY <3>1, <4>1, <4>2 DEF AwaitsAt, Pc, Frame, t, NeedsAck
      <4> QED
        BY <1>5, <2>1, <4>3, OkKept DEF RaiseFlag, LinkInv
    <3>2. CASE ~ NeedsAck(f)
      <4>1. tx'[t].pc = "cca" /\ tx'[t].frame = f
        BY <1>2, <2>0, <2>1, <3>2 DEF RaiseFlag, Frame, t, Sends
      <4>2. AwaitsAt(n)'
        BY <3>2, <4>1 DEF AwaitsAt, Pc, Frame, t, NeedsAck
      <4> QED
        BY <1>5, <2>1, <4>2, OkKept DEF RaiseFlag, LinkInv
    <3> QED
      BY <3>1, <3>2
  <2>2. CASE SetMatch(t)
    <3> DEFINE match == [src |-> f.link_dst, dst |-> f.src, seq |-> f.seq]
    <3>1. tx'[t].pc = "cca" /\ tx'[t].frame = f
      BY <1>2, <2>0, <2>2 DEF SetMatch, Frame, t, Sends
    <3>2. mac' = [mac EXCEPT ![n].match = match]
      BY <2>0, <2>2 DEF SetMatch, Frame, t
    <3> HIDE DEF match
    <3>3. /\ mac'[n].match = match
          /\ mac'[n].waiting_ack = mac[n].waiting_ack
          /\ mac'[n].ack_received = mac[n].ack_received
      BY <2>0, <3>2 DEF MacStates
    <3>4. mac[n].waiting_ack /\ ~ mac[n].ack_received
      BY <2>2 DEF SetMatch, LinkInv, AwaitsAt, Pc, t
    <3>5. AwaitsAt(n)'
      BY <3>1, <3>3, <3>4 DEF AwaitsAt, Pc, Frame, t, match
    <3> QED
      BY <1>5, <2>2, <3>5, OkKept DEF SetMatch, LinkInv
  <2>3. CASE Transmit(t)
    <3>1. CASE NeedsAck(f)
      <4>1. tx'[t].pc = "wait" /\ tx'[t].frame = f
        BY <1>2, <2>0, <2>3, <3>1 DEF Transmit, Frame, t, Sends
      <4>2. AwaitsAt(n)'
        BY <1>2, <2>3, <3>1, <4>1
           DEF Transmit, LinkInv, AwaitsAt, Pc, Frame, t, NeedsAck
      <4>3. UNCHANGED outcomes
        BY <2>3, <3>1 DEF Transmit, Frame, t
      <4> QED
        BY <1>5, <4>2, <4>3, OkKept DEF LinkInv
    <3>2. CASE ~ NeedsAck(f)
      <4>1. Return(t, "OK")
        BY <2>3, <3>2 DEF Transmit, Frame, t
      <4>2. tx'[t].pc = "idle"
        BY <2>0, <4>1 DEF Return, Idle
      <4>3. AwaitsAt(n)'
        BY <4>2 DEF AwaitsAt, Pc, t
      <4>4. ~ f.ack_req
        BY <2>0, <3>2
      <4>5. outcomes' = outcomes \cup
              {[task |-> t, frame |-> f, result |-> "OK"]}
        BY <4>1 DEF Return, Frame, t
      <4>6. AckedReceived'
        BY <1>2, <4>4, <4>5 DEF LinkInv, AckedReceived, Acknowledged
      <4> QED
        BY <4>3, <4>6
    <3> QED
      BY <3>1, <3>2
  <2>4. CASE NextRetry(t)
    <3>1. tx[t].pc # "idle"
      BY <1>3 DEF Busy, Pc, t
    <3>2. tx'[t].pc \in {"start", "idle"}
      <4>1. tx'[t] = [tx[t] EXCEPT !.pc = "start", !.retry = @ + 1]
            \/ tx'[t] = Idle
        BY <1>1, <2>0, <2>4, <3>1, NextRetryStep
      <4>2. tx[t] \in Sends
        BY <1>2 DEF t
      <4>3. CASE tx'[t] = [tx[t] EXCEPT !.pc = "start", !.retry = @ + 1]
        BY <4>2, <4>3 DEF Sends
      <4>4. CASE tx'[t] = Idle
        BY <4>4 DEF Idle
      <4> QED
        BY <4>1, <4>3, <4>4
    <3>3. AwaitsAt(n)'
      BY <3>2 DEF AwaitsAt, Pc, t
    <3>4. \/ outcomes' = outcomes
          \/ \E result \in {"NO_ACK", "MAX_RETRIES"} :
               outcomes' = outcomes \cup
                 {[task |-> t, frame |-> tx[t].frame, result |-> result]}
      BY <1>1, <2>0, <2>4, <3>1, NextRetryStep
    <3>5. \A o \in outcomes' : Acknowledged(o) => o \in outcomes
      BY <3>4 DEF Acknowledged
    <3>6. AckedReceived'
      BY <1>2, <3>5 DEF LinkInv, AckedReceived, Acknowledged
    <3> QED
      BY <3>3, <3>6
  <2>5. CASE AckTimeout(t) /\ mac[n].ack_received
    <3>1. Return(t, "OK") /\ tx[t].pc = "wait"
      BY <2>0, <2>5 DEF AckTimeout
    <3>2. tx'[t].pc = "idle"
      BY <2>0, <3>1 DEF Return, Idle
    <3>3. AwaitsAt(n)'
      BY <3>2 DEF AwaitsAt, Pc, t
    <3>4. NeedsAck(f) /\ f \in heard[f.link_dst]
      BY <2>5, <3>1 DEF LinkInv, AwaitsAt, Pc, t
    <3>5. f.link_dst \in Nodes
      BY <2>0, <3>4 DEF NeedsAck
    <3>6. outcomes' = outcomes \cup
            {[task |-> t, frame |-> f, result |-> "OK"]}
      BY <3>1 DEF Return, Frame, t
    <3>7. AckedReceived'
      BY <1>2, <3>4, <3>5, <3>6 DEF LinkInv, AckedReceived, Acknowledged
    <3> QED
      BY <3>3, <3>7
  <2> QED
    BY <1>12, <2>0, <2>1, <2>2, <2>3, <2>4, <2>5
       DEF SendStep, SendFails, AckTimeout, t
<1> QED
  BY <1>1, <1>6, <1>7, <1>9, <1>10, <1>11, <1>13 DEF LinkInv

(* on_phy_rx: data becomes heard before it is answered, and the flag an    *)
(* ACK raises is that of the frame it answers.                             *)
LEMMA ReceiveInv ==
  ASSUME ~ Preemptive, LinkInv, NEW n \in Nodes, ReceiveStep(n)
  PROVE  LinkInv'
<1> DEFINE head == Head(rxq[n])
<1>1. MacTypeOK /\ MacTypeOK'
  BY NextType DEF LinkInv, LinkNext
<1>2. /\ UNCHANGED <<mode, tx, outcomes>>
      /\ head \in Frames /\ head \in Queued(rxq[n])
      /\ \A m \in Nodes \ {n} : mac'[m] = mac[m] /\ rx'[m] = rx[m]
                                /\ heard'[m] = heard[m]
      /\ mac'[n].waiting_ack = mac[n].waiting_ack
      /\ mac'[n].match = mac[n].match
      /\ mac'[n].ack_received =>
           mac[n].ack_received \/ /\ head.is_ack
                                  /\ AckMatches(n, head)
      /\ \/ /\ heard' = heard
            /\ rx' = rx
            /\ mac'[n].rx_in_progress = mac[n].rx_in_progress
         \/ /\ ~ head.is_ack
            /\ heard'[n] = heard[n] \cup {head}
            /\ rx'[n] = head
            /\ mac'[n].rx_in_progress
      /\ \A m \in Nodes : \A f \in Queued(rxq'[m]) :
           \/ f \in Queued(rxq[m])
           \/ f = AckFor(n, head) /\ head \in heard'[n]
      /\ Grows
  BY <1>1, ReceiveEffect
<1> HIDE DEF head
<1>3. \A m \in Nodes : /\ tx'[App(m)] = tx[App(m)]
                       /\ tx'[<<m, "rx">>] = tx[<<m, "rx">>]
  BY <1>2
<1>4. \A m \in Nodes : RxTaskAt(m)'
  <2>1. RxTaskAt(n)'
    <3>1. RxTaskAt(n) /\ head # NoFrame
      BY <1>2, FrameIsSome DEF LinkInv
    <3>2. mac'[n].rx_in_progress <=> rx'[n] # NoFrame
      BY <1>2, <3>1 DEF RxTaskAt
    <3> QED
      BY <1>3, <3>1, <3>2 DEF RxTaskAt
  <2>2. \A m \in Nodes \ {n} : RxTaskAt(m)'
    BY <1>2, <1>3 DEF LinkInv, RxTaskAt
  <2> QED
    BY <2>1, <2>2
<1>5. \A m \in Nodes : OwnFrameAt(m)'
  BY <1>2, <1>3 DEF LinkInv, OwnFrameAt, Frame, Busy, Pc, InRange
<1>6. DataKnown' \subseteq DataKnown
  <2> SUFFICES ASSUME NEW f \in DataKnown' PROVE f \in DataKnown
    OBVIOUS
  <2>1. PICK m \in Nodes : \/ Busy(m)' /\ f = Frame(m)'
                           \/ f \in heard'[m]
                           \/ f \in Queued(rxq'[m])
    BY DEF DataKnown
  <2>2. f \in Frames /\ ~ f.is_ack
    BY DEF DataKnown
  <2>3. CASE Busy(m)' /\ f = Frame(m)'
    BY <1>3, <2>2, <2>3 DEF DataKnown, Busy, Pc, Frame
  <2>4. CASE f \in heard'[m]
    <3>1. f \in heard[m] \/ (f = head /\ m = n)
      BY <1>2, <2>4
    <3> QED
      BY <1>2, <2>2, <3>1 DEF DataKnown
  <2>5. CASE f \in Queued(rxq'[m])
    <3>1. f \in Queued(rxq[m])
      BY <1>2, <2>2, <2>5 DEF AckFor
    <3> QED
      BY <2>2, <3>1 DEF DataKnown
  <2> QED
    BY <2>1, <2>3, <2>4, <2>5
<1>7. NumberedOnce'
  BY <1>1, <1>2, <1>6, NumberedOnceKept DEF LinkInv
<1>8. AcksAnswer'
  <2>1. ASSUME NEW m \in Nodes, NEW d \in heard'[m]
        PROVE  ~ d.is_ack
    <3>1. d \in heard[m] \/ (d = head /\ ~ head.is_ack)
      BY <1>2
    <3> QED
      BY <3>1 DEF LinkInv, AcksAnswer
  <2>2. ASSUME NEW m \in Nodes, NEW a \in Queued(rxq'[m]), a.is_ack
        PROVE  \E d \in heard'[a.src] : a = AckFor(a.src, d)
    <3>1. CASE a \in Queued(rxq[m])
      <4>1. PICK d \in heard[a.src] : a = AckFor(a.src, d)
        BY <2>2, <3>1 DEF LinkInv, AcksAnswer
      <4>2. a.src \in Nodes
        <5>1. rxq[m] \in Seq(Frames)
          BY <1>1 DEF MacTypeOK
        <5>2. a \in Frames
          BY <3>1, <5>1, QueuedEmpty
        <5> QED
          BY <5>2 DEF Frames
      <4> QED
        BY <1>2, <4>1, <4>2 DEF Grows
    <3>2. CASE a = AckFor(n, head) /\ head \in heard'[n]
      <4>1. a.src = n
        BY <3>2 DEF AckFor
      <4> QED
        BY <3>2, <4>1
    <3> QED
      BY <1>2, <3>1, <3>2
  <2> QED
    BY <2>1, <2>2 DEF AcksAnswer, AckFor
<1>9. \A m \in Nodes \ {n} : AwaitsAt(m)'
  <2> SUFFICES ASSUME NEW m \in Nodes \ {n}
               PROVE  AwaitsAt(m)'
    OBVIOUS
  <2>1. AwaitsAt(m) /\ mac'[m] = mac[m] /\ Pc(m)' = Pc(m)
        /\ Frame(m)' = Frame(m)
    BY <1>2, <1>3 DEF LinkInv, Pc, Frame
  <2>2. Pc(m) \in {"cca", "wait"} /\ NeedsAck(Frame(m)) =>
          Frame(m).link_dst \in Nodes
    <3>1. Pc(m) # "idle" => Frame(m) \in Frames
      BY <1>1, AppTask, SendUnderWay DEF Pc, Frame
    <3> QED
      BY <3>1 DEF NeedsAck, Frames, Addresses
  <2> QED
    BY <1>2, <2>1, <2>2 DEF AwaitsAt, Grows, NeedsAck
<1>10. AwaitsAt(n)'
  <2> DEFINE f == Frame(n)
  <2>1. AwaitsAt(n) /\ Pc(n)' = Pc(n) /\ Frame(n)' = f
    BY <1>2, <1>3 DEF LinkInv, Pc, Frame
  <2>2. Pc(n) \in {"idle", "start", "wait"}
    BY DEF ReceiveStep, DropReplay, ReceiveAck, ReceiveData, MayReceive, Pc, App
  <2>3. ASSUME Pc(n) = "wait", NeedsAck(f), mac'[n].ack_received
        PROVE  f \in heard'[f.link_dst]
    <3>1. f \in Frames
      BY <1>1, <2>3, AppTask, SendUnderWay DEF Pc, Frame
    <3>2. f.link_dst \in Nodes
      BY <2>3, <3>1 DEF NeedsAck, Frames, Addresses
    <3>3. CASE mac[n].ack_received
      <4>1. f \in heard[f.link_dst]
        BY <2>1, <2>3, <3>3 DEF AwaitsAt
      <4> QED
        BY <1>2, <3>2, <4>1 DEF Grows
    <3>4. CASE head.is_ack /\ AckMatches(n, head)
      <4>1. mac[n].match = [src |-> f.link_dst, dst |-> f.src, seq |-> f.seq]
        BY <2>1, <2>3 DEF AwaitsAt
      <4>2. head.src = f.link_dst /\ head.dst = f.src /\ head.seq = f.seq
        BY <3>4, <4>1 DEF AckMatches
      <4>3. PICK d \in heard[head.src] : head = AckFor(head.src, d)
        BY <1>2, <3>4 DEF LinkInv, AcksAnswer
      <4>4. d.src = f.src /\ d.seq = f.seq
        BY <4>2, <4>3 DEF AckFor
      <4>5. d \in DataKnown
        BY <1>1, <3>2, <4>2, <4>3 DEF LinkInv, AcksAnswer, DataKnown, MacTypeOK
      <4>6. f \in DataKnown
        BY <2>3, <3>1 DEF LinkInv, OwnFrameAt, DataKnown, Busy
      <4>7. d = f
        BY <4>4, <4>5, <4>6 DEF LinkInv, NumberedOnce
      <4> QED
        BY <1>2, <3>2, <4>2, <4>3, <4>7 DEF Grows
    <3> QED
      BY <1>2, <2>3, <3>3, <3>4
  <2> QED
    BY <1>2, <2>1, <2>2, <2>3 DEF AwaitsAt, NeedsAck
<1>11. AckedReceived'
  BY <1>2, OkKept DEF LinkInv
<1> QED
  BY <1>1, <1>4, <1>5, <1>7, <1>8, <1>9, <1>10, <1>11 DEF LinkInv

(* rx_cb returns: the node no longer counts as receiving.                  *)
LEMMA HandUpInv ==
  ASSUME LinkInv, NEW n \in Nodes, HandUp(n)
  PROVE  LinkInv'
<1>1. MacTypeOK /\ MacTypeOK'
  BY NextType DEF LinkInv, LinkNext
<1>2. /\ UNCHANGED <<mode, tx, rxq, counter, replay, outcomes, heard, losses>>
      /\ \A m \in Nodes \ {n} : mac'[m] = mac[m] /\ rx'[m] = rx[m]
      /\ rx'[n] = NoFrame
      /\ ~ mac'[n].rx_in_progress
      /\ mac'[n].waiting_ack = mac[n].waiting_ack
      /\ mac'[n].ack_received = mac[n].ack_received
      /\ mac'[n].match = mac[n].match
  BY <1>1 DEF HandUp, MacTypeOK
<1>3. \A m \in Nodes : RxTaskAt(m)'
  BY <1>2 DEF LinkInv, RxTaskAt
<1>4. \A m \in Nodes : OwnFrameAt(m)'
  BY <1>2 DEF LinkInv, OwnFrameAt, Frame, Busy, Pc, InRange
<1>5. \A m \in Nodes : AwaitsAt(m)'
  BY <1>2 DEF LinkInv, AwaitsAt, Frame, Pc
<1>6. NumberedOnce'
  BY <1>2 DEF LinkInv, NumberedOnce, DataKnown, Frame, Busy, Pc
<1>7. AcksAnswer'
  BY <1>2 DEF LinkInv, AcksAnswer, AckFor
<1>8. AckedReceived'
  BY <1>2 DEF LinkInv, AckedReceived, Acknowledged
<1> QED
  BY <1>1, <1>3, <1>4, <1>5, <1>6, <1>7, <1>8 DEF LinkInv

(* Nothing is queued, heard or sent at first.                              *)
LEMMA InitInv == MacInit => LinkInv
<1> SUFFICES ASSUME MacInit PROVE LinkInv
  OBVIOUS
<1>1. MacTypeOK
  BY MacInitType DEF MacInit
<1>2. /\ \A m \in Nodes : tx[App(m)] = Idle /\ tx[<<m, "rx">>] = Idle
      /\ \A m \in Nodes : /\ rxq[m] = <<>> /\ heard[m] = {} /\ rx[m] = NoFrame
                          /\ ~ mac[m].rx_in_progress
      /\ outcomes = {}
  BY AppTask DEF MacInit
<1>3. \A m \in Nodes : Queued(rxq[m]) = {}
  <2>1. \A m \in Nodes : rxq[m] \in Seq(Frames)
    BY <1>1 DEF MacTypeOK
  <2> QED
    BY <1>2, <2>1, QueuedEmpty
<1>4. \A m \in Nodes : ~ Busy(m) /\ Pc(m) = "idle"
  <2>1. Idle.pc = "idle"
    BY DEF Idle
  <2> QED
    BY <1>2, <2>1 DEF Busy, Pc
<1>5. DataKnown = {}
  BY <1>2, <1>3, <1>4 DEF DataKnown
<1> QED
  BY <1>1, <1>2, <1>3, <1>4, <1>5
     DEF LinkInv, RxTaskAt, OwnFrameAt, AwaitsAt, NumberedOnce,
         AcksAnswer, AckedReceived

(* A step that changes nothing.                                            *)
LEMMA StutterInv == LinkInv /\ UNCHANGED macVars => LinkInv'
<1> SUFFICES ASSUME LinkInv, UNCHANGED macVars PROVE LinkInv'
  OBVIOUS
<1> USE DEF macVars
<1>1. MacTypeOK'
  BY NextType DEF LinkInv
<1>2. \A m \in Nodes : RxTaskAt(m)' /\ OwnFrameAt(m)' /\ AwaitsAt(m)'
  BY DEF LinkInv, RxTaskAt, OwnFrameAt, AwaitsAt, Frame, Busy, Pc, InRange
<1>3. NumberedOnce'
  BY DEF LinkInv, NumberedOnce, DataKnown, Frame, Busy, Pc
<1>4. AcksAnswer' /\ AckedReceived'
  BY DEF LinkInv, AcksAnswer, AckFor, AckedReceived, Acknowledged
<1> QED
  BY <1>1, <1>2, <1>3, <1>4 DEF LinkInv

LEMMA NextInv == ~ Preemptive /\ LinkInv /\ [LinkNext]_macVars => LinkInv'
<1> SUFFICES ASSUME ~ Preemptive, LinkInv, [LinkNext]_macVars PROVE LinkInv'
  OBVIOUS
<1>1. CASE \E n \in Nodes : LinkSend(n)
  BY <1>1, LinkSendInv
<1>2. CASE \E n \in Nodes : SendStep(App(n))
  BY <1>2, SendInv
<1>3. CASE \E n \in Nodes : ReceiveStep(n)
  BY <1>3, ReceiveInv
<1>4. CASE \E n \in Nodes : HandUp(n)
  BY <1>4, HandUpInv
<1>5. CASE UNCHANGED macVars
  BY <1>5, StutterInv
<1> QED
  BY <1>1, <1>2, <1>3, <1>4, <1>5 DEF LinkNext, App

(* On the single-threaded port the frames of the network, the ACKs under   *)
(* way and what every mac_send waits for fit together in every reachable   *)
(* state.                                                                  *)
THEOREM LinkInvariance ==
  ASSUME ~ Preemptive
  PROVE  LinkSpec => []LinkInv
<1>1. MacInit => LinkInv
  BY InitInv
<1>2. LinkInv /\ [LinkNext]_macVars => LinkInv'
  BY NextInv
<1> QED
  BY <1>1, <1>2, PTL DEF LinkSpec

(* There, mac_send reports an acknowledged delivery only of a frame that   *)
(* its link destination received, however late, often or wrongly timed the *)
(* ACKs of other rounds and other frames arrive.                           *)
THEOREM AcknowledgedWasReceived ==
  ASSUME ~ Preemptive
  PROVE  LinkSpec => []OkMeansReceived
<1>1. LinkInv => OkMeansReceived
  BY DEF LinkInv, AckedReceived, OkMeansReceived
<1> QED
  BY <1>1, LinkInvariance, PTL

-----------------------------------------------------------------------------
(* Retransmission.                                                         *)

(* The answer to what n has sent in this round is on its way: the frame is *)
(* queued at its link destination, or the ACK at n, or the flag is up.     *)
RoundUnderWay(n) ==
  \/ mac[n].ack_received
  \/ Frame(n) \in Queued(rxq[Frame(n).link_dst])
  \/ AckFor(Frame(n).link_dst, Frame(n)) \in Queued(rxq[n])

(* Every round that is over has lost a frame, and so has the round that    *)
(* waits, unless the answer is still on its way.                           *)
RoundLost(n) ==
  Busy(n) =>
    /\ losses >= tx[App(n)].retry
    /\ Pc(n) = "wait" => losses > tx[App(n)].retry \/ RoundUnderWay(n)

GivesUp == \A o \in outcomes : o.result # "OK" => losses > MaxRetries

LossInv == Patient /\ ~ Secure => GivesUp /\ \A n \in Nodes : RoundLost(n)

(* A radio link that works in both directions.                             *)
Symmetric ==
  \A p \in Places : \A m, n \in Nodes : m \in Hears[p][n] => n \in Hears[p][m]

(* What mac_send leaves alone: what is queued stays queued, and a frame    *)
(* sent to a node in range is queued there or lost.                        *)
LEMMA SendLosses ==
  ASSUME MacTypeOK, NEW n \in Nodes, SendStep(App(n))
  PROVE  /\ losses \in Int /\ losses' \in Int /\ losses' >= losses
         /\ \A m \in Nodes : Queued(rxq[m]) \subseteq Queued(rxq'[m])
         /\ Transmit(App(n)) =>
              \A m \in InRange(n) : Frame(n) \in Queued(rxq'[m]) \/ OneMoreLoss
<1>1. losses \in 0..LossCap /\ LossCap \in Nat
  BY Bounds DEF MacTypeOK
<1>2. CASE Transmit(App(n))
  <2>1. Frame(n) \in Frames /\ PhySend(n, Frame(n), rxq)
    BY <1>2, AppTask, SendUnderWay DEF Transmit, Frame
  <2>2. /\ rxq \in [Nodes -> Seq(Frames)]
        /\ \A k \in Nodes : Len(rxq[k]) <= QueueDepth
    BY DEF MacTypeOK
  <2>3. /\ losses' \in 0..LossCap /\ losses' >= losses
        /\ \A m \in Nodes : \/ rxq'[m] = rxq[m]
                            \/ /\ m \in InRange(n)
                               /\ Queued(rxq'[m]) = Queued(rxq[m]) \cup {Frame(n)}
        /\ \A m \in InRange(n) : Frame(n) \in Queued(rxq'[m]) \/ OneMoreLoss
    BY <2>1, <2>2, PhySendStep
  <2> QED
    BY <1>1, <2>3
<1>3. CASE ~ Transmit(App(n))
  <2>1. rxq' = rxq /\ (losses' = losses \/ losses' = losses + 1)
    BY <1>3 DEF SendStep, RaiseFlag, SetMatch, ChannelBusy, SendFails,
                AckTimeout
  <2> QED
    BY <1>1, <1>3, <2>1
<1> QED
  BY <1>2, <1>3

(* What on_phy_rx leaves alone: only the frame it takes leaves a queue, a  *)
(* flag that is up stays up, and an ACK to a node in range is queued there *)
(* or lost.                                                                *)
LEMMA ReceiveLosses ==
  ASSUME MacTypeOK, NEW n \in Nodes, ReceiveStep(n)
  PROVE  /\ losses \in Int /\ losses' \in Int /\ losses' >= losses
         /\ \A m \in Nodes : \A f \in Queued(rxq[m]) :
              f \in Queued(rxq'[m]) \/ (m = n /\ f = Head(rxq[n]))
         /\ \A m \in Nodes : mac[m].ack_received => mac'[m].ack_received
         /\ /\ ~ Secure /\ Head(rxq[n]).is_ack
            /\ mac[n].ack_received \/ AckMatches(n, Head(rxq[n]))
            => mac'[n].ack_received
         /\ ~ Secure /\ ~ Head(rxq[n]).is_ack /\ WantsAck(n, Head(rxq[n])) =>
              \A m \in InRange(n) :
                AckFor(n, Head(rxq[n])) \in Queued(rxq'[m]) \/ OneMoreLoss
<1> DEFINE head == Head(rxq[n])
<1>1. /\ losses \in 0..LossCap /\ LossCap \in Nat
      /\ mac \in [Nodes -> MacStates]
      /\ rxq[n] # <<>>
  BY Bounds DEF MacTypeOK, MacStates, ReceiveStep, DropReplay, ReceiveAck,
                ReceiveData, MayReceive
<1>2. /\ head \in Frames
      /\ Dequeued(n) \in [Nodes -> Seq(Frames)]
      /\ \A m \in Nodes : Len(Dequeued(n)[m]) <= QueueDepth
      /\ Queued(rxq[n]) = Queued(Dequeued(n)[n]) \cup {head}
      /\ \A m \in Nodes \ {n} : Dequeued(n)[m] = rxq[m]
  BY <1>1, DequeueStep
<1>3. \A m \in Nodes : \A f \in Queued(rxq[m]) :
        f \in Queued(Dequeued(n)[m]) \/ (m = n /\ f = head)
  BY <1>2
<1>4. CASE DropReplay(n)
  <2>1. Secure
    BY <1>4 DEF DropReplay, Fresh
  <2> QED
    BY <1>1, <1>3, <1>4, <2>1 DEF DropReplay
<1>5. CASE ReceiveAck(n)
  <2>1. mac' = [mac EXCEPT ![n].ack_received = @ \/ AckMatches(n, head)]
    BY <1>5 DEF ReceiveAck
  <2>2. /\ \A m \in Nodes : mac[m].ack_received => mac'[m].ack_received
        /\ AckMatches(n, head) => mac'[n].ack_received
    BY <1>1, <2>1 DEF MacStates
  <2> QED
    BY <1>1, <1>3, <1>5, <2>2 DEF ReceiveAck
<1>6. CASE ReceiveData(n)
  <2>1. ~ head.is_ack /\ \A m \in Nodes : mac'[m].ack_received = mac[m].ack_received
    BY <1>1, <1>6 DEF ReceiveData, MacStates
  <2>2. CASE WantsAck(n, head)
    <3>1. PhySend(n, AckFor(n, head), Dequeued(n))
      BY <1>6, <2>2 DEF ReceiveData
    <3>2. AckFor(n, head) \in Frames
      BY <1>2, AckType
    <3>3. /\ losses' \in 0..LossCap /\ losses' >= losses
          /\ \A m \in Nodes :
               \/ rxq'[m] = Dequeued(n)[m]
               \/ /\ m \in InRange(n)
                  /\ Queued(rxq'[m]) =
                       Queued(Dequeued(n)[m]) \cup {AckFor(n, head)}
          /\ \A m \in InRange(n) :
               AckFor(n, head) \in Queued(rxq'[m]) \/ OneMoreLoss
      BY <1>2, <3>1, <3>2, PhySendStep
    <3>4. \A m \in Nodes : Queued(Dequeued(n)[m]) \subseteq Queued(rxq'[m])
      BY <3>3
    <3>5. \A m \in Nodes : \A f \in Queued(rxq[m]) :
            f \in Queued(rxq'[m]) \/ (m = n /\ f = head)
      BY <1>3, <3>4
    <3>6. losses \in Int /\ losses' \in Int
      BY <1>1, <3>3
    <3> QED
      BY <2>1, <3>3, <3>5, <3>6
  <2>3. CASE ~ WantsAck(n, head)
    BY <1>1, <1>3, <1>6, <2>1, <2>3 DEF ReceiveData
  <2> QED
    BY <2>2, <2>3
<1> QED
  BY <1>4, <1>5, <1>6 DEF ReceiveStep

(* One more loss is more than the rounds before had, at most MaxRetries.   *)
LEMMA LossTells ==
  ASSUME MacTypeOK, NEW n \in Nodes, Busy(n), losses >= tx[App(n)].retry,
         losses' \in Int, OneMoreLoss
  PROVE  losses' > tx[App(n)].retry
<1>1. tx[App(n)].retry \in 0..MaxRetries
  BY AppTask, SendUnderWay DEF Busy, Pc
<1>2. losses \in 0..LossCap
  BY DEF MacTypeOK
<1> QED
  BY <1>1, <1>2, Bounds DEF OneMoreLoss

(* A round that ends with a loss, and the next one.                        *)
LEMMA NextRound ==
  ASSUME MacTypeOK, NEW n \in Nodes, Busy(n), NextRetry(App(n)),
         GivesUp, losses' \in Int, losses' >= losses,
         losses' > tx[App(n)].retry
  PROVE  GivesUp' /\ RoundLost(n)'
<1> DEFINE t == App(n)
<1>1. t \in Tasks /\ tx[t].pc # "idle" /\ tx[t] \in Sends
      /\ tx[t].retry \in 0..MaxRetries
  BY AppTask, SendUnderWay DEF Busy, Pc
<1>2. losses \in 0..LossCap /\ MaxRetries \in Nat /\ LossCap \in Nat
  BY Bounds DEF MacTypeOK
<1> HIDE DEF t
<1>3. NextRetry(t)
  BY DEF t
<1>4. \/ /\ tx[t].retry < MaxRetries
         /\ tx'[t] = [tx[t] EXCEPT !.pc = "start", !.retry = @ + 1]
         /\ outcomes' = outcomes
      \/ /\ tx[t].retry = MaxRetries
         /\ tx'[t] = Idle
         /\ \E result \in {"NO_ACK", "MAX_RETRIES"} :
              outcomes' = outcomes \cup
                {[task |-> t, frame |-> tx[t].frame, result |-> result]}
  BY <1>1, <1>3, NextRetryStep
<1>5. losses' > tx[t].retry
  BY DEF t
<1>6. GivesUp'
  <2>1. \A o \in outcomes : o.result # "OK" => losses' > MaxRetries
    BY <1>2 DEF GivesUp
  <2> QED
    BY <1>4, <1>5, <2>1 DEF GivesUp
<1>7. RoundLost(n)'
  <2>1. CASE tx'[t] = [tx[t] EXCEPT !.pc = "start", !.retry = @ + 1]
    <3>1. tx'[t].pc = "start" /\ tx'[t].retry = tx[t].retry + 1
      BY <1>1, <2>1 DEF Sends
    <3> QED
      BY <1>1, <1>5, <3>1 DEF RoundLost, Pc, t
  <2>2. CASE tx'[t] = Idle
    <3>1. tx'[t].pc = "idle"
      BY <2>2 DEF Idle
    <3> QED
      BY <3>1 DEF RoundLost, Busy, Pc, t
  <2> QED
    BY <1>4, <2>1, <2>2
<1> QED
  BY <1>6, <1>7

(* mac_send: a round that fails has lost a frame.                          *)
LEMMA SendKeepsLosses ==
  ASSUME ~ Preemptive, LinkInv, Patient, ~ Secure, GivesUp,
         \A m \in Nodes : RoundLost(m), NEW n \in Nodes, SendStep(App(n))
  PROVE  GivesUp' /\ \A m \in Nodes : RoundLost(m)'
<1> DEFINE t == App(n)
<1>1. /\ MacTypeOK
      /\ UNCHANGED <<mode, rx, counter, replay, heard>>
      /\ tx[t] \in Sends
      /\ \A u \in Tasks \ {t} : tx'[u] = tx[u]
      /\ \A m \in Nodes \ {n} : mac'[m] = mac[m]
  BY SendEffect DEF LinkInv
<1>2. /\ losses \in Int /\ losses' \in Int /\ losses' >= losses
      /\ \A m \in Nodes : Queued(rxq[m]) \subseteq Queued(rxq'[m])
      /\ Transmit(t) =>
           \A m \in InRange(n) : Frame(n) \in Queued(rxq'[m]) \/ OneMoreLoss
  BY <1>1, SendLosses
<1>3. /\ Busy(n) /\ Frame(n) \in Frames /\ tx[t].retry \in 0..MaxRetries
      /\ t \in Tasks /\ t[1] = n /\ tx[t].pc # "idle"
      /\ losses >= tx[t].retry
      /\ tx \in [Tasks -> Sends \cup {Idle}]
      /\ MaxRetries \in Nat
  BY <1>1, AppTask, Bounds
     DEF Busy, Pc, Frame, Sends, RoundLost, MacTypeOK
<1>4. ASSUME NEW m \in Nodes \ {n}
      PROVE  RoundLost(m)'
  <2>1. tx'[App(m)] = tx[App(m)] /\ mac'[m] = mac[m]
    BY <1>1, AppTask
  <2>2. ASSUME Busy(m)
        PROVE  /\ tx[App(m)].retry \in Int
               /\ Pc(m) = "wait" => Frame(m).link_dst \in Nodes
    <3>1. tx[App(m)].retry \in 0..MaxRetries /\ Frame(m) \in Frames
      BY <1>1, <2>2, AppTask, SendUnderWay DEF Busy, Pc, Frame
    <3>2. Pc(m) = "wait" => Frame(m).link_dst # Broadcast
      BY DEF LinkInv, AwaitsAt, NeedsAck
    <3> QED
      BY <1>3, <3>1, <3>2 DEF Frames, Addresses
  <2>3. RoundLost(m)
    OBVIOUS
  <2>4. ASSUME Busy(m), Pc(m) = "wait", RoundUnderWay(m)
        PROVE  RoundUnderWay(m)'
    BY <1>2, <2>1, <2>2, <2>4 DEF RoundUnderWay, Frame, AckFor
  <2> QED
    BY <1>2, <2>1, <2>2, <2>3, <2>4 DEF RoundLost, Busy, Pc
<1>5. ASSUME UNCHANGED outcomes
      PROVE  GivesUp'
  BY <1>2, <1>3, <1>5 DEF GivesUp
<1> HIDE DEF t
<1>6. ASSUME tx'[t].retry = tx[t].retry, tx'[t].pc # "wait"
      PROVE  RoundLost(n)'
  BY <1>2, <1>3, <1>6 DEF RoundLost, Pc, t
<1>7. CASE RaiseFlag(t)
  <2>1. tx'[t].retry = tx[t].retry /\ tx'[t].pc # "wait"
    BY <1>1, <1>3, <1>7 DEF RaiseFlag, Sends
  <2> QED
    BY <1>4, <1>5, <1>6, <1>7, <2>1 DEF RaiseFlag
<1>8. CASE SetMatch(t)
  <2>1. tx'[t].retry = tx[t].retry /\ tx'[t].pc # "wait"
    BY <1>1, <1>3, <1>8 DEF SetMatch, Sends
  <2> QED
    BY <1>4, <1>5, <1>6, <1>8, <2>1 DEF SetMatch
<1>9. CASE Transmit(t)
  <2>1. CASE NeedsAck(Frame(n))
    <3>1. /\ tx'[t] = [tx[t] EXCEPT !.pc = "wait"]
          /\ UNCHANGED outcomes
      BY <1>3, <1>9, <2>1 DEF Transmit, Frame, t
    <3>2. /\ tx'[t].retry = tx[t].retry
          /\ tx'[t].frame = tx[t].frame
      BY <1>1, <3>1 DEF Sends, t
    <3>3. Frame(n).link_dst \in InRange(n)
      BY <1>3, <2>1 DEF LinkInv, OwnFrameAt, NeedsAck
    <3>4. Frame(n) \in Queued(rxq'[Frame(n).link_dst]) \/ OneMoreLoss
      BY <1>2, <1>9, <3>3 DEF t
    <3>5. CASE OneMoreLoss
      <4>1. losses' > tx[t].retry
        BY <1>1, <1>2, <1>3, <3>5, LossTells DEF t
      <4>2. RoundLost(n)'
        BY <1>2, <1>3, <3>2, <4>1 DEF RoundLost, t
      <4> QED
        BY <1>4, <1>5, <3>1, <4>2
    <3>6. CASE Frame(n) \in Queued(rxq'[Frame(n).link_dst])
      <4>1. RoundUnderWay(n)'
        BY <3>2, <3>6 DEF RoundUnderWay, Frame, t
      <4>2. RoundLost(n)'
        BY <1>2, <1>3, <3>2, <4>1 DEF RoundLost, t
      <4> QED
        BY <1>4, <1>5, <3>1, <4>2
    <3> QED
      BY <3>4, <3>5, <3>6
  <2>2. CASE ~ NeedsAck(Frame(n))
    <3>1. Return(t, "OK")
      BY <1>9, <2>2 DEF Transmit, Frame, t
    <3>2. tx'[t].pc = "idle"
      BY <1>3, <3>1 DEF Return, Idle
    <3>3. RoundLost(n)'
      BY <3>2 DEF RoundLost, Busy, Pc, t
    <3>4. GivesUp'
      BY <1>2, <1>3, <3>1 DEF GivesUp, Return
    <3> QED
      BY <1>4, <3>3, <3>4
  <2> QED
    BY <2>1, <2>2
<1>10. CASE SendFails(t)
  <2>1. losses' = losses + 1 /\ NextRetry(t)
    BY <1>10 DEF SendFails
  <2>2. losses' > tx[t].retry
    BY <1>2, <1>3, <2>1
  <2> QED
    BY <1>1, <1>2, <1>3, <1>4, <2>1, <2>2, NextRound DEF t
<1>11. CASE AckTimeout(t)
  <2>1. CASE mac[n].ack_received
    <3>1. Return(t, "OK")
      BY <1>3, <1>11, <2>1 DEF AckTimeout
    <3>2. tx'[t].pc = "idle"
      BY <1>3, <3>1 DEF Return, Idle
    <3>3. RoundLost(n)'
      BY <3>2 DEF RoundLost, Busy, Pc, t
    <3>4. GivesUp'
      BY <1>2, <1>3, <3>1 DEF GivesUp, Return
    <3> QED
      BY <1>4, <3>3, <3>4
  <2>2. CASE ~ mac[n].ack_received
    <3>1. NextRetry(t) /\ Quiet(t) /\ Pc(n) = "wait"
      BY <1>3, <1>11, <2>2 DEF AckTimeout, Pc, t
    <3>2. \A m \in Nodes : rxq[m] = <<>>
      <4>1. \A m \in Nodes : RxTaskIdle(m)
        <5>1. Idle.pc = "idle"
          BY DEF Idle
        <5> QED
          BY <3>1, <5>1 DEF Quiet, RxTaskIdle, LinkInv, RxTaskAt
      <4> QED
        BY <3>1, <4>1 DEF Quiet
    <3>3. \A m \in Nodes : Queued(rxq[m]) = {}
      BY <1>1, <3>2, QueuedEmpty DEF MacTypeOK
    <3>4. Frame(n).link_dst \in Nodes
      BY <1>3, <3>1 DEF LinkInv, AwaitsAt, NeedsAck, Frames, Addresses
    <3>5. ~ RoundUnderWay(n)
      BY <2>2, <3>3, <3>4 DEF RoundUnderWay
    <3>6. losses > tx[t].retry
      BY <1>3, <3>1, <3>5 DEF RoundLost, t
    <3>7. losses' > tx[t].retry
      BY <1>2, <1>3, <3>6
    <3> QED
      BY <1>1, <1>2, <1>3, <1>4, <3>1, <3>7, NextRound DEF t
  <2> QED
    BY <2>1, <2>2
<1>12. ~ ChannelBusy(t)
  <2>1. RxTaskIdle(n)
    BY AppTask DEF SendStep, MayRun
  <2> QED
    BY <1>3, <2>1 DEF ChannelBusy, LinkInv, RxTaskAt, RxTaskIdle
<1> QED
  BY <1>7, <1>8, <1>9, <1>10, <1>11, <1>12 DEF SendStep, t

(* on_phy_rx: the frame that is taken is answered, and the answer gets     *)
(* back, or is lost, or raises the flag of the mac_send that waits for it. *)
LEMMA ReceiveKeepsLosses ==
  ASSUME ~ Preemptive, Symmetric, LinkInv, Patient, ~ Secure, GivesUp,
         \A m \in Nodes : RoundLost(m), NEW r \in Nodes, ReceiveStep(r)
  PROVE  GivesUp' /\ \A m \in Nodes : RoundLost(m)'
<1> DEFINE head == Head(rxq[r])
<1>1. MacTypeOK /\ UNCHANGED <<mode, tx, outcomes>>
  BY ReceiveEffect DEF LinkInv
<1>2. /\ losses \in Int /\ losses' \in Int /\ losses' >= losses
      /\ \A m \in Nodes : \A f \in Queued(rxq[m]) :
           f \in Queued(rxq'[m]) \/ (m = r /\ f = head)
      /\ \A m \in Nodes : mac[m].ack_received => mac'[m].ack_received
      /\ /\ head.is_ack
         /\ mac[r].ack_received \/ AckMatches(r, head)
         => mac'[r].ack_received
      /\ ~ head.is_ack /\ WantsAck(r, head) =>
           \A m \in InRange(r) : AckFor(r, head) \in Queued(rxq'[m])
                                 \/ OneMoreLoss
  BY <1>1, ReceiveLosses
<1> HIDE DEF head
<1>3. GivesUp'
  BY <1>1, <1>2, MacBoundsAssumption DEF GivesUp
<1>4. ASSUME NEW n \in Nodes, Busy(n)
      PROVE  RoundLost(n)'
  <2> DEFINE f == Frame(n)
             d == Frame(n).link_dst
             k == tx[App(n)].retry
  <2>1. /\ k \in 0..MaxRetries /\ MaxRetries \in Nat
        /\ f \in Frames
        /\ losses >= k
    BY <1>1, <1>4, AppTask, SendUnderWay, Bounds
       DEF Busy, Pc, Frame, RoundLost
  <2>2. k \in Int /\ losses' >= k
    BY <1>2, <2>1
  <2>3. ASSUME Pc(n) = "wait", ~ losses' > k
        PROVE  RoundUnderWay(n)'
    <3>1. RoundUnderWay(n)
      BY <1>2, <1>4, <2>2, <2>3 DEF RoundLost
    <3>2. ~ OneMoreLoss
      BY <1>1, <1>2, <1>4, <2>1, <2>3, LossTells
    <3>3. /\ NeedsAck(f) /\ d \in Nodes /\ d \in InRange(n)
          /\ f.src = n /\ f.dst = d /\ ~ f.is_ack
          /\ mac[n].waiting_ack
          /\ mac[n].match = [src |-> d, dst |-> n, seq |-> f.seq]
      BY <1>4, <2>1, <2>3
         DEF LinkInv, OwnFrameAt, AwaitsAt, NeedsAck, Frames, Addresses
    <3>4. Frame(n)' = f /\ AckFor(d, f)' = AckFor(d, f)
      BY <1>1 DEF Frame, AckFor
    <3>5. CASE mac[n].ack_received
      BY <1>2, <3>5 DEF RoundUnderWay
    <3>6. CASE f \in Queued(rxq[d])
      <4>1. CASE f \in Queued(rxq'[d])
        BY <3>4, <4>1 DEF RoundUnderWay
      <4>2. CASE d = r /\ f = head
        <5>1. WantsAck(r, head) /\ ~ head.is_ack
          BY <3>3, <4>2, BroadcastAssumption DEF WantsAck, NeedsAck
        <5>2. n \in InRange(r)
          <6>1. mode.place \in Places
            BY <1>1, ModesAssumption DEF MacTypeOK
          <6> QED
            BY <3>3, <4>2, <6>1 DEF Symmetric, InRange
        <5>3. AckFor(d, f) \in Queued(rxq'[n])
          BY <1>2, <3>2, <4>2, <5>1, <5>2
        <5> QED
          BY <3>4, <5>3 DEF RoundUnderWay, AckFor
      <4> QED
        BY <1>2, <3>3, <3>6, <4>1, <4>2
    <3>7. CASE AckFor(d, f) \in Queued(rxq[n])
      <4>1. CASE AckFor(d, f) \in Queued(rxq'[n])
        BY <3>4, <4>1 DEF RoundUnderWay, AckFor
      <4>2. CASE n = r /\ AckFor(d, f) = head /\ ~ mac[n].ack_received
        <5>1. head.is_ack /\ AckMatches(n, head)
          BY <3>3, <4>2 DEF AckMatches, AckFor
        <5>2. mac'[n].ack_received
          BY <1>2, <4>2, <5>1
        <5> QED
          BY <5>2 DEF RoundUnderWay
      <4> QED
        BY <1>2, <3>5, <3>7, <4>1, <4>2
    <3> QED
      BY <3>1, <3>5, <3>6, <3>7 DEF RoundUnderWay
  <2> QED
    BY <1>1, <2>2, <2>3 DEF RoundLost, Pc
<1>5. ASSUME NEW n \in Nodes, ~ Busy(n)
      PROVE  RoundLost(n)'
  BY <1>1, <1>5 DEF RoundLost, Busy, Pc
<1> QED
  BY <1>3, <1>4, <1>5

(* A step that leaves the queues, the flags of the ACK, the losses and     *)
(* every send under way alone starts at most a round with nothing lost.    *)
LEMMA OthersKeepLosses ==
  ASSUME MacTypeOK, GivesUp, \A m \in Nodes : RoundLost(m),
         UNCHANGED <<rxq, outcomes, losses>>,
         \A m \in Nodes : mac'[m].ack_received = mac[m].ack_received,
         \A m \in Nodes : \/ tx'[App(m)] = tx[App(m)]
                          \/ tx'[App(m)].pc = "start" /\ tx'[App(m)].retry = 0
  PROVE  GivesUp' /\ \A m \in Nodes : RoundLost(m)'
<1>1. GivesUp'
  BY DEF GivesUp
<1>2. losses >= 0
  BY Bounds DEF MacTypeOK
<1>3. ASSUME NEW m \in Nodes, tx'[App(m)] = tx[App(m)]
      PROVE  RoundLost(m)'
  BY <1>3 DEF RoundLost, RoundUnderWay, Busy, Pc, Frame, AckFor
<1>4. ASSUME NEW m \in Nodes, tx'[App(m)].pc = "start", tx'[App(m)].retry = 0
      PROVE  RoundLost(m)'
  BY <1>2, <1>4 DEF RoundLost, Pc
<1> QED
  BY <1>1, <1>3, <1>4

(* Every step keeps count of what the rounds have lost.                    *)
LEMMA NextLosses ==
  ~ Preemptive /\ Symmetric /\ LinkInv /\ LossInv /\ [LinkNext]_macVars => LossInv'
<1> SUFFICES ASSUME ~ Preemptive, Symmetric, LinkInv, LossInv, [LinkNext]_macVars,
                    Patient', ~ Secure'
             PROVE  GivesUp' /\ \A m \in Nodes : RoundLost(m)'
  BY DEF LossInv
<1>1. MacTypeOK
  BY DEF LinkInv
<1>2. CASE \E n \in Nodes : LinkSend(n)
  <2>1. PICK n \in Nodes : LinkSend(n)
    BY <1>2
  <2>2. PICK dst \in InRange(n) \cup {Broadcast}, ack_req \in BOOLEAN :
          /\ NewFrame(n, dst, ack_req) \in Frames
          /\ MacSend(App(n), NewFrame(n, dst, ack_req))
          /\ counter' = [counter EXCEPT ![n] = @ + 1]
          /\ counter[n] + 1 \in Seqs
          /\ UNCHANGED <<mode, mac, rx, rxq, replay, outcomes, heard, losses>>
    BY <1>1, <2>1, LinkSendStep
  <2>3. GivesUp /\ \A m \in Nodes : RoundLost(m)
    BY <2>2 DEF LossInv, Patient, Secure
  <2>4. /\ tx'[App(n)].pc = "start" /\ tx'[App(n)].retry = 0
        /\ \A u \in Tasks \ {App(n)} : tx'[u] = tx[u]
    BY <1>1, <2>2, AppTask, MacSendStep
  <2>5. \A m \in Nodes \ {n} : tx'[App(m)] = tx[App(m)]
    BY <2>4, AppTask
  <2> QED
    BY <1>1, <2>2, <2>3, <2>4, <2>5, OthersKeepLosses
<1>3. CASE \E n \in Nodes : SendStep(App(n))
  <2>1. PICK n \in Nodes : SendStep(App(n))
    BY <1>3
  <2>2. UNCHANGED mode
    BY <1>1, <2>1, SendEffect
  <2> QED
    BY <2>1, <2>2, SendKeepsLosses DEF LossInv, Patient, Secure
<1>4. CASE \E n \in Nodes : ReceiveStep(n)
  <2>1. PICK n \in Nodes : ReceiveStep(n)
    BY <1>4
  <2>2. UNCHANGED mode
    BY <1>1, <2>1, ReceiveEffect
  <2> QED
    BY <2>1, <2>2, ReceiveKeepsLosses DEF LossInv, Patient, Secure
<1>5. CASE \E n \in Nodes : HandUp(n)
  <2>1. PICK n \in Nodes : HandUp(n)
    BY <1>5
  <2>2. /\ UNCHANGED <<mode, tx, rxq, outcomes, losses>>
        /\ \A m \in Nodes : mac'[m].ack_received = mac[m].ack_received
    BY <1>1, <2>1 DEF HandUp, MacTypeOK
  <2>3. GivesUp /\ \A m \in Nodes : RoundLost(m)
    BY <2>2 DEF LossInv, Patient, Secure
  <2> QED
    BY <1>1, <2>2, <2>3, OthersKeepLosses
<1>6. CASE UNCHANGED macVars
  <2>1. GivesUp /\ \A m \in Nodes : RoundLost(m)
    BY <1>6 DEF LossInv, Patient, Secure, macVars
  <2> QED
    BY <1>1, <1>6, <2>1, OthersKeepLosses DEF macVars
<1> QED
  BY <1>2, <1>3, <1>4, <1>5, <1>6 DEF LinkNext, App

(* On the single-threaded port, over radio links that work both ways and   *)
(* with timeouts long enough for an answer, a mac_send without security    *)
(* gives up only after a loss in each of its MaxRetries + 1 rounds: fewer  *)
(* losses than that are always made up for.                                *)
THEOREM RetransmissionMasksLosses ==
  ASSUME ~ Preemptive, Symmetric
  PROVE  LinkSpec => []RetryMasksLossInOpen
<1>1. MacInit => LossInv
  <2> SUFFICES ASSUME MacInit PROVE GivesUp /\ \A m \in Nodes : ~ Busy(m)
    BY DEF LossInv, RoundLost
  <2>1. Idle.pc = "idle"
    BY DEF Idle
  <2> QED
    BY <2>1, AppTask DEF MacInit, GivesUp, Busy, Pc
<1>2. LinkInv /\ LossInv /\ [LinkNext]_macVars => LossInv'
  BY NextLosses
<1>3. LossInv => RetryMasksLossInOpen
  BY DEF LossInv, GivesUp, RetryMasksLossInOpen
<1> QED
  BY <1>1, <1>2, <1>3, LinkInvariance, PTL DEF LinkSpec
=============================================================================
