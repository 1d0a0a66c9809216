-------------------------------- MODULE Mac --------------------------------
(***************************************************************************)
(* The MAC layer of uMesh (src/src/mac/mac.c): mac_send with carrier sense, *)
(* link acknowledgement and retransmission, and on_phy_rx, over the radio  *)
(* and the receive queue of the ESP32 port (port/esp32/phy_esp32.c).       *)
(*                                                                         *)
(* A node runs two tasks: "app", which calls umesh_send and umesh_tick,    *)
(* and "rx", the rx_task of the port, which takes raw frames from a queue  *)
(* and runs on_phy_rx, and inside it whatever the network layer does with  *)
(* the frame - a mac_send of its own when it forwards.  The two share the  *)
(* mac state of the context without a lock.                                *)
(***************************************************************************)
EXTENDS ReplayWindow, Sequences

CONSTANTS
  Nodes,          \* the nodes; a node is its own address
  Broadcast,      \* UMESH_ADDR_BROADCAST
  Places,         \* the networks that are looked at
  Hears,          \* Hears[p][n]: the nodes in radio range of n in place p
  Modes,          \* how a network may be set up: secure, when cfg.security
                  \* is not UMESH_SEC_NONE; patient, when timeouts are long
                  \* enough for all that is under way, else they may come
                  \* at any time; and its place
  Preemptive,     \* TRUE: the tasks interleave at every step (ESP32);
                  \* FALSE: the rx task runs only while the other one waits
  MaxRetries,     \* UMESH_MAX_RETRIES
  QueueDepth,     \* RX_QUEUE_DEPTH
  HopLimit,       \* UMESH_MAX_HOP_COUNT
  MaxSends,       \* bound: frames the application of each node sends
  MaxLosses       \* bound: frames the radio of a place loses or refuses
                  \* to send

ASSUME NodesAssumption     == IsFiniteSet(Nodes)
ASSUME BroadcastAssumption == Broadcast \notin Nodes
ASSUME HearsAssumption     == /\ Hears \in [Places -> [Nodes -> SUBSET Nodes]]
                              /\ \A p \in Places, n \in Nodes :
                                   n \notin Hears[p][n]
ASSUME ModesAssumption     == /\ Preemptive \in BOOLEAN
                              /\ Modes \subseteq [secure : BOOLEAN,
                                                patient : BOOLEAN,
                                                place : Places]
ASSUME MacBoundsAssumption == /\ MaxRetries \in Nat
                              /\ MaxLosses \in [Places -> Nat]
                              /\ {QueueDepth, HopLimit} \subseteq Nat \ {0}
                              /\ MaxSends \in [Nodes -> Nat]

VARIABLES
  mode,     \* how this network is set up
  mac,      \* ctx->mac of each node: the flags and the ACK it waits for
  tx,       \* the mac_send each task is in
  rx,       \* the frame the rx task hands to the network layer, if any
  rxq,      \* the receive queue of each node
  counter,  \* net.seq_num, or sec.protected_counter when Secure
  replay,   \* sec.replay of each node, by source
  outcomes, \* history: what every mac_send returned
  heard,    \* history: the frames each MAC handed up
  losses    \* history: how many frames a node in range did not get, or the
            \* radio did not send

macVars == <<mode, mac, tx, rx, rxq, counter, replay, outcomes, heard, losses>>

Secure  == mode.secure
Patient == mode.patient

InRange(n) == Hears[mode.place][n]
MayLose    == MaxLosses[mode.place]

Addresses == Nodes \cup {Broadcast}
Tasks     == Nodes \X {"app", "rx"}

(* Where the count of losses stops; retries still tell it from fewer.      *)
LossCap == MayLose + MaxRetries + 1

(* The fields of umesh_frame_t the control depends on.                     *)
Frames == [is_ack : BOOLEAN, ack_req : BOOLEAN, seq : Seqs, hop : 0..HopLimit,
           src : Nodes, dst : Addresses,
           link_src : Nodes, link_dst : Addresses]

NoFrame == [is_ack |-> FALSE]

(* What an ACK must match: ack_src, ack_dst and ack_seq.                   *)
NoMatch  == [src |-> Broadcast, dst |-> Broadcast, seq |-> 0]
Matches  == [src : Addresses, dst : Addresses, seq : Seqs]

(* Where a task is in mac_send, with which frame and in which round.       *)
Idle  == [pc |-> "idle", frame |-> NoFrame, retry |-> 0, attempt |-> 0]
Sends == [pc : {"start", "match", "cca", "wait"}, frame : Frames,
          retry : 0..MaxRetries, attempt : 0..MaxRetries]

Results == {"OK", "NO_ACK", "MAX_RETRIES"}

(* The mac state is always one the fields of umesh_ctx_t can hold.         *)
MacTypeOK ==
  /\ mode \in Modes
  /\ mac \in [Nodes -> [waiting_ack : BOOLEAN, ack_received : BOOLEAN,
                        match : Matches, rx_in_progress : BOOLEAN]]
  /\ tx \in [Tasks -> Sends \cup {Idle}]
  /\ rx \in [Nodes -> Frames \cup {NoFrame}]
  /\ rxq \in [Nodes -> Seq(Frames)]
  /\ \A n \in Nodes : Len(rxq[n]) <= QueueDepth
  /\ counter \in [Nodes -> Seqs]
  /\ replay \in [Nodes -> [Nodes -> Windows]]
  /\ outcomes \in SUBSET [task : Tasks, frame : Frames, result : Results]
  /\ heard \in [Nodes -> SUBSET Frames]
  /\ losses \in 0..LossCap

MacInit ==
  /\ mode \in Modes
  /\ mac = [n \in Nodes |-> [waiting_ack |-> FALSE, ack_received |-> FALSE,
                             match |-> NoMatch, rx_in_progress |-> FALSE]]
  /\ tx = [t \in Tasks |-> Idle]
  /\ rx = [n \in Nodes |-> NoFrame]
  /\ rxq = [n \in Nodes |-> <<>>]
  /\ counter = [n \in Nodes |-> 0]
  /\ replay = [n \in Nodes |-> [s \in Nodes |-> EmptyWindow]]
  /\ outcomes = {}
  /\ heard = [n \in Nodes |-> {}]
  /\ losses = 0

-----------------------------------------------------------------------------
(* The radio.                                                              *)

(* phy_send by n, with the nodes in Deaf missing the frame.  promisc_cb    *)
(* appends it to the queue of every other node in range, or drops it when  *)
(* that queue is full.  `queues' are the receive queues as they are before. *)
NeverFull(queues) == {}
Full(queues) == {m \in Nodes : Len(queues[m]) = QueueDepth}

PhySend(n, frame, queues) ==
  \E deaf \in SUBSET InRange(n) :
    LET missed == deaf \cup (InRange(n) \cap Full(queues))
    IN  /\ Cardinality(deaf) + losses <= MayLose \/ deaf = {}
        /\ losses' = IF losses + Cardinality(missed) > LossCap THEN LossCap
                     ELSE losses + Cardinality(missed)
        /\ rxq' = [m \in Nodes |-> IF m \in InRange(n) \ missed
                                   THEN Append(queues[m], frame)
                                   ELSE queues[m]]

(* The rx task of n waits for the next raw frame.                          *)
RxTaskIdle(n) == tx[<<n, "rx">>].pc = "idle" /\ rx[n] = NoFrame

(* Without preemption the caller of mac_send stands still while a callback *)
(* runs in one of its delays.                                              *)
MayRun(t) == Preemptive \/ t[2] = "rx" \/ RxTaskIdle(t[1])

(* Nobody but task t has anything to do before a timeout: every other task *)
(* is idle, waits for an ACK itself, or has to stand still.                *)
Quiet(t) ==
  /\ \A n \in Nodes : RxTaskIdle(n) => rxq[n] = <<>>
  /\ \A n \in Nodes : rx[n] = NoFrame
  /\ \A u \in Tasks \ {t} : MayRun(u) => tx[u].pc \in {"idle", "wait"}

-----------------------------------------------------------------------------
(* mac_send.                                                               *)

NeedsAck(frame) == frame.ack_req /\ frame.link_dst # Broadcast

(* sec_encrypt_frame of a frame that has its number pushes the counter up. *)
Protect(n, frame) ==
  counter' = IF Secure /\ frame.seq > counter[n]
             THEN [counter EXCEPT ![n] = frame.seq] ELSE counter

(* mac_send up to the loop: a broadcast loses its ACK request.             *)
MacSend(t, frame) ==
  /\ tx[t].pc = "idle"
  /\ tx' = [tx EXCEPT ![t] =
       [pc      |-> "start",
        frame   |-> [frame EXCEPT
                      !.ack_req = @ /\ Broadcast \notin {frame.dst,
                                                         frame.link_dst}],
        retry   |-> 0,
        attempt |-> 0]]

(* The last step of mac_send: the result goes to the caller.               *)
Return(t, result) ==
  /\ tx' = [tx EXCEPT ![t] = Idle]
  /\ outcomes' = outcomes \cup
       {[task |-> t, frame |-> tx[t].frame, result |-> result]}

(* The head of the retry loop, after the backoff: first the two flags ...  *)
RaiseFlag(t) ==
  /\ tx[t].pc = "start"
  /\ IF NeedsAck(tx[t].frame)
     THEN /\ mac' = [mac EXCEPT ![t[1]].waiting_ack = TRUE,
                                ![t[1]].ack_received = FALSE]
          /\ tx' = [tx EXCEPT ![t].pc = "match"]
     ELSE /\ tx' = [tx EXCEPT ![t].pc = "cca", ![t].attempt = 0]
          /\ UNCHANGED mac
  /\ UNCHANGED <<mode, rx, rxq, counter, replay, outcomes, heard, losses>>

(* ... then the fields that the ACK is compared with.                      *)
SetMatch(t) ==
  /\ tx[t].pc = "match"
  /\ mac' = [mac EXCEPT ![t[1]].match = [src |-> tx[t].frame.link_dst,
                                         dst |-> tx[t].frame.src,
                                         seq |-> tx[t].frame.seq]]
  /\ tx' = [tx EXCEPT ![t].pc = "cca", ![t].attempt = 0]
  /\ UNCHANGED <<mode, rx, rxq, counter, replay, outcomes, heard, losses>>

(* The end of a failed round of the loop: another one, or the result.      *)
NextRetryEarly(t) ==
  IF tx[t].retry + 1 < MaxRetries
  THEN /\ tx' = [tx EXCEPT ![t].pc = "start", ![t].retry = @ + 1]
       /\ UNCHANGED outcomes
  ELSE Return(t, IF NeedsAck(tx[t].frame) THEN "NO_ACK" ELSE "MAX_RETRIES")
NextRetryForEver(t) ==
  tx' = [tx EXCEPT ![t].pc = "start"] /\ UNCHANGED outcomes
NextRetry(t) ==
  IF tx[t].retry < MaxRetries
  THEN /\ tx' = [tx EXCEPT ![t].pc = "start", ![t].retry = @ + 1]
       /\ UNCHANGED outcomes
  ELSE Return(t, IF NeedsAck(tx[t].frame) THEN "NO_ACK" ELSE "MAX_RETRIES")

(* phy_send_with_cca while the node is receiving: back off and look again, *)
(* and give up this round after as many looks as there are retries.        *)
ChannelBusy(t) ==
  /\ tx[t].pc = "cca"
  /\ mac[t[1]].rx_in_progress
  /\ IF tx[t].attempt < MaxRetries
     THEN /\ tx' = [tx EXCEPT ![t].attempt = @ + 1]
          /\ UNCHANGED <<mac, outcomes>>
     ELSE /\ NextRetry(t)
          /\ mac' = [mac EXCEPT ![t[1]].waiting_ack = FALSE]
  /\ UNCHANGED <<mode, rx, rxq, counter, replay, heard, losses>>

(* phy_send_with_cca on a free channel.                                    *)
Transmit(t) ==
  /\ tx[t].pc = "cca"
  /\ ~ mac[t[1]].rx_in_progress
  /\ PhySend(t[1], tx[t].frame, rxq)
  /\ IF NeedsAck(tx[t].frame)
     THEN tx' = [tx EXCEPT ![t].pc = "wait"] /\ UNCHANGED outcomes
     ELSE Return(t, "OK")
  /\ UNCHANGED <<mode, mac, rx, counter, replay, heard>>

(* phy_send reports an error and sends nothing: this round is over, too.   *)
SendFails(t) ==
  /\ tx[t].pc = "cca"
  /\ ~ mac[t[1]].rx_in_progress
  /\ losses < MayLose
  /\ losses' = losses + 1
  /\ NextRetry(t)
  /\ mac' = [mac EXCEPT ![t[1]].waiting_ack = FALSE]
  /\ UNCHANGED <<mode, rx, rxq, counter, replay, heard>>

(* The ACK timeout has passed: lower the flag and look at the other one.   *)
AckTimeout(t) ==
  /\ tx[t].pc = "wait"
  /\ Patient => Quiet(t)
  /\ mac' = [mac EXCEPT ![t[1]].waiting_ack = FALSE]
  /\ IF mac[t[1]].ack_received THEN Return(t, "OK") ELSE NextRetry(t)
  /\ UNCHANGED <<mode, rx, rxq, counter, replay, heard, losses>>

SendStep(t) ==
  /\ MayRun(t)
  /\ \/ RaiseFlag(t)
     \/ SetMatch(t)
     \/ ChannelBusy(t)
     \/ Transmit(t)
     \/ SendFails(t)
     \/ AckTimeout(t)

-----------------------------------------------------------------------------
(* on_phy_rx, run by the rx task on the oldest frame of its queue.         *)

(* A callback of the single-threaded port runs inside the delays of        *)
(* mac_send only.                                                          *)
MayReceive(n) ==
  /\ RxTaskIdle(n)
  /\ rxq[n] # <<>>
  /\ Preemptive \/ tx[<<n, "app">>].pc \in {"idle", "start", "wait"}

Dequeued(n) == [rxq EXCEPT ![n] = Tail(@)]

(* sec_decrypt_frame, for a frame whose MIC is right.                      *)
Fresh(n, frame) ==
  Secure => ReplayAccepts(replay[n][frame.src], frame.seq)
Remember(n, frame) ==
  replay' = IF Secure
            THEN [replay EXCEPT ![n][frame.src] = ReplayUpdate(@, frame.seq)]
            ELSE replay

(* UMESH_ERR_REPLAY: dropped before anything else looks at the frame.      *)
DropReplay(n) ==
  /\ MayReceive(n)
  /\ ~ Fresh(n, Head(rxq[n]))
  /\ rxq' = Dequeued(n)
  /\ UNCHANGED <<mode, mac, tx, rx, counter, replay, outcomes, heard, losses>>

(* The comparison of an ACK with what the node waits for.                  *)
AckMatchesAnySeq(n, ack) ==
  /\ mac[n].waiting_ack /\ ~ mac[n].ack_received
  /\ ack.src = mac[n].match.src /\ ack.link_src = mac[n].match.src
  /\ ack.dst = mac[n].match.dst /\ ack.link_dst = n
AckMatches(n, ack) ==
  /\ mac[n].waiting_ack /\ ~ mac[n].ack_received
  /\ ack.src = mac[n].match.src /\ ack.link_src = mac[n].match.src
  /\ ack.dst = mac[n].match.dst /\ ack.link_dst = n
  /\ ack.seq = mac[n].match.seq

ReceiveAck(n) ==
  LET ack == Head(rxq[n])
  IN  /\ MayReceive(n)
      /\ ack.is_ack
      /\ Fresh(n, ack)
      /\ Remember(n, ack)
      /\ rxq' = Dequeued(n)
      /\ mac' = [mac EXCEPT ![n].ack_received = @ \/ AckMatches(n, ack)]
      /\ UNCHANGED <<mode, tx, rx, counter, outcomes, heard, losses>>

(* The ACK on_phy_rx answers with: to the frame's source, over one hop.    *)
AckFor(n, frame) ==
  [is_ack |-> TRUE, ack_req |-> FALSE, seq |-> frame.seq, hop |-> 0,
   src |-> n, dst |-> frame.src, link_src |-> n, link_dst |-> frame.src]

WantsAck(n, frame) ==
  frame.ack_req /\ frame.link_dst = n /\ frame.dst # Broadcast

(* A frame that is not an ACK: it is answered if it asks for that, and     *)
(* goes to rx_cb; until that returns the node counts as receiving.         *)
ReceiveData(n) ==
  LET frame == Head(rxq[n])
  IN  /\ MayReceive(n)
      /\ ~ frame.is_ack
      /\ Fresh(n, frame)
      /\ Remember(n, frame)
      /\ mac' = [mac EXCEPT ![n].rx_in_progress = TRUE]
      /\ rx' = [rx EXCEPT ![n] = frame]
      /\ heard' = [heard EXCEPT ![n] = @ \cup {frame}]
      /\ IF WantsAck(n, frame)
         THEN /\ PhySend(n, AckFor(n, frame), Dequeued(n))
              /\ Protect(n, frame)
         ELSE /\ rxq' = Dequeued(n)
              /\ UNCHANGED <<counter, losses>>
      /\ UNCHANGED <<mode, tx, outcomes>>

ReceiveStep(n) == DropReplay(n) \/ ReceiveAck(n) \/ ReceiveData(n)

-----------------------------------------------------------------------------
Acknowledged(o) == o.result = "OK" /\ o.frame.ack_req

(* A send that reports an acknowledged delivery is right: the link         *)
(* destination did receive that very frame (mac.c, the ACK comparison of   *)
(* on_phy_rx and the flags mac_send shares with it).                       *)
OkMeansReceived ==
  \A o \in outcomes :
    Acknowledged(o) => o.frame \in heard[o.frame.link_dst]

(* A send that gives up has lost a frame in every round, the data or its   *)
(* ACK: as long as fewer are lost than there are rounds, retransmission    *)
(* makes up for it, if timeouts are long enough for an answer (mac.c, the  *)
(* retry loop and the ACK repeated for a retransmission).                  *)
(* That only holds without security: with it, a retransmission is dropped  *)
(* as a replay before it can be acknowledged.                              *)
RetryMasksLossInOpen ==
  Patient /\ ~ Secure =>
    \A o \in outcomes : o.result # "OK" => losses > MaxRetries
=============================================================================
