---------------------------- MODULE Forwarding ----------------------------
(***************************************************************************)
(* The data plane of the network layer (src/src/net/net.c) on top of the   *)
(* MAC: net_route sends what the application hands over towards the next   *)
(* hop of its destination, and on_mac_rx delivers or forwards what arrives *)
(* after the duplicate cache has seen it.  Forwarding happens inside the   *)
(* receive handler: the rx task is in a mac_send of its own until the next *)
(* hop has answered or all the retries are spent.                          *)
(*                                                                         *)
(* Routes are those of a settled network: Route[p][n][d] is the next hop   *)
(* of routing_find at n in place p.  No entry of the duplicate cache gets old enough to  *)
(* expire.                                                                 *)
(***************************************************************************)
EXTENDS Mac

CONSTANTS
  Route,         \* Route[p][n][d]: the next hop of n towards d, or NoRoute
  NoRoute,
  DupCacheSize,  \* UMESH_DUP_CACHE_SIZE, as the nodes of a place are built
  Destinations   \* bound: Destinations[p][n], where the application of n
                 \* sends

ASSUME RouteAssumption ==
  /\ NoRoute \notin Nodes
  /\ Route \in [Places -> [Nodes -> [Nodes -> Nodes \cup {NoRoute}]]]
ASSUME DupCacheSizeAssumption == DupCacheSize \in [Places -> Nat \ {0}]
ASSUME DestinationsAssumption ==
  Destinations \in [Places -> [Nodes -> SUBSET (Nodes \cup {Broadcast})]]

VARIABLES
  dup_cache,  \* net.dup_cache and net.dup_cache_next
  delivered,  \* history: the packets a node gave net.rx_cb, once (1) or
              \* more often (2)
  forwarded   \* history: the packets a node set out to forward, likewise

vars == <<mode, mac, tx, rx, rxq, counter, replay, outcomes, heard, losses,
          dup_cache, delivered, forwarded>>

(* What identifies a packet to the duplicate cache.                        *)
Packets == [src : Nodes, dst : Addresses, seq : Seqs, ack_req : BOOLEAN]
PacketOf(frame) == [src |-> frame.src, dst |-> frame.dst, seq |-> frame.seq,
                    ack_req |-> frame.ack_req]
NoPacket == [seq |-> 0]

CacheSize == DupCacheSize[mode.place]

Slots  == 0..(CacheSize - 1)
Caches == [entry : [Slots -> Packets \cup {NoPacket}], next : Slots]

TypeOK ==
  /\ MacTypeOK
  /\ dup_cache \in [Nodes -> Caches]
  /\ \A n \in Nodes : DOMAIN delivered[n] \subseteq Packets
  /\ \A n \in Nodes : DOMAIN forwarded[n] \subseteq Packets

Init ==
  /\ MacInit
  /\ dup_cache = [n \in Nodes |->
                   [entry |-> [i \in Slots |-> NoPacket], next |-> 0]]
  /\ delivered = [n \in Nodes |-> <<>>]
  /\ forwarded = [n \in Nodes |-> <<>>]

(* One more occurrence of packet: the first, or a repetition.              *)
Count(bag, packet) ==
  IF packet \in DOMAIN bag
  THEN [bag EXCEPT ![packet] = 2]
  ELSE [p \in DOMAIN bag \cup {packet} |-> IF p = packet THEN 1 ELSE bag[p]]

-----------------------------------------------------------------------------
(* net_dup_cache_seen: a hit leaves the cache alone; a miss is recorded in *)
(* the first free slot, or else in the slot that is next in turn.          *)
SeenNever(n, packet) == FALSE
Seen(n, packet) == \E i \in Slots : dup_cache[n].entry[i] = packet

InsertSlot(cache) ==
  IF \E i \in Slots : cache.entry[i] = NoPacket
  THEN CHOOSE i \in Slots :
         /\ cache.entry[i] = NoPacket
         /\ \A j \in Slots : cache.entry[j] = NoPacket => i <= j
  ELSE cache.next

InsertPastEnd(cache, packet) ==
  LET slot == InsertSlot(cache)
  IN  [entry |-> [cache.entry EXCEPT ![slot] = packet], next |-> slot + 1]
Insert(cache, packet) ==
  LET slot == InsertSlot(cache)
  IN  [entry |-> [cache.entry EXCEPT ![slot] = packet],
       next  |-> (slot + 1) % CacheSize]

(* net_select_next_hop in distance-vector mode.                            *)
NextHop(n, dst) ==
  IF dst = Broadcast THEN Broadcast ELSE Route[mode.place][n][dst]

-----------------------------------------------------------------------------
(* umesh_send and net_route on a connected node.                           *)
AppSend(n) ==
  \E dst \in Destinations[mode.place][n], ack_req \in BOOLEAN :
    /\ Cardinality({o \in outcomes : o.task = <<n, "app">>}) < MaxSends[n]
    /\ counter[n] < MaxSeq
    /\ NextHop(n, dst) # NoRoute
    /\ MacSend(<<n, "app">>,
               [is_ack |-> FALSE, ack_req |-> ack_req,
                seq |-> counter[n] + 1, hop |-> HopLimit,
                src |-> n, dst |-> dst,
                link_src |-> n, link_dst |-> NextHop(n, dst)])
    /\ counter' = [counter EXCEPT ![n] = @ + 1]
    /\ UNCHANGED <<mode, mac, rx, rxq, replay, outcomes, heard, losses,
                   dup_cache, delivered, forwarded>>

-----------------------------------------------------------------------------
(* on_mac_rx.  The handler ends, and on_phy_rx with it.                    *)
HandlerReturns(n) ==
  /\ rx' = [rx EXCEPT ![n] = NoFrame]
  /\ mac' = [mac EXCEPT ![n].rx_in_progress = FALSE]
  /\ UNCHANGED <<mode, rxq, replay, outcomes, heard, losses>>

ForMe(n, frame) == frame.link_dst \in {n, Broadcast}
Transit(n, frame) == frame.link_dst = n /\ frame.dst \notin {n, Broadcast}

(* A frame for another link destination was only overheard, and one that   *)
(* the cache knows was handled before.                                     *)
Ignore(n) ==
  /\ rx[n] # NoFrame
  /\ ForMe(n, rx[n]) => Seen(n, PacketOf(rx[n]))
  /\ HandlerReturns(n)
  /\ UNCHANGED <<tx, counter, dup_cache, delivered, forwarded>>

(* A new frame for this node: cached and handed to net.rx_cb.              *)
Deliver(n) ==
  LET packet == PacketOf(rx[n])
  IN  /\ rx[n] # NoFrame
      /\ ForMe(n, rx[n]) /\ ~ Seen(n, packet) /\ ~ Transit(n, rx[n])
      /\ dup_cache' = [dup_cache EXCEPT ![n] = Insert(@, packet)]
      /\ delivered' = [delivered EXCEPT ![n] = Count(@, packet)]
      /\ HandlerReturns(n)
      /\ UNCHANGED <<tx, counter, forwarded>>

(* net_forward_frame may not forward: the hop limit is used up, or there   *)
(* is no route.  The frame is cached all the same.                         *)
Forwardable(n, frame) == frame.hop > 1 /\ NextHop(n, frame.dst) # NoRoute

DropTransit(n) ==
  /\ rx[n] # NoFrame
  /\ Transit(n, rx[n]) /\ ~ Seen(n, PacketOf(rx[n]))
  /\ ~ Forwardable(n, rx[n])
  /\ dup_cache' = [dup_cache EXCEPT ![n] = Insert(@, PacketOf(rx[n]))]
  /\ HandlerReturns(n)
  /\ UNCHANGED <<tx, counter, delivered, forwarded>>

(* What goes out again: one hop less, and new link addresses.              *)
RelayedSameLink(n, frame) ==
  [frame EXCEPT !.hop = @ - 1, !.link_src = n]
RelayedUncounted(n, frame) ==
  [frame EXCEPT !.link_src = n, !.link_dst = NextHop(n, frame.dst)]
RelayedAsOwn(n, frame) ==
  [frame EXCEPT !.hop = @ - 1, !.src = n, !.link_src = n,
                !.link_dst = NextHop(n, frame.dst)]
Relayed(n, frame) ==
  [frame EXCEPT !.hop = @ - 1, !.link_src = n,
                !.link_dst = NextHop(n, frame.dst)]

(* The handler turns into a mac_send; the node no longer counts as         *)
(* receiving, and what mac_send returns only changes statistics.           *)
Forward(n) ==
  LET packet == PacketOf(rx[n])
  IN  /\ rx[n] # NoFrame
      /\ Transit(n, rx[n]) /\ ~ Seen(n, packet)
      /\ Forwardable(n, rx[n])
      /\ dup_cache' = [dup_cache EXCEPT ![n] = Insert(@, packet)]
      /\ forwarded' = [forwarded EXCEPT ![n] = Count(@, packet)]
      /\ MacSend(<<n, "rx">>, Relayed(n, rx[n]))
      /\ Protect(n, rx[n])
      /\ HandlerReturns(n)
      /\ UNCHANGED delivered

NetStep(n) == Ignore(n) \/ Deliver(n) \/ DropTransit(n) \/ Forward(n)

MacStep(n) ==
  /\ \/ \E task \in {"app", "rx"} : SendStep(<<n, task>>)
     \/ ReceiveStep(n)
  /\ UNCHANGED <<dup_cache, delivered, forwarded>>

Next == \E n \in Nodes : AppSend(n) \/ MacStep(n) \/ NetStep(n)

Spec == Init /\ [][Next]_vars

(* The scheduler runs every task that is ready, and delays end.            *)
Fairness ==
  \A n \in Nodes :
    /\ \A task \in {"app", "rx"} :
         WF_vars(SendStep(<<n, task>>)
                 /\ UNCHANGED <<dup_cache, delivered, forwarded>>)
    /\ WF_vars(ReceiveStep(n) /\ UNCHANGED <<dup_cache, delivered, forwarded>>)
    /\ WF_vars(NetStep(n))

FairSpec == Spec /\ Fairness

-----------------------------------------------------------------------------
(* The cache has room for all the packets sent so far.                     *)
CacheHolds ==
  Cardinality({p \in Nodes \X Seqs : p[2] \in 1..counter[p[1]]}) <= CacheSize

(* A packet reaches the application of a node it was sent to at most once, *)
(* and a node sets out to forward it at most once, as long as the cache    *)
(* holds as many packets as are under way: neither retransmissions nor     *)
(* loops of routes multiply it, nor do those that overhear it take it      *)
(* (net.c, on_mac_rx with net_dup_cache_seen before both uses).            *)
HandledOnce ==
  CacheHolds => \A n \in Nodes :
    /\ \A p \in DOMAIN delivered[n] :
         delivered[n][p] = 1 /\ p.dst \in {n, Broadcast}
    /\ \A p \in DOMAIN forwarded[n] : forwarded[n][p] = 1
    /\ DOMAIN delivered[n] \cap DOMAIN forwarded[n] = {}

(* The packets the applications have sent, those of a mac_send that is not *)
(* over included.                                                          *)
Accepted ==
  {PacketOf(o.frame) : o \in {u \in outcomes : u.task[2] = "app"}}
  \cup {PacketOf(tx[<<n, "app">>].frame) :
         n \in {m \in Nodes : tx[<<m, "app">>].pc # "idle"}}

Service == INSTANCE PacketService
             WITH sent <- Accepted, got <- delivered, remembered <- CacheHolds

(* The network layer is such a service: over however many hops and loops,  *)
(* an application is given what another has sent to it, and that once      *)
(* while the caches hold (net.c, on_mac_rx and net_forward_frame, which    *)
(* must not touch what identifies a packet).                               *)
PacketsServed == Service!Spec

(* Where a packet for dst is after each number of hops from n: it stays    *)
(* where it arrived, and without a route it goes nowhere.                  *)
Way(n, dst) ==
  LET at[k \in 0..HopLimit] ==
        IF k = 0 THEN n
        ELSE IF at[k - 1] \in {dst, NoRoute} THEN at[k - 1]
        ELSE NextHop(at[k - 1], dst)
  IN  at

(* The routes lead from n to dst within the hop limit.                     *)
Reaches(n, dst) == Way(n, dst)[HopLimit] = dst

(* Nobody sends to itself, and every next hop is in range: what the theorem *)
(* about arrival asks of a network whose routes no longer change; and      *)
(* that it has no security.                                                *)
Settled ==
  \A p \in Places, n \in Nodes :
    /\ n \notin Destinations[p][n]
    /\ \A d \in Nodes : Route[p][n][d] \in Hears[p][n] \cup {NoRoute}
Open == \A m \in Modes : ~ m.secure

(* When nothing is lost and the network has come to rest, every packet     *)
(* whose mac_send succeeded at its source has reached the application of   *)
(* its destination over all the hops of its route (net.c, on_mac_rx; mac.c *)
(* and sec.c must let the forwarded copy through).                         *)
AtRest == \A n \in Nodes : /\ rxq[n] = <<>> /\ rx[n] = NoFrame
                           /\ \A k \in {"app", "rx"} : tx[<<n, k>>].pc = "idle"

ArrivesUnlessLost ==
  AtRest /\ losses = 0 =>
    \A o \in outcomes :
      /\ o.task[2] = "app"
      /\ o.result = "OK"
      /\ o.frame.dst # Broadcast
      /\ Reaches(o.frame.src, o.frame.dst)
      => PacketOf(o.frame) \in DOMAIN delivered[o.frame.dst]

(* Every packet dies out, even where routes form a loop: from some point   *)
(* on nothing is queued, handled or sent (net.c, the hop limit and the     *)
(* duplicate cache).                                                       *)
DiesOut == <>[]AtRest
=============================================================================
