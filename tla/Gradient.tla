------------------------------ MODULE Gradient ------------------------------
(***************************************************************************)
(* Gradient routing: distances that spread from the coordinator, the       *)
(* neighbours each node remembers, and the neighbour a frame for the       *)
(* coordinator goes to (discovery.c, UMESH_CMD_GRADIENT_BEACON and the     *)
(* gradient functions; routing.c, the neighbour table; net.c, the gradient *)
(* part of net_tick, net_route and net_select_next_hop).                   *)
(*                                                                         *)
(* Nodes have their ids from the configuration, so they are connected as   *)
(* soon as they run.  A handler of a received beacon may run between two   *)
(* steps of the same node's net_tick.  The time between a beacon's sending *)
(* and its reception and the jitter are far below the beacon period: when  *)
(* a period has passed they are over.  RSSI only chooses between equally   *)
(* good neighbours, and here any of those may be chosen.                   *)
(***************************************************************************)
EXTENDS Integers, FiniteSets

CONSTANTS
  Nodes,         \* node ids
  Coordinator,   \* UMESH_ADDR_COORDINATOR
  Links,         \* the pairs of nodes that hear each other
  Hops,          \* how many hops each node is really away
  MaxHopCount,   \* UMESH_MAX_HOP_COUNT
  MaxNeighbors,  \* UMESH_MAX_NEIGHBORS
  MaxTroubles    \* bound on lost beacons, reboots, outages and extra beacons

ASSUME GraphAssumption ==
  /\ IsFiniteSet(Nodes) /\ Coordinator \in Nodes
  /\ Links \subseteq Nodes \X Nodes
  /\ \A link \in Links : <<link[2], link[1]>> \in Links
ASSUME HopsAssumption ==
  /\ Hops \in [Nodes -> Nat]
  /\ \A n \in Nodes : Hops[n] = 0 <=> n = Coordinator
  /\ \A m, n \in Nodes : <<m, n>> \in Links => Hops[n] <= Hops[m] + 1
  /\ \A n \in Nodes \ {Coordinator} :
       \E m \in Nodes : <<m, n>> \in Links /\ Hops[n] = Hops[m] + 1
ASSUME BoundsAssumption ==
  /\ MaxHopCount \in Nat \ {0} /\ MaxHopCount < 255
  /\ MaxNeighbors \in Nat /\ MaxTroubles \in Nat

VARIABLES
  distance,   \* discovery.gradient_distance
  pending,    \* discovery.gradient_rebroadcast_pending
  polled,     \* the distance a rebroadcast has read but not sent yet
  neighbors,  \* routing.neighbors, by node id
  due,        \* the coordinator's next periodic beacon is due
  on,         \* the coordinator has power
  air,        \* beacons on their way, one for each receiver
  life,       \* history: how often each node has forgotten its distance
  raced,      \* history: a better distance came while the old one was polled
  losses, reboots, outages, extras

troubles == <<losses, reboots, outages, extras>>
vars == <<distance, pending, polled, neighbors, due, on, air, life, raced, troubles>>

Unknown   == 255            \* UINT8_MAX
Distances == 0..MaxHopCount

NoEntry == [distance |-> Unknown, old |-> FALSE, life |-> 0]
Entries == [distance : Distances, old : BOOLEAN, life : Nat]
Beacons == [from : Nodes, to : Nodes, distance : Distances, life : Nat]

Known(n) == {m \in Nodes : neighbors[n][m] # NoEntry}

(* A distance is unknown or within the hop limit, and no node has more     *)
(* neighbours than its table has room for.                                 *)
TypeOK ==
  /\ distance \in [Nodes -> Distances \cup {Unknown}]
  /\ pending \in [Nodes -> BOOLEAN]
  /\ polled \in [Nodes -> Distances \cup {Unknown}]
  /\ neighbors \in [Nodes -> [Nodes -> Entries \cup {NoEntry}]]
  /\ \A n \in Nodes : Cardinality(Known(n)) <= MaxNeighbors
  /\ due \in BOOLEAN /\ on \in BOOLEAN /\ air \subseteq Beacons
  /\ life \in [Nodes -> Nat] /\ raced \in BOOLEAN
  /\ losses \in Nat /\ reboots \in Nat /\ outages \in Nat /\ extras \in Nat

Init ==
  /\ distance = [n \in Nodes |-> IF n = Coordinator THEN 0 ELSE Unknown]
  /\ pending = [n \in Nodes |-> FALSE] /\ polled = [n \in Nodes |-> Unknown]
  /\ neighbors = [n \in Nodes |-> [m \in Nodes |-> NoEntry]]
  /\ due = TRUE /\ on = TRUE /\ air = {}
  /\ life = [n \in Nodes |-> 0] /\ raced = FALSE
  /\ losses = 0 /\ reboots = 0 /\ outages = 0 /\ extras = 0

MayTrouble   == losses + reboots + outages + extras < MaxTroubles
Undisturbed  == losses = 0 /\ reboots = 0 /\ outages = 0
-----------------------------------------------------------------------------
(* discovery_gradient_send_beacon: one transmission that every node in     *)
(* range receives, as long as it has power.                                *)
Beacon(n, d) ==
  {[from |-> n, to |-> m, distance |-> d, life |-> life[n]] :
     m \in {k \in Nodes : <<n, k>> \in Links /\ (on \/ k # Coordinator)}}

(* The beacons of one node arrive in the order they were sent: its         *)
(* distance only falls while it remembers one.                             *)
Before(a, b) ==
  /\ a.from = b.from /\ a.to = b.to
  /\ a.life < b.life \/ (a.life = b.life /\ a.distance > b.distance)

Arrives(beacon) ==
  /\ beacon \in air /\ ~ \E other \in air : Before(other, beacon)
  /\ air' = air \ {beacon}

(* neighbor_update                                                         *)
HasRoom(n, m) == m \in Known(n) \/ Cardinality(Known(n)) < MaxNeighbors

NeighborUpdate(n, m, entry) ==
  neighbors' = IF HasRoom(n, m) THEN [neighbors EXCEPT ![n][m] = entry]
               ELSE neighbors

Heard(beacon) ==
  [distance |-> beacon.distance, old |-> FALSE, life |-> beacon.life]

CandidateUncounted(d) == d
Candidate(d) == d + 1

WithinLimitUnchecked(d) == TRUE
WithinLimit(d) == d < MaxHopCount

ImprovesOnce(n, d) == WithinLimit(d) /\ distance[n] = Unknown
Improves(n, d) == WithinLimit(d) /\ Candidate(d) < distance[n]

(* UMESH_CMD_GRADIENT_BEACON in the coordinator, ...                       *)
OnBeaconAtCoordinator(beacon) ==
  /\ beacon.to = Coordinator
  /\ distance' = [distance EXCEPT ![Coordinator] = 0]
  /\ pending' = [pending EXCEPT ![Coordinator] = FALSE]
  /\ UNCHANGED raced

(* ... in a node that gets closer, ...                                     *)
OnBeaconCloser(beacon) ==
  LET n == beacon.to
      candidate == Candidate(beacon.distance)
  IN /\ n # Coordinator /\ Improves(n, beacon.distance)
     /\ distance' = [distance EXCEPT ![n] = candidate]
     /\ pending' = [pending EXCEPT ![n] = WithinLimit(candidate)]
     /\ raced' = (raced \/ polled[n] # Unknown)

(* ... and in one that does not.                                           *)
OnBeaconFarther(beacon) ==
  /\ beacon.to # Coordinator /\ ~ Improves(beacon.to, beacon.distance)
  /\ UNCHANGED <<distance, pending, raced>>

OnBeacon(beacon) ==
  /\ Arrives(beacon)
  /\ NeighborUpdate(beacon.to, beacon.from, Heard(beacon))
  /\ \/ OnBeaconAtCoordinator(beacon)
     \/ OnBeaconCloser(beacon)
     \/ OnBeaconFarther(beacon)
  /\ UNCHANGED <<polled, due, on, life, troubles>>
-----------------------------------------------------------------------------
(* net_tick: neighbours not heard of for UMESH_NEIGHBOR_TIMEOUT_MS go.     *)
ExpiredNever(entry) == FALSE
Expired(entry) == entry.old

NeighborExpire(n) ==
  /\ n = Coordinator => on
  /\ \E m \in Nodes : Expired(neighbors[n][m])
  /\ neighbors' = [neighbors EXCEPT ![n] =
                     [m \in Nodes |-> IF Expired(neighbors[n][m]) THEN NoEntry
                                      ELSE neighbors[n][m]]]
  /\ UNCHANGED <<distance, pending, polled, due, on, air, life, raced, troubles>>

(* net_tick of the coordinator: its periodic beacon.                       *)
SendPeriodic ==
  /\ on /\ due
  /\ distance' = [distance EXCEPT ![Coordinator] = 0]
  /\ air' = air \cup Beacon(Coordinator, 0) /\ due' = FALSE
  /\ UNCHANGED <<pending, polled, neighbors, on, life, raced, troubles>>

(* net_tick of another node: discovery_gradient_poll_rebroadcast reads the *)
(* distance, ...                                                           *)
Poll(n) ==
  /\ n # Coordinator /\ pending[n] /\ polled[n] = Unknown
  /\ polled' = [polled EXCEPT ![n] = distance[n]]
  /\ UNCHANGED <<distance, pending, neighbors, due, on, air, life, raced, troubles>>

(* ... then clears the request, whoever made it, and the beacon is sent.   *)
Rebroadcast(n) ==
  /\ polled[n] # Unknown
  /\ pending' = [pending EXCEPT ![n] = FALSE]
  /\ polled' = [polled EXCEPT ![n] = Unknown]
  /\ air' = air \cup Beacon(n, polled[n])
  /\ UNCHANGED <<distance, neighbors, due, on, life, raced, troubles>>

(* umesh_gradient_refresh                                                  *)
Refresh ==
  /\ on /\ MayTrouble
  /\ distance' = [distance EXCEPT ![Coordinator] = 0]
  /\ air' = air \cup Beacon(Coordinator, 0) /\ due' = FALSE
  /\ extras' = extras + 1
  /\ UNCHANGED <<pending, polled, neighbors, on, life, raced, losses, reboots, outages>>
-----------------------------------------------------------------------------
(* UMESH_GRADIENT_BEACON_MS and UMESH_NEIGHBOR_TIMEOUT_MS, both 30000, go  *)
(* by: the next beacon is due, and what was not heard of in this time may  *)
(* expire before that beacon comes, and has expired when the time has gone *)
(* by once more.                                                           *)
Elapse ==
  /\ ~ due /\ air = {}
  /\ \A n \in Nodes :
       /\ ~ pending[n] /\ polled[n] = Unknown
       /\ \A m \in Nodes : ~ Expired(neighbors[n][m])
  /\ due' = on
  /\ neighbors' = [n \in Nodes |-> [m \in Nodes |->
                     IF neighbors[n][m] = NoEntry THEN NoEntry
                     ELSE [neighbors[n][m] EXCEPT !.old = TRUE]]]
  /\ UNCHANGED <<distance, pending, polled, on, air, life, raced, troubles>>

Forgets(n) ==
  /\ pending' = [pending EXCEPT ![n] = FALSE]
  /\ polled' = [polled EXCEPT ![n] = Unknown]
  /\ neighbors' = [neighbors EXCEPT ![n] = [m \in Nodes |-> NoEntry]]
  /\ life' = [life EXCEPT ![n] = @ + 1]

(* The radio loses a beacon on its way to one node.                        *)
Lose(beacon) ==
  /\ MayTrouble /\ beacon \in air
  /\ air' = air \ {beacon} /\ losses' = losses + 1
  /\ UNCHANGED <<distance, pending, polled, neighbors, due, on, life, raced,
                 reboots, outages, extras>>

(* A node reboots: umesh_init and umesh_start.                             *)
Reboot(n) ==
  /\ MayTrouble /\ n # Coordinator
  /\ Forgets(n)
  /\ distance' = [distance EXCEPT ![n] = Unknown]
  /\ reboots' = reboots + 1
  /\ UNCHANGED <<due, on, air, raced, losses, outages, extras>>

(* The coordinator loses its power, ...                                    *)
PowerOff ==
  /\ MayTrouble /\ on
  /\ Forgets(Coordinator)
  /\ distance' = [distance EXCEPT ![Coordinator] = Unknown]
  /\ on' = FALSE /\ due' = FALSE
  /\ air' = {beacon \in air : beacon.to # Coordinator}
  /\ outages' = outages + 1
  /\ UNCHANGED <<raced, losses, reboots, extras>>

(* ... and gets it back: net_join announces it at once.                    *)
PowerOn ==
  /\ ~ on
  /\ on' = TRUE /\ due' = TRUE
  /\ distance' = [distance EXCEPT ![Coordinator] = 0]
  /\ UNCHANGED <<pending, polled, neighbors, air, life, raced, troubles>>

Next ==
  \/ \E beacon \in air : OnBeacon(beacon) \/ Lose(beacon)
  \/ \E n \in Nodes : NeighborExpire(n) \/ Poll(n) \/ Rebroadcast(n) \/ Reboot(n)
  \/ SendPeriodic \/ Refresh \/ Elapse \/ PowerOff \/ PowerOn

Spec == Init /\ [][Next]_vars

(* The rx task runs, each node ticks, and time goes by.                    *)
FairSpec ==
  /\ Spec
  /\ WF_vars(\E beacon \in air : OnBeacon(beacon))
  /\ \A n \in Nodes : WF_vars(NeighborExpire(n)) /\ WF_vars(Poll(n))
                      /\ WF_vars(Rebroadcast(n))
  /\ WF_vars(SendPeriodic) /\ WF_vars(Elapse)
-----------------------------------------------------------------------------
(* neighbor_find_uphill: the neighbours closer than the node itself, and   *)
(* of those the closest.                                                   *)
UphillOrLevel(n) == {m \in Known(n) : neighbors[n][m].distance <= distance[n]}
Uphill(n) == {m \in Known(n) : neighbors[n][m].distance < distance[n]}

NextHops(n) ==
  IF distance[n] = Unknown THEN {}
  ELSE {m \in Uphill(n) : \A k \in Uphill(n) :
          neighbors[n][m].distance <= neighbors[n][k].distance}

(* No node thinks it is closer to the coordinator than it is, whatever was *)
(* lost and whoever forgot (discovery.c:747, candidate).                   *)
NeverTooClose ==
  \A n \in Nodes \ {Coordinator} : distance[n] # Unknown => distance[n] >= Hops[n]

(* A frame for the coordinator goes to a node that is closer than the one  *)
(* it comes from, unless that neighbour has forgotten its distance since   *)
(* it was last heard: so it cannot go round in a circle (routing.c,        *)
(* neighbor_find_uphill, on distances that other nodes had in the past).   *)
GoesUphill ==
  \A n \in Nodes : \A m \in NextHops(n) :
    neighbors[n][m].life = life[m] => distance[m] < distance[n]

(* Every node finds out how far it really is, in whatever order the        *)
(* beacons reach it, unless something was lost or forgotten, or a better   *)
(* distance came just when the old one was announced (discovery.c:748-758).*)
FindsDistance ==
  []Undisturbed /\ []~ raced => <>[](\A n \in Nodes : distance[n] = Hops[n])

(* A node next to the coordinator has a way again and again, even when its *)
(* table was full when it heard the coordinator (routing.c:135).           *)
NearHasWay ==
  []<>(~ on \/ \A n \in Nodes : Hops[n] = 1 => NextHops(n) # {})

(* Nodes keep their distance when the coordinator is gone, but in the end  *)
(* none has a next hop for it any more (discovery.c:748).                  *)
GoneHasNoWay == []<>(on \/ \A n \in Nodes : NextHops(n) = {})
=============================================================================
