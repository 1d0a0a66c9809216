---------------------------- MODULE Coordinator ----------------------------
(***************************************************************************)
(* How devices get and give back their node ids: the coordinator's side of *)
(* src/src/net/discovery.c (the join cache, the table of active nodes, the *)
(* allocation of ids, expiry) with its routes to its members, and the      *)
(* device's side (discovery_join, the ASSIGN handler, discovery_leave,     *)
(* and the JOINING state of src/src/net/net.c).                            *)
(*                                                                         *)
(* The coordinator's role is fixed and security is off.  Frames are        *)
(* broadcast without acknowledgement and may be lost; a sender has one in  *)
(* the air at a time.  The coordinator answers from inside on_phy_rx, and  *)
(* so often not at all: see Answer.  The clock is modelled by ages, in     *)
(* units of the order of UMESH_ROUTE_UPDATE_MS; nothing stays in the air   *)
(* for that long.                                                          *)
(***************************************************************************)
EXTENDS Integers, FiniteSets, FiniteSetsExt

CONSTANTS
  Devices,      \* the devices
  Mac,          \* Mac[d]: discovery.local_mac of d
  FirstId,      \* 0x02, the lowest id that is given away
  LastId,       \* 0xFD, the highest one
  Unassigned,   \* UMESH_ADDR_UNASSIGNED
  MaxNodes,     \* UMESH_MAX_NODES, the size of the two tables
  MaxRoutes,    \* UMESH_MAX_ROUTES
  NodeTimeout,  \* UMESH_NODE_TIMEOUT_MS, in units of the clock
  Nested,       \* a frame may be received inside a delay of the handler of
                \*   another one: so on POSIX, not so with the ESP32's rx task
  MaxToken,     \* bound: how often a device asks for an id between reboots
  MaxReboots    \* bound: reboots of devices

ASSUME IdsAssumption ==
  /\ {FirstId, LastId} \subseteq Nat /\ FirstId <= LastId
  /\ Unassigned \notin FirstId..LastId
ASSUME TablesAssumption ==
  /\ {MaxNodes, MaxRoutes, NodeTimeout, MaxReboots} \subseteq Nat
  /\ MaxToken \in Nat \ {0}
  /\ MaxNodes <= LastId - FirstId + 1
ASSUME NestedAssumption == Nested \in BOOLEAN

VARIABLES
  join_cache,      \* discovery.join_cache of the coordinator
  active,          \* discovery.active_nodes: the age of last_seen_ms by id
  routes,          \* routing.table of the coordinator, likewise by dst_node
  next_assign_id,  \* discovery.next_assign_id
  device,          \* what each device knows of itself
  up,              \* the frame each device has in the air, if any
  down,            \* the coordinator's ASSIGN to each device, if any
  joined_calls,    \* history: calls of on_node_joined, by request
  reboots          \* how many reboots there were, for the bound

vars == <<join_cache, active, routes, next_assign_id, device, up, down,
          joined_calls, reboots>>

Ids    == FirstId..LastId
Tokens == 1..MaxToken
NoToken == 0

(* The age of an entry; one that is not valid has none.                    *)
Absent == -1
Ages   == 0..NodeTimeout \cup {Absent}
Members(table) == {id \in Ids : table[id] # Absent}

Macs   == {Mac[d] : d \in Devices}
Twins(mac) == {d \in Devices : Mac[d] = mac}

JoinTxs == [mac : Macs, token : Tokens, id : Ids]

(* State is net.state as far as it matters here; seq is the last token     *)
(* taken from discovery.seq_num.                                           *)
DeviceStates == [state : {"off", "joining", "connected"},
                 id : Ids \cup {Unassigned},
                 token : Tokens \cup {NoToken}, seq : 0..MaxToken]

Silence         == [cmd |-> "NONE"]
Join(token)     == [cmd |-> "JOIN", token |-> token]
Leave(id)       == [cmd |-> "LEAVE", src |-> id]
RouteUpdate(id) == [cmd |-> "ROUTE_UPDATE", src |-> id]
Assign(tx)      == [cmd |-> "ASSIGN", token |-> tx.token, id |-> tx.id]
                   \* with the MAC address of those it is put down for

Requests == {Silence} \cup {Join(t) : t \in Tokens}
            \cup {Leave(id) : id \in Ids}
            \cup {RouteUpdate(id) : id \in Ids}
Answers  == {Silence} \cup [cmd : {"ASSIGN"}, token : Tokens, id : Ids]

(* History counts once, and more often.                                    *)
Calls == 0..2
More(calls) == IF calls < 2 THEN calls + 1 ELSE calls

(* The tables never outgrow their arrays, and every field keeps its range. *)
TypeOK ==
  /\ join_cache \subseteq JoinTxs /\ Cardinality(join_cache) <= MaxNodes
  /\ active \in [Ids -> Ages] /\ Cardinality(Members(active)) <= MaxNodes
  /\ routes \in [Ids -> Ages] /\ Cardinality(Members(routes)) <= MaxRoutes
  /\ next_assign_id \in Ids
  /\ device \in [Devices -> DeviceStates]
  /\ up \in [Devices -> Requests]
  /\ down \in [Devices -> Answers]
  /\ joined_calls \in [Macs \X Tokens -> Calls]
  /\ reboots \in 0..MaxReboots

Init ==
  /\ join_cache = {}
  /\ active = [id \in Ids |-> Absent]
  /\ routes = [id \in Ids |-> Absent]
  /\ next_assign_id = FirstId
  /\ device = [d \in Devices |-> [state |-> "off", id |-> Unassigned,
                                  token |-> NoToken, seq |-> 0]]
  /\ up = [d \in Devices |-> Silence]
  /\ down = [d \in Devices |-> Silence]
  /\ joined_calls = [request \in Macs \X Tokens |-> 0]
  /\ reboots = 0

coordinatorVars == <<join_cache, active, routes, next_assign_id,
                     joined_calls>>
-----------------------------------------------------------------------------
(* Devices.                                                                *)

(* discovery_join takes the next sequence number for its token: 1 after a  *)
(* boot, later one that is higher than before by what was sent meanwhile.  *)
NewTokens(d) == IF device[d].seq = 0 THEN {1}
                ELSE (device[d].seq + 1)..MaxToken

Send(d, frame) == /\ up[d] = Silence
                  /\ up' = [up EXCEPT ![d] = frame]

(* umesh_start of a device without an id.                                  *)
Start(d) ==
  /\ device[d].state = "off"
  /\ \E token \in NewTokens(d) :
       /\ device' = [device EXCEPT ![d].state = "joining",
                                   ![d].token = token, ![d].seq = token]
       /\ Send(d, Join(token))
  /\ UNCHANGED <<coordinatorVars, down, reboots>>

(* net_tick in JOINING after UMESH_JOIN_RETRY_MS: the token stays.         *)
Retry(d) ==
  /\ device[d].state = "joining"
  /\ Send(d, Join(device[d].token))
  /\ UNCHANGED <<coordinatorVars, device, down, reboots>>

(* The ASSIGN handler: only the answer to the request that is pending      *)
(* counts; net.c then moves on to CONNECTED.                               *)
ReceiveAssign(d) ==
  /\ down[d].cmd = "ASSIGN"
  /\ down' = [down EXCEPT ![d] = Silence]
  /\ IF device[d].id = Unassigned /\ device[d].token = down[d].token
     THEN device' = [device EXCEPT ![d].state = "connected",
                                   ![d].id = down[d].id,
                                   ![d].token = NoToken]
     ELSE UNCHANGED device
  /\ UNCHANGED <<coordinatorVars, up, reboots>>

(* net_tick in CONNECTED after UMESH_ROUTE_UPDATE_MS.                      *)
SendRouteUpdate(d) ==
  /\ device[d].state = "connected"
  /\ Send(d, RouteUpdate(device[d].id))
  /\ UNCHANGED <<coordinatorVars, device, down, reboots>>

(* umesh_stop.  A device without an id cannot say so: frame_serialize      *)
(* refuses its LEAVE.                                                      *)
Stop(d) ==
  /\ device[d].state # "off"
  /\ IF device[d].id = Unassigned THEN UNCHANGED up
                                  ELSE Send(d, Leave(device[d].id))
  /\ device' = [device EXCEPT ![d].state = "off", ![d].id = Unassigned,
                              ![d].token = NoToken]
  /\ UNCHANGED <<coordinatorVars, down, reboots>>

(* The device loses its memory: discovery_init.                            *)
Reboot(d) ==
  /\ reboots < MaxReboots
  /\ reboots' = reboots + 1
  /\ device' = [device EXCEPT ![d] = [state |-> "off", id |-> Unassigned,
                                      token |-> NoToken, seq |-> 0]]
  /\ UNCHANGED <<coordinatorVars, up, down>>
-----------------------------------------------------------------------------
(* The coordinator.                                                        *)

(* join_cache_find.                                                        *)
CachedNever(mac, token) == {}
Cached(mac, token) == {tx \in join_cache : tx.mac = mac /\ tx.token = token}

(* allocate_node_id: the first id from next_assign_id on that is not       *)
(* active, or else the first one of all.                                   *)
FreeIds == Ids \ Members(active)
AllocateLowest(free) == Min(free)
Allocate(free) == IF \E id \in free : id >= next_assign_id
                  THEN Min({id \in free : id >= next_assign_id})
                  ELSE Min(free)

NextAssignUnwrapped(id) == id + 1
NextAssign(id) == IF id = LastId THEN FirstId ELSE id + 1

(* routing_add of a destination over one hop: it makes the entry young     *)
(* again or takes a free one, if there is one.                             *)
RoutingAddShort(table, id) ==
  IF id \in Members(table) \/ Cardinality(Members(table)) + 1 < MaxRoutes
  THEN [table EXCEPT ![id] = 0] ELSE table
RoutingAdd(table, id) ==
  IF id \in Members(table) \/ Cardinality(Members(table)) < MaxRoutes
  THEN [table EXCEPT ![id] = 0] ELSE table

(* A frame of d reaches the coordinator.                                  *)
Hear(d, cmd) == /\ up[d].cmd = cmd
                /\ up' = [up EXCEPT ![d] = Silence]

(* The ASSIGN is sent while on_phy_rx still has rx_in_progress up, so that *)
(* mac_send finds the channel busy and gives up, and nobody looks at its   *)
(* result.  Only a frame that is received during a back-off of this very   *)
(* mac_send takes the flag down in time.  An ASSIGN is for all that have    *)
(* the MAC address in it, and each of them hears it or not.                *)
Answer(tx) ==
  \E hearers \in SUBSET Twins(tx.mac) :
    /\ hearers # {} => Nested
    /\ down' = [d \in Devices |-> IF d \in hearers THEN Assign(tx)
                                   ELSE down[d]]

(* A JOIN that was answered before: the same answer, and nothing else.     *)
AnswerAgain(d) ==
  /\ Hear(d, "JOIN")
  /\ \E tx \in Cached(Mac[d], up[d].token) : Answer(tx)
  /\ UNCHANGED <<coordinatorVars, device, reboots>>

(* A new JOIN: an id, an entry in both tables, a route and a callback.     *)
JoinCacheRoomShort == Cardinality(join_cache) + 1 < MaxNodes
JoinCacheRoom == Cardinality(join_cache) < MaxNodes
ActiveRoom    == Cardinality(Members(active)) < MaxNodes

Admit(d) ==
  LET id == Allocate(FreeIds)
      tx == [mac |-> Mac[d], token |-> up[d].token, id |-> id]
  IN  /\ Hear(d, "JOIN")
      /\ Cached(Mac[d], up[d].token) = {}
      /\ FreeIds # {} /\ JoinCacheRoom /\ ActiveRoom
      /\ next_assign_id' = NextAssign(id)
      /\ join_cache' = join_cache \cup {tx}
      /\ active' = [active EXCEPT ![id] = 0]
      /\ routes' = RoutingAdd(routes, id)
      /\ joined_calls' = [joined_calls EXCEPT ![<<tx.mac, tx.token>>] = More(@)]
      /\ Answer(tx)
      /\ UNCHANGED <<device, reboots>>

(* A new JOIN that finds a table full: dropped, but the id that was picked *)
(* counts as given away.                                                   *)
Refuse(d) ==
  /\ Hear(d, "JOIN")
  /\ Cached(Mac[d], up[d].token) = {}
  /\ ~ (FreeIds # {} /\ JoinCacheRoom /\ ActiveRoom)
  /\ next_assign_id' = IF FreeIds = {} THEN next_assign_id
                       ELSE NextAssign(Allocate(FreeIds))
  /\ UNCHANGED <<join_cache, active, routes, device, down, joined_calls,
                 reboots>>

ReceiveJoin(d) == AnswerAgain(d) \/ Admit(d) \/ Refuse(d)

(* LEAVE: whoever it was is gone.                                          *)
ReceiveLeave(d) ==
  /\ Hear(d, "LEAVE")
  /\ active' = [active EXCEPT ![up[d].src] = Absent]
  /\ routes' = [routes EXCEPT ![up[d].src] = Absent]
  /\ UNCHANGED <<join_cache, next_assign_id, device, down, joined_calls,
                 reboots>>

(* ROUTE_UPDATE makes the route young again, and only the route.           *)
ReceiveRouteUpdate(d) ==
  /\ Hear(d, "ROUTE_UPDATE")
  /\ routes' = RoutingAdd(routes, up[d].src)
  /\ UNCHANGED <<join_cache, active, next_assign_id, device, down,
                 joined_calls, reboots>>

Receive(d) == ReceiveJoin(d) \/ ReceiveLeave(d) \/ ReceiveRouteUpdate(d)

(* net_tick one unit later: routing_expire, then discovery_tick, which     *)
(* takes the route of a member that expires with it.                       *)
Older(age) == IF age \in {Absent, NodeTimeout} THEN Absent ELSE age + 1
Expired == {id \in Ids : active[id] = NodeTimeout}

Tick ==
  /\ \A d \in Devices : up[d] = Silence /\ down[d] = Silence
  /\ active' = [id \in Ids |-> Older(active[id])]
  /\ routes' = [id \in Ids |-> IF id \in Expired THEN Absent
                               ELSE Older(routes[id])]
  /\ UNCHANGED <<join_cache, next_assign_id, device, up, down,
                 joined_calls, reboots>>

(* The radio loses a request.  An answer that it loses is as good as one   *)
(* that was never sent.                                                    *)
Lose(d) ==
  /\ up[d] # Silence
  /\ up' = [up EXCEPT ![d] = Silence]
  /\ UNCHANGED <<coordinatorVars, device, down, reboots>>

Next ==
  \/ \E d \in Devices :
       \/ Start(d) \/ Retry(d) \/ ReceiveAssign(d) \/ SendRouteUpdate(d)
       \/ Stop(d) \/ Reboot(d)
       \/ Receive(d) \/ Lose(d)
  \/ Tick

Spec == Init /\ [][Next]_vars

(* net_tick keeps running on every device, no frame stays in the air, and  *)
(* of the requests that are sent again and again some are received at a    *)
(* time when the answer can get out.                                       *)
Fairness ==
  \A d \in Devices : /\ WF_vars(Retry(d))
                     /\ WF_up(Receive(d) \/ Lose(d))
                     /\ SF_down(ReceiveJoin(d))
                     /\ WF_vars(ReceiveAssign(d))

FairSpec == Spec /\ Fairness
-----------------------------------------------------------------------------
(* No two devices hold the same node id, although ids of members that time *)
(* out while they are still there become free again (discovery.c,          *)
(* allocate_node_id with next_assign_id, and the join cache).              *)
DistinctIds ==
  \A d, e \in Devices :
    (d # e /\ device[d].id # Unassigned) => device[d].id # device[e].id

Given == {tx.id : tx \in join_cache}

GivenTo(mac, id) == \E tx \in join_cache : tx.mac = mac /\ tx.id = id

GivenInOrder ==
  /\ \A tx, other \in join_cache : tx.id = other.id => tx = other
  /\ Cardinality(join_cache) < MaxNodes =>
       /\ next_assign_id = FirstId + Cardinality(join_cache)
       /\ \A id \in Given : id < next_assign_id

DeviceAccounted(d) ==
  /\ device[d].id # Unassigned => GivenTo(Mac[d], device[d].id)
  /\ down[d].cmd = "ASSIGN" => GivenTo(Mac[d], down[d].id)
  /\ up[d].cmd \in {"LEAVE", "ROUTE_UPDATE"} => up[d].src \in Given

(* Why that is so: ids are given away in order, each for one request, as   *)
(* long as the join cache has room for one more; and whatever names an id  *)
(* - a device, the answer to it, a frame it sends, a table - names one     *)
(* that was given away, to that device where it is one (discovery.c,       *)
(* join_cache_alloc, which never frees an entry, and allocate_node_id).    *)
IdsAccounted ==
  /\ GivenInOrder
  /\ Members(active) \cup Members(routes) \subseteq Given
  /\ \A d \in Devices : DeviceAccounted(d)

(* The coordinator has a route to each of its active nodes (discovery.c:   *)
(* JOIN, LEAVE and discovery_tick change both tables; net.c: net_tick      *)
(* expires routes on its own).                                             *)
ActiveHasRoute == Members(active) \subseteq Members(routes)

(* on_node_joined is called once for a request, however often the request  *)
(* is repeated or its answer lost (discovery.c, the join cache).           *)
JoinedOnce == \A request \in Macs \X Tokens : joined_calls[request] <= 1

(* A device that asks for an id and keeps asking gets one, whatever is     *)
(* lost on the way and however often the answer does not get out, unless   *)
(* the join cache has filled up (net.c, the retry in JOINING; discovery.c, *)
(* the answer from the cache; mac.c, rx_in_progress).                      *)
JoinCompletes ==
  \A d \in Devices :
    device[d].state = "joining" ~>
      \/ device[d].state # "joining"
      \/ Cardinality(join_cache) = MaxNodes
=============================================================================
