------------------------------ MODULE Election ------------------------------
(***************************************************************************)
(* How nodes of the AUTO role choose their coordinator: the automaton of   *)
(* net_tick (src/src/net/net.c) with its states SCANNING, ELECTION,        *)
(* JOINING and CONNECTED, and the handlers of src/src/net/discovery.c for  *)
(* ELECTION, ELECTION_RESULT, JOIN, ASSIGN and ROUTE_UPDATE.               *)
(*                                                                         *)
(* All nodes are in range of each other, and security is off.  Times are   *)
(* ages, in units of one call of net_tick by every node, in any order;     *)
(* a frame is over before its sender's next tick.  Which id a node gets is *)
(* Coordinator's matter: here it has none, the coordinator's, or its own.  *)
(***************************************************************************)
EXTENDS Integers, FiniteSets, FiniteSetsExt

CONSTANTS
  Nodes,        \* the nodes, by their MAC address, a positive number
  ScanTime,     \* net.scan_ms
  ElectionTime, \* net.election_ms
  AnnounceTime, \* UMESH_ELECTION_RESULT_ANNOUNCE_MS
  JoinRetry,    \* UMESH_JOIN_RETRY_MS
  RouteUpdate,  \* UMESH_ROUTE_UPDATE_MS
  NodeTimeout,  \* UMESH_NODE_TIMEOUT_MS
  MaxTerm,      \* bound: elections a node calls between reboots
  MaxTroubles,  \* bound: receptions the radio loses, nodes that lose their
                \*   memory and go off, and calls of umesh_trigger_election
  Crowd         \* bound: the nodes that are on when there were such troubles

ASSUME NodesAssumption == IsFiniteSet(Nodes) /\ Nodes \subseteq Nat \ {0}
ASSUME TimesAssumption ==
  {ScanTime, ElectionTime, AnnounceTime, JoinRetry, RouteUpdate, NodeTimeout}
    \subseteq Nat \ {0}
ASSUME ElectionBoundsAssumption ==
  {MaxTerm, MaxTroubles, Crowd} \subseteq Nat

VARIABLES
  node,     \* ctx->net and ctx->discovery of each node
  ticked,   \* the nodes that called net_tick in this unit of time
  air,      \* the broadcasts that are under way
  losses, crashes, triggers,  \* counts, for the bounds and the properties
  clash     \* history: a node promoted itself while another's claim was under
            \* way, or due in the same unit of time

vars == <<node, ticked, air, losses, crashes, triggers, clash>>

NoMac == 0
Ids   == {"UNASSIGNED", "COORDINATOR", "OWN"}
Roles == {"ROUTER", "COORDINATOR"}
Terms == 0..MaxTerm
States == {"OFF", "SCANNING", "ELECTION", "JOINING", "CONNECTED"}

Longest     == Max({ScanTime, ElectionTime})
Ages(limit) == 0..limit

(* role and id are those of ctx->net; disc_role and disc_id those of       *)
(* ctx->discovery, which on_mac_rx and net_tick carry over.  joined says   *)
(* no more than disc_id.  The last five are ages of the _ms fields, up to  *)
(* where they no longer matter.                                            *)
NodeStates ==
  [state : States,
   role : Roles, id : Ids, disc_role : Roles, disc_id : Ids,
   election_term : Terms, seen_election_term : Terms,
   auto_saw_lower_mac : BOOLEAN, auto_seen_result : BOOLEAN,
   auto_seen_coordinator : BOOLEAN, auto_winner_mac : Nodes \cup {NoMac},
   state_enter : Ages(Longest), last_coord_seen : Ages(NodeTimeout + 1),
   last_join : Ages(JoinRetry), last_result : Ages(AnnounceTime),
   last_route_update : Ages(RouteUpdate)]

Election(src, term, mac) ==
  [cmd |-> "ELECTION", src |-> src, term |-> term, mac |-> mac]
Result(src, term, mac) ==
  [cmd |-> "ELECTION_RESULT", src |-> src, term |-> term, mac |-> mac]
Join(src, mac)         == [cmd |-> "JOIN", src |-> src, mac |-> mac]
Assign(src, term, mac) ==
  [cmd |-> "ASSIGN", src |-> src, term |-> term, mac |-> mac]
RouteUpdateFrom(src)   == [cmd |-> "ROUTE_UPDATE", src |-> src]

Frames ==
  [cmd : {"ELECTION", "ELECTION_RESULT", "ASSIGN"},
   src : Ids, term : Terms, mac : Nodes]
  \cup [cmd : {"JOIN"}, src : Ids, mac : Nodes]
  \cup [cmd : {"ROUTE_UPDATE"}, src : Ids]

(* Every field keeps its range; air holds each frame with its sender.      *)
TypeOK ==
  /\ node \in [Nodes -> NodeStates]
  /\ ticked \subseteq Nodes
  /\ air \subseteq Nodes \X Frames
  /\ {losses, crashes, triggers} \subseteq 0..MaxTroubles
  /\ clash \in BOOLEAN

(* discovery_init and net_init of role AUTO, then net_join.                *)
Fresh ==
  [state |-> "SCANNING",
   role |-> "ROUTER", id |-> "UNASSIGNED",
   disc_role |-> "ROUTER", disc_id |-> "UNASSIGNED",
   election_term |-> 0, seen_election_term |-> 0,
   auto_saw_lower_mac |-> FALSE, auto_seen_result |-> FALSE,
   auto_seen_coordinator |-> FALSE, auto_winner_mac |-> NoMac,
   state_enter |-> 0, last_coord_seen |-> 0, last_join |-> 0,
   last_result |-> 0, last_route_update |-> 0]
Off == [Fresh EXCEPT !.state = "OFF"]

Init ==
  /\ node = [n \in Nodes |-> Off]
  /\ ticked = {} /\ air = {}
  /\ losses = 0 /\ crashes = 0 /\ triggers = 0 /\ clash = FALSE

On == {n \in Nodes : node[n].state # "OFF"}

Troubles    == losses + crashes + triggers
Undisturbed == Troubles = 0

-----------------------------------------------------------------------------
(* Changes of a node's state that several handlers share.                  *)

(* discovery_set_role(UMESH_ROLE_ROUTER), and net.role with it.            *)
AsRouter(me) ==
  [me EXCEPT !.role = "ROUTER", !.disc_role = "ROUTER",
             !.disc_id = IF @ = "COORDINATOR" THEN "UNASSIGNED" ELSE @]

(* enter_scanning                                                          *)
Scanning(me) ==
  [AsRouter(me) EXCEPT
     !.disc_id = "UNASSIGNED", !.id = "UNASSIGNED",
     !.auto_seen_coordinator = FALSE, !.auto_saw_lower_mac = FALSE,
     !.auto_seen_result = FALSE, !.auto_winner_mac = NoMac,
     !.state = "SCANNING", !.state_enter = 0, !.last_coord_seen = 0]

Joining(me)   == [me EXCEPT !.state = "JOINING", !.last_join = 0,
                            !.state_enter = 0]
Connected(me) == [me EXCEPT !.state = "CONNECTED", !.id = me.disc_id,
                            !.last_coord_seen = 0, !.state_enter = 0]

(* The clock since the last call of net_tick.                              *)
Older(me) ==
  LET upTo(age, limit) == IF age < limit THEN age + 1 ELSE age
  IN  [me EXCEPT
         !.state_enter = IF me.state \in {"SCANNING", "ELECTION"}
                         THEN upTo(@, Longest) ELSE 0,
         !.last_join = IF me.state = "JOINING" THEN upTo(@, JoinRetry) ELSE 0,
         !.last_coord_seen = upTo(@, NodeTimeout + 1),
         !.last_result = upTo(@, AnnounceTime),
         !.last_route_update = upTo(@, RouteUpdate)]

(* What a connected node sends of its own accord in net_tick: the claim of *)
(* a coordinator, in the name of the winner it last heard of, and its      *)
(* route update.                                                           *)
Announces(me) == /\ me.state = "CONNECTED" /\ me.role = "COORDINATOR"
                 /\ me.last_result >= AnnounceTime
Updates(me) == me.state = "CONNECTED" /\ me.last_route_update >= RouteUpdate

Winner(n, me) == IF me.auto_winner_mac = NoMac THEN n ELSE me.auto_winner_mac

Periodic(n, me) ==
  [me EXCEPT
     !.auto_winner_mac = IF Announces(me) THEN Winner(n, me) ELSE @,
     !.last_result = IF Announces(me) THEN 0 ELSE @,
     !.last_route_update = IF Updates(me) THEN 0 ELSE @]

PeriodicFrames(n, me) ==
  (IF Announces(me)
   THEN {Result(me.disc_id, me.election_term, Winner(n, me))} ELSE {})
  \cup (IF Updates(me) THEN {RouteUpdateFrom(me.id)} ELSE {})

-----------------------------------------------------------------------------
(* net_tick.  Each action is one way through it.                           *)

(* frame_fields_valid: without an id a node can send a JOIN and nothing    *)
(* else.  frame_serialize refuses the rest, and nobody looks at the result.*)
Sendable(frame) == frame.src # "UNASSIGNED" \/ frame.cmd = "JOIN"
InTheAir(n, frames) == {n} \X {f \in frames : Sendable(f)}

(* The common part: it is n's turn, n's state becomes me, and the frames   *)
(* go out.  What was sent in the last unit of time is over.                *)
MayTick(n, state) == /\ node[n].state = state
                     /\ n \notin ticked /\ (ticked = {} => air = {})
Ticked(n, me, frames) ==
  /\ node' = [node EXCEPT ![n] = me]
  /\ air' = air \cup InTheAir(n, frames)
  /\ ticked' = IF On \subseteq ticked \cup {n} THEN {} ELSE ticked \cup {n}
  /\ UNCHANGED <<losses, crashes, triggers>>
Ticks(n, me, frames) == Ticked(n, me, frames) /\ UNCHANGED clash

(* SCANNING: a ROUTE_UPDATE of a coordinator was heard, ...                *)
FindCoordinator(n) ==
  LET me == Joining(AsRouter([Older(node[n]) EXCEPT
                                !.auto_seen_coordinator = FALSE]))
  IN  /\ MayTick(n, "SCANNING")
      /\ node[n].auto_seen_coordinator
      /\ Ticks(n, me, {Join(me.disc_id, n)})

(* ... or else the time is up: discovery_start_election.                   *)
CallElection(n) ==
  LET old  == Older(node[n])
      term == old.election_term + 1
  IN  /\ MayTick(n, "SCANNING")
      /\ ~ old.auto_seen_coordinator /\ old.state_enter >= ScanTime
      /\ term <= MaxTerm
      /\ Ticks(n, [old EXCEPT !.state = "ELECTION", !.state_enter = 0,
                              !.auto_saw_lower_mac = FALSE,
                              !.auto_seen_result = FALSE,
                              !.auto_winner_mac = NoMac,
                              !.election_term = term,
                              !.seen_election_term = term],
               {Election(old.disc_id, term, n)})

(* ELECTION: somebody else has won, or will.  A node that heard the result *)
(* has given itself an id; one that has none asks for it.                  *)
MustYieldToLower(me) == me.auto_saw_lower_mac
MustYield(me) == me.auto_seen_result \/ me.auto_saw_lower_mac

Yield(n) ==
  LET old == Older(node[n])
      me  == AsRouter(old)
  IN  /\ MayTick(n, "ELECTION")
      /\ MustYield(old)
      /\ \/ /\ me.disc_id # "UNASSIGNED"
            /\ Ticks(n, Periodic(n, Connected(me)),
                     PeriodicFrames(n, Connected(me)))
         \/ /\ me.disc_id = "UNASSIGNED"
            /\ Ticks(n, Joining(me), {Join(me.disc_id, n)})

(* Nobody objected in time: discovery_auto_promote_to_coordinator.         *)
PromotedUnnoticed(n, me) ==
  [me EXCEPT !.disc_role = "COORDINATOR", !.disc_id = "COORDINATOR",
             !.seen_election_term = me.election_term, !.auto_winner_mac = n,
             !.last_result = 0, !.state = "CONNECTED", !.state_enter = 0,
             !.last_coord_seen = 0]
Promoted(n, me) ==
  [me EXCEPT !.role = "COORDINATOR", !.id = "COORDINATOR",
             !.disc_role = "COORDINATOR", !.disc_id = "COORDINATOR",
             !.seen_election_term = me.election_term, !.auto_winner_mac = n,
             !.last_result = 0, !.state = "CONNECTED", !.state_enter = 0,
             !.last_coord_seen = 0]

(* Another claim that n cannot have heard: it is under way, or it is the   *)
(* next thing a coordinator will do in this unit of time.                  *)
Claimed(n) ==
  \/ \E sent \in air : sent[2].cmd = "ELECTION_RESULT"
  \/ \E m \in Nodes \ (ticked \cup {n}) : Announces(Older(node[m]))

Promote(n) ==
  LET old == Older(node[n])
      me  == Promoted(n, old)
  IN  /\ MayTick(n, "ELECTION")
      /\ ~ MustYield(old) /\ old.state_enter >= ElectionTime
      /\ clash' = (clash \/ Claimed(n))
      /\ Ticked(n, Periodic(n, me),
                {Result(me.disc_id, me.election_term, n)}
                  \cup PeriodicFrames(n, me))

(* SCANNING and ELECTION go on.                                            *)
WaitOn(n) ==
  LET old == Older(node[n])
  IN  /\ \/ /\ MayTick(n, "SCANNING")
            /\ ~ old.auto_seen_coordinator /\ old.state_enter < ScanTime
         \/ /\ MayTick(n, "ELECTION")
            /\ ~ MustYield(old) /\ old.state_enter < ElectionTime
      /\ Ticks(n, old, {})

(* JOINING: the request is repeated from time to time.                     *)
AskOn(n) ==
  LET old == Older(node[n])
  IN  /\ MayTick(n, "JOINING")
      /\ IF old.last_join >= JoinRetry
         THEN Ticks(n, Joining(old), {Join(old.disc_id, n)})
         ELSE Ticks(n, old, {})

(* CONNECTED: a follower that has not heard a coordinator for too long     *)
(* starts again, ...                                                       *)
OrphanedInAnyRole(me) == me.last_coord_seen > NodeTimeout
Orphaned(me) == me.role # "COORDINATOR" /\ me.last_coord_seen > NodeTimeout

StartOver(n) ==
  LET old == Older(node[n])
  IN  /\ MayTick(n, "CONNECTED")
      /\ Orphaned(old)
      /\ Ticks(n, Scanning(Periodic(n, old)), PeriodicFrames(n, old))

(* ... a coordinator whom an ELECTION_RESULT made a router follows suit,   *)
(* with the id that frame gave it, ...                                     *)
Deposed(me) == me.role = "COORDINATOR" /\ me.disc_role # "COORDINATOR"

StepDown(n) ==
  LET old == Older(node[n])
  IN  /\ MayTick(n, "CONNECTED")
      /\ Deposed(old)
      /\ Ticks(n, [Periodic(n, old) EXCEPT !.role = "ROUTER",
                                           !.id = old.disc_id],
               PeriodicFrames(n, old))

(* ... and otherwise it goes on.                                           *)
CarryOn(n) ==
  LET old == Older(node[n])
  IN  /\ MayTick(n, "CONNECTED")
      /\ ~ Orphaned(old) /\ ~ Deposed(old)
      /\ Ticks(n, Periodic(n, old), PeriodicFrames(n, old))

Tick(n) == \/ FindCoordinator(n) \/ CallElection(n)
           \/ Yield(n) \/ Promote(n) \/ WaitOn(n) \/ AskOn(n)
           \/ StartOver(n) \/ StepDown(n) \/ CarryOn(n)

-----------------------------------------------------------------------------
(* on_mac_rx and discovery_on_frame.                                       *)

(* An older term is ignored; a newer one voids the result that was seen.   *)
NoticeNext(me, term) ==
  [me EXCEPT !.seen_election_term = term + 1,
             !.auto_seen_result = @ /\ term = me.seen_election_term]
Notice(me, term) ==
  [me EXCEPT !.seen_election_term = term,
             !.auto_seen_result = @ /\ term = me.seen_election_term]

OnElection(n, me, frame) ==
  IF frame.term < me.seen_election_term THEN me
  ELSE LET noticed == Notice(me, frame.term)
       IN  IF frame.mac < n
           THEN [noticed EXCEPT !.auto_saw_lower_mac = TRUE,
                                !.auto_winner_mac = frame.mac]
           ELSE noticed

(* The winner is a lower address: this node is a router, with an id of its *)
(* own making.  It is this node: it is the coordinator.  It is a higher    *)
(* one: only the name is kept.                                             *)
OnResult(n, me, frame) ==
  LET noticed == [Notice(me, frame.term) EXCEPT !.auto_seen_result = TRUE,
                                                !.auto_winner_mac = frame.mac]
  IN  CASE frame.term < me.seen_election_term -> me
        [] frame.term >= me.seen_election_term /\ frame.mac < n ->
             [noticed EXCEPT !.disc_role = "ROUTER", !.disc_id = "OWN"]
        [] frame.term >= me.seen_election_term /\ frame.mac = n ->
             [noticed EXCEPT !.disc_role = "COORDINATOR",
                             !.disc_id = "COORDINATOR"]
        [] OTHER -> noticed

OnAssign(n, me, frame) ==
  IF /\ me.disc_role # "COORDINATOR" /\ me.disc_id = "UNASSIGNED"
     /\ frame.mac = n /\ frame.term >= me.seen_election_term
  THEN [me EXCEPT !.disc_id = "OWN"] ELSE me

OnRouteUpdate(me, frame) ==
  [me EXCEPT !.auto_seen_coordinator = @ \/ frame.src = "COORDINATOR"]

(* discovery_on_frame.  A JOIN changes the tables of a coordinator, which  *)
(* are Coordinator's.                                                      *)
Handled(n, me, frame) ==
  CASE frame.cmd = "ELECTION"        -> OnElection(n, me, frame)
    [] frame.cmd = "ELECTION_RESULT" -> OnResult(n, me, frame)
    [] frame.cmd = "ASSIGN"          -> OnAssign(n, me, frame)
    [] frame.cmd = "ROUTE_UPDATE"    -> OnRouteUpdate(me, frame)
    [] frame.cmd = "JOIN"            -> me

(* The coordinators that answer a JOIN.  They do so from inside on_phy_rx, *)
(* where the channel counts as busy until a frame that is received during  *)
(* the back-off lowers rx_in_progress: it depends on the port and on luck  *)
(* whose answer gets out, if any does.                                     *)
Answering(receivers, frame) ==
  {n \in receivers : frame.cmd = "JOIN" /\ node[n].disc_role = "COORDINATOR"}
Answers(n, frame) ==
  {Assign(node[n].disc_id, node[n].election_term, frame.mac)}

(* on_mac_rx: a node in JOINING is connected as soon as discovery has an   *)
(* id, wherever from.                                                      *)
Heard(n, frame) ==
  LET heard == IF frame.src = "COORDINATOR"
               THEN [node[n] EXCEPT !.last_coord_seen = 0] ELSE node[n]
      me    == Handled(n, heard, frame)
  IN  IF me.state = "JOINING" /\ me.disc_id # "UNASSIGNED"
      THEN [Connected(me) EXCEPT !.role = me.disc_role] ELSE me

(* A frame is over: some nodes in range have missed it, the others have    *)
(* handled it.                                                             *)
Over(sent, missed) ==
  LET frame     == sent[2]
      receivers == On \ (missed \cup {sent[1]})
  IN  \E lucky \in SUBSET Answering(receivers, frame) :
        /\ missed # {} => /\ Troubles + Cardinality(missed) <= MaxTroubles
                          /\ Cardinality(On) <= Crowd
        /\ losses' = losses + Cardinality(missed)
        /\ node' = [n \in Nodes |-> IF n \in receivers
                                    THEN Heard(n, frame) ELSE node[n]]
        /\ air' = (air \ {sent})
                    \cup UNION {InTheAir(n, Answers(n, frame)) : n \in lucky}
        /\ UNCHANGED <<ticked, crashes, triggers, clash>>

Receive ==
  \E sent \in air : \E missed \in SUBSET (On \ {sent[1]}) : Over(sent, missed)

-----------------------------------------------------------------------------
(* What happens to nodes.                                                  *)

(* umesh_init and umesh_start                                              *)
Boot(n) ==
  /\ node[n].state = "OFF"
  /\ Undisturbed \/ Cardinality(On) < Crowd
  /\ node' = [node EXCEPT ![n] = Fresh]
  /\ UNCHANGED <<ticked, air, losses, crashes, triggers, clash>>

(* The power fails, and the terms are forgotten.                           *)
Crash(n) ==
  /\ node[n].state # "OFF" /\ Troubles < MaxTroubles /\ Cardinality(On) <= Crowd
  /\ node' = [node EXCEPT ![n] = Off]
  /\ crashes' = crashes + 1
  /\ ticked' = IF On \ {n} \subseteq ticked THEN {} ELSE ticked \ {n}
  /\ UNCHANGED <<air, losses, triggers, clash>>

(* umesh_trigger_election                                                  *)
Trigger(n) ==
  /\ node[n].state # "OFF" /\ Troubles < MaxTroubles
  /\ Cardinality(On) <= Crowd
  /\ node' = [node EXCEPT ![n] = Scanning(node[n])]
  /\ triggers' = triggers + 1
  /\ UNCHANGED <<ticked, air, losses, crashes, clash>>

Next == \/ Receive
        \/ \E n \in Nodes : Tick(n) \/ Boot(n) \/ Crash(n) \/ Trigger(n)

Spec == Init /\ [][Next]_vars

(* Time goes on: the nodes that are on have their net_tick called, each    *)
(* once in a unit of time (MayTick), and no frame stays in the air.        *)
Fairness == WF_vars(Receive \/ \E n \in Nodes : Tick(n))

FairSpec == Spec /\ Fairness

-----------------------------------------------------------------------------
Coordinators == {n \in On : node[n].role = "COORDINATOR"}

(* A claim is repeated no later than an election that just missed it can   *)
(* end, as with the defaults, which are equal, and before its hearers give *)
(* the coordinator up.  Without that OneCoordinator does not hold.         *)
Timely == AnnounceTime <= ElectionTime /\ AnnounceTime < NodeTimeout

(* Whenever they are switched on, and in whatever order their clocks tick, *)
(* nodes that hear each other have two coordinators in ctx->net.role only  *)
(* after a clash: one promoted itself before it could hear the claim of    *)
(* another, the first or one of those that repeat it (net.c, the ELECTION  *)
(* state and the announcement; discovery.c, ELECTION_RESULT).  Nothing     *)
(* else keeps them apart, because the ELECTION of a node that has no id is *)
(* never sent.  Of discovery's own copy of the role SplitHeals speaks.     *)
OneCoordinator == Undisturbed /\ ~ clash => Cardinality(Coordinators) <= 1

(* And until something goes wrong nobody is deposed: no claim, election or *)
(* timeout of another node takes the role from the one that has it (net.c, *)
(* CONNECTED; discovery.c, ELECTION and ELECTION_RESULT).                  *)
KeepsCoordinator ==
  [][Undisturbed' /\ ~ clash' => Coordinators \subseteq Coordinators']_vars

(* From some point on they have exactly one, and whatever is lost and      *)
(* triggered, nobody scans or elects for ever, as long as no node goes off.*)
(* A node whose address is lower than that of the winner it heard of may   *)
(* ask for ever, because only an answer to its JOIN can help it; all       *)
(* others are connected by an announcement (net.c, the ways out of         *)
(* SCANNING, ELECTION and JOINING; mac.c, rx_in_progress).                 *)
Unheard(n) == node[n].state = "JOINING" /\ n < node[n].auto_winner_mac
Settles ==
  <>[](crashes = 0 /\ On # {} =>
         /\ Coordinators # {}
         /\ Undisturbed /\ ~ clash => Cardinality(Coordinators) = 1
         /\ \A n \in On : node[n].state = "CONNECTED" \/ Unheard(n))

(* Of two nodes that hear each other and have the role in discovery, the   *)
(* part that admits devices, one gives it up (discovery.c, the handler of  *)
(* ELECTION_RESULT).                                                       *)
Claimants  == {n \in On : node[n].disc_role = "COORDINATOR"}
SplitHeals == Cardinality(Claimants) > 1 ~> Cardinality(Claimants) <= 1
=============================================================================
