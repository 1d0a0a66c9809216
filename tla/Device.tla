------------------------------- MODULE Device -------------------------------
(***************************************************************************)
(* The life of one node as its application sees it: umesh_init, umesh_     *)
(* start, umesh_stop, umesh_reset, umesh_tick and the callbacks (umesh.c), *)
(* with the three copies of its id and the two of its role in mac.c, net.c *)
(* and discovery.c, and with power.c (module Power) under the same ticks.  *)
(* What other nodes send is any frame at any time between two calls,       *)
(* between net_tick and the notifications of one umesh_tick, and between   *)
(* the assignments of umesh_stop and umesh_reset; the other calls, and the *)
(* handling of a frame, are one step each.  Timers may have run out at any *)
(* tick.  Frames of older terms, and those that discovery drops, count as  *)
(* lost.                                                                   *)
(* Routing is by gradient, but the distances are those of module Gradient, *)
(* and of the notifications only on_joined is followed.                    *)
(***************************************************************************)
EXTENDS Power

CONSTANTS
  Configs,       \* the configurations an application may choose
  AssignedIds,   \* ids a coordinator may assign
  DerivedId,     \* derive_auto_node_id_from_mac
  Steps,         \* how far apart ticks are
  MaxClock,      \* the clock wraps after this
  MaxTime,       \* bound on the time of the ticks, over all wraps
  MaxCalls       \* bound on the calls of the application, ticks excepted

Coordinator == 1     \* UMESH_ADDR_COORDINATOR
Unassigned  == 254   \* UMESH_ADDR_UNASSIGNED

Roles == {"COORDINATOR", "ROUTER", "END_NODE"}

(* validate_cfg takes any id but 255, and normalize_cfg makes 0 UNASSIGNED *)
(* (umesh.c).  What an AUTO node has for an id before it is started is not *)
(* one that it can be given.                                               *)
Assignable == AssignedIds \cup {DerivedId}

ASSUME DeviceAssumption ==
  /\ Assignable \subseteq 2..253
  /\ Configs \subseteq [role : Roles \cup {"AUTO"}, id : 1..254, mode : Modes]
  /\ \A c \in Configs : c.role = "AUTO" => c.id \notin Assignable
  /\ Steps \subseteq Nat \ {0} /\ MaxClock \in Nat /\ MaxTime \in Nat /\ MaxCalls \in Nat

Ids == Assignable \cup {c.id : c \in Configs} \cup {Coordinator, Unassigned}
NetStates ==
  {"UNINIT", "SCANNING", "ELECTION", "JOINING", "CONNECTED", "DISCONNECTED"}

VARIABLES
  ready,     \* ctx.initialized
  net,       \* net.state, .role_cfg, .role and .node_id
  macId,     \* mac.node_id
  disc,      \* discovery.role, .node_id, .joined, .join_token, the auto flags
  lastId,    \* the id notify_state_changes saw last
  at,        \* where the application is: in no call, in umesh_tick, in umesh_stop
  left,      \* how many assignments of umesh_stop are done
  calls,     \* calls made
  unheard,   \* history: the node has an id that on_joined has not told
  raced,     \* history: an id came in the middle of umesh_tick
  cutIn,     \* history: an id, or the joined flag, came in the middle of umesh_stop
  unsent,    \* history: umesh_start could not send its request
  overruled  \* history: an ELECTION_RESULT named this node or went against its
             \* configured role, or a coordinator was started a second time

history == <<unheard, raced, cutIn, unsent, overruled>>
vars == <<ready, net, macId, disc, lastId, at, left, calls, history, power, duty>>

TypeOK ==
  /\ ready \in BOOLEAN /\ macId \in Ids \cup {0}
  /\ net \in [state : NetStates, cfg : Roles \cup {"AUTO"}, role : Roles, id : Ids \cup {0}]
  /\ disc \in [role : Roles, id : Ids \cup {0}, joined : BOOLEAN, token : BOOLEAN,
               coord : BOOLEAN, lower : BOOLEAN, result : BOOLEAN]
  /\ lastId \in Ids
  /\ at \in {"idle", "tick", "stop", "reset"} /\ left \in 0..4 /\ calls \in 0..MaxCalls
  /\ unheard \in BOOLEAN /\ raced \in BOOLEAN /\ cutIn \in BOOLEAN
  /\ unsent \in BOOLEAN /\ overruled \in BOOLEAN
  /\ PowerTypeOK

(* A cleared umesh_ctx_t: static storage, or a umesh_init that failed.     *)
BlankNet  == [state |-> "UNINIT", cfg |-> "COORDINATOR", role |-> "COORDINATOR", id |-> 0]
BlankDisc == [role |-> "COORDINATOR", id |-> 0, joined |-> FALSE, token |-> FALSE,
              coord |-> FALSE, lower |-> FALSE, result |-> FALSE]

Init ==
  /\ ready = FALSE /\ net = BlankNet /\ macId = 0 /\ disc = BlankDisc
  /\ lastId = Unassigned /\ at = "idle" /\ left = 0 /\ calls = 0
  /\ unheard = FALSE /\ raced = FALSE /\ cutIn = FALSE /\ unsent = FALSE /\ overruled = FALSE
  /\ power = PowerInit("ACTIVE") /\ duty = NewDuty

Call == at = "idle" /\ calls < MaxCalls /\ calls' = calls + 1
-----------------------------------------------------------------------------
(* discovery_init and net_init                                             *)
ConfiguredDiscAsIs(c) == [BlankDisc EXCEPT !.role = c.role, !.id = c.id]
ConfiguredDisc(c) ==
  LET id == CASE c.role = "COORDINATOR" -> Coordinator
              [] c.role = "AUTO" -> Unassigned
              [] OTHER -> c.id
  IN [BlankDisc EXCEPT
        !.role = IF c.role = "AUTO" THEN "ROUTER" ELSE c.role,
        !.id = id,
        !.joined = c.role = "COORDINATOR" \/ id \notin {Coordinator, Unassigned}]

ConfiguredNet(c) ==
  [state |-> "SCANNING", cfg |-> c.role,
   role |-> IF c.role = "AUTO" THEN "ROUTER" ELSE c.role, id |-> c.id]

(* umesh_init                                                              *)
UmeshInit(c) ==
  /\ Call
  /\ ready' = TRUE /\ net' = ConfiguredNet(c) /\ macId' = c.id
  /\ disc' = ConfiguredDisc(c) /\ lastId' = Unassigned
  /\ power' = PowerInit(c.mode) /\ duty' = NewDuty
  /\ unheard' = (c.id # Unassigned) /\ raced' = FALSE /\ cutIn' = FALSE
  /\ unsent' = FALSE /\ overruled' = FALSE
  /\ UNCHANGED <<at, left>>

(* umesh_init with a configuration that is not valid                       *)
InitFails ==
  /\ Call
  /\ ready' = FALSE /\ net' = BlankNet /\ macId' = 0 /\ disc' = BlankDisc
  /\ lastId' = Unassigned
  /\ power' = PowerInit("ACTIVE") /\ duty' = NewDuty
  /\ unheard' = FALSE /\ raced' = FALSE /\ cutIn' = FALSE
  /\ unsent' = FALSE /\ overruled' = FALSE
  /\ UNCHANGED <<at, left>>
-----------------------------------------------------------------------------
(* mac_set_node_id                                                         *)
MacUnchanged(id) == macId' = macId
MacSetNodeId(id) == macId' = id

(* discovery_set_role(UMESH_ROLE_ROUTER)                                   *)
AsRouter(d) ==
  LET id == IF d.id = Coordinator THEN Unassigned ELSE d.id
  IN [d EXCEPT !.role = "ROUTER", !.id = id, !.joined = id # Unassigned]

(* discovery_join                                                          *)
AsksUnnumbered(d) == IF d.role = "COORDINATOR" THEN [d EXCEPT !.joined = TRUE] ELSE d
Asks(d) ==
  IF d.role = "COORDINATOR" THEN [d EXCEPT !.joined = TRUE]
  ELSE [d EXCEPT !.token = TRUE]

(* enter_scanning                                                          *)
EnterScanning(cfg) ==
  /\ net' = [state |-> "SCANNING", cfg |-> cfg, role |-> "ROUTER", id |-> Unassigned]
  /\ MacSetNodeId(Unassigned)
  /\ disc' = [disc EXCEPT !.role = "ROUTER", !.id = Unassigned, !.joined = FALSE,
                          !.coord = FALSE, !.lower = FALSE, !.result = FALSE]
  /\ cutIn' = FALSE

(* notify_state_changes of a node with this id: when it calls on_joined,   *)
(* and what it remembers.                                                  *)
RemembersIds(id) == IF id = Unassigned THEN lastId ELSE id
Remembers(id) == id
TellsJoin(id) == id # lastId /\ id # Unassigned

Notify(id) ==
  /\ lastId' = Remembers(id)
  /\ unheard' = (id # Unassigned /\ (unheard \/ id # net.id) /\ ~ TellsJoin(id))

Unnotified == unheard' = (net'.id # Unassigned /\ (unheard \/ net'.id # net.id))
-----------------------------------------------------------------------------
(* umesh_start of a coordinator, ...                                       *)
StartCoordinator ==
  /\ net.cfg # "AUTO" /\ net.role = "COORDINATOR"
  /\ net' = [net EXCEPT !.state = "CONNECTED", !.id = Coordinator]
  /\ MacSetNodeId(Coordinator)
  /\ overruled' = (overruled \/ disc.id # Coordinator)
  /\ Notify(net'.id) /\ UNCHANGED <<disc, unsent, cutIn>>

(* ... of a node that has an id, ...                                       *)
StartWithId ==
  /\ net.cfg # "AUTO" /\ net.role # "COORDINATOR" /\ net.id # Unassigned
  /\ net' = [net EXCEPT !.state = "CONNECTED", !.role = net.cfg]
  /\ MacSetNodeId(net.id)
  /\ Notify(net'.id) /\ UNCHANGED <<disc, unsent, overruled, cutIn>>

(* ... of one that asks for its id; nothing is told when the request       *)
(* cannot be sent, ...                                                     *)
StartJoining ==
  /\ net.cfg # "AUTO" /\ net.role # "COORDINATOR" /\ net.id = Unassigned
  /\ net' = [net EXCEPT !.state = "JOINING"]
  /\ disc' = Asks(disc)
  /\ \/ Notify(net'.id) /\ UNCHANGED unsent
     \/ Unnotified /\ UNCHANGED lastId /\ unsent' = TRUE
  /\ UNCHANGED <<macId, overruled, cutIn>>

(* ... and of an AUTO node.                                                *)
StartAuto ==
  /\ net.cfg = "AUTO" /\ EnterScanning("AUTO")
  /\ Notify(net'.id) /\ UNCHANGED <<unsent, overruled>>

Start ==
  /\ Call /\ ready
  /\ StartCoordinator \/ StartWithId \/ StartJoining \/ StartAuto
  /\ UNCHANGED <<ready, at, left, raced, power, duty>>

(* umesh_stop, and umesh_reset, which does not ask whether there was an    *)
(* umesh_init, assignment by assignment: discovery_leave, ...              *)
StopBegins(how) ==
  /\ Call /\ (how = "stop" => ready)
  /\ at' = how /\ left' = 1
  /\ disc' = [disc EXCEPT !.joined = FALSE]
  /\ UNCHANGED <<ready, net, macId, lastId, history, power, duty>>

DropsId ==
  /\ left = 1 /\ disc' = [disc EXCEPT !.id = Unassigned] /\ UNCHANGED net

LeavesToken == left = 2 /\ UNCHANGED <<disc, net>>
DropsToken ==
  /\ left = 2 /\ disc' = [disc EXCEPT !.token = FALSE] /\ UNCHANGED net

(* ... net_leave, ...                                                      *)
Disconnects ==
  /\ left = 3 /\ net' = [net EXCEPT !.state = "DISCONNECTED"] /\ UNCHANGED disc

LeaveOn ==
  /\ DropsId \/ DropsToken \/ Disconnects
  /\ left' = left + 1
  /\ UNCHANGED <<ready, macId, lastId, at, calls, history, power, duty>>

(* ... and its last assignment, with those of umesh_reset that the         *)
(* handling of a frame does not read.                                      *)
StopEnds ==
  /\ left = 4 /\ left' = 0 /\ at' = "idle"
  /\ net' = [net EXCEPT !.id = Unassigned]
  /\ ready' = (ready /\ at = "stop")
  /\ lastId' = IF at = "reset" THEN Unassigned ELSE lastId
  /\ unheard' = FALSE
  /\ UNCHANGED <<macId, disc, calls, raced, cutIn, unsent, overruled, power, duty>>

(* umesh_trigger_election                                                  *)
Trigger ==
  /\ Call /\ ready /\ EnterScanning("AUTO")
  /\ Unnotified /\ UNCHANGED <<ready, at, left, lastId, raced, unsent, overruled, power, duty>>

(* umesh_set_power_mode and umesh_deep_sleep_cycle                         *)
SetPowerMode(mode) ==
  /\ Call /\ ready /\ SetMode(mode)
  /\ UNCHANGED <<ready, at, left, net, macId, disc, lastId, history>>

DeepSleepCycle ==
  /\ Call /\ ready /\ DeepCycle(net.role)
  /\ UNCHANGED <<ready, at, left, net, macId, disc, lastId, history>>
-----------------------------------------------------------------------------
(* The parts of net_tick that change the node's own state.  An AUTO node   *)
(* has heard a coordinator, ...                                            *)
FindCoordinator ==
  /\ net.cfg = "AUTO" /\ net.state = "SCANNING" /\ disc.coord
  /\ net' = [net EXCEPT !.state = "JOINING", !.role = "ROUTER"]
  /\ disc' = Asks(AsRouter([disc EXCEPT !.coord = FALSE]))
  /\ UNCHANGED <<macId, cutIn>>

(* ... or has not and calls an election, ...                               *)
CallElection ==
  /\ net.cfg = "AUTO" /\ net.state = "SCANNING" /\ ~ disc.coord
  /\ net' = [net EXCEPT !.state = "ELECTION"]
  /\ disc' = [disc EXCEPT !.lower = FALSE, !.result = FALSE]
  /\ UNCHANGED <<macId, cutIn>>

(* ... loses it, with an id in discovery or without, ...                   *)
Yield ==
  LET d == AsRouter(disc)
  IN /\ net.cfg = "AUTO" /\ net.state = "ELECTION" /\ (disc.result \/ disc.lower)
     /\ IF d.id # Unassigned
        THEN /\ net' = [net EXCEPT !.state = "CONNECTED", !.role = "ROUTER", !.id = d.id]
             /\ MacSetNodeId(d.id) /\ disc' = d
        ELSE /\ net' = [net EXCEPT !.state = "JOINING", !.role = "ROUTER"]
             /\ disc' = Asks(d) /\ UNCHANGED macId
     /\ UNCHANGED cutIn

(* ... or wins it.                                                         *)
Promote ==
  /\ net.cfg = "AUTO" /\ net.state = "ELECTION" /\ ~ disc.result /\ ~ disc.lower
  /\ net' = [net EXCEPT !.state = "CONNECTED", !.role = "COORDINATOR", !.id = Coordinator]
  /\ MacSetNodeId(Coordinator)
  /\ disc' = [disc EXCEPT !.role = "COORDINATOR", !.id = Coordinator, !.joined = TRUE]
  /\ UNCHANGED cutIn

AskAgain ==
  /\ net.state = "JOINING" /\ net.role # "COORDINATOR"
  /\ disc' = Asks(disc) /\ UNCHANGED <<net, macId, cutIn>>

(* The coordinator of an AUTO node has been silent, or the node itself is  *)
(* no longer the coordinator.                                              *)
StartOver ==
  /\ net.cfg = "AUTO" /\ net.state = "CONNECTED" /\ net.role # "COORDINATOR"
  /\ EnterScanning("AUTO")

Deposed ==
  /\ net.cfg = "AUTO" /\ net.state = "CONNECTED"
  /\ net.role = "COORDINATOR" /\ disc.role # "COORDINATOR"

StepDown ==
  /\ Deposed
  /\ MacSetNodeId(disc.id)
  /\ IF disc.id = Unassigned
     THEN /\ net' = [net EXCEPT !.role = "ROUTER", !.id = disc.id, !.state = "JOINING"]
          /\ disc' = Asks(disc)
     ELSE /\ net' = [net EXCEPT !.role = "ROUTER", !.id = disc.id]
          /\ UNCHANGED disc
  /\ UNCHANGED cutIn

CarryOn ==
  /\ ~ (net.cfg = "AUTO" /\ net.state = "SCANNING" /\ disc.coord)
  /\ ~ (net.cfg = "AUTO" /\ net.state = "ELECTION" /\ (disc.result \/ disc.lower))
  /\ ~ Deposed
  /\ UNCHANGED <<net, macId, disc, cutIn>>

(* umesh_tick: net_tick, ...                                               *)
NetTick ==
  /\ ready /\ power.last + duty.skew <= MaxTime /\ at = "idle" /\ at' = "tick"
  /\ \/ FindCoordinator \/ CallElection \/ Yield \/ Promote
     \/ AskAgain \/ StartOver \/ StepDown \/ CarryOn
  /\ Unnotified
  /\ UNCHANGED <<ready, lastId, left, calls, raced, unsent, overruled, power, duty>>

(* ... then power_tick and notify_state_changes.                           *)
Later(step) ==
  IF power.last + step <= MaxClock THEN power.last + step
  ELSE power.last + step - MaxClock - 1

TickEnds ==
  /\ at = "tick" /\ at' = "idle"
  /\ \E step \in Steps : PowerTick(Later(step), net.role)
  /\ Notify(net.id)
  /\ UNCHANGED <<ready, net, macId, disc, left, calls, raced, cutIn, unsent, overruled>>
-----------------------------------------------------------------------------
(* on_mac_rx, after discovery_on_frame has left d in discovery: a node     *)
(* that is joining takes over the id it finds there.  In a cleared context *)
(* there is no callback, and no id in mac.c, but 0.                        *)
Listening == macId # 0
Adopts(d) == net.state = "JOINING" /\ d.id # Unassigned

Receive(d) ==
  /\ Listening
  /\ disc' = d
  /\ net' = IF Adopts(d) THEN [net EXCEPT !.state = "CONNECTED", !.id = d.id, !.role = d.role]
            ELSE net
  /\ IF Adopts(d) THEN MacSetNodeId(d.id) ELSE UNCHANGED macId
  /\ Unnotified
  /\ raced' = (raced \/ (at = "tick" /\ (d.id # disc.id \/ net'.id # net.id)))
  /\ cutIn' = (cutIn \/ (left > 0 /\ (d.id # disc.id \/ d.joined # disc.joined)))
  /\ UNCHANGED <<ready, lastId, at, left, calls, unsent>>

(* UMESH_CMD_ASSIGN that names this node and its token                     *)
Takes(d) == d.role # "COORDINATOR" /\ ~ d.joined /\ d.token

HearAssign(id) ==
  /\ Takes(disc)
  /\ Receive([disc EXCEPT !.id = id, !.joined = TRUE, !.token = FALSE])
  /\ UNCHANGED <<overruled, power, duty>>

(* The auto flags are cleared before the state in which they are read, and *)
(* so followed only in that one.  UMESH_CMD_ROUTE_UPDATE of a coordinator, *)
HearCoordinator ==
  /\ net.cfg = "AUTO" /\ net.state = "SCANNING"
  /\ Receive([disc EXCEPT !.coord = TRUE])
  /\ UNCHANGED <<overruled, power, duty>>

(* ... UMESH_CMD_ELECTION, of a newer term or a lower address or both, ... *)
HearElection(newer, lower) ==
  /\ net.cfg = "AUTO" /\ net.state = "ELECTION"
  /\ Receive([disc EXCEPT !.result = @ /\ ~ newer, !.lower = @ \/ lower])
  /\ UNCHANGED <<overruled, power, duty>>

(* ... or any other frame that changes nothing in discovery.               *)
HearOther ==
  /\ Receive(disc)
  /\ UNCHANGED <<overruled, power, duty>>

(* UMESH_CMD_ELECTION_RESULT: a lower address has won, this node, or a     *)
(* higher one.                                                             *)
HearResult(winner) ==
  LET id == IF disc.id \in {Coordinator, Unassigned} THEN DerivedId ELSE disc.id
      d  == [disc EXCEPT !.result = net.state = "ELECTION"]
  IN /\ Receive(CASE winner = "lower" ->
                       [d EXCEPT !.role = "ROUTER", !.id = id, !.joined = TRUE]
                  [] winner = "self" ->
                       [d EXCEPT !.role = "COORDINATOR", !.id = Coordinator, !.joined = TRUE]
                  [] winner = "higher" -> d)
     /\ overruled' = (overruled \/ winner = "self"
                      \/ (winner = "lower" /\ (net.cfg # "AUTO" \/ net.state = "DISCONNECTED")))
     /\ UNCHANGED <<power, duty>>

(* UMESH_CMD_POWER_BEACON                                                  *)
HearPowerBeacon(profile) ==
  /\ Receive(disc) /\ SetProfile(profile)
  /\ UNCHANGED <<overruled, duty>>

Hear ==
  \/ \E id \in AssignedIds : HearAssign(id)
  \/ HearCoordinator
  \/ HearOther
  \/ \E newer, lower \in BOOLEAN : HearElection(newer, lower)
  \/ \E winner \in {"lower", "self", "higher"} : HearResult(winner)
  \/ \E profile \in Profiles : HearPowerBeacon(profile)

Next ==
  \/ \E c \in Configs : UmeshInit(c)
  \/ InitFails
  \/ Start
  \/ \E how \in {"stop", "reset"} : StopBegins(how)
  \/ LeaveOn
  \/ StopEnds
  \/ Trigger
  \/ \E mode \in Modes : SetPowerMode(mode)
  \/ DeepSleepCycle
  \/ NetTick
  \/ TickEnds
  \/ Hear

Spec == Init /\ [][Next]_vars
-----------------------------------------------------------------------------
(* A connected node has one id and one role: mac.c, net.c and discovery.c  *)
(* agree, whatever order umesh_start, umesh_stop, enter_scanning, net_tick *)
(* and on_mac_rx set them in, except until the next tick of a coordinator  *)
(* that was deposed, and in net.c and discovery.c where it was overruled   *)
(* or a frame came between the assignments of umesh_stop.                  *)
OneIdentity ==
  net.state = "CONNECTED" /\ at \in {"idle", "tick"} =>
    /\ macId = net.id /\ net.id \notin {0, Unassigned}
    /\ Deposed \/ overruled \/ cutIn \/ (disc.id = net.id /\ disc.role = net.role)

(* A node that is joining can be helped by an ASSIGN (discovery_on_frame), *)
(* or has an id that on_mac_rx will take over with the next frame:         *)
(* discovery.joined and the token are never left such that it asks in vain *)
(* (net_tick, discovery_join), but in two cases: it was overruled, or a    *)
(* frame came between the assignments of umesh_stop.  An ASSIGN after the  *)
(* first of them leaves joined up without an id, and umesh_start does not  *)
(* take it down: such a node asks in vain until the next umesh_init or     *)
(* enter_scanning.                                                         *)
JoiningCanFinish ==
  net.state = "JOINING" /\ at \in {"idle", "tick"} =>
    overruled \/ cutIn \/ disc.id # Unassigned \/ Takes(disc)

(* A node that was stopped has no id in net.c or discovery.c, and a late   *)
(* ASSIGN does not give it one, unless that came between the assignments   *)
(* of umesh_stop (net_leave, discovery_leave, discovery_on_frame).         *)
StoppedStaysOut ==
  net.state = "DISCONNECTED" /\ at = "idle" =>
    /\ net.id = Unassigned
    /\ overruled \/ cutIn \/ (disc.id = Unassigned /\ ~ disc.joined)

(* At the end of umesh_tick the application has been told of each id the   *)
(* node was given, also when it is the id it had before, unless that came  *)
(* in the middle of a tick, or a request could not be sent (umesh.c,       *)
(* notify_state_changes).  A coordinator that is started again gives its   *)
(* id to itself.                                                           *)
EachJoinAnnounced ==
  [][TickEnds => ~ unheard' \/ raced \/ unsent \/ net.id = Coordinator]_vars
=============================================================================
