# Verification of uMesh in TLA+

uMesh is a small C99 mesh network stack: a MAC with acknowledgement over raw
802.11 frames, protected frames with replay windows, one-hop and gradient
routing, a coordinator that gives out node ids, an election of that
coordinator, and duty cycling. This directory holds TLA+ modules that follow
its code, TLC configurations that check them on small instances, and proofs
that TLAPS checks for every instance. Paths below are relative to the
repository.

1. [The system](#1-the-system): its parts, their state, what is hard
2. [The modules](#2-the-modules) and how they correspond to the code
3. [The runs](#3-the-runs): what each checks, its bounds, its fairness
4. [The proofs](#4-the-proofs)
5. [Where code and expectation differ](#5-where-code-and-expectation-differ)
6. [What is not modelled, and the plan](#6-what-is-not-modelled-and-the-plan)

## 1. The system

All state of a node lives in one `umesh_ctx_t` (`include/umesh.h`), without
locks. Two tasks reach it on the ESP32: the *application task*, which calls
`umesh_send` and `umesh_tick`, and the *rx task* of `port/esp32/phy_esp32.c`,
which takes raw frames from a queue of 8 and runs `on_phy_rx`, and from inside
it everything above: discovery, forwarding (a blocking `mac_send`), callbacks.
On POSIX everything runs in one thread and a callback runs inside a delay or
inside `phy_send`.

| Part (source) | State | Operations | What makes it correct |
|---|---|---|---|
| Security (`src/sec/sec.c`) | `protected_counter`, `replay[]` (last number, 32-bit bitmap per source) | `sec_encrypt_frame`, `sec_decrypt_frame` | no number accepted twice; a new one not refused; nothing inside the window forgotten |
| MAC (`src/mac/mac.c`, `cca.c`) | `waiting_ack`, `ack_received`, `ack_*`, `rx_in_progress` | `mac_send`, `on_phy_rx` | OK means received; loss is masked by retries; every send returns |
| Radio port (`port/esp32`, `port/posix`) | receive queue, rx task | `promisc_cb`, `rx_task`, `phy_hal_send` | bounded queue; order kept |
| Network (`src/net/net.c`) | `state`, `node_id`, `seq_num`, `dup_cache` | `net_route`, `on_mac_rx`, `net_forward_frame`, `net_tick`, `net_join`, `net_leave` | each packet handled once, only where it belongs, dies out, arrives |
| Discovery (`src/net/discovery.c`), coordinator | `join_cache`, `active_nodes`, `next_assign_id` | JOIN, LEAVE, ROUTE_UPDATE, `discovery_tick` | ids distinct and accounted for; members routable; one admission per request |
| Discovery, device | `node_id`, `join_token`, `joined` | `discovery_join`, ASSIGN, `discovery_leave` | an asking device gets an id; stale answers are ignored |
| Election (`discovery.c`, `net.c`) | terms, winner, `auto_*` flags | SCANNING, ELECTION, promotion, RESULT | one coordinator; followers agree with it |
| Routing (`src/net/routing.c`) | `table[]`, `neighbors[]` | add, find, expire, remove, update of neighbours | bounded; the way to the coordinator found, and dropped when it is gone |
| Gradient (`discovery.c`, `routing.c`) | distance, pending rebroadcast | beacon, rebroadcast, uphill | distances are right, and frames go towards the coordinator |
| Power (`src/power/power.c`) | mode, profile, phase, totals | `power_tick`, `power_set_mode`, profiles, deep cycles | the time asleep is the time accounted for; callbacks alternate |
| Life cycle (`src/umesh.c`) | `initialized`, notifications | init, start, stop, reset, tick | one identity in three layers; nothing of an earlier life leaks into the next |
| Ring (`src/common/ring.c`) | `head`, `tail` | push, pop, count | a bounded FIFO for one producer and one consumer |
| Frame codec (`src/mac/frame.c`, `crc.c`) | none | serialize, deserialize | round trip; validity of fields |

How they interact: `umesh_send` calls `net_route`, that calls `mac_send`, that
calls `sec_encrypt_frame` and `phy_send`. Upwards, `rx_task` calls
`on_phy_rx`, which decrypts (and records the number) *before* anybody looks at
the link destination, answers with an ACK, and calls `on_mac_rx`; that calls
`discovery_on_frame` for every frame heard, then filters by link destination,
asks the duplicate cache, and delivers or forwards. `umesh_tick` calls
`net_tick`, which drives discovery, election, routes and gradient, then
`power_tick`, and then tells the application what has changed.

Hard behaviours, each at its line in the list of hazards of `PROJECT.json`:
the flags and match fields two tasks share; an ACK that comes after its
timeout; a retransmission that meets the replay window; three counters and
foreign ACK numbers in one window; the 16-bit wrap; restarts; a full receive
queue, duplicate cache, replay table, join cache, neighbour table; loops of
routes; requests and answers that are lost and repeated; answers that are sent
from inside a handler, where carrier sense refuses them; members that time out
while they are alive; reboots that repeat a token; made-up MAC addresses;
elections whose objections are never sent and whose claims cross; copies of
id and role in three layers; distances that only ever decrease; ticks that
straddle sleep phases; and two sides of a ring that interrupt each other.

## 2. The modules

```
ReplayWindow --- SecureLink --- MCSecureLink
     |                \-------- SecureLinkProofs
     |
     +--- Mac --- MacLink ------ MCMacLink
           |           \-------- MacLinkProofs
           |                           |
           |                     ForwardingProofs
           |           /---------------/
           +----- Forwarding --- MCForwarding
                       \--(implements)--> PacketService

Coordinator ---- MCCoordinator            Gradient ---- MCGradient
          \----- CoordinatorProofs              \------ GradientProofs

Election ------- MCElection               Power --- Device ---- MCDevice
       \-------- ElectionProofs                           \----- DeviceProofs

BoundedQueue <--(implements)-- Ring ---- MCRing
                                   \---- RingProofs
```

**ReplayWindow** is `replay_check_and_update` as operators on one window. The
bitmap is the set of the offsets whose bit is set, cut to `SeqWindow` bits
when it is shifted. `ReplayAccepts` is the answer, `ReplayUpdate` what is
stored.

**SecureLink** has the counters of each sender (`protected_counter`, and the
12-bit counters of `net.c` and `discovery.c` in `ctl_seq`), the table of
windows of each receiver, and a radio that is the set of all frames ever sent:
it may deliver any of them at any time, again and again. `SendData`,
`SendControl`, `Receive`, `ReceiveAndAck` and `Restart` are `net_route`,
`send_frame`/`net_tick`, the two ways through `on_phy_rx`, and `sec_init` after
a loss of memory. A frame the window refuses changes statistics only and is a
stuttering step. `sent`, `accepted` and `newest` are history.

**Mac** is `mac_send` and `on_phy_rx` over the radio and the receive queue of
the ESP32 port. `tx[<<n, task>>]` is the `mac_send` a task is in; its `pc`
names the places where another task can come between: before the flags are
raised (`RaiseFlag`), between the flags and the fields an ACK is compared with
(`SetMatch`), before each look at the channel (`ChannelBusy`, `Transmit`,
`SendFails`) and during the ACK timeout (`AckTimeout`). On the receiving side
`DropReplay`, `ReceiveAck` and `ReceiveData` are the exits of `on_phy_rx`;
between `ReceiveData` and the return of `rx_cb` the node counts as receiving.
`PhySend` puts a frame into the queue of every node in range except those that
miss it and those whose queue is full. The environment is chosen by the
constant `Preemptive` (the two tasks of the ESP32, or one thread with callbacks
in its delays) and by `mode`, picked at the start from the constant `Modes`:
`secure` (protected frames and replay windows, or neither), `patient`
(timeouts wait until nothing is under way, which the 50 ms of
`UMESH_ACK_TIMEOUT_MS` give on a quiet link, or come at any time), and `place`,
the network in question: who hears whom, and how much the radio loses there.

**MacLink** puts an application on top of Mac that sends to neighbours.
**Forwarding** puts `net_route` and `on_mac_rx` there instead: `Ignore`,
`Deliver`, `DropTransit` and `Forward` are the exits of `on_mac_rx`, and
`Forward` starts a `mac_send` in the rx task, so that nothing else is received
by that node until it ends. The duplicate cache has its slots and its index.
Routes and cache size belong to the place. `delivered` and `forwarded` count,
up to two, what was done with each packet. **PacketService** is what all of it
promises to the applications: what one is given was sent to it by the source it
names, and is given to it once, until something was forgotten. Forwarding
implements it with the packets that were given to `mac_send` (`Accepted`) for
what was sent, `delivered` for what was given, and the caches' holding
everything (`CacheHolds`) for what is remembered.

**Coordinator** is joining: one coordinator and its devices. On the
coordinator's side `AnswerAgain`, `Admit` and `Refuse` are the three ways
through the JOIN handler, with `ReceiveLeave`, `ReceiveRouteUpdate` and `Tick`
(`routing_expire`, then `discovery_tick`). On the device's side: `Start`,
`Retry`, `ReceiveAssign`, `SendRouteUpdate`, `Stop` and `Reboot`. A request is
known by MAC address and token, so `Mac` gives the address of each device, and
devices may share one (`Twins`): an ASSIGN then reaches any of them. `Answer`
is the ASSIGN that is sent from inside the handler: it gets out only if,
during one of its back-offs, another frame is received (`Nested`), which takes
`rx_in_progress` down. Time is the age of each table entry in units of the
order of the 30 s between route updates; a frame does not stay in the air that
long, so `Tick` waits for the air to be empty.

**Election** is the AUTO role: what `net_tick` does in SCANNING, ELECTION,
JOINING and CONNECTED, one action for each way through it (`FindCoordinator`,
`CallElection`, `Yield`, `Promote`, `WaitOn`, `AskOn`, `StartOver`, `StepDown`,
`CarryOn`), and the handlers of `discovery.c` for the five frames that matter
(`OnElection`, `OnResult`, `Answers` to a JOIN, `OnAssign`,
`OnRouteUpdate`), inside what `on_mac_rx` does around them (`Heard`). What
`frame_serialize` refuses is never in the air (`Sendable`): above all the
ELECTION of a node without an id. A node
has two copies of its role and id, those of `ctx->net` and those of
`ctx->discovery`, as in the code. Which id a node gets is Coordinator's matter;
here it has none, the coordinator's, or one of its own, and an ASSIGN the
receiver refuses because of its own table counts as a lost one. Time is kept as
ages. A unit of time has passed when every node that is on has called
`net_tick`, in any order, and a frame is over before the next call. A frame
reaches any subset of the nodes that are on; those it does not reach count as
losses. `clash` is history: a node promoted itself while a claim of another was
under way, or was the next thing that other would do in this unit of time
(`Claimed`). In the JOINING branch of a deposed coordinator (`net.c:664`) `id`
would have to be unassigned, which the handler that deposed it excludes.

**Gradient** spreads distances from the coordinator. `OnBeacon` (at the
coordinator, closer, or farther) with `NeighborUpdate` is the handler of
GRADIENT_BEACON; `NeighborExpire`, `SendPeriodic`, and `Poll` and `Rebroadcast`
are the parts of `net_tick`, the last two apart because the rx task can find a
better distance between them; `Refresh` is `umesh_gradient_refresh`; then there
are lost beacons, reboots and outages. `air` has one beacon for each receiver,
in the order in which they were sent between two nodes. `Elapse` is one beacon
period: what a neighbour did not repeat in it is `old`. `Uphill` and
`NextHops` are what `net_route` chooses from. `life` and `raced` are history.

**Power** is `power.c` as operators on its part of the context: `Chunks` are
the pieces into which `update_stats_window` cuts the time between two ticks,
`TickLight`, `TickActive` and `TickBackwards` the ways through it, `SetMode`,
`SetProfile` and `DeepCycle` the other operations. `duty` is history: what a
perfect clock would say, and what the application was told last.
**Device** composes Power with the life of one node of any role: `UmeshInit`,
`InitFails`, `Start` in its four forms, `Trigger`, the power calls, `NetTick`
and `TickEnds` for the two halves of `umesh_tick`, and `Hear` for what a frame
does to the node's own state. `umesh_stop` and `umesh_reset` go assignment by
assignment: `StopBegins` takes `joined` down (`discovery.c:432`), `LeaveOn` then
drops the id (433), the token (434) and the state (`net.c:425`), and `StopEnds`
the id in `net.c`; `left` counts them. A frame may be handled between two calls,
between the halves of a tick, and between any two of these assignments. The
other calls, each half of a tick, and the handling of a frame are one step each.
Timers may have run out at any tick.
The id is there three times (`macId`, `net.id`, `disc.id`), the role twice.

**BoundedQueue** is what a ring promises, and **Ring** is `ring.c` access by
access, with producer and consumer interrupting each other anywhere; `Queue` in
it is the refinement, with `Contents`, the bytes between the indices, for the
queue.

The **MC** modules give the constants their values, and the **Proofs** modules
are section 4. Each module defines, next to an operator of the code, one or two
changed forms of it, such as `NextRetryEarly` next to `NextRetry`: plausible
mistakes that the properties are shown to notice when they take the operator's
place.

## 3. The runs

`cd tla && tlc -config MCMacLink_arq.cfg MCMacLink` and so on. Deadlock is not
checked where a bound on what is sent, called or rebooted makes the system stop;
in MCGradient and MCRing it is.

| Run | Configuration | Checks | Shows |
|---|---|---|---|
| sec_window | `MCSecureLink_window` | TypeOK, AtMostOnce, WindowExact, ReplayInv, AscendingAccepted | the replay window is right, whatever the radio repeats or reorders and whoever restarts |
| mac_arq | `MCMacLink_arq` | MacTypeOK, OkMeansReceived, RetryMasksLossInOpen, SendReturns | two-way, with losses, secured with late ACKs or open with patient timeouts: OK is never a lie, every send ends, and in the open it fails only if each of its rounds lost something |
| mac_race | `MCMacLink_race` | OkMeansReceived: **violated** | with preemption, a late ACK is taken for the next frame's |
| fwd_nets | `MCForwarding_nets` | TypeOK, HandledOnce, ArrivesUnlessLost, PacketsServed, DiesOut | two hops, or two routes that form a loop, with two tasks per node: a packet is handled once, where it should, arrives, and never goes round for ever; together the nodes are a packet service |
| join_join | `MCCoordinator_join` | TypeOK, DistinctIds, IdsAccounted, ActiveHasRoute, JoinedOnce, JoinCompletes | joining, leaving, expiry and reboots keep the tables and ids right, and asking succeeds |
| join_twins | `MCCoordinator_twins` | DistinctIds: **violated** | devices that make up the same MAC address get the same id |
| join_deaf | `MCCoordinator_deaf` | JoinCompletes: **violated** | where no frame is received inside a handler, no ASSIGN ever gets out |
| elect_boot | `MCElection_boot` | TypeOK, OneCoordinator, KeepsCoordinator, Settles | nodes that boot whenever they like have two coordinators only after claims that crossed, and nobody else takes the role from the one that has it; they settle, and with a loss or a triggered election nobody is left scanning or electing |
| elect_split | `MCElection_split` | SplitHeals: **violated** | two nodes, nothing lost: crossing claims leave both with the role in discovery, for ever |
| grad_kite | `MCGradient_kite` | TypeOK, NeverTooClose, GoesUphill, FindsDistance, NearHasWay, GoneHasNoWay | distances are never too small and get right, frames go closer, the way comes back and goes |
| device_life | `MCDevice_life` | TypeOK, OneIdentity, JoiningCanFinish, StoppedStaysOut, SleepIsReal, PhaseTold, EachJoinAnnounced | one node of every role, any calls and any frames: its copies of id and role agree, it can get what it asks for, and its books are right |
| ring_spsc | `MCRing_spsc` | StaysTrue, QueueSpec, CountExact | the ring implements a bounded queue |

**Bounds.** The window has 3 or 4 bits and numbers end at 7, so five frames and
their ACKs move it past its width, shift bits out, and wrap the 12-bit counter
(here 3). `MaxRetries` is 1 (4 in the code): one is enough for a
retransmission to meet its own ACK; the queue holds 1 or 2 (8), so that it
does overflow; the duplicate cache 2 in the line and 1 in the loop (8), to hold
what is under way, or not; the hop limit 3 (15), so that it is used up in
the loop and not in the line. Tables of the
coordinator have 2 entries and ids 2 values (8 or 16 entries, 252 ids), so
that they fill up; two devices with two tokens each and one reboot are four
requests, twice what the join cache holds. Histories count to two, because
the properties ask whether something happened more than once; losses count up
to the first number that can no longer matter. In mac_arq and
fwd_nets sequence numbers do not wrap (bound on sends): the wrap is
SecureLink's.

In the elections a unit of time stands for half a second or more: `ElectionTime`
and `AnnounceTime` are both 2, because the code's defaults are equal
(`UMESH_ELECTION_TIMEOUT_MS`, `umesh.h:89`, and the announcement, `net.c:12`,
are 1000 ms); `ScanTime` and `JoinRetry` are 1, `RouteUpdate` 2 and
`NodeTimeout` 3, for 2, 1, 30 and 90 seconds: their order matters, and not how
far they are apart. Three nodes are the first number with a
bystander to every conflict. When there has been a loss, a crash or a trigger,
of which there is one, no node boots beyond the second
(`Crowd`): the three-node part is for undisturbed boots. A node calls at most
two elections between reboots.

The kite has two nodes next to the coordinator and to each other, and one
behind them: the first graph with a short and a long way to the same node,
and with more neighbours than a table of 2 holds (8 or 16 in the code). One trouble
at a time, because each of them sets off a whole spread of beacons. In
device_life four calls are a whole life (init, start, stop, start); the five
configurations are the roles, of which the coordinator has its usual id, the
router one of its own, and AUTO none or one it will not use. The clock wraps
after 4 and goes on (`MaxTime` bounds the time over all wraps), and ticks of 1
and of 3 fall inside, on the edge of, and across listen windows of two profiles.
A ring of four slots holds three bytes: full, empty and the
wrap all happen, and two bytes suffice to tell a byte from another.

**Fairness.** SendReturns and DiesOut: weak fairness of every step of a task
that is in `mac_send`, of the rx task and of the handler, because the scheduler
runs ready tasks and `vTaskDelay` ends; nobody is made to send, and the radio
is not made to deliver anything. JoinCompletes: weak fairness of the retry in
`net_tick` (the application must call `umesh_tick`), of the end of a request's
flight, whether it is heard or lost, and of the reception of an answer that is
there; and strong fairness of a JOIN that is heard and whose answer gets out
(`SF_down(ReceiveJoin(d))`), that is, among requests that are sent over and
over some get through both ways. In join_deaf no answer can, so that this last
condition is void there and what fails is the answer. Settles and SplitHeals:
weak fairness of `net_tick` on the nodes or of the end of a frame's flight,
whichever is next, but not of its reception, nor of booting. FindsDistance,
NearHasWay and GoneHasNoWay: weak fairness of the rx task, of the parts of
`net_tick` and of time itself, but not of the return of the coordinator, nor of
any loss or refresh. Violations of invariants need no fairness.

**What the properties leave to a condition.** AscendingAccepted holds while the
numbers of a source ascend and the receiver has a slot for it; the code does not
always keep to the first (section 5). RetryMasksLossInOpen is about open
networks and patient timeouts: secured, a retransmission is a replay, and a
timeout that is too short makes retransmissions useless. HandledOnce needs a
cache that holds as many packets as are under way, and ArrivesUnlessLost routes
that lead to the destination. JoinCompletes excepts a full join cache (section
5). DistinctIds needs MAC addresses that differ: those of AUTO nodes, or such as
`discovery_set_local_mac` has set. OneCoordinator and the number of
coordinators in Settles are about nodes that are not disturbed and whose claims
did not cross, and Settles excepts a node whose address is below that of the
winner it heard of (`Unheard`), for the reasons of section 5. KeepsCoordinator is
about steps of the same networks. All three speak of `ctx->net.role`, which `umesh_get_role` reports; SplitHeals speaks of
discovery's copy, by which a node admits others. FindsDistance excepts a better
distance that comes while the old one is polled (`raced`), GoesUphill a
neighbour that has forgotten its distance since. NearHasWay is about nodes next
to the coordinator. In Device, `overruled` (OneIdentity, JoiningCanFinish,
StoppedStaysOut) marks nodes that an ELECTION_RESULT named, or went against, and
coordinators that were started twice; `cutIn` (the same three) a frame between
the assignments of `umesh_stop`, until `umesh_init` or `enter_scanning`; `raced`
and `unsent` (EachJoinAnnounced) an id that came in the middle of a tick, and a
request that `umesh_start` could not send. Section 5 says what happens then. An
AUTO node's configured id is assumed to be none that it can be given: it keeps
that id until `umesh_start`, and its ticks announce it. Were it given the same id
later, after it had been made coordinator and deposed between two ticks, the
application would not be told a second time. Nothing else is assumed of the
configurations that `validate_cfg` lets through.

## 4. The proofs

Eight modules of proofs, each about the specification without fairness.
ForwardingProofs uses the lemmas on Mac that are the first part of
MacLinkProofs.

| Theorem | Statement | Assumed, besides the constants' types |
|---|---|---|
| `SecureLinkProofs`: `Invariance` | `Spec => [](TypeOK /\ ReplayInv)` | the 12-bit counters fit into the numbers |
| `TypeCorrect`, `RecordsKept` | `[]TypeOK`, `[]ReplayInv` | |
| `NoReplay`, `WindowIsExact` | `[]AtMostOnce`, `[]WindowExact` | |
| `NewTrafficAccepted` | `[]AscendingAccepted` | |
| `MacLinkProofs`: `LinkTypeCorrect` | `[]MacTypeOK` | finitely many nodes |
| `SendsGetOn` | every step of a `mac_send` takes it further or ends it | |
| `LinkInvariance`, `AcknowledgedWasReceived` | `[]LinkInv`, `[]OkMeansReceived` | `~ Preemptive` |
| `RetransmissionMasksLosses` | `[]RetryMasksLossInOpen` | `~ Preemptive`; hearing is mutual (`Symmetric`) |
| `ForwardingProofs`: `ForwardingInvariance`, `TypeCorrect` | `[]ForwardingInv`, `[]TypeOK` | finitely many nodes |
| `PacketsAreHandledOnce` | `[]HandledOnce` | |
| `ArrivalInvariance`, `PacketsArrive` | `[]ArrivalInv`, `[]ArrivesUnlessLost` | no security (`Open`); nobody sends to itself, next hops are in range (`Settled`) |
| `PacketsAreServed` | `Spec => PacketsServed` | |
| `ForwardersGetOn` | as `SendsGetOn`, for both tasks | |
| `RingProofs`: `Invariance`, `TypeCorrect`, `NothingMovesUnderneath` | `[](TypeOK /\ StaysTrue)`, and each | 0 < `Capacity` < 65536 |
| `Implementation` | `Spec => QueueSpec` | |
| `CountIsExact` | `Spec => CountExact` | |
| `GradientProofs`: `Invariance`, `TypeCorrect` | `[]Inv`, `[]TypeOK` | `Links` is symmetric; `Hops` is the distance in `Links`, and each node has one; 0 < hop limit < 255 |
| `NoneTooClose`, `FramesGoUphill` | `[]NeverTooClose`, `[]GoesUphill` | |
| `CoordinatorProofs`: `Invariance`, `TypeCorrect` | `[]Inv`, `[]TypeOK` | at least as many ids as table entries |
| `EveryIdAccounted`, `AnnouncedOnce` | `[]IdsAccounted`, `[]JoinedOnce` | |
| `IdsDistinct` | `[]DistinctIds` | MAC addresses differ |
| `MembersHaveRoutes` | `[]ActiveHasRoute` | `MaxNodes <= MaxRoutes` |
| `ElectionProofs`: `TypeCorrect` | `[]TypeOK` | |
| `LeaderInvariance`, `CoordinatorIsOne` | `[](TypeOK /\ LeaderInv)`, `[]OneCoordinator` | claims are repeated no later than an election ends, and before hearers give up (`Timely`) |
| `CoordinatorStays` | `KeepsCoordinator` | `Timely` |
| `DeviceProofs`: `TypeCorrect` | `[]TypeOK` | |
| `IdentityIsOne`, `JoinsAreOpen`, `StopLasts` | `[]OneIdentity`, `[]JoiningCanFinish`, `[]StoppedStaysOut`: but for `overruled` and `cutIn` | no id an AUTO node is configured with is one it can be given |
| `JoinsAreTold` | `EachJoinAnnounced`: but for `raced`, `unsent` and a coordinator's own id | the same |
| `SleepIsAccounted`, `CallbacksAlternate` | `[]SleepIsReal`, `[]PhaseTold` | |

They hold for any nodes, widths, sizes and bounds that meet the named
assumptions of the modules. What the table assumes beyond those is needed: with
`Preemptive`, OkMeansReceived is false (mac_race); with security,
ArrivesUnlessLost is (section 5), and so it is where a next hop is out of range,
as an OK without an ACK then says nothing; where hearing is not mutual, no ACK
comes back and every send fails without a loss; without `Timely` OneCoordinator
is false (section 5). `MCForwarding` has TLC evaluate `Settled` for its networks,
and `MCElection` `Timely` for its times. The arguments:

*SecureLink.* AtMostOnce is not inductive: from a state in which a number was
accepted but the window has forgotten it, one more acceptance is possible.
WindowExact is not either, because it says nothing of accepted numbers above
`last_seq`. `ReplayInv` says for each slot in use that its last number is
marked, that every mark stands for an accepted number, and that every accepted
number is at most `last_seq`, accepted once, and marked if still inside; and
for each free slot that nothing was accepted. Then a number the window accepts
is new: above `last_seq` nothing was accepted, and inside an unmarked one was
not (`AcceptedIsNew`). The update keeps the record (`NextRecord`, the case split
on ahead or inside, with the arithmetic of the shift), a first number starts it
(`FirstRecord`), and every other action leaves windows and history alone or
clears both (`SameRecords`, `Restart`).

AscendingAccepted adds to it that the last number of a slot is that of a frame
which is not newer than the newest accepted (`LastIsAccepted`): where the numbers
of a source ascend, a frame that is newer still is above it, and passes.

*MacLink.* An ACK names a source and a number and nothing else, so "OK means
received" is a statement about the whole air. `LinkInv` follows the ACK: each
one in a queue answers a frame its sender heard (`AcksAnswer`); a source gives
every number once, so that two data frames under way, queued or heard with the
same source and number are the same (`NumberedOnce`); and from the moment the
fields are set until the round ends `mac_send` waits for the ACK of the frame it
has under way (`AwaitsAt`). An ACK that matches can then only be that frame's.
The step that fails with two tasks is the first half of `AwaitsAt`: between
`RaiseFlag` and `SetMatch` the rx task may match the fields of the frame before.
For RetryMasksLossInOpen each round must be charged with a loss of its own
(`LossInv`): a round that waits has either lost something, or has its frame in
the queue of the destination or the ACK in its own or the flag up (`RoundLost`),
and a patient timeout finds none of these. That the ACK can come back is what `Symmetric` says.

SendsGetOn needs no more than types, but holds with preemption, where LinkInv
does not. `Further` orders the states of a send by round, then by stage, then by
looks at the channel; one lemma for the steps of `mac_send` (`SendStepGetsOn`)
serves both modules. As the ranges are finite, it says in a safety property what
can be said without fairness of SendReturns: a send has only so many steps left.

*Forwarding.* HandledOnce is about the duplicate cache, but what the cache holds
depends on everything under way. `ForwardingInv` takes all frames being sent,
queued or handled (`UnderWay`) and says that source and number identify a packet
and that the number is one its source has used (`Identified`), that no packet is
twice in a cache (`Distinct`), and that what was handled is in it
(`HandledIsSeen`). As long as the cache has at least as many slots as there are
numbers in use, a packet it does not know finds a free one (`RoomForOneMore`, by
the pigeon-hole principle), and nothing is pushed out. No property of the routes
is used, so loops are covered.

*Packet service.* The refinement needs to know that nothing is made up on the
way: `ServiceInv` adds to `ForwardingInv` that every packet under way or in a
cache was sent (`Known \subseteq Accepted`) and that its source has used its
number. Then `umesh_send` is a `Send` under a fresh number (`AppSendServes`), a
delivery is a `Get` of something sent, or a `GetAgain` after the caches have
overflowed, by the rules of HandledOnce (`NetStepServes`); and no other step is
seen, except that the caches may cease to hold. That `Accepted` only grows
rests on what `mac_send` reports: a frame leaves `tx` as an outcome with the same
frame (`SendStepOutcomes`).

*Arrival.* ArrivesUnlessLost speaks of networks at rest, and says nothing of the
steps before. `ArrivalInv` says of each frame under way that it is where the
routes lead, with as many hops left as the way is long (`OnWay`), so that nobody
on the way drops it for its hop count or for want of a route; that whatever has
been sent, accepted by the next hop's MAC or set out to forward has got to the
next hop - in its queue, in its hands or handled (`SentReached`, `OkReached`,
`ForwardedReached`, the last of them from the first transmission on); and that
what a cache knows was handled (`SeenHandled`). The `rx_in_progress` of a node
that forwards is down (`Clear`), so that without losses it has transmitted before
its `mac_send` gives up, although no ACK ever comes (section 5). At rest, "has got there" is
"handled there", handled short of the destination is forwarded (`Ends`), and so
the packet is one hop further: the first hop of the way that it has not got to
cannot exist (`ReachedIsDelivered`). `Way` is a recursive function; that it has
the values its equations say is proved with the least number for which it would
not (`WayStep`).

*Ring.* `StaysTrue` is what each side relies on: the room the producer saw, the
byte it stored, the byte the consumer saw and loaded. The other side only ever
makes room or adds bytes, so neither is taken away. With it `Publish` appends
to `Contents` and `Advance` takes its head away (`PublishAppends`,
`AdvanceTakesFirst`), every other step leaves the bytes in use alone, and so a
step of the ring is a step of the queue or none. That holds for every capacity,
so also for a ring of one slot, which is always full.

*Gradient.* NeverTooClose is not inductive: a beacon in the air, an entry of a
table or a polled distance could be too small. The invariant calls whatever is
remembered of a node `Past`: a distance it once had, so not below the real one
and, unless the node has forgotten it since, not below the one it has now. A
node that takes one more than a past distance of a neighbour is not too close,
by the triangle inequality of `Hops`; and its next hop has a past distance below
its own.

*Coordinator.* DistinctIds is true for a reason that is far from the code's
own checks: `allocate_node_id` asks for ids that no *active* node has, and
active nodes expire although they are there. What saves it is that the join
cache is never freed. Until it is full, ids have been given away in order, each
above all before, to one request each (`GivenInOrder`), and as everything that
is remembered by an id was given away (`DeviceAccounted`), the next one is free;
when it is full, nothing is given away again. So one id is one request, and one
request one MAC address. Freeing the cache, which section 5 asks for, would take
this argument away. `MembersHaveRoutes` strengthens ActiveHasRoute with the ages:
a route is never older than its member (`RoutesYoung`), so it expires no sooner.

*Election.* The code takes no measure against a second coordinator: a node that
elects has no id, so its ELECTION is not sent, and it is stopped only by the
claim of another. So OneCoordinator is a comparison of clocks. `LeaderInv` says
that a network in peace (`Peaceful`: nothing lost, triggered or off, and no
clash) has either no leader, nothing in the air and nobody who has heard of
anybody (`Leaderless`), or one whom all others follow (`Led`). The leader repeats
its claim in time (`Leads`), and what is in the air does not speak for anybody
else (`Fits`). A node that still hopes to win has called its election after that
claim was over, or it would have heard it, so its election is younger than the
claim (`ElectsInTime`): when the election has lasted long enough to end, the
next claim is due, and to promote oneself at that moment is a clash. A node that
follows has heard that claim, and so does not give its coordinator up
(`HearsInTime`). The clocks are read by nodes that call `net_tick` in any order
within a unit of time, so an age counts one more where its node has had its turn
(`Turn`); equality is what the defaults need, where `AnnounceTime` is
`ElectionTime`. Between two units the air is empty, and so no claim is missed
(`NothingMissed`). Each way through `net_tick` is one lemma about the node's own
state (`CallElectionFine` and so on), used for the leader, for the others and
before there is a leader; the frames are a lemma each for the leader
(`HeardLeads`) and the others (`HeardFollows`).

*Device.* OneIdentity, JoiningCanFinish, StoppedStaysOut and EachJoinAnnounced
are about one field each of several layers, and hold because of the others.
`NodeInv` adds what fits to what between two calls: a role to an id (`RoleFits`),
an id to where it came from (`IdFits`), the joined flag to the id
(`JoinedWithId`), the states without an id (`NoIdYet`), what
`notify_state_changes` has seen (`LastSeen`, `StillUntold`), what `umesh_stop`
has cleared after each of its assignments (`Out`), and a configured id in both
layers (`SetUp`). The proof has one step for each call and one for each kind of frame
heard at each point where it may come.

*Power.* `PowerInv` is inductive for any step of the clock and any profiles:
the time of a tick is cut at the edges of the listen windows (`ChunkFacts`), a
piece that is counted as sleep lies outside of them (`AsleepIsIdle`) and, when
the clock has been looked at often enough, the other way round
(`IdleIsAsleep`); the sums over the pieces follow (`TotalsOfATick`).

What is only model-checked: the properties under fairness (SendReturns, DiesOut,
JoinCompletes, Settles, SplitHeals, FindsDistance, NearHasWay, GoneHasNoWay),
which are out of the prover's reach; and the four violations. Every invariant and
every action property of a passing run is a theorem.

## 5. Where code and expectation differ

Four runs end in a violation; `PROJECT.json` quotes what the repository says:

* **A late ACK can be credited to the next frame** (mac_race; `mac.c:215`),
  when the rx task runs between `waiting_ack = true` and the fields that follow.
* **A coordinator whose handlers are not interrupted answers no JOIN**
  (join_deaf; `discovery.c:644`): `rx_in_progress` is up while a handler runs,
  carrier sense refuses to send meanwhile, and the result of the ASSIGN is not
  looked at. A frame received during a back-off takes the flag down; the single
  rx task of the ESP32 port cannot receive one then.
* **Devices without an id of their own share one** (join_twins;
  `discovery.c:278`, `umesh.c:201`): their MAC addresses are made up from the
  same two numbers, and their tokens start at 1.
* **Claims that cross leave two coordinators** (elect_split; `discovery.c:820`,
  `net.c:655`): nodes without an id cannot object to each other's elections
  (`frame.c:16`), so both promote themselves; each then announces the other, and
  the one that steps down takes the role in discovery but not in its net layer.

Seen while modelling and not in a run of their own:

*MAC, security and forwarding*

* With security, a lost ACK cannot be made up for, and a destination that
  overhears the first hop of a packet never gets it (`mac.c:90`): the
  retransmission, or the forwarded copy, is dropped as a replay, before the
  ACK and before the link address is looked at. For the second take
  `TriangleHears` for `MCHears` and `SecurePatient` for the modes in
  `MCForwarding_nets.cfg`.
* The replay comparison is not modular (`sec.c:168`): after the 16-bit wrap new
  frames are refused.
* An ACK repeats a foreign number, so with security two nodes that send
  acknowledged data to each other fail without any loss. The numbers of
  `discovery.c` and `net.c` repeat those `sec.c` gave out.
* Forwarded frames are never acknowledged (`mac.c:116`): the ACK is addressed
  to the origin of the packet, not to the hop that sent it, so a forwarder
  always sends in all its rounds and counts a drop.
* With more packets under way than the duplicate cache holds, a packet is
  forwarded twice (`net.c:82`): drop CacheHolds from HandledOnce to see it.
* What an application sends from a receive callback meets the same
  `rx_in_progress` as the ASSIGN.

*Joining*

* The join cache is never freed (`discovery.c:65`): after `UMESH_MAX_NODES`
  requests no device is admitted until the coordinator reboots. When it does, it has forgotten the
  cache and gives ids from 2 again, whoever holds them.
* A member that timed out and leaves later is reported by `on_node_left` twice
  (`discovery.c:700`); a request found in the join cache is answered without
  being a member (`discovery.c:601`), so a device that rebooted is not admitted
  again.

*Elections*

* A scan heeds only ROUTE_UPDATEs (`net.c:516`, `discovery.c:723`), which come
  every 30 seconds, and to call an election is to forget the claims heard until
  then. What keeps a node that joins a network from promoting itself is therefore
  one claim within its election, and `UMESH_ELECTION_TIMEOUT_MS` equals the
  period of the claims, 1000 ms (`umesh.h:89`, `net.c:12`): its time may be up
  just when the next one is due, and the order of the ticks decides. The model
  counts that as a clash. `election_ms` is a parameter (`umesh.c:130`) and the
  period is not: with a shorter election a second coordinator is not even a
  matter of that order. Take `AnnounceTime = 3`,
  `NodeTimeout = 4` in `MCElection_boot.cfg`, and `MCTimely` away, to see it.
* `umesh_trigger_election` on a follower raises its term above that of the
  coordinator, whose announcements are stale from then on; a reboot forgets the
  terms, and makes the node's own elections stale. Either can end in a split.
* A node in JOINING whose coordinator has gone asks for ever
  (`UMESH_JOIN_TIMEOUT_MS` is used nowhere), and so does one that arrives later
  with an address below the winner's, when its JOINs go unanswered.
* Nodes of fixed roles obey an ELECTION_RESULT, too (`discovery.c:822-838`).

*Gradient*

* Beyond one hop the way to the coordinator fades (`routing.c:197`,
  `discovery.c:748`): neighbours expire after one beacon period, and a node
  announces itself only when its distance improves, hence once. The uphill
  neighbour of its neighbours expires for good, whereas
  `docs/NETWORK_LAYER.md:39` and `KNOWN_ISSUES.md:552` speak of
  re-establishing the path. Ask NearHasWay of all nodes to see it.
* A node that rebooted and the neighbour that remembers its old distance may
  send to each other until the latter hears of the new one or forgets the old.

*Life cycle and power*

* An id that is lost and given again between two looks of
  `notify_state_changes` is not told (`umesh.c:36-55`).
* An ASSIGN in the middle of `umesh_stop` finds a node that has begun to leave
  (`discovery.c:432-434`). After line 433 it leaves an id in the stopped node.
  Between 432 and 433 it sets `joined` again (686), and 433 takes only the id
  away: `joined` is up without an id, neither `net_join` nor `discovery_join`
  takes it down, and once the node is started again line 653 drops every ASSIGN.
  Such a node asks in vain until the next `umesh_init`; an AUTO node is helped by
  `enter_scanning`, which `umesh_start` calls. Ask JoiningCanFinish without
  `cutIn` to see it: init, start, stop with the ASSIGN of the first request in
  it, start.
* `net_leave` leaves the id in `mac.node_id`, so that a stopped node acknowledges
  frames (`net.c:426`).
* A coordinator that is stopped and started again has no id in discovery
  (`net.c:335`, `discovery.c:433`), so its ASSIGNs and beacons are never
  serialised. A configured id is lost in the same way, and the node asks for one.
* `umesh_init` without `umesh_start` lets an AUTO node scan and elect. After a
  failed `umesh_init` the role reads COORDINATOR, and `umesh_reset` before any
  `umesh_init` leaves the state DISCONNECTED.
* The time of a tick at which the clock wraps is not counted (`power.c:37`).
* A tick that straddles the end of a listen window counts the rest of that
  interval as active (`power.c:60-83`); the first tick counts the whole uptime
  (`power.c:104`).
* A sleep phase that ends with a change of mode or role is not followed by
  `on_wake` (`power.c:47`, `power.c:134`); a deep cycle that returns has called
  only `on_sleep`, and its time is counted once more by the next tick.
* `umesh_set_power_mode` puts the configured profile back into `net.light_*`,
  while `power.light_*` keep that of the beacon.

*Ring*

* `ring_count` while an index moves may return any number, 65535 for one
  (`ring.c:51`); CountExact says when it is right.

## 6. What is not modelled, and the plan

Left out for good: the ciphers and keys (pure data), byte layout of frames
(a frame that does not parse counts as lost), formatting of errors,
statistics of MAC and network, capability tables, examples, hardware set-up,
the test runner. Of the components that are called partly modelled: the ESP32
port without its driver; of the routing table what one-hop routes need, as no
code sends the updates that would carry metrics; of the life cycle all but the
registration of receive callbacks, `on_left`, `on_role_changed` and getters.

The plan, in this order:

1. Proofs: OkMeansReceived with two tasks, for a `mac_send` that sets its fields
   before the flag; of OneCoordinator what remains true after one loss, where a
   second claim gets through before an election ends.
2. Election with Coordinator: no id given out twice across a change of
   coordinator, whose counter starts again at 2 (`discovery.c:838`), and ids
   that nodes derive from their addresses.
3. One more abstract specification: an at-most-once channel that SecureLink
   implements.
4. The age of entries in the duplicate cache, composed with retransmissions.
