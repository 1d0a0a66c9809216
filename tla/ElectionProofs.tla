--------------------------- MODULE ElectionProofs ---------------------------
(***************************************************************************)
(* That AUTO nodes have one coordinator and keep it, for any number of     *)
(* them, any addresses, any order in which they are switched on and tick,  *)
(* and any times with Timely, as long as nothing goes wrong: no frame is   *)
(* lost, no node goes off, no election is triggered, and no node promotes  *)
(* itself before it could hear a claim (Peaceful).                         *)
(*                                                                         *)
(* OneCoordinator is not inductive.  That a second node does not promote   *)
(* itself rests on the time since it called its election: it is shorter    *)
(* than the time since the coordinator's last claim was sent, because a    *)
(* node in ELECTION that had heard that claim would yield (ElectsInTime).  *)
(* That nobody starts over rests on the same comparison with the time      *)
(* since it last heard the coordinator (HearsInTime).  Ages are counted in *)
(* ticks, and nodes tick in any order: what is compared is an age plus one *)
(* where a node has had its turn in this unit of time (Turn).  And of the  *)
(* frames in the air none may speak for anybody but the leader (Fits).     *)
(***************************************************************************)
EXTENDS Election, FiniteSetTheorems, TLAPS

-----------------------------------------------------------------------------
(* Types: every change of a node's state keeps the ranges of its fields.   *)

LEMMA AgeFacts ==
  /\ Longest \in Nat /\ Longest >= ScanTime /\ Longest >= ElectionTime
  /\ {ScanTime, ElectionTime, AnnounceTime, JoinRetry, RouteUpdate, NodeTimeout, NodeTimeout + 1}
       \subseteq Nat \ {0}
  /\ \A limit \in Nat : 0 \in Ages(limit)
  /\ \A limit \in Nat : \A age \in Ages(limit) :
       (IF age < limit THEN age + 1 ELSE age) \in Ages(limit)
<1>1. ScanTime \in Nat /\ ElectionTime \in Nat
  BY TimesAssumption
<1>2. \E m \in {ScanTime, ElectionTime} : \A k \in {ScanTime, ElectionTime} : m >= k
  BY <1>1
<1>3. Longest \in Nat /\ Longest >= ScanTime /\ Longest >= ElectionTime
  BY <1>1, <1>2 DEF Longest, Max
<1> QED
  BY <1>3, TimesAssumption DEF Ages

(* Ranges of a node's fields, each on its own.                             *)
LEMMA Ranges ==
  /\ \A s \in {"OFF", "SCANNING", "ELECTION", "JOINING", "CONNECTED"} : s \in States
  /\ \A i \in {"UNASSIGNED", "COORDINATOR", "OWN"} : i \in Ids
  /\ \A r \in {"ROUTER", "COORDINATOR"} : r \in Roles
  /\ 0 \in Ages(Longest) /\ 0 \in Ages(NodeTimeout + 1) /\ 0 \in Ages(JoinRetry)
  /\ 0 \in Ages(AnnounceTime) /\ 0 \in Ages(RouteUpdate)
  /\ 0 \in Terms
  BY AgeFacts, ElectionBoundsAssumption DEF States, Ids, Roles, Terms

LEMMA OlderType ==
  ASSUME NEW me \in NodeStates
  PROVE  Older(me) \in NodeStates
<1> DEFINE upTo(age, limit) == IF age < limit THEN age + 1 ELSE age
           enter  == IF me.state \in {"SCANNING", "ELECTION"} THEN upTo(me.state_enter, Longest) ELSE 0
           join   == IF me.state = "JOINING" THEN upTo(me.last_join, JoinRetry) ELSE 0
           coord  == upTo(me.last_coord_seen, NodeTimeout + 1)
           result == upTo(me.last_result, AnnounceTime)
           update == upTo(me.last_route_update, RouteUpdate)
<1>1. /\ me.state_enter \in Ages(Longest) /\ me.last_join \in Ages(JoinRetry)
      /\ me.last_coord_seen \in Ages(NodeTimeout + 1)
      /\ me.last_result \in Ages(AnnounceTime) /\ me.last_route_update \in Ages(RouteUpdate)
  BY DEF NodeStates
<1>2. enter \in Ages(Longest) /\ join \in Ages(JoinRetry) /\ coord \in Ages(NodeTimeout + 1)
  BY <1>1, AgeFacts
<1>3. result \in Ages(AnnounceTime) /\ update \in Ages(RouteUpdate)
  BY <1>1, AgeFacts
<1>4. Older(me) = [me EXCEPT !.state_enter = enter, !.last_join = join, !.last_coord_seen = coord,
                             !.last_result = result, !.last_route_update = update]
  BY DEF Older
<1> HIDE DEF enter, join, coord, result, update
<1> QED
  BY <1>2, <1>3, <1>4 DEF NodeStates

LEMMA AsRouterType ==
  ASSUME NEW me \in NodeStates
  PROVE  AsRouter(me) \in NodeStates
  BY Ranges DEF AsRouter, NodeStates

LEMMA ScanningType ==
  ASSUME NEW me \in NodeStates
  PROVE  Scanning(me) \in NodeStates
  BY AsRouterType, Ranges DEF Scanning, NodeStates

LEMMA JoiningType ==
  ASSUME NEW me \in NodeStates
  PROVE  Joining(me) \in NodeStates
  BY Ranges DEF Joining, NodeStates

LEMMA ConnectedType ==
  ASSUME NEW me \in NodeStates
  PROVE  Connected(me) \in NodeStates
  BY Ranges DEF Connected, NodeStates

LEMMA PeriodicType ==
  ASSUME NEW n \in Nodes, NEW me \in NodeStates
  PROVE  Periodic(n, me) \in NodeStates
  BY Ranges DEF Periodic, Winner, NodeStates

LEMMA NoticeType ==
  ASSUME NEW me \in NodeStates, NEW term \in Terms
  PROVE  Notice(me, term) \in NodeStates
  BY Ranges DEF Notice, NodeStates

LEMMA PromotedType ==
  ASSUME NEW n \in Nodes, NEW me \in NodeStates
  PROVE  Promoted(n, me) \in NodeStates
  BY Ranges DEF Promoted, NodeStates

(* What is received.                                                       *)
LEMMA FrameFields ==
  ASSUME NEW frame \in Frames
  PROVE  /\ frame.cmd \in {"ELECTION", "ELECTION_RESULT", "ASSIGN", "JOIN", "ROUTE_UPDATE"}
         /\ frame.src \in Ids
         /\ frame.cmd \in {"ELECTION", "ELECTION_RESULT", "ASSIGN"} =>
              frame.term \in Terms /\ frame.mac \in Nodes
         /\ frame.cmd = "JOIN" => frame.mac \in Nodes
  BY DEF Frames

LEMMA FramesType ==
  ASSUME NEW src \in Ids, NEW term \in Terms, NEW mac \in Nodes
  PROVE  /\ Election(src, term, mac) \in Frames /\ Result(src, term, mac) \in Frames
         /\ Join(src, mac) \in Frames /\ Assign(src, term, mac) \in Frames
         /\ RouteUpdateFrom(src) \in Frames
  BY DEF Election, Result, Join, Assign, RouteUpdateFrom, Frames

LEMMA HandledType ==
  ASSUME NEW n \in Nodes, NEW me \in NodeStates, NEW frame \in Frames
  PROVE  Handled(n, me, frame) \in NodeStates
<1>1. CASE frame.cmd = "ELECTION"
  <2>1. Notice(me, frame.term) \in NodeStates
    BY <1>1, FrameFields, NoticeType
  <2>2. [Notice(me, frame.term) EXCEPT !.auto_saw_lower_mac = TRUE, !.auto_winner_mac = frame.mac]
          \in NodeStates
    BY <1>1, <2>1, FrameFields DEF NodeStates
  <2> QED
    BY <1>1, <2>1, <2>2 DEF Handled, OnElection
<1>2. CASE frame.cmd = "ELECTION_RESULT"
  <2> DEFINE noticed == [Notice(me, frame.term) EXCEPT !.auto_seen_result = TRUE,
                                                       !.auto_winner_mac = frame.mac]
  <2>1. Notice(me, frame.term) \in NodeStates
    BY <1>2, FrameFields, NoticeType
  <2>2. noticed \in NodeStates
    BY <1>2, <2>1, FrameFields DEF NodeStates
  <2> HIDE DEF noticed
  <2>3. [noticed EXCEPT !.disc_role = "ROUTER", !.disc_id = "OWN"] \in NodeStates
    BY <2>2, Ranges DEF NodeStates
  <2>4. [noticed EXCEPT !.disc_role = "COORDINATOR", !.disc_id = "COORDINATOR"] \in NodeStates
    BY <2>2, Ranges DEF NodeStates
  <2>5. OnResult(n, me, frame) \in {me, noticed, [noticed EXCEPT !.disc_role = "ROUTER", !.disc_id = "OWN"],
                    [noticed EXCEPT !.disc_role = "COORDINATOR", !.disc_id = "COORDINATOR"]}
    BY DEF OnResult, noticed
  <2> QED
    BY <1>2, <2>2, <2>3, <2>4, <2>5 DEF Handled
<1>3. CASE frame.cmd = "ASSIGN"
  <2>1. [me EXCEPT !.disc_id = "OWN"] \in NodeStates
    BY Ranges DEF NodeStates
  <2> QED
    BY <1>3, <2>1 DEF Handled, OnAssign
<1>4. CASE frame.cmd = "ROUTE_UPDATE"
  <2>1. OnRouteUpdate(me, frame) \in NodeStates
    BY DEF OnRouteUpdate, NodeStates
  <2> QED
    BY <1>4, <2>1 DEF Handled
<1>5. CASE frame.cmd = "JOIN"
  BY <1>5 DEF Handled
<1> QED
  BY <1>1, <1>2, <1>3, <1>4, <1>5, FrameFields

LEMMA HeardType ==
  ASSUME NEW n \in Nodes, NEW frame \in Frames, node \in [Nodes -> NodeStates]
  PROVE  Heard(n, frame) \in NodeStates
<1> DEFINE heard == IF frame.src = "COORDINATOR"
                    THEN [node[n] EXCEPT !.last_coord_seen = 0] ELSE node[n]
           me    == Handled(n, heard, frame)
<1>1. heard \in NodeStates
  <2>1. [node[n] EXCEPT !.last_coord_seen = 0] \in NodeStates
    BY Ranges DEF NodeStates
  <2> QED
    BY <2>1
<1>2. me \in NodeStates
  BY <1>1, HandledType
<1>3. Heard(n, frame) = IF me.state = "JOINING" /\ me.disc_id # "UNASSIGNED"
                        THEN [Connected(me) EXCEPT !.role = me.disc_role] ELSE me
  BY DEF Heard
<1> HIDE DEF me
<1>4. [Connected(me) EXCEPT !.role = me.disc_role] \in NodeStates
  <2>1. Connected(me) \in NodeStates /\ me.disc_role \in Roles
    BY <1>2, ConnectedType DEF NodeStates
  <2> QED
    BY <2>1 DEF NodeStates
<1> QED
  BY <1>2, <1>3, <1>4

LEMMA FreshType == Fresh \in NodeStates /\ Off \in NodeStates
  BY Ranges DEF Fresh, Off, NodeStates

(* A tick gives a node a state in range and sends frames in range.         *)
LEMMA PeriodicFramesType ==
  ASSUME NEW n \in Nodes, NEW me \in NodeStates
  PROVE  PeriodicFrames(n, me) \subseteq Frames
<1>1. /\ me.disc_id \in Ids /\ me.id \in Ids /\ me.election_term \in Terms
      /\ Winner(n, me) \in Nodes
  BY DEF NodeStates, Winner
<1> QED
  BY <1>1, FramesType DEF PeriodicFrames

LEMMA TickShape ==
  ASSUME TypeOK, NEW n \in Nodes, Tick(n)
  PROVE  /\ \E me \in NodeStates, frames \in SUBSET Frames : Ticked(n, me, frames)
         /\ clash' \in BOOLEAN
<1> DEFINE old == Older(node[n])
           Goal == /\ \E me \in NodeStates, frames \in SUBSET Frames : Ticked(n, me, frames)
                   /\ clash' \in BOOLEAN
<1>1. node[n] \in NodeStates /\ clash \in BOOLEAN
  BY DEF TypeOK
<1>2. old \in NodeStates
  BY <1>1, OlderType
<1>3. \A me \in NodeStates, frames \in SUBSET Frames : Ticks(n, me, frames) => Goal
  BY <1>1 DEF Ticks
<1> SUFFICES Goal
  OBVIOUS
<1> HIDE DEF Goal
<1>4. \A me \in NodeStates : me.disc_id \in Ids /\ me.election_term \in Terms
  BY DEF NodeStates
<1>5. \A me \in NodeStates : {Join(me.disc_id, n)} \subseteq Frames
  BY <1>4, FramesType, Ranges
<1>6. \A me \in NodeStates : {} \subseteq Frames /\ Periodic(n, me) \in NodeStates
                             /\ PeriodicFrames(n, me) \subseteq Frames
  BY PeriodicType, PeriodicFramesType
<1>7. CASE FindCoordinator(n)
  <2> DEFINE seen == [Older(node[n]) EXCEPT !.auto_seen_coordinator = FALSE]
  <2>1. seen \in NodeStates
    BY <1>2 DEF NodeStates
  <2>2. Joining(AsRouter(seen)) \in NodeStates
    BY <2>1, AsRouterType, JoiningType
  <2>3. Ticks(n, Joining(AsRouter(seen)), {Join(Joining(AsRouter(seen)).disc_id, n)})
    BY <1>7 DEF FindCoordinator
  <2> HIDE DEF seen
  <2> QED
    BY <1>3, <1>5, <2>2, <2>3
<1>8. CASE CallElection(n)
  <2> DEFINE term == old.election_term + 1
             me   == [old EXCEPT !.state = "ELECTION", !.state_enter = 0,
                                 !.auto_saw_lower_mac = FALSE, !.auto_seen_result = FALSE,
                                 !.auto_winner_mac = NoMac,
                                 !.election_term = term, !.seen_election_term = term]
  <2>1. Ticks(n, me, {Election(old.disc_id, term, n)}) /\ term <= MaxTerm
    BY <1>8 DEF CallElection
  <2>2. term \in Terms
    BY <1>2, <1>4, <2>1, ElectionBoundsAssumption DEF Terms
  <2>3. {Election(old.disc_id, term, n)} \subseteq Frames
    BY <1>2, <1>4, <2>2, FramesType
  <2> HIDE DEF term, old
  <2>4. me \in NodeStates
    BY <1>2, <2>2, Ranges DEF NodeStates, NoMac
  <2> QED
    BY <1>3, <2>1, <2>3, <2>4
<1>9. CASE Yield(n)
  <2>1. AsRouter(old) \in NodeStates /\ Connected(AsRouter(old)) \in NodeStates
        /\ Joining(AsRouter(old)) \in NodeStates
    BY <1>2, AsRouterType, ConnectedType, JoiningType
  <2>2. \/ Ticks(n, Periodic(n, Connected(AsRouter(old))), PeriodicFrames(n, Connected(AsRouter(old))))
        \/ Ticks(n, Joining(AsRouter(old)), {Join(AsRouter(old).disc_id, n)})
    BY <1>9 DEF Yield
  <2> HIDE DEF old
  <2> QED
    BY <1>3, <1>5, <1>6, <2>1, <2>2
<1>10. CASE Promote(n)
  <2> DEFINE me == Promoted(n, old)
  <2>1. Ticked(n, Periodic(n, me), {Result(me.disc_id, me.election_term, n)} \cup PeriodicFrames(n, me))
    BY <1>10 DEF Promote
  <2>2. clash' \in BOOLEAN
    BY <1>1, <1>10 DEF Promote
  <2>3. me \in NodeStates
    BY <1>2, PromotedType
  <2> HIDE DEF me
  <2>4. {Result(me.disc_id, me.election_term, n)} \subseteq Frames
    BY <1>4, <2>3, FramesType
  <2> QED
    BY <1>6, <2>1, <2>2, <2>3, <2>4 DEF Goal
<1>11. CASE WaitOn(n)
  BY <1>2, <1>3, <1>6, <1>11 DEF WaitOn
<1>12. CASE AskOn(n)
  <2>1. Joining(old) \in NodeStates
    BY <1>2, JoiningType
  <2>2. Ticks(n, Joining(old), {Join(old.disc_id, n)}) \/ Ticks(n, old, {})
    BY <1>12 DEF AskOn
  <2> HIDE DEF old
  <2> QED
    BY <1>2, <1>3, <1>5, <1>6, <2>1, <2>2
<1>13. CASE StartOver(n)
  <2>1. Ticks(n, Scanning(Periodic(n, old)), PeriodicFrames(n, old))
    BY <1>13 DEF StartOver
  <2>2. Scanning(Periodic(n, old)) \in NodeStates
    BY <1>2, <1>6, ScanningType
  <2> QED
    BY <1>2, <1>3, <1>6, <2>1, <2>2
<1>14. CASE StepDown(n)
  <2>1. Ticks(n, [Periodic(n, old) EXCEPT !.role = "ROUTER", !.id = old.disc_id], PeriodicFrames(n, old))
    BY <1>14 DEF StepDown
  <2> HIDE DEF old
  <2>2. [Periodic(n, old) EXCEPT !.role = "ROUTER", !.id = old.disc_id] \in NodeStates
    BY <1>2, <1>4, <1>6, Ranges DEF NodeStates
  <2> QED
    BY <1>2, <1>3, <1>6, <2>1, <2>2
<1>15. CASE CarryOn(n)
  <2>1. Ticks(n, Periodic(n, old), PeriodicFrames(n, old))
    BY <1>15 DEF CarryOn
  <2> QED
    BY <1>2, <1>3, <1>6, <2>1
<1> QED
  BY <1>7, <1>8, <1>9, <1>10, <1>11, <1>12, <1>13, <1>14, <1>15 DEF Tick

LEMMA TypeStep == TypeOK /\ [Next]_vars => TypeOK'
<1> SUFFICES ASSUME TypeOK, [Next]_vars PROVE TypeOK'
  OBVIOUS
<1> USE DEF TypeOK
<1>1. On \subseteq Nodes
  BY DEF On
<1>2. ASSUME NEW n \in Nodes, Tick(n) PROVE TypeOK'
  <2>1. PICK me \in NodeStates, frames \in SUBSET Frames : Ticked(n, me, frames)
    BY <1>2, TickShape
  <2>2. InTheAir(n, frames) \subseteq Nodes \X Frames
    BY DEF InTheAir
  <2> QED
    BY <1>1, <1>2, <2>1, <2>2, TickShape DEF Ticked
<1>3. CASE Receive
  <2>1. PICK sent \in air : \E missed \in SUBSET (On \ {sent[1]}) : Over(sent, missed)
    BY <1>3 DEF Receive
  <2>2. PICK missed \in SUBSET (On \ {sent[1]}) : Over(sent, missed)
    BY <2>1
  <2>9. PICK lucky \in SUBSET Answering(On \ (missed \cup {sent[1]}), sent[2]) :
          /\ missed # {} => Troubles + Cardinality(missed) <= MaxTroubles
          /\ losses' = losses + Cardinality(missed)
          /\ node' = [n \in Nodes |-> IF n \in On \ (missed \cup {sent[1]})
                                      THEN Heard(n, sent[2]) ELSE node[n]]
          /\ air' = (air \ {sent}) \cup UNION {InTheAir(n, Answers(n, sent[2])) : n \in lucky}
          /\ UNCHANGED <<ticked, crashes, triggers, clash>>
    BY <2>2 DEF Over
  <2>3. sent[1] \in Nodes /\ sent[2] \in Frames
    OBVIOUS
  <2>4. node' \in [Nodes -> NodeStates]
    BY <2>9, <2>3, HeardType
  <2>5. IsFiniteSet(missed) /\ Cardinality(missed) \in Nat
    BY <1>1, NodesAssumption, FS_Subset, FS_CardinalityType
  <2>6. losses' \in 0..MaxTroubles
    <3>1. losses \in 0..MaxTroubles /\ crashes \in Nat /\ triggers \in Nat
      BY ElectionBoundsAssumption
    <3>2. missed = {} => Cardinality(missed) = 0
      BY FS_EmptySet
    <3> QED
      BY <2>9, <2>5, <3>1, <3>2, ElectionBoundsAssumption DEF Troubles
  <2>7. \A n \in lucky : InTheAir(n, Answers(n, sent[2])) \subseteq Nodes \X Frames
    <3> TAKE n \in lucky
    <3>1. n \in Nodes /\ sent[2].cmd = "JOIN"
      BY <1>1 DEF Answering
    <3>2. node[n].disc_id \in Ids /\ node[n].election_term \in Terms
      BY <3>1 DEF NodeStates
    <3>3. Answers(n, sent[2]) \subseteq Frames
      BY <2>3, <3>1, <3>2, FrameFields, FramesType DEF Answers
    <3> QED
      BY <3>1, <3>3 DEF InTheAir
  <2>8. air' \subseteq Nodes \X Frames
    BY <2>9, <2>7
  <2> QED
    BY <2>9, <2>4, <2>6, <2>8
<1>4. ASSUME NEW n \in Nodes, Boot(n) PROVE TypeOK'
  BY <1>4, FreshType DEF Boot
<1>5. ASSUME NEW n \in Nodes, Crash(n) PROVE TypeOK'
  <2>1. crashes' \in 0..MaxTroubles
    BY <1>5, ElectionBoundsAssumption DEF Crash, Troubles
  <2> QED
    BY <1>5, <2>1, FreshType DEF Crash
<1>6. ASSUME NEW n \in Nodes, Trigger(n) PROVE TypeOK'
  <2>1. triggers' \in 0..MaxTroubles
    BY <1>6, ElectionBoundsAssumption DEF Trigger, Troubles
  <2>2. Scanning(node[n]) \in NodeStates
    BY ScanningType
  <2> QED
    BY <1>6, <2>1, <2>2 DEF Trigger
<1>7. CASE UNCHANGED vars
  BY <1>7 DEF vars
<1> QED
  BY <1>2, <1>3, <1>4, <1>5, <1>6, <1>7 DEF Next

LEMMA InitType == Init => TypeOK
<1>1. 0 \in 0..MaxTroubles
  BY ElectionBoundsAssumption
<1> QED
  BY <1>1, FreshType DEF Init, TypeOK

(* Every field keeps its range, whatever is lost and whoever goes off.     *)
THEOREM TypeCorrect == Spec => []TypeOK
  BY InitType, TypeStep, PTL DEF Spec

-----------------------------------------------------------------------------
(* The invariant.                                                          *)

Peaceful == Undisturbed /\ ~ clash

(* Ages of nodes compare once the turn each has had is allowed for.        *)
Turn(n) == IF n \in ticked THEN 1 ELSE 0

(* A node that is off, scans, or has called its first election, and has    *)
(* heard of nobody.                                                        *)
Waiting(me) ==
  /\ me.state \in {"OFF", "SCANNING", "ELECTION"}
  /\ me.role = "ROUTER" /\ me.disc_role = "ROUTER" /\ me.disc_id = "UNASSIGNED"
  /\ me.seen_election_term = me.election_term
  /\ me.election_term = IF me.state = "ELECTION" THEN 1 ELSE 0
  /\ ~ me.auto_seen_coordinator /\ ~ MustYield(me)

Leaderless == air = {} /\ \A n \in Nodes : Waiting(node[n])

(* c leads since its first election, and its last claim is not overdue.    *)
Leads(c, me) ==
  /\ me.state = "CONNECTED"
  /\ me.role = "COORDINATOR" /\ me.disc_role = "COORDINATOR" /\ me.disc_id = "COORDINATOR"
  /\ me.election_term = 1 /\ me.seen_election_term = 1 /\ me.auto_winner_mac = c
  /\ me.last_result < AnnounceTime

(* No other node has the role in either layer, or an id that lets it send  *)
(* an ELECTION which c would yield to.                                     *)
Follows(c, n, me) ==
  /\ me.role = "ROUTER" /\ me.disc_role = "ROUTER" /\ me.disc_id # "COORDINATOR"
  /\ me.seen_election_term <= 1
  /\ me.state \in {"OFF", "SCANNING"} => me.election_term = 0
  /\ me.state = "ELECTION" => me.seen_election_term = 1
  /\ me.state \in {"SCANNING", "ELECTION"} /\ me.disc_id = "OWN" => c < n

(* What c announces, and whether that is under way.                        *)
Claim(c)    == Result("COORDINATOR", 1, c)
Claiming(c) == <<c, Claim(c)>> \in air

(* A node that may have asked for an id.                                   *)
Asked(n) == node[n].state \in {"JOINING", "CONNECTED"}

(* What is in the air does not name another winner, and nobody who elects  *)
(* gets an id.                                                             *)
Fits(c, sent) ==
  /\ sent[2].cmd = "ELECTION_RESULT" => sent = <<c, Claim(c)>>
  /\ sent[2].cmd = "ELECTION" => sent[2].term = 1 /\ sent[2].mac > c
  /\ sent[2].cmd \in {"ASSIGN", "JOIN"} => sent[2].mac # c /\ Asked(sent[2].mac)

(* A node that still hopes to win called its election after the last claim *)
(* was over, and one that follows heard that claim.                        *)
ElectsInTime(c, n) ==
  node[n].state = "ELECTION" /\ ~ MustYield(node[n]) /\ ~ Claiming(c) =>
    node[n].state_enter + Turn(c) <= node[c].last_result + Turn(n)

HearsInTime(c, n) ==
  node[n].state = "CONNECTED" =>
    IF Claiming(c)
    THEN /\ node[n].last_coord_seen <= AnnounceTime + 1
         /\ ticked # {} /\ n \notin ticked => node[n].last_coord_seen <= AnnounceTime
    ELSE node[n].last_coord_seen + Turn(c) <= node[c].last_result + 1 + Turn(n)

Led(c) ==
  /\ Leads(c, node[c])
  /\ \A n \in Nodes \ {c} : Follows(c, n, node[n]) /\ ElectsInTime(c, n) /\ HearsInTime(c, n)
  /\ \A sent \in air : Fits(c, sent)

(* Before the first promotion nothing is in the air; after it one leads.   *)
LeaderInv == Peaceful => Leaderless \/ \E c \in Nodes : Led(c)

-----------------------------------------------------------------------------
(* What the changes of a node's state leave alone.                         *)

LEMMA OlderKeeps ==
  ASSUME NEW me \in NodeStates
  PROVE  /\ Older(me).state = me.state
         /\ Older(me).role = me.role /\ Older(me).disc_role = me.disc_role
         /\ Older(me).id = me.id /\ Older(me).disc_id = me.disc_id
         /\ Older(me).election_term = me.election_term
         /\ Older(me).seen_election_term = me.seen_election_term
         /\ Older(me).auto_saw_lower_mac = me.auto_saw_lower_mac
         /\ Older(me).auto_seen_result = me.auto_seen_result
         /\ Older(me).auto_seen_coordinator = me.auto_seen_coordinator
         /\ Older(me).auto_winner_mac = me.auto_winner_mac
  BY DEF Older, NodeStates

LEMMA OlderAges ==
  ASSUME NEW me \in NodeStates
  PROVE  /\ {me.state_enter, me.last_coord_seen, me.last_result} \subseteq Nat
         /\ {Older(me).state_enter, Older(me).last_coord_seen, Older(me).last_result} \subseteq Nat
         /\ me.state = "ELECTION" => Older(me).state_enter <= me.state_enter + 1
         /\ Older(me).last_coord_seen <= me.last_coord_seen + 1
         /\ me.last_result < AnnounceTime => Older(me).last_result = me.last_result + 1
<1>1. /\ \A limit \in Nat : \A age \in Ages(limit) : age \in Nat /\ age <= limit
      /\ {Longest, NodeTimeout + 1, AnnounceTime} \subseteq Nat
  BY AgeFacts DEF Ages
<1>2. /\ me.state_enter \in Ages(Longest) /\ me.last_coord_seen \in Ages(NodeTimeout + 1)
      /\ me.last_result \in Ages(AnnounceTime)
  BY DEF NodeStates
<1>3. /\ Older(me).state_enter \in Ages(Longest) /\ Older(me).last_coord_seen \in Ages(NodeTimeout + 1)
      /\ Older(me).last_result \in Ages(AnnounceTime)
  BY OlderType DEF NodeStates
<1>4. /\ Older(me).last_result = IF me.last_result < AnnounceTime THEN me.last_result + 1 ELSE me.last_result
      /\ Older(me).last_coord_seen = IF me.last_coord_seen < NodeTimeout + 1
                                     THEN me.last_coord_seen + 1 ELSE me.last_coord_seen
      /\ me.state = "ELECTION" =>
           Older(me).state_enter = IF me.state_enter < Longest THEN me.state_enter + 1 ELSE me.state_enter
  BY DEF Older, NodeStates
<1> HIDE DEF Ages
<1>5. {me.state_enter, me.last_coord_seen, me.last_result} \subseteq Nat
  BY <1>1, <1>2
<1>6. {Older(me).state_enter, Older(me).last_coord_seen, Older(me).last_result} \subseteq Nat
  BY <1>1, <1>3
<1> QED
  BY <1>4, <1>5, <1>6

(* A router announces nothing.                                             *)
LEMMA PeriodicRouter ==
  ASSUME NEW n \in Nodes, NEW me \in NodeStates, me.role = "ROUTER"
  PROVE  /\ Periodic(n, me) = [me EXCEPT !.last_route_update = Periodic(n, me).last_route_update]
         /\ PeriodicFrames(n, me) \subseteq {RouteUpdateFrom(me.id)}
<1>1. ~ Announces(me)
  BY DEF Announces
<1> QED
  BY <1>1 DEF Periodic, PeriodicFrames, NodeStates

-----------------------------------------------------------------------------
(* A tick of a follower.                                                   *)

(* What its tick may make of a follower, and send.                         *)
Fine(c, n, me, frames) ==
  /\ Follows(c, n, me)
  /\ me.state = "ELECTION" /\ ~ MustYield(me) /\ ~ Claiming(c) =>
       me.state_enter + Turn(c) <= node[c].last_result + 1
  /\ me.state = "CONNECTED" =>
       IF Claiming(c) THEN me.last_coord_seen <= AnnounceTime + 1
       ELSE me.last_coord_seen + Turn(c) <= node[c].last_result + 2
  /\ Asked(n) => me.state \in {"JOINING", "CONNECTED"}
  /\ \A f \in frames :
       \/ f.cmd = "ELECTION" /\ (Sendable(f) => f.term = 1 /\ f.mac > c)
       \/ f.cmd = "JOIN" /\ f.mac = n /\ me.state \in {"JOINING", "CONNECTED"}
       \/ f.cmd = "ROUTE_UPDATE"

FineTick(c, n) ==
  \E me \in NodeStates, frames \in SUBSET Frames :
    Ticked(n, me, frames) /\ Fine(c, n, me, frames)

LEMMA TurnFacts ==
  ASSUME NEW n \in Nodes
  PROVE  Turn(n) \in {0, 1} /\ (n \in ticked <=> Turn(n) = 1)
  BY DEF Turn

LEMMA LeaderFacts ==
  ASSUME TypeOK, NEW c \in Nodes, Led(c)
  PROVE  /\ node[c] \in NodeStates /\ Leads(c, node[c])
         /\ node[c].last_result \in Nat /\ node[c].last_result < AnnounceTime
         /\ c \in On /\ c \in Nat
<1>1. node[c] \in NodeStates /\ Leads(c, node[c])
  BY DEF TypeOK, Led
<1> QED
  BY <1>1, OlderAges, NodesAssumption DEF Leads, On

(* Whose tick it is, the leader's claim is not overdue.                    *)
LEMMA TimelyTick ==
  ASSUME TypeOK, NEW c \in Nodes, Led(c), NEW n \in Nodes \ {c}, n \notin ticked,
         ticked = {} => air = {}
  PROVE  /\ node[n].state = "ELECTION" /\ ~ MustYield(node[n]) /\ ~ Claiming(c) =>
              node[n].state_enter + Turn(c) <= node[c].last_result
         /\ node[n].state = "CONNECTED" =>
              /\ node[n].last_coord_seen <= AnnounceTime
              /\ ~ Claiming(c) => node[n].last_coord_seen + Turn(c) <= node[c].last_result + 1
<1>1. node[n] \in NodeStates /\ ElectsInTime(c, n) /\ HearsInTime(c, n)
  BY DEF TypeOK, Led
<1>2. Turn(n) = 0 /\ Turn(c) \in {0, 1}
  BY TurnFacts
<1>3. Claiming(c) => ticked # {}
  BY DEF Claiming
<1>4. node[n].last_coord_seen \in Nat /\ node[n].state_enter \in Nat
  BY <1>1, OlderAges
<1> QED
  BY <1>1, <1>2, <1>3, <1>4, LeaderFacts, AgeFacts DEF ElectsInTime, HearsInTime

LEMMA FindCoordinatorFine ==
  ASSUME TypeOK, NEW c \in Nodes, Led(c), NEW n \in Nodes \ {c}, FindCoordinator(n)
  PROVE  FineTick(c, n)
<1> DEFINE old  == Older(node[n])
           seen == [old EXCEPT !.auto_seen_coordinator = FALSE]
           me   == Joining(AsRouter(seen))
<1>1. node[n] \in NodeStates /\ old \in NodeStates /\ Follows(c, n, node[n]) /\ node[n].state = "SCANNING"
  BY OlderType DEF TypeOK, Led, FindCoordinator, MayTick
<1>2. Follows(c, n, old)
  BY <1>1, OlderKeeps DEF Follows
<1>3. Ticked(n, me, {Join(me.disc_id, n)})
  BY DEF FindCoordinator, Ticks
<1> HIDE DEF old
<1>4. seen \in NodeStates /\ seen.disc_id = old.disc_id /\ seen.seen_election_term = old.seen_election_term
  BY <1>1 DEF NodeStates
<1> HIDE DEF seen
<1>5. me \in NodeStates
  BY <1>4, AsRouterType, JoiningType
<1>6. /\ me.state = "JOINING" /\ me.role = "ROUTER" /\ me.disc_role = "ROUTER"
      /\ me.disc_id = IF seen.disc_id = "COORDINATOR" THEN "UNASSIGNED" ELSE seen.disc_id
      /\ me.seen_election_term = seen.seen_election_term
  BY <1>4 DEF Joining, AsRouter, NodeStates
<1> HIDE DEF me
<1>7. Fine(c, n, me, {Join(me.disc_id, n)})
  BY <1>2, <1>4, <1>6 DEF Fine, Follows, Join
<1>8. {Join(me.disc_id, n)} \in SUBSET Frames
  <2>1. me.disc_id \in Ids
    BY <1>5 DEF NodeStates
  <2> QED
    BY <2>1, FramesType, Ranges
<1> QED
  BY <1>3, <1>5, <1>7, <1>8 DEF FineTick

LEMMA CallElectionFine ==
  ASSUME TypeOK, NEW c \in Nodes, Led(c), NEW n \in Nodes \ {c}, CallElection(n)
  PROVE  FineTick(c, n)
<1> DEFINE old  == Older(node[n])
           term == old.election_term + 1
           me   == [old EXCEPT !.state = "ELECTION", !.state_enter = 0,
                               !.auto_saw_lower_mac = FALSE, !.auto_seen_result = FALSE,
                               !.auto_winner_mac = NoMac,
                               !.election_term = term, !.seen_election_term = term]
           frame == Election(old.disc_id, term, n)
<1>1. node[n] \in NodeStates /\ old \in NodeStates /\ Follows(c, n, node[n]) /\ node[n].state = "SCANNING"
  BY OlderType DEF TypeOK, Led, CallElection, MayTick
<1>2. Follows(c, n, old) /\ old.state = "SCANNING" /\ old.disc_id \in Ids
  BY <1>1, OlderKeeps DEF Follows, NodeStates
<1>3. Ticked(n, me, {frame}) /\ term <= MaxTerm
  BY DEF CallElection, Ticks
<1>4. term = 1 /\ term \in Terms
  BY <1>2, <1>3, ElectionBoundsAssumption DEF Follows, Terms
<1> HIDE DEF old, term
<1>5. me \in NodeStates
  BY <1>1, <1>4, Ranges DEF NodeStates, NoMac
<1>6. /\ me.state = "ELECTION" /\ me.role = old.role /\ me.disc_role = old.disc_role
      /\ me.disc_id = old.disc_id /\ me.seen_election_term = 1 /\ me.state_enter = 0
  BY <1>1, <1>4 DEF NodeStates
<1> HIDE DEF me
<1>7. Follows(c, n, me)
  BY <1>2, <1>6 DEF Follows
<1>8. Sendable(frame) => frame.term = 1 /\ frame.mac > c
  <2>1. old.disc_id = "OWN" => c < n
    BY <1>2 DEF Follows
  <2>2. old.disc_id # "UNASSIGNED" => old.disc_id = "OWN"
    BY <1>2 DEF Follows, Ids
  <2> QED
    BY <1>4, <2>1, <2>2, NodesAssumption DEF Sendable, Election
<1>9. frame.cmd = "ELECTION" /\ frame \in Frames
  BY <1>2, <1>4, FramesType DEF Election
<1> HIDE DEF frame
<1>10. Fine(c, n, me, {frame})
  <2>1. me.state_enter + Turn(c) <= node[c].last_result + 1
    BY <1>6, LeaderFacts, TurnFacts
  <2>2. ~ Asked(n)
    BY <1>1 DEF Asked
  <2> QED
    BY <1>6, <1>7, <1>8, <1>9, <2>1, <2>2 DEF Fine
<1> QED
  BY <1>3, <1>5, <1>9, <1>10 DEF FineTick

LEMMA YieldFine ==
  ASSUME TypeOK, NEW c \in Nodes, Led(c), NEW n \in Nodes \ {c}, Yield(n)
  PROVE  FineTick(c, n)
<1> DEFINE old == Older(node[n])
           me  == AsRouter(old)
<1>1. node[n] \in NodeStates /\ old \in NodeStates /\ Follows(c, n, node[n]) /\ node[n].state = "ELECTION"
  BY OlderType DEF TypeOK, Led, Yield, MayTick
<1>2. Follows(c, n, old)
  BY <1>1, OlderKeeps DEF Follows
<1>3. me \in NodeStates /\ me.role = "ROUTER" /\ me.disc_role = "ROUTER" /\ me.disc_id \in Ids
      /\ me.disc_id # "COORDINATOR" /\ me.seen_election_term <= 1
  <2>1. me \in NodeStates
    BY <1>1, AsRouterType
  <2>2. old.disc_id # "COORDINATOR" /\ old.seen_election_term <= 1
    BY <1>2 DEF Follows
  <2> HIDE DEF old
  <2>3. me.role = "ROUTER" /\ me.disc_role = "ROUTER" /\ me.disc_id = old.disc_id
        /\ me.seen_election_term = old.seen_election_term
    BY <1>1, <2>2 DEF AsRouter, NodeStates
  <2> HIDE DEF me
  <2> QED
    BY <2>1, <2>2, <2>3 DEF NodeStates
<1>4. \/ Ticked(n, Periodic(n, Connected(me)), PeriodicFrames(n, Connected(me)))
      \/ Ticked(n, Joining(me), {Join(me.disc_id, n)})
  BY DEF Yield, Ticks
<1> HIDE DEF me
<1>5. CASE Ticked(n, Periodic(n, Connected(me)), PeriodicFrames(n, Connected(me)))
  <2> DEFINE on == Connected(me)
             next == Periodic(n, on)
  <2>1. on \in NodeStates /\ next \in NodeStates /\ PeriodicFrames(n, on) \subseteq Frames
    BY <1>3, ConnectedType, PeriodicType, PeriodicFramesType
  <2>2. /\ on.state = "CONNECTED" /\ on.role = "ROUTER" /\ on.disc_role = "ROUTER"
        /\ on.disc_id = me.disc_id /\ on.seen_election_term = me.seen_election_term
        /\ on.last_coord_seen = 0
    BY <1>3 DEF Connected, NodeStates
  <2> HIDE DEF on
  <2>3. /\ next = [on EXCEPT !.last_route_update = next.last_route_update]
        /\ PeriodicFrames(n, on) \subseteq {RouteUpdateFrom(on.id)}
    BY <2>1, <2>2, PeriodicRouter
  <2> HIDE DEF next
  <2>4. /\ next.state = "CONNECTED" /\ next.role = "ROUTER" /\ next.disc_role = "ROUTER"
        /\ next.disc_id = me.disc_id /\ next.seen_election_term = me.seen_election_term
        /\ next.last_coord_seen = 0
    BY <2>1, <2>2, <2>3 DEF NodeStates
  <2>5. Follows(c, n, next)
    BY <1>3, <2>4 DEF Follows
  <2>6. 0 <= AnnounceTime + 1 /\ 0 + Turn(c) <= node[c].last_result + 2
    BY LeaderFacts, TurnFacts, AgeFacts
  <2>7. \A f \in PeriodicFrames(n, on) : f.cmd = "ROUTE_UPDATE"
    BY <2>3 DEF RouteUpdateFrom
  <2>8. Fine(c, n, next, PeriodicFrames(n, on))
    BY <2>4, <2>5, <2>6, <2>7 DEF Fine
  <2> QED
    BY <1>5, <2>1, <2>8 DEF FineTick, next, on
<1>6. CASE Ticked(n, Joining(me), {Join(me.disc_id, n)})
  <2> DEFINE next == Joining(me)
  <2>1. next \in NodeStates /\ {Join(me.disc_id, n)} \in SUBSET Frames
    BY <1>3, JoiningType, FramesType, Ranges
  <2>2. /\ next.state = "JOINING" /\ next.role = "ROUTER" /\ next.disc_role = "ROUTER"
        /\ next.disc_id = me.disc_id /\ next.seen_election_term = me.seen_election_term
    BY <1>3 DEF Joining, NodeStates
  <2> HIDE DEF next
  <2>3. Fine(c, n, next, {Join(me.disc_id, n)})
    BY <1>3, <2>2 DEF Fine, Follows, Join
  <2> QED
    BY <1>6, <2>1, <2>3 DEF FineTick, next
<1> QED
  BY <1>4, <1>5, <1>6

(* Nobody promotes itself over a leader unless their claims cross.         *)
LEMMA PromoteClashes ==
  ASSUME TypeOK, NEW c \in Nodes, Led(c), NEW n \in Nodes \ {c}, Promote(n), Timely
  PROVE  clash'
<1> DEFINE old == Older(node[n])
<1>1. /\ node[n] \in NodeStates /\ node[n].state = "ELECTION" /\ n \notin ticked
      /\ ticked = {} => air = {}
      /\ ~ MustYield(old) /\ old.state_enter >= ElectionTime
      /\ clash' = (clash \/ Claimed(n))
  BY DEF TypeOK, Promote, MayTick
<1>2. CASE Claiming(c)
  <2>1. <<c, Claim(c)>> \in air /\ <<c, Claim(c)>>[2].cmd = "ELECTION_RESULT"
    BY <1>2 DEF Claiming, Claim, Result
  <2> QED
    BY <1>1, <2>1 DEF Claimed
<1>3. CASE ~ Claiming(c)
  <2>1. ~ MustYield(node[n])
    BY <1>1, OlderKeeps DEF MustYield
  <2>2. node[n].state_enter + Turn(c) <= node[c].last_result
    BY <1>1, <1>3, <2>1, TimelyTick
  <2>3. old.state_enter <= node[n].state_enter + 1 /\ old.state_enter \in Nat
        /\ node[n].state_enter \in Nat
    BY <1>1, OlderAges
  <2>4. ElectionTime \in Nat /\ AnnounceTime \in Nat /\ AnnounceTime <= ElectionTime
    BY AgeFacts DEF Timely
  <2>5. node[c].last_result \in Nat /\ node[c].last_result < AnnounceTime /\ Turn(c) \in {0, 1}
    BY LeaderFacts, TurnFacts
  <2>6. node[c].last_result + 1 = AnnounceTime /\ Turn(c) = 0
    BY <1>1, <2>2, <2>3, <2>4, <2>5
  <2>7. Older(node[c]).last_result = AnnounceTime /\ c \in Nodes \ (ticked \cup {n})
    BY <2>5, <2>6, LeaderFacts, OlderAges, TurnFacts
  <2>8. Announces(Older(node[c]))
    BY <2>4, <2>7, LeaderFacts, OlderKeeps DEF Announces, Leads
  <2> QED
    BY <1>1, <2>7, <2>8 DEF Claimed
<1> QED
  BY <1>2, <1>3

LEMMA WaitOnFine ==
  ASSUME TypeOK, NEW c \in Nodes, Led(c), NEW n \in Nodes \ {c}, WaitOn(n)
  PROVE  FineTick(c, n)
<1> DEFINE old == Older(node[n])
<1>1. /\ node[n] \in NodeStates /\ old \in NodeStates /\ Follows(c, n, node[n])
      /\ node[n].state \in {"SCANNING", "ELECTION"} /\ n \notin ticked
      /\ ticked = {} => air = {}
      /\ Ticked(n, old, {})
  BY OlderType DEF TypeOK, Led, WaitOn, MayTick, Ticks
<1>2. Follows(c, n, old) /\ old.state = node[n].state /\ MustYield(old) = MustYield(node[n])
  BY <1>1, OlderKeeps DEF Follows, MustYield
<1>3. old.state = "ELECTION" /\ ~ MustYield(old) /\ ~ Claiming(c) =>
        old.state_enter + Turn(c) <= node[c].last_result + 1
  <2>1. node[n].state = "ELECTION" =>
          old.state_enter <= node[n].state_enter + 1 /\ {old.state_enter, node[n].state_enter} \subseteq Nat
    BY <1>1, OlderAges
  <2>2. node[n].state = "ELECTION" /\ ~ MustYield(node[n]) /\ ~ Claiming(c) =>
          node[n].state_enter + Turn(c) <= node[c].last_result
    BY <1>1, TimelyTick
  <2>3. Turn(c) \in {0, 1} /\ node[c].last_result \in Nat
    BY TurnFacts, LeaderFacts
  <2> QED
    BY <1>2, <2>1, <2>2, <2>3
<1> HIDE DEF old
<1>4. Fine(c, n, old, {})
  BY <1>1, <1>2, <1>3 DEF Fine, Asked
<1> QED
  BY <1>1, <1>4 DEF FineTick

LEMMA AskOnFine ==
  ASSUME TypeOK, NEW c \in Nodes, Led(c), NEW n \in Nodes \ {c}, AskOn(n)
  PROVE  FineTick(c, n)
<1> DEFINE old == Older(node[n])
<1>1. /\ node[n] \in NodeStates /\ old \in NodeStates /\ Follows(c, n, node[n])
      /\ node[n].state = "JOINING"
      /\ Ticked(n, Joining(old), {Join(old.disc_id, n)}) \/ Ticked(n, old, {})
  BY OlderType DEF TypeOK, Led, AskOn, MayTick, Ticks
<1>2. Follows(c, n, old) /\ old.state = "JOINING"
  BY <1>1, OlderKeeps DEF Follows
<1> HIDE DEF old
<1>3. CASE Ticked(n, Joining(old), {Join(old.disc_id, n)})
  <2> DEFINE next == Joining(old)
  <2>1. next \in NodeStates /\ {Join(old.disc_id, n)} \in SUBSET Frames
    <3>1. old.disc_id \in Ids
      BY <1>1 DEF NodeStates
    <3> QED
      BY <1>1, <3>1, JoiningType, FramesType, Ranges
  <2>2. /\ next.state = "JOINING" /\ next.role = old.role /\ next.disc_role = old.disc_role
        /\ next.disc_id = old.disc_id /\ next.seen_election_term = old.seen_election_term
    BY <1>1 DEF Joining, NodeStates
  <2> HIDE DEF next
  <2>3. Fine(c, n, next, {Join(old.disc_id, n)})
    BY <1>2, <2>2 DEF Fine, Follows, Join
  <2> QED
    BY <1>3, <2>1, <2>3 DEF FineTick, next
<1>4. CASE Ticked(n, old, {})
  <2>1. Fine(c, n, old, {})
    BY <1>2, <1>1 DEF Fine
  <2> QED
    BY <1>1, <1>4, <2>1 DEF FineTick
<1> QED
  BY <1>1, <1>3, <1>4

LEMMA CarryOnFine ==
  ASSUME TypeOK, NEW c \in Nodes, Led(c), NEW n \in Nodes \ {c}, Timely,
         StartOver(n) \/ StepDown(n) \/ CarryOn(n)
  PROVE  FineTick(c, n)
<1> DEFINE old == Older(node[n])
           next == Periodic(n, old)
<1>1. /\ node[n] \in NodeStates /\ old \in NodeStates /\ Follows(c, n, node[n])
      /\ node[n].state = "CONNECTED" /\ n \notin ticked /\ (ticked = {} => air = {})
  BY OlderType DEF TypeOK, Led, StartOver, StepDown, CarryOn, MayTick
<1>2. Follows(c, n, old) /\ old.state = "CONNECTED" /\ old.role = "ROUTER"
  BY <1>1, OlderKeeps DEF Follows
<1>3. /\ node[n].last_coord_seen <= AnnounceTime
      /\ ~ Claiming(c) => node[n].last_coord_seen + Turn(c) <= node[c].last_result + 1
      /\ old.last_coord_seen <= node[n].last_coord_seen + 1
      /\ {old.last_coord_seen, node[n].last_coord_seen} \subseteq Nat
      /\ node[c].last_result \in Nat /\ Turn(c) \in {0, 1}
  BY <1>1, TimelyTick, OlderAges, LeaderFacts, TurnFacts
<1>4. ~ Orphaned(old) /\ ~ Deposed(old)
  BY <1>2, <1>3, AgeFacts DEF Orphaned, Deposed, Timely
<1>5. Ticked(n, next, PeriodicFrames(n, old))
  BY <1>4 DEF StartOver, StepDown, CarryOn, Ticks
<1>6. /\ next \in NodeStates /\ PeriodicFrames(n, old) \subseteq Frames
      /\ next = [old EXCEPT !.last_route_update = next.last_route_update]
      /\ PeriodicFrames(n, old) \subseteq {RouteUpdateFrom(old.id)}
  BY <1>1, <1>2, PeriodicType, PeriodicFramesType, PeriodicRouter
<1>7. /\ old.last_coord_seen <= AnnounceTime + 1
      /\ ~ Claiming(c) => old.last_coord_seen + Turn(c) <= node[c].last_result + 2
  BY <1>3, AgeFacts
<1> HIDE DEF old, next
<1>8. /\ next.state = "CONNECTED" /\ next.role = old.role /\ next.disc_role = old.disc_role
      /\ next.disc_id = old.disc_id /\ next.seen_election_term = old.seen_election_term
      /\ next.last_coord_seen = old.last_coord_seen
  BY <1>1, <1>2, <1>6 DEF NodeStates
<1>9. \A f \in PeriodicFrames(n, old) : f.cmd = "ROUTE_UPDATE"
  BY <1>6 DEF RouteUpdateFrom
<1>10. Fine(c, n, next, PeriodicFrames(n, old))
  BY <1>2, <1>7, <1>8, <1>9 DEF Fine, Follows
<1> QED
  BY <1>5, <1>6, <1>10 DEF FineTick

LEMMA FollowerTick ==
  ASSUME TypeOK, NEW c \in Nodes, Led(c), NEW n \in Nodes \ {c}, Tick(n), Timely, ~ clash'
  PROVE  FineTick(c, n)
  BY FindCoordinatorFine, CallElectionFine, YieldFine, PromoteClashes, WaitOnFine, AskOnFine,
     CarryOnFine DEF Tick

-----------------------------------------------------------------------------
(* A tick keeps the leader.                                                *)

TurnAfter(n, k) == IF k = n THEN 1 ELSE Turn(k)

LEMMA TurnsGoOn ==
  ASSUME NEW n \in On, NEW me, NEW frames, Ticked(n, me, frames)
  PROVE  /\ \A k, j \in On : Turn(k)' - Turn(j)' = TurnAfter(n, k) - TurnAfter(n, j)
         /\ \A k \in Nodes : {Turn(k), Turn(k)', TurnAfter(n, k)} \subseteq {0, 1}
         /\ \A k \in Nodes : ticked' # {} /\ k \notin ticked' => k # n /\ k \notin ticked
<1>1. ticked' = IF On \subseteq ticked \cup {n} THEN {} ELSE ticked \cup {n}
  BY DEF Ticked
<1>2. CASE On \subseteq ticked \cup {n}
  <2>1. \A k : Turn(k)' = 0
    BY <1>1, <1>2 DEF Turn
  <2>2. \A k \in On : TurnAfter(n, k) = 1
    BY <1>2 DEF Turn, TurnAfter
  <2>3. \A k : {Turn(k), TurnAfter(n, k)} \subseteq {0, 1}
    BY DEF Turn, TurnAfter
  <2>4. ticked' = {}
    BY <1>1, <1>2
  <2> QED
    BY <2>1, <2>2, <2>3, <2>4
<1>3. CASE ~ (On \subseteq ticked \cup {n})
  <2>1. ticked' = ticked \cup {n}
    BY <1>1, <1>3
  <2>2. \A k : Turn(k)' = TurnAfter(n, k)
    BY <2>1 DEF Turn, TurnAfter
  <2>3. \A k : {Turn(k), TurnAfter(n, k)} \subseteq {0, 1}
    BY DEF Turn, TurnAfter
  <2> QED
    BY <2>1, <2>2, <2>3
<1> QED
  BY <1>2, <1>3

LEMMA FollowerTickLed ==
  ASSUME TypeOK, NEW c \in Nodes, Led(c), NEW n \in Nodes \ {c}, n \in On, n \notin ticked,
         ticked = {} => air = {}, FineTick(c, n)
  PROVE  Led(c)'
<1>1. PICK me \in NodeStates, frames \in SUBSET Frames :
        Ticked(n, me, frames) /\ Fine(c, n, me, frames)
  BY DEF FineTick
<1>2. /\ node \in [Nodes -> NodeStates] /\ node' = [node EXCEPT ![n] = me]
      /\ air' = air \cup InTheAir(n, frames)
  BY <1>1 DEF TypeOK, Ticked
<1>3. node'[c] = node[c] /\ node'[n] = me /\ \A k \in Nodes \ {c, n} : node'[k] = node[k]
  BY <1>2
<1>4. c \in On /\ node[c].last_result \in Nat
  BY LeaderFacts
<1>5. Claiming(c)' = Claiming(c)
  BY <1>2 DEF Claiming, InTheAir, Claim
<1>6. /\ \A k, j \in On : Turn(k)' - Turn(j)' = TurnAfter(n, k) - TurnAfter(n, j)
      /\ \A k \in Nodes : {Turn(k), Turn(k)', TurnAfter(n, k)} \subseteq {0, 1}
      /\ \A k \in Nodes : ticked' # {} /\ k \notin ticked' => k # n /\ k \notin ticked
  BY <1>1, TurnsGoOn
<1>7. TurnAfter(n, c) = Turn(c) /\ TurnAfter(n, n) = 1
  BY DEF TurnAfter
<1>8. Leads(c, node'[c])
  BY <1>3 DEF Led
<1>9. Follows(c, n, node'[n]) /\ ElectsInTime(c, n)' /\ HearsInTime(c, n)'
  <2>1. me.state_enter \in Nat /\ me.last_coord_seen \in Nat
    BY OlderAges
  <2>2. Turn(c)' - Turn(n)' = Turn(c) - 1 /\ {Turn(c)', Turn(n)', Turn(c)} \subseteq {0, 1}
    BY <1>4, <1>6, <1>7
  <2>3. ElectsInTime(c, n)'
    BY <1>1, <1>3, <1>4, <1>5, <2>1, <2>2 DEF Fine, ElectsInTime
  <2>4. HearsInTime(c, n)'
    BY <1>1, <1>3, <1>4, <1>5, <1>6, <2>1, <2>2 DEF Fine, HearsInTime
  <2> QED
    BY <1>1, <1>3, <2>3, <2>4 DEF Fine
<1>10. ASSUME NEW k \in Nodes \ {c, n}
       PROVE  Follows(c, k, node'[k]) /\ ElectsInTime(c, k)' /\ HearsInTime(c, k)'
  <2>1. node'[k] = node[k] /\ node[k] \in NodeStates
    BY <1>2, <1>3
  <2>2. Follows(c, k, node[k]) /\ ElectsInTime(c, k) /\ HearsInTime(c, k)
    BY DEF Led
  <2>3. node[k].state_enter \in Nat /\ node[k].last_coord_seen \in Nat
    BY <2>1, OlderAges
  <2>4. TurnAfter(n, k) = Turn(k) /\ {Turn(c)', Turn(k)', Turn(c), Turn(k)} \subseteq {0, 1}
    BY <1>6 DEF TurnAfter
  <2>5. node[k].state \in {"ELECTION", "CONNECTED"} => Turn(c)' - Turn(k)' = Turn(c) - Turn(k)
    BY <1>4, <1>6, <1>7, <2>4 DEF On
  <2>6. ElectsInTime(c, k)'
    BY <1>3, <1>4, <1>5, <2>1, <2>2, <2>3, <2>4, <2>5 DEF ElectsInTime
  <2>7. Claiming(c) /\ ticked' # {} /\ k \notin ticked' => ticked # {} /\ k \notin ticked
    BY <1>6 DEF Claiming
  <2>8. HearsInTime(c, k)'
    BY <1>3, <1>4, <1>5, <2>1, <2>2, <2>3, <2>4, <2>5, <2>7 DEF HearsInTime
  <2> QED
    BY <2>1, <2>2, <2>6, <2>8
<1>11. ASSUME NEW sent \in air' PROVE Fits(c, sent)'
  <2>1. \A k \in Nodes : Asked(k) => Asked(k)'
    BY <1>1, <1>3 DEF Asked, Fine
  <2>2. CASE sent \in air
    <3>1. Fits(c, sent) /\ sent[2] \in Frames
      BY <2>2 DEF Led, TypeOK
    <3>2. sent[2].cmd \in {"ASSIGN", "JOIN"} => sent[2].mac \in Nodes
      BY <3>1, FrameFields
    <3> QED
      BY <2>1, <3>1, <3>2 DEF Fits
  <2>3. CASE sent \in InTheAir(n, frames)
    <3>1. sent[2] \in frames /\ Sendable(sent[2])
      BY <2>3 DEF InTheAir
    <3>2. \/ sent[2].cmd = "ELECTION" /\ sent[2].term = 1 /\ sent[2].mac > c
          \/ sent[2].cmd = "JOIN" /\ sent[2].mac = n /\ Asked(n)'
          \/ sent[2].cmd = "ROUTE_UPDATE"
      BY <1>1, <1>3, <3>1 DEF Fine, Asked
    <3> QED
      BY <3>2 DEF Fits
  <2> QED
    BY <1>2, <2>2, <2>3
<1> QED
  BY <1>8, <1>9, <1>10, <1>11 DEF Led

LEMMA LeaderTick ==
  ASSUME TypeOK, NEW c \in Nodes, Led(c), Tick(c)
  PROVE  Led(c)'
<1> DEFINE old == Older(node[c])
           next == Periodic(c, old)
<1>1. /\ node[c] \in NodeStates /\ old \in NodeStates /\ next \in NodeStates
      /\ Leads(c, node[c]) /\ c \in On
      /\ node[c].last_result \in Nat /\ old.last_result = node[c].last_result + 1
  BY LeaderFacts, OlderType, OlderAges, PeriodicType
<1>2. Leads(c, [old EXCEPT !.last_result = 0]) /\ old.state = "CONNECTED" /\ old.role = "COORDINATOR"
      /\ old.disc_role = "COORDINATOR" /\ old.disc_id = "COORDINATOR" /\ old.election_term = 1
      /\ old.seen_election_term = 1 /\ old.auto_winner_mac = c
  <2>1. /\ old.state = "CONNECTED" /\ old.role = "COORDINATOR"
        /\ old.disc_role = "COORDINATOR" /\ old.disc_id = "COORDINATOR" /\ old.election_term = 1
        /\ old.seen_election_term = 1 /\ old.auto_winner_mac = c
    BY <1>1, OlderKeeps DEF Leads
  <2> HIDE DEF old
  <2> QED
    BY <1>1, <2>1, AgeFacts DEF Leads, NodeStates
<1>3. /\ CarryOn(c) /\ c \notin ticked /\ (ticked = {} => air = {})
  <2>1. node[c].state = "CONNECTED"
    BY <1>1 DEF Leads
  <2>2. StartOver(c) \/ StepDown(c) \/ CarryOn(c)
    BY <2>1 DEF Tick, FindCoordinator, CallElection, Yield, Promote, WaitOn, AskOn, MayTick
  <2>3. ~ Orphaned(old) /\ ~ Deposed(old)
    BY <1>2 DEF Orphaned, Deposed
  <2> QED
    BY <2>2, <2>3 DEF StartOver, StepDown, CarryOn, MayTick
<1>4. Ticked(c, next, PeriodicFrames(c, old))
  BY <1>3 DEF CarryOn, Ticks
<1>5. Winner(c, old) = c
  BY <1>2 DEF Winner
<1>6. Announces(old) <=> old.last_result >= AnnounceTime
  BY <1>2 DEF Announces
<1>7. /\ next.state = old.state /\ next.role = old.role /\ next.disc_role = old.disc_role
      /\ next.disc_id = old.disc_id /\ next.election_term = old.election_term
      /\ next.seen_election_term = old.seen_election_term
      /\ next.auto_winner_mac = c
      /\ next.last_result = IF Announces(old) THEN 0 ELSE old.last_result
  <2> HIDE DEF old
  <2> QED
    BY <1>1, <1>2, <1>5 DEF Periodic, NodeStates
<1>8. PeriodicFrames(c, old) = (IF Announces(old) THEN {Claim(c)} ELSE {})
                               \cup (IF Updates(old) THEN {RouteUpdateFrom(old.id)} ELSE {})
  BY <1>2, <1>5 DEF PeriodicFrames, Claim
<1> HIDE DEF old, next
<1>9. Leads(c, next)
  BY <1>1, <1>2, <1>6, <1>7, AgeFacts DEF Leads
<1>10. /\ node \in [Nodes -> NodeStates] /\ node' = [node EXCEPT ![c] = next]
       /\ air' = air \cup InTheAir(c, PeriodicFrames(c, old))
  BY <1>4 DEF TypeOK, Ticked
<1>11. node'[c] = next /\ \A k \in Nodes \ {c} : node'[k] = node[k]
  BY <1>10
<1>12. Claiming(c)' = (Claiming(c) \/ Announces(old))
  <2>1. Claim(c).cmd = "ELECTION_RESULT" /\ Sendable(Claim(c))
    BY DEF Claim, Result, Sendable
  <2>2. RouteUpdateFrom(old.id).cmd = "ROUTE_UPDATE"
    BY DEF RouteUpdateFrom
  <2> QED
    BY <1>8, <1>10, <2>1, <2>2 DEF Claiming, InTheAir
<1>13. /\ \A k, j \in On : Turn(k)' - Turn(j)' = TurnAfter(c, k) - TurnAfter(c, j)
       /\ \A k \in Nodes : {Turn(k), Turn(k)', TurnAfter(c, k)} \subseteq {0, 1}
       /\ \A k \in Nodes : ticked' # {} /\ k \notin ticked' => k # c /\ k \notin ticked
  BY <1>1, <1>4, TurnsGoOn
<1>14. TurnAfter(c, c) = 1 /\ Turn(c) = 0
  BY <1>3 DEF TurnAfter, Turn
<1>15. ASSUME NEW k \in Nodes \ {c}
       PROVE  Follows(c, k, node'[k]) /\ ElectsInTime(c, k)' /\ HearsInTime(c, k)'
  <2>1. node'[k] = node[k] /\ node[k] \in NodeStates
    BY <1>10, <1>11
  <2>2. Follows(c, k, node[k]) /\ ElectsInTime(c, k) /\ HearsInTime(c, k)
    BY DEF Led
  <2>3. node[k].state_enter \in Nat /\ node[k].last_coord_seen \in Nat
    BY <2>1, OlderAges
  <2>4. TurnAfter(c, k) = Turn(k) /\ {Turn(c)', Turn(k)', Turn(k)} \subseteq {0, 1}
    BY <1>13 DEF TurnAfter
  <2>5. node[k].state \in {"ELECTION", "CONNECTED"} => Turn(c)' - Turn(k)' = 1 - Turn(k)
    BY <1>1, <1>13, <1>14, <2>4 DEF On
  <2>6. /\ node[c].last_result \in Nat /\ node[c].last_result < AnnounceTime /\ AnnounceTime \in Nat
        /\ node'[c].last_result = IF Announces(old) THEN 0 ELSE node[c].last_result + 1
    BY <1>1, <1>7, <1>11, LeaderFacts, AgeFacts
  <2>7. ElectsInTime(c, k)'
    <3> SUFFICES ASSUME node[k].state = "ELECTION", ~ MustYield(node[k]), ~ Claiming(c), ~ Announces(old)
                 PROVE  node[k].state_enter + Turn(c)' <= node[c].last_result + 1 + Turn(k)'
      BY <1>12, <2>1, <2>6 DEF ElectsInTime
    <3>1. node[k].state_enter + 0 <= node[c].last_result + Turn(k)
      BY <1>14, <2>2 DEF ElectsInTime
    <3>2. Turn(c)' - Turn(k)' = 1 - Turn(k)
      BY <2>5
    <3> QED
      BY <2>3, <2>4, <2>6, <3>1, <3>2
  <2>8. HearsInTime(c, k)'
    <3> SUFFICES ASSUME node[k].state = "CONNECTED" PROVE HearsInTime(c, k)'
      BY <2>1 DEF HearsInTime
    <3>1. CASE Claiming(c)
      <4>1. /\ node[k].last_coord_seen <= AnnounceTime + 1
            /\ ticked # {} /\ k \notin ticked => node[k].last_coord_seen <= AnnounceTime
        BY <2>2, <3>1 DEF HearsInTime
      <4>2. ticked # {}
        BY <1>3, <3>1 DEF Claiming
      <4> QED
        BY <1>12, <1>13, <2>1, <3>1, <4>1, <4>2 DEF HearsInTime
    <3>2. CASE ~ Claiming(c)
      <4>1. node[k].last_coord_seen <= node[c].last_result + 1 + Turn(k)
        BY <1>14, <2>2, <2>3, <2>6, <3>2 DEF HearsInTime
      <4>2. node[k].last_coord_seen <= AnnounceTime + 1
        BY <2>3, <2>4, <2>6, <4>1
      <4>3. k \notin ticked => node[k].last_coord_seen <= AnnounceTime
        BY <2>3, <2>6, <4>1 DEF Turn
      <4>4. CASE Announces(old)
        BY <1>12, <1>13, <2>1, <4>2, <4>3, <4>4 DEF HearsInTime
      <4>5. CASE ~ Announces(old)
        <5>1. Turn(c)' - Turn(k)' = 1 - Turn(k)
          BY <2>5
        <5>2. node[k].last_coord_seen + Turn(c)' <= node[c].last_result + 1 + 1 + Turn(k)'
          BY <2>3, <2>4, <2>6, <4>1, <5>1
        <5> QED
          BY <1>12, <2>1, <2>6, <3>2, <4>5, <5>2 DEF HearsInTime
      <4> QED
        BY <4>4, <4>5
    <3> QED
      BY <3>1, <3>2
  <2> QED
    BY <2>1, <2>2, <2>7, <2>8
<1>16. ASSUME NEW sent \in air' PROVE Fits(c, sent)'
  <2>1. \A k \in Nodes \ {c} : Asked(k) => Asked(k)'
    BY <1>11 DEF Asked
  <2>2. CASE sent \in air
    <3>1. Fits(c, sent) /\ sent[2] \in Frames
      BY <2>2 DEF Led, TypeOK
    <3>2. sent[2].cmd \in {"ASSIGN", "JOIN"} => sent[2].mac \in Nodes
      BY <3>1, FrameFields
    <3> QED
      BY <2>1, <3>1, <3>2 DEF Fits
  <2>3. CASE sent \in InTheAir(c, PeriodicFrames(c, old))
    <3>1. sent = <<c, sent[2]>> /\ sent[2] \in {Claim(c), RouteUpdateFrom(old.id)}
      BY <1>8, <2>3 DEF InTheAir
    <3> QED
      BY <3>1 DEF Fits, Claim, Result, RouteUpdateFrom
  <2> QED
    BY <1>10, <2>2, <2>3
<1> QED
  BY <1>9, <1>11, <1>15, <1>16 DEF Led

-----------------------------------------------------------------------------
(* Before anybody leads.                                                   *)

LEMMA LeaderlessTick ==
  ASSUME TypeOK, Leaderless, NEW n \in Nodes, Tick(n)
  PROVE  Leaderless' \/ Led(n)'
<1> DEFINE old == Older(node[n])
<1>1. /\ node \in [Nodes -> NodeStates] /\ node[n] \in NodeStates /\ old \in NodeStates
      /\ air = {} /\ \A k \in Nodes : Waiting(node[k])
  BY OlderType DEF TypeOK, Leaderless
<1>2. /\ Waiting(old) /\ old.state = node[n].state
  BY <1>1, OlderKeeps DEF Waiting, MustYield
<1>3. \A me : Ticked(n, me, {}) /\ Waiting(me) => Leaderless'
  BY <1>1 DEF Leaderless, Ticked, InTheAir
<1>4. CASE WaitOn(n)
  BY <1>2, <1>3, <1>4 DEF WaitOn, Ticks
<1>5. CASE CallElection(n)
  <2> DEFINE term == old.election_term + 1
             me   == [old EXCEPT !.state = "ELECTION", !.state_enter = 0,
                                 !.auto_saw_lower_mac = FALSE, !.auto_seen_result = FALSE,
                                 !.auto_winner_mac = NoMac,
                                 !.election_term = term, !.seen_election_term = term]
  <2>1. Ticked(n, me, {Election(old.disc_id, term, n)}) /\ old.state = "SCANNING"
    BY <1>2, <1>5 DEF CallElection, Ticks, MayTick
  <2> HIDE DEF old
  <2>2. term = 1
    BY <1>2, <2>1 DEF Waiting
  <2>3. Waiting(me)
    BY <1>1, <1>2, <2>2 DEF Waiting, MustYield, NodeStates
  <2>4. ~ Sendable(Election(old.disc_id, term, n))
    BY <1>2 DEF Sendable, Election, Waiting
  <2> HIDE DEF me, term
  <2>5. Ticked(n, me, {})
    BY <2>1, <2>4 DEF Ticked, InTheAir
  <2> QED
    BY <1>3, <2>3, <2>5
<1>6. CASE Promote(n)
  <2> DEFINE me   == Promoted(n, old)
             next == Periodic(n, me)
             sends == {Result(me.disc_id, me.election_term, n)} \cup PeriodicFrames(n, me)
  <2>1. Ticked(n, next, sends) /\ old.state = "ELECTION" /\ me \in NodeStates /\ next \in NodeStates
    BY <1>1, <1>2, <1>6, PromotedType, PeriodicType DEF Promote, MayTick
  <2> HIDE DEF old
  <2>2. /\ me.state = "CONNECTED" /\ me.role = "COORDINATOR" /\ me.disc_role = "COORDINATOR"
        /\ me.disc_id = "COORDINATOR" /\ me.election_term = 1 /\ me.seen_election_term = 1
        /\ me.auto_winner_mac = n /\ me.last_result = 0
    BY <1>1, <1>2, <2>1 DEF Promoted, Waiting, NodeStates
  <2> HIDE DEF me
  <2>3. ~ Announces(me)
    BY <2>2, AgeFacts DEF Announces
  <2>4. /\ next.state = "CONNECTED" /\ next.role = "COORDINATOR" /\ next.disc_role = "COORDINATOR"
        /\ next.disc_id = "COORDINATOR" /\ next.election_term = 1 /\ next.seen_election_term = 1
        /\ next.auto_winner_mac = n /\ next.last_result = 0
    BY <2>1, <2>2, <2>3 DEF Periodic, NodeStates
  <2>5. sends \subseteq {Claim(n), RouteUpdateFrom(me.id)} /\ Claim(n) \in sends
    BY <2>2, <2>3 DEF PeriodicFrames, Claim
  <2> HIDE DEF next, sends
  <2>6. /\ node'[n] = next /\ \A k \in Nodes \ {n} : node'[k] = node[k]
        /\ air' = InTheAir(n, sends)
    BY <1>1, <2>1 DEF Ticked
  <2>7. Claiming(n)'
    BY <2>5, <2>6 DEF Claiming, InTheAir, Sendable, Claim, Result
  <2>8. Leads(n, node'[n])
    BY <2>4, <2>6, AgeFacts DEF Leads
  <2>9. ASSUME NEW k \in Nodes \ {n}
        PROVE  Follows(n, k, node'[k]) /\ ElectsInTime(n, k)' /\ HearsInTime(n, k)'
    <3>1. node'[k] = node[k] /\ Waiting(node[k])
      BY <1>1, <2>6
    <3> QED
      BY <2>7, <3>1 DEF Waiting, Follows, ElectsInTime, HearsInTime
  <2>10. ASSUME NEW sent \in air' PROVE Fits(n, sent)'
    <3>1. sent = <<n, sent[2]>> /\ sent[2] \in {Claim(n), RouteUpdateFrom(me.id)}
      BY <2>5, <2>6 DEF InTheAir
    <3> QED
      BY <3>1 DEF Fits, Claim, Result, RouteUpdateFrom
  <2> QED
    BY <2>8, <2>9, <2>10 DEF Led
<1>7. ~ FindCoordinator(n) /\ ~ Yield(n) /\ ~ AskOn(n) /\ ~ StartOver(n) /\ ~ StepDown(n) /\ ~ CarryOn(n)
  BY <1>1, <1>2 DEF FindCoordinator, Yield, AskOn, StartOver, StepDown, CarryOn, MayTick, Waiting
<1> QED
  BY <1>4, <1>5, <1>6, <1>7 DEF Tick

-----------------------------------------------------------------------------
(* What is heard keeps the leader.                                         *)

(* discovery_on_frame of a follower.                                       *)
LEMMA NoticeKeeps ==
  ASSUME NEW me \in NodeStates, 1 \in Terms
  PROVE  LET noticed == Notice(me, 1)
         IN  /\ noticed \in NodeStates /\ noticed.seen_election_term = 1
             /\ noticed.role = me.role /\ noticed.disc_role = me.disc_role
             /\ noticed.disc_id = me.disc_id /\ noticed.state = me.state
             /\ noticed.election_term = me.election_term
             /\ noticed.state_enter = me.state_enter
             /\ noticed.last_coord_seen = me.last_coord_seen
             /\ noticed.auto_saw_lower_mac = me.auto_saw_lower_mac
             /\ me.seen_election_term = 1 => noticed.auto_seen_result = me.auto_seen_result
             /\ noticed.last_result = me.last_result
             /\ noticed.auto_winner_mac = me.auto_winner_mac
  BY NoticeType DEF Notice, NodeStates

LEMMA HandledFollows ==
  ASSUME NEW c \in Nodes, NEW n \in Nodes \ {c}, NEW me \in NodeStates, NEW frame \in Frames,
         Follows(c, n, me),
         frame.cmd = "ELECTION_RESULT" => frame = Claim(c),
         frame.cmd = "ELECTION" => frame.term = 1,
         frame.cmd = "ASSIGN" /\ frame.mac = n => me.state \in {"JOINING", "CONNECTED"}
  PROVE  LET h == Handled(n, me, frame)
         IN  /\ h \in NodeStates /\ Follows(c, n, h)
             /\ h.state = me.state /\ h.state_enter = me.state_enter
             /\ h.last_coord_seen = me.last_coord_seen
             /\ h.state = "ELECTION" => /\ MustYield(me) => MustYield(h)
                                        /\ frame.cmd = "ELECTION_RESULT" => MustYield(h)
<1> DEFINE h == Handled(n, me, frame)
<1>1. h \in NodeStates
  BY HandledType
<1>2. n \in Nat /\ c \in Nat /\ me.seen_election_term \in Nat
  BY NodesAssumption, ElectionBoundsAssumption DEF NodeStates, Terms
<1>3. CASE frame.cmd = "ELECTION"
  <2> DEFINE noticed == Notice(me, 1)
  <2>1. \/ h = me
        \/ h = noticed
        \/ h = [noticed EXCEPT !.auto_saw_lower_mac = TRUE, !.auto_winner_mac = frame.mac]
    BY <1>3 DEF Handled, OnElection
  <2>2. /\ noticed \in NodeStates /\ noticed.seen_election_term = 1
        /\ noticed.role = me.role /\ noticed.disc_role = me.disc_role
        /\ noticed.disc_id = me.disc_id /\ noticed.state = me.state
        /\ noticed.election_term = me.election_term
        /\ noticed.state_enter = me.state_enter
        /\ noticed.last_coord_seen = me.last_coord_seen
        /\ noticed.auto_saw_lower_mac = me.auto_saw_lower_mac
        /\ me.seen_election_term = 1 => noticed.auto_seen_result = me.auto_seen_result
    BY <1>3, FrameFields, NoticeKeeps
  <2> HIDE DEF noticed
  <2>3. Follows(c, n, noticed)
    BY <2>2 DEF Follows
  <2>4. CASE h = me
    BY <1>1, <1>3, <2>4
  <2>5. CASE h = noticed
    BY <1>1, <1>3, <2>2, <2>3, <2>5 DEF Follows, MustYield
  <2>6. CASE h = [noticed EXCEPT !.auto_saw_lower_mac = TRUE, !.auto_winner_mac = frame.mac]
    BY <1>1, <1>3, <2>2, <2>3, <2>6 DEF Follows, MustYield, NodeStates
  <2> QED
    BY <2>1, <2>4, <2>5, <2>6
<1>4. CASE frame.cmd = "ELECTION_RESULT"
  <2> DEFINE told    == Notice(me, 1)
             noticed == [told EXCEPT !.auto_seen_result = TRUE, !.auto_winner_mac = c]
  <2>1. frame.term = 1 /\ frame.mac = c
    BY <1>4 DEF Claim, Result
  <2>2. 1 >= me.seen_election_term
    BY <1>2 DEF Follows
  <2>3. /\ c < n => h = [noticed EXCEPT !.disc_role = "ROUTER", !.disc_id = "OWN"]
        /\ ~ (c < n) => h = noticed
    BY <1>2, <1>4, <2>1, <2>2 DEF Handled, OnResult
  <2>4. /\ told \in NodeStates /\ told.seen_election_term = 1
        /\ told.role = me.role /\ told.disc_role = me.disc_role
        /\ told.disc_id = me.disc_id /\ told.state = me.state
        /\ told.election_term = me.election_term
        /\ told.state_enter = me.state_enter
        /\ told.last_coord_seen = me.last_coord_seen
    BY <1>4, <2>1, FrameFields, NoticeKeeps
  <2> HIDE DEF told
  <2>5. /\ noticed \in NodeStates /\ noticed.seen_election_term = 1
        /\ noticed.role = me.role /\ noticed.disc_role = me.disc_role
        /\ noticed.disc_id = me.disc_id /\ noticed.state = me.state
        /\ noticed.election_term = me.election_term
        /\ noticed.state_enter = me.state_enter
        /\ noticed.last_coord_seen = me.last_coord_seen
        /\ noticed.auto_seen_result = TRUE
    BY <2>4 DEF NodeStates
  <2> HIDE DEF noticed
  <2>6. CASE c < n
    <3> DEFINE next == [noticed EXCEPT !.disc_role = "ROUTER", !.disc_id = "OWN"]
    <3>1. /\ next.seen_election_term = 1 /\ next.role = me.role /\ next.disc_role = "ROUTER"
          /\ next.disc_id = "OWN" /\ next.state = me.state
          /\ next.election_term = me.election_term /\ next.state_enter = me.state_enter
          /\ next.last_coord_seen = me.last_coord_seen /\ next.auto_seen_result = TRUE
      BY <2>5 DEF NodeStates
    <3>2. h = next
      BY <2>3, <2>6
    <3> HIDE DEF next
    <3> QED
      BY <1>1, <1>4, <2>6, <3>1, <3>2 DEF Follows, MustYield
  <2>7. CASE ~ (c < n)
    BY <1>1, <1>4, <2>3, <2>5, <2>7 DEF Follows, MustYield
  <2> QED
    BY <2>6, <2>7
<1>5. CASE frame.cmd = "ASSIGN"
  <2>1. h = me \/ (h = [me EXCEPT !.disc_id = "OWN"] /\ frame.mac = n)
    BY <1>5 DEF Handled, OnAssign
  <2> QED
    BY <1>1, <1>5, <2>1 DEF Follows, MustYield, NodeStates
<1>6. CASE frame.cmd = "ROUTE_UPDATE"
  <2>1. h = OnRouteUpdate(me, frame)
    BY <1>6 DEF Handled
  <2> QED
    BY <1>1, <1>6, <2>1 DEF OnRouteUpdate, Follows, MustYield, NodeStates
<1>7. CASE frame.cmd = "JOIN"
  <2>1. h = me
    BY <1>7 DEF Handled
  <2> QED
    BY <1>1, <1>7, <2>1
<1> QED
  BY <1>3, <1>4, <1>5, <1>6, <1>7, FrameFields

LEMMA HeardFollows ==
  ASSUME TypeOK, NEW c \in Nodes, Led(c), NEW n \in Nodes \ {c}, NEW sent \in air
  PROVE  LET h == Heard(n, sent[2])
         IN  /\ Follows(c, n, h)
             /\ h.state = node[n].state \/ (node[n].state = "JOINING" /\ h.state = "CONNECTED")
             /\ h.state = "ELECTION" =>
                  /\ h.state_enter = node[n].state_enter
                  /\ MustYield(node[n]) => MustYield(h)
                  /\ sent[2].cmd = "ELECTION_RESULT" => MustYield(h)
             /\ h.state = "CONNECTED" =>
                  \/ h.last_coord_seen = 0
                  \/ /\ node[n].state = "CONNECTED"
                     /\ h.last_coord_seen = node[n].last_coord_seen
                     /\ sent[2].cmd # "ELECTION_RESULT"
<1> DEFINE frame == sent[2]
           heard == IF frame.src = "COORDINATOR"
                    THEN [node[n] EXCEPT !.last_coord_seen = 0] ELSE node[n]
           me    == Handled(n, heard, frame)
           h     == Heard(n, frame)
<1>1. /\ node[n] \in NodeStates /\ frame \in Frames /\ Fits(c, sent) /\ Follows(c, n, node[n])
      /\ sent = <<sent[1], sent[2]>>
  BY DEF TypeOK, Led
<1>2. /\ heard \in NodeStates
      /\ heard.role = node[n].role /\ heard.disc_role = node[n].disc_role
      /\ heard.disc_id = node[n].disc_id /\ heard.state = node[n].state
      /\ heard.election_term = node[n].election_term
      /\ heard.seen_election_term = node[n].seen_election_term
      /\ heard.auto_saw_lower_mac = node[n].auto_saw_lower_mac
      /\ heard.auto_seen_result = node[n].auto_seen_result
      /\ heard.state_enter = node[n].state_enter
      /\ heard.last_coord_seen = IF frame.src = "COORDINATOR" THEN 0 ELSE node[n].last_coord_seen
  BY <1>1, Ranges DEF NodeStates
<1>3. h = IF me.state = "JOINING" /\ me.disc_id # "UNASSIGNED"
          THEN [Connected(me) EXCEPT !.role = me.disc_role] ELSE me
  BY DEF Heard
<1>4. /\ frame.cmd = "ELECTION_RESULT" => frame = Claim(c) /\ frame.src = "COORDINATOR"
      /\ frame.cmd = "ELECTION" => frame.term = 1
      /\ frame.cmd = "ASSIGN" /\ frame.mac = n => node[n].state \in {"JOINING", "CONNECTED"}
  BY <1>1 DEF Fits, Asked, Claim, Result
<1> HIDE DEF heard, h, frame
<1>5. Follows(c, n, heard) /\ MustYield(heard) = MustYield(node[n])
  BY <1>1, <1>2 DEF Follows, MustYield
<1>6. /\ me \in NodeStates /\ Follows(c, n, me)
      /\ me.state = heard.state /\ me.state_enter = heard.state_enter
      /\ me.last_coord_seen = heard.last_coord_seen
      /\ me.state = "ELECTION" => /\ MustYield(heard) => MustYield(me)
                                  /\ frame.cmd = "ELECTION_RESULT" => MustYield(me)
  BY <1>1, <1>2, <1>4, <1>5, HandledFollows
<1> HIDE DEF me
<1>7. CASE me.state = "JOINING" /\ me.disc_id # "UNASSIGNED"
  <2>1. /\ h.state = "CONNECTED" /\ h.role = me.disc_role /\ h.disc_role = me.disc_role
        /\ h.disc_id = me.disc_id /\ h.seen_election_term = me.seen_election_term
        /\ h.last_coord_seen = 0
    BY <1>3, <1>6, <1>7 DEF Connected, NodeStates
  <2>2. Follows(c, n, h)
    BY <1>6, <2>1 DEF Follows
  <2> QED
    BY <1>2, <1>6, <1>7, <2>1, <2>2 DEF h, frame
<1>8. CASE ~ (me.state = "JOINING" /\ me.disc_id # "UNASSIGNED")
  <2>1. h = me
    BY <1>3, <1>8
  <2> QED
    BY <1>2, <1>4, <1>5, <1>6, <2>1 DEF h, frame
<1> QED
  BY <1>7, <1>8

LEMMA HeardLeads ==
  ASSUME TypeOK, NEW c \in Nodes, Led(c), NEW sent \in air, sent[1] # c
  PROVE  Leads(c, Heard(c, sent[2])) /\ Heard(c, sent[2]).last_result = node[c].last_result
<1> DEFINE frame == sent[2]
           heard == IF frame.src = "COORDINATOR"
                    THEN [node[c] EXCEPT !.last_coord_seen = 0] ELSE node[c]
           me    == Handled(c, heard, frame)
<1>1. /\ node[c] \in NodeStates /\ frame \in Frames /\ Fits(c, sent) /\ Leads(c, node[c])
      /\ c \in Nat
  BY LeaderFacts DEF TypeOK, Led
<1>2. /\ heard \in NodeStates /\ Leads(c, heard) /\ heard.last_result = node[c].last_result
  BY <1>1, Ranges DEF Leads, NodeStates
<1>3. /\ frame.cmd # "ELECTION_RESULT"
      /\ frame.cmd = "ELECTION" => frame.term = 1 /\ ~ (frame.mac < c)
  <2>1. frame.cmd = "ELECTION" => frame.mac \in Nat
    BY <1>1, FrameFields, NodesAssumption
  <2> QED
    BY <1>1, <2>1 DEF Fits
<1>4. Heard(c, frame) = IF me.state = "JOINING" /\ me.disc_id # "UNASSIGNED"
                        THEN [Connected(me) EXCEPT !.role = me.disc_role] ELSE me
  BY DEF Heard
<1> HIDE DEF heard, frame
<1>5. Leads(c, me) /\ me.last_result = heard.last_result
  <2>1. CASE frame.cmd = "ELECTION"
    <3>1. me = Notice(heard, 1)
      BY <1>2, <1>3, <2>1 DEF Handled, OnElection, Leads
    <3> QED
      BY <1>2, <3>1 DEF Notice, Leads, NodeStates
  <2>2. CASE frame.cmd = "ASSIGN"
    BY <1>2, <2>2 DEF Handled, OnAssign, Leads
  <2>3. CASE frame.cmd = "ROUTE_UPDATE"
    <3>1. me = OnRouteUpdate(heard, frame)
      BY <2>3 DEF Handled
    <3> QED
      BY <1>2, <3>1 DEF OnRouteUpdate, Leads, NodeStates
  <2>4. CASE frame.cmd = "JOIN"
    BY <1>2, <2>4 DEF Handled
  <2> QED
    BY <1>1, <1>3, <2>1, <2>2, <2>3, <2>4, FrameFields
<1> HIDE DEF me
<1>6. Heard(c, frame) = me
  BY <1>4, <1>5 DEF Leads
<1> QED
  BY <1>2, <1>5, <1>6 DEF frame

(* Nothing is lost in peace.                                               *)
LEMMA NothingMissed ==
  ASSUME TypeOK, NEW sent \in air, NEW missed \in SUBSET (On \ {sent[1]}),
         Over(sent, missed), Undisturbed'
  PROVE  missed = {} /\ losses' = losses /\ Undisturbed
<1>1. /\ losses' = losses + Cardinality(missed)
      /\ crashes' = crashes /\ triggers' = triggers
  BY DEF Over
<1>2. IsFiniteSet(missed) /\ Cardinality(missed) \in Nat
  <2>1. missed \subseteq Nodes
    BY DEF On
  <2> QED
    BY <2>1, NodesAssumption, FS_Subset, FS_CardinalityType
<1>3. {losses, crashes, triggers} \subseteq Nat
  BY ElectionBoundsAssumption DEF TypeOK
<1>4. losses' + crashes' + triggers' = 0
  BY DEF Undisturbed, Troubles
<1>5. Cardinality(missed) = 0 /\ losses' = losses /\ losses + crashes + triggers = 0
  BY <1>1, <1>2, <1>3, <1>4
<1> QED
  BY <1>2, <1>5, FS_EmptySet DEF Undisturbed, Troubles

LEMMA LeaderReceive ==
  ASSUME TypeOK, NEW c \in Nodes, Led(c), NEW sent \in air, Over(sent, {})
  PROVE  Led(c)'
<1> DEFINE frame == sent[2]
           receivers == On \ {sent[1]}
<1>1. PICK lucky \in SUBSET Answering(receivers, frame) :
        /\ node' = [n \in Nodes |-> IF n \in receivers THEN Heard(n, frame) ELSE node[n]]
        /\ air' = (air \ {sent}) \cup UNION {InTheAir(n, Answers(n, frame)) : n \in lucky}
        /\ ticked' = ticked
  <2>1. On \ ({} \cup {sent[1]}) = receivers
    OBVIOUS
  <2> QED
    BY <2>1 DEF Over
<1>2. /\ Fits(c, sent) /\ frame \in Frames /\ c \in On /\ node \in [Nodes -> NodeStates]
      /\ sent = <<sent[1], sent[2]>>
  BY LeaderFacts DEF Led, TypeOK
<1>3. Leads(c, node'[c]) /\ node'[c].last_result = node[c].last_result
  <2>1. CASE sent[1] = c
    <3>1. node'[c] = node[c]
      BY <1>1, <2>1
    <3> QED
      BY <3>1, LeaderFacts
  <2>2. CASE sent[1] # c
    <3>1. node'[c] = Heard(c, frame)
      BY <1>1, <1>2, <2>2
    <3> QED
      BY <2>2, <3>1, HeardLeads
  <2> QED
    BY <2>1, <2>2
<1>4. \A k \in Nodes : k \in receivers => node'[k] = Heard(k, frame)
  BY <1>1
<1>5. \A k \in Nodes : k \notin receivers => node'[k] = node[k]
  BY <1>1
<1>6. \A k \in Nodes \ {c} : Asked(k) => Asked(k)'
  <2> TAKE k \in Nodes \ {c}
  <2>1. CASE k \in receivers
    BY <1>4, <2>1, HeardFollows DEF Asked
  <2>2. CASE k \notin receivers
    BY <1>5, <2>2 DEF Asked
  <2> QED
    BY <2>1, <2>2
<1>7. ASSUME NEW s \in air', s \notin air
      PROVE  frame.cmd = "JOIN" /\ s[2].cmd = "ASSIGN" /\ s[2].mac = frame.mac
  <2>1. PICK n \in lucky : s \in InTheAir(n, Answers(n, frame))
    BY <1>1, <1>7
  <2> QED
    BY <2>1 DEF InTheAir, Answers, Assign, Answering
<1>8. Claiming(c)' <=> Claiming(c) /\ sent # <<c, Claim(c)>>
  <2>1. <<c, Claim(c)>>[2].cmd = "ELECTION_RESULT"
    BY DEF Claim, Result
  <2>2. Claiming(c)' => Claiming(c)
    BY <1>7, <2>1 DEF Claiming
  <2>3. ASSUME sent = <<c, Claim(c)>> PROVE ~ Claiming(c)'
    <3>1. frame.cmd # "JOIN"
      BY <2>1, <2>3
    <3>2. lucky = {}
      BY <3>1 DEF Answering
    <3>3. air' = air \ {sent}
      BY <1>1, <3>2
    <3> QED
      BY <2>3, <3>3 DEF Claiming
  <2>4. Claiming(c) /\ sent # <<c, Claim(c)>> => Claiming(c)'
    BY <1>1 DEF Claiming
  <2> QED
    BY <2>2, <2>3, <2>4
<1>9. \A k : Turn(k)' = Turn(k)
  BY <1>1 DEF Turn
<1>10. ASSUME NEW k \in Nodes \ {c}
       PROVE  Follows(c, k, node'[k]) /\ ElectsInTime(c, k)' /\ HearsInTime(c, k)'
  <2>1. Follows(c, k, node[k]) /\ ElectsInTime(c, k) /\ HearsInTime(c, k)
    BY DEF Led
  <2>2. CASE k \in receivers
    <3> DEFINE h == Heard(k, frame)
    <3>1. /\ Follows(c, k, h)
          /\ h.state = node[k].state \/ (node[k].state = "JOINING" /\ h.state = "CONNECTED")
          /\ h.state = "ELECTION" =>
               /\ h.state_enter = node[k].state_enter
               /\ MustYield(node[k]) => MustYield(h)
               /\ frame.cmd = "ELECTION_RESULT" => MustYield(h)
          /\ h.state = "CONNECTED" =>
               \/ h.last_coord_seen = 0
               \/ /\ node[k].state = "CONNECTED"
                  /\ h.last_coord_seen = node[k].last_coord_seen
                  /\ frame.cmd # "ELECTION_RESULT"
      BY HeardFollows
    <3>2. node'[k] = h
      BY <1>4, <2>2
    <3> HIDE DEF h
    <3>3. sent = <<c, Claim(c)>> => frame.cmd = "ELECTION_RESULT"
      BY DEF Claim, Result
    <3>4. ElectsInTime(c, k)'
      <4> SUFFICES ASSUME h.state = "ELECTION", ~ MustYield(h), ~ Claiming(c)'
                   PROVE  h.state_enter + Turn(c) <= node[c].last_result + Turn(k)
        BY <1>3, <1>9, <3>2 DEF ElectsInTime
      <4>1. node[k].state = "ELECTION" /\ ~ MustYield(node[k]) /\ ~ Claiming(c)
        BY <1>8, <3>1, <3>3
      <4> QED
        BY <2>1, <3>1, <4>1 DEF ElectsInTime
    <3>5. HearsInTime(c, k)'
      <4> SUFFICES ASSUME h.state = "CONNECTED" PROVE HearsInTime(c, k)'
        BY <3>2 DEF HearsInTime
      <4>1. CASE h.last_coord_seen = 0
        <5>1. 0 <= AnnounceTime + 1 /\ 0 <= AnnounceTime
          BY AgeFacts
        <5>2. 0 + Turn(c) <= node[c].last_result + 1 + Turn(k)
          BY LeaderFacts, TurnFacts
        <5> QED
          BY <1>3, <1>9, <3>2, <4>1, <5>1, <5>2 DEF HearsInTime
      <4>2. CASE /\ node[k].state = "CONNECTED"
                 /\ h.last_coord_seen = node[k].last_coord_seen
                 /\ frame.cmd # "ELECTION_RESULT"
        BY <1>1, <1>3, <1>8, <1>9, <2>1, <3>2, <3>3, <4>2 DEF HearsInTime
      <4> QED
        BY <3>1, <4>1, <4>2
    <3> QED
      BY <3>1, <3>2, <3>4, <3>5
  <2>3. CASE k \notin receivers
    <3>1. node'[k] = node[k]
      BY <1>5, <2>3
    <3>2. k = sent[1] => (Claiming(c)' <=> Claiming(c))
      <4>1. k = sent[1] => sent # <<c, Claim(c)>>
        OBVIOUS
      <4> QED
        BY <1>8, <4>1
    <3>3. k # sent[1] => node[k].state = "OFF"
      BY <2>3 DEF On
    <3> QED
      BY <1>1, <1>3, <1>9, <2>1, <3>1, <3>2, <3>3 DEF ElectsInTime, HearsInTime
  <2> QED
    BY <2>2, <2>3
<1>11. ASSUME NEW s \in air' PROVE Fits(c, s)'
  <2>1. CASE s \in air
    <3>1. Fits(c, s) /\ s[2] \in Frames
      BY <2>1 DEF Led, TypeOK
    <3>2. s[2].cmd \in {"ASSIGN", "JOIN"} => s[2].mac \in Nodes
      BY <3>1, FrameFields
    <3> QED
      BY <1>6, <3>1, <3>2 DEF Fits
  <2>2. CASE s \notin air
    <3>1. frame.cmd = "JOIN" /\ s[2].cmd = "ASSIGN" /\ s[2].mac = frame.mac
      BY <1>7, <2>2
    <3>2. frame.mac \in Nodes \ {c} /\ Asked(frame.mac)
      BY <1>2, <3>1, FrameFields DEF Fits
    <3> QED
      BY <1>6, <3>1, <3>2 DEF Fits
  <2> QED
    BY <2>1, <2>2
<1> QED
  BY <1>3, <1>10, <1>11 DEF Led

-----------------------------------------------------------------------------
(* The invariant, and what follows from it.                                *)

LEMMA BootKeeps ==
  ASSUME TypeOK, NEW n \in Nodes, Boot(n)
  PROVE  /\ Leaderless => Leaderless'
         /\ \A c \in Nodes : Led(c) => Led(c)'
<1>1. /\ node[n].state = "OFF" /\ node \in [Nodes -> NodeStates]
      /\ node' = [node EXCEPT ![n] = Fresh] /\ air' = air /\ ticked' = ticked
  BY DEF Boot, TypeOK
<1>2. node'[n] = Fresh /\ \A k \in Nodes \ {n} : node'[k] = node[k]
  BY <1>1
<1>3. Leaderless => Leaderless'
  <2>1. Waiting(Fresh)
    BY DEF Waiting, Fresh, MustYield
  <2> QED
    BY <1>1, <1>2, <2>1 DEF Leaderless
<1>4. ASSUME NEW c \in Nodes, Led(c) PROVE Led(c)'
  <2>1. c # n
    BY <1>1, <1>4 DEF Led, Leads
  <2>2. /\ Leads(c, node'[c]) /\ node'[c] = node[c]
        /\ Claiming(c)' = Claiming(c) /\ \A k : Turn(k)' = Turn(k)
    BY <1>1, <1>2, <1>4, <2>1 DEF Led, Claiming, Turn
  <2>3. Follows(c, n, Fresh) /\ Fresh.state = "SCANNING"
    BY DEF Follows, Fresh
  <2>4. ASSUME NEW k \in Nodes \ {c}
        PROVE  Follows(c, k, node'[k]) /\ ElectsInTime(c, k)' /\ HearsInTime(c, k)'
    <3>1. Follows(c, k, node[k]) /\ ElectsInTime(c, k) /\ HearsInTime(c, k)
      BY <1>4 DEF Led
    <3>2. CASE k = n
      BY <1>2, <2>3, <3>2 DEF ElectsInTime, HearsInTime
    <3>3. CASE k # n
      BY <1>1, <1>2, <2>2, <3>1, <3>3 DEF ElectsInTime, HearsInTime
    <3> QED
      BY <3>2, <3>3
  <2>5. ASSUME NEW s \in air' PROVE Fits(c, s)'
    <3>1. Fits(c, s) /\ s[2] \in Frames
      BY <1>1, <1>4 DEF Led, TypeOK
    <3>2. s[2].cmd \in {"ASSIGN", "JOIN"} => s[2].mac \in Nodes
      BY <3>1, FrameFields
    <3>3. \A k \in Nodes : Asked(k) => Asked(k)'
      BY <1>1, <1>2 DEF Asked
    <3> QED
      BY <3>1, <3>2, <3>3 DEF Fits
  <2> QED
    BY <2>2, <2>4, <2>5 DEF Led
<1> QED
  BY <1>3, <1>4

LEMMA TickKeeps ==
  ASSUME TypeOK, NEW n \in Nodes, Tick(n), Timely, LeaderInv
  PROVE  /\ Peaceful' => Peaceful
         /\ LeaderInv'
         /\ \A c \in Nodes : Led(c) /\ Peaceful' => Led(c)'
<1>1. PICK me \in NodeStates, frames \in SUBSET Frames : Ticked(n, me, frames)
  BY TickShape
<1>2. Undisturbed' = Undisturbed
  BY <1>1 DEF Ticked, Undisturbed, Troubles
<1>3. clash => clash'
  BY DEF Tick, FindCoordinator, CallElection, Yield, Promote, WaitOn, AskOn, StartOver, StepDown,
         CarryOn, Ticks
<1>4. Peaceful' => Peaceful
  BY <1>2, <1>3 DEF Peaceful
<1>5. ASSUME NEW c \in Nodes, Led(c), Peaceful' PROVE Led(c)'
  <2>1. CASE n = c
    BY <1>5, <2>1, LeaderTick
  <2>2. CASE n # c
    <3>1. n \in On /\ n \notin ticked /\ (ticked = {} => air = {})
      BY DEF Tick, FindCoordinator, CallElection, Yield, Promote, WaitOn, AskOn, StartOver, StepDown,
             CarryOn, MayTick, On
    <3>2. ~ clash'
      BY <1>5 DEF Peaceful
    <3>3. FineTick(c, n)
      BY <1>5, <2>2, <3>2, FollowerTick
    <3> QED
      BY <1>5, <2>2, <3>1, <3>3, FollowerTickLed
  <2> QED
    BY <2>1, <2>2
<1>6. LeaderInv'
  <2> SUFFICES ASSUME Peaceful' PROVE Leaderless' \/ \E c \in Nodes : Led(c)'
    BY DEF LeaderInv
  <2>1. Leaderless \/ \E c \in Nodes : Led(c)
    BY <1>4 DEF LeaderInv
  <2> QED
    BY <1>5, <2>1, LeaderlessTick
<1> QED
  BY <1>4, <1>5, <1>6

(* Every step: peace is not made again, and a leader is kept.              *)
LEMMA LeaderStep ==
  ASSUME TypeOK, LeaderInv, Timely, [Next]_vars
  PROVE  /\ Peaceful' => Peaceful
         /\ LeaderInv'
         /\ \A c \in Nodes : Led(c) /\ Peaceful' => Led(c)'
<1> DEFINE Goal == /\ Peaceful' => Peaceful
                   /\ LeaderInv'
                   /\ \A c \in Nodes : Led(c) /\ Peaceful' => Led(c)'
<1>1. ASSUME NEW n \in Nodes, Tick(n) PROVE Goal
  BY <1>1, TickKeeps
<1>2. ASSUME NEW n \in Nodes, Boot(n) PROVE Goal
  <2>1. Peaceful' = Peaceful
    BY <1>2 DEF Boot, Peaceful, Undisturbed, Troubles
  <2> QED
    BY <1>2, <2>1, BootKeeps DEF LeaderInv
<1>3. ASSUME NEW n \in Nodes, Crash(n) \/ Trigger(n) PROVE Goal
  <2>1. {losses, crashes, triggers} \subseteq Nat
    BY ElectionBoundsAssumption DEF TypeOK
  <2>2. losses' + crashes' + triggers' = losses + crashes + triggers + 1
    BY <1>3, <2>1 DEF Crash, Trigger
  <2>3. ~ Undisturbed'
    BY <2>1, <2>2 DEF Undisturbed, Troubles
  <2> QED
    BY <2>3 DEF Peaceful, LeaderInv
<1>4. CASE Receive
  <2>1. PICK sent \in air : \E missed \in SUBSET (On \ {sent[1]}) : Over(sent, missed)
    BY <1>4 DEF Receive
  <2>2. PICK missed \in SUBSET (On \ {sent[1]}) : Over(sent, missed)
    BY <2>1
  <2>3. Peaceful' => missed = {} /\ Peaceful
    <3>1. clash' = clash
      BY <2>2 DEF Over
    <3> QED
      BY <2>2, <3>1, NothingMissed DEF Peaceful
  <2>4. ASSUME NEW c \in Nodes, Led(c), Peaceful' PROVE Led(c)'
    BY <2>2, <2>3, <2>4, LeaderReceive
  <2>5. ~ Leaderless
    BY DEF Leaderless
  <2> QED
    BY <2>3, <2>4, <2>5 DEF LeaderInv
<1>5. CASE UNCHANGED vars
  <2>1. Peaceful' = Peaceful /\ Leaderless' = Leaderless
    BY <1>5 DEF vars, Peaceful, Undisturbed, Troubles, Leaderless
  <2>2. \A c : Led(c)' = Led(c)
    BY <1>5 DEF vars, Led, ElectsInTime, HearsInTime, Claiming, Turn, Fits, Asked
  <2> QED
    BY <2>1, <2>2 DEF LeaderInv
<1> QED
  BY <1>1, <1>2, <1>3, <1>4, <1>5 DEF Next

LEMMA LeaderInit == Init => LeaderInv
<1> SUFFICES ASSUME Init PROVE Leaderless
  BY DEF LeaderInv
<1>1. Waiting(Off)
  BY DEF Waiting, Off, Fresh, MustYield
<1> QED
  BY <1>1 DEF Init, Leaderless

LEMMA WhoLeads ==
  ASSUME TypeOK, LeaderInv, Peaceful
  PROVE  Coordinators = {} \/ \E c \in Nodes : Led(c) /\ Coordinators = {c}
<1>1. CASE Leaderless
  BY <1>1 DEF Leaderless, Waiting, Coordinators, On
<1>2. ASSUME NEW c \in Nodes, Led(c) PROVE Coordinators = {c}
  BY <1>2 DEF Led, Leads, Follows, Coordinators, On
<1> QED
  BY <1>1, <1>2 DEF LeaderInv

(* A network in peace has no leader yet, or exactly one, whom all others   *)
(* follow and hear in time.                                                *)
THEOREM LeaderInvariance ==
  ASSUME Timely
  PROVE  Spec => [](TypeOK /\ LeaderInv)
<1>1. Init => TypeOK /\ LeaderInv
  BY InitType, LeaderInit
<1>2. TypeOK /\ LeaderInv /\ [Next]_vars => TypeOK' /\ LeaderInv'
  BY TypeStep, LeaderStep
<1> QED
  BY <1>1, <1>2, PTL DEF Spec

(* Nodes that hear each other have two coordinators in net.role only after *)
(* one promoted itself before it could hear the claim of another.          *)
THEOREM CoordinatorIsOne ==
  ASSUME Timely
  PROVE  Spec => []OneCoordinator
<1>1. TypeOK /\ LeaderInv => OneCoordinator
  <2> SUFFICES ASSUME TypeOK, LeaderInv, Peaceful PROVE Cardinality(Coordinators) <= 1
    BY DEF OneCoordinator, Peaceful
  <2> QED
    BY WhoLeads, FS_EmptySet, FS_Singleton
<1> QED
  BY <1>1, LeaderInvariance, PTL

(* Until something goes wrong no step of net_tick or on_mac_rx takes the   *)
(* role from the node that has it.                                         *)
THEOREM CoordinatorStays ==
  ASSUME Timely
  PROVE  Spec => KeepsCoordinator
<1>1. TypeOK /\ LeaderInv /\ [Next]_vars =>
        [Undisturbed' /\ ~ clash' => Coordinators \subseteq Coordinators']_vars
  <2> SUFFICES ASSUME TypeOK, LeaderInv, [Next]_vars, Undisturbed', ~ clash'
               PROVE  Coordinators \subseteq Coordinators'
    OBVIOUS
  <2>1. Peaceful' /\ Peaceful
    BY LeaderStep DEF Peaceful
  <2>2. ASSUME NEW c \in Nodes, Led(c) PROVE c \in Coordinators'
    <3>1. Led(c)'
      BY <2>1, <2>2, LeaderStep
    <3> QED
      BY <3>1 DEF Led, Leads, Coordinators, On
  <2> QED
    BY <2>1, <2>2, WhoLeads
<1> QED
  BY <1>1, LeaderInvariance, PTL DEF Spec, KeepsCoordinator

=============================================================================
