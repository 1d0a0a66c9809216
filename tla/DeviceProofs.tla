---------------------------- MODULE DeviceProofs ----------------------------
(***************************************************************************)
(* What holds of the life of a node for every set of configurations, ids,  *)
(* profiles and steps of the clock, and any number of calls: the copies of *)
(* its id agree, a join can end, a node that was stopped stays out, each   *)
(* id is announced, and the bookkeeping of power.c is right.               *)
(*                                                                         *)
(* None of these is inductive.  The invariant adds what relates the fields *)
(* of the three layers between two calls: a role and an id that fit        *)
(* (RoleFits), where an id comes from (IdFits), the joined flag and the id *)
(* (JoinedWithId), the states that have no id (NoIdYet), the id that was   *)
(* seen last (LastSeen), what umesh_stop leaves after each of its          *)
(* assignments (Out), and a configured id (SetUp).                         *)
(***************************************************************************)
EXTENDS Device, FiniteSetTheorems, TLAPS

-----------------------------------------------------------------------------
(* The invariant.                                                          *)

(* A node that is initialised has ids everywhere, if only UNASSIGNED.      *)
Given ==
  /\ ready => macId # 0
  /\ macId # 0 => net.id # 0 /\ disc.id # 0
  /\ at = "tick" => ready
  /\ at \in {"stop", "reset"} <=> left > 0

(* The coordinator's id goes with the coordinator's role, unless another   *)
(* node was configured with it; the role of an AUTO node is never END_     *)
(* NODE, and that of any other node its configured one.                    *)
RoleFits ==
  /\ disc.id = Coordinator =>
       \/ disc.role = "COORDINATOR"
       \/ net.cfg # "AUTO" /\ net.id = Coordinator /\ ~ disc.token /\ left < 2
  /\ disc.role = "COORDINATOR" => disc.id \in {0, Coordinator, Unassigned}
  /\ net.cfg = "AUTO" => disc.role # "END_NODE"
  /\ net.cfg # "AUTO" =>
       overruled \/ (disc.role = net.cfg /\ net.role = net.cfg)
  /\ net.state = "JOINING" => overruled \/ disc.role # "COORDINATOR"
  /\ net.cfg = "AUTO" /\ net.state = "CONNECTED" /\ net.role = "COORDINATOR"
       => net.id = Coordinator

(* discovery has an id that it was given, or the configured one that net.c *)
(* has too, ...                                                            *)
IdFits ==
  \/ disc.id \in Assignable \cup {0, Coordinator, Unassigned}
  \/ net.cfg # "AUTO" /\ net.id # Unassigned /\ left < 2

(* ... and discovery.joined says that it has one.                          *)
JoinedWithId ==
  /\ disc.id \notin {0, Coordinator, Unassigned} => disc.joined \/ left = 1
  /\ disc.joined => overruled \/ cutIn \/ disc.id # Unassigned

(* A node that looks for a network, or has left one, has no id in net.c;   *)
(* an AUTO node may still have its configured one.                         *)
NoIdYet ==
  /\ net.state \in {"SCANNING", "ELECTION", "JOINING"} /\ net.cfg = "AUTO"
       => net.id \notin Assignable
  /\ net.state \in {"ELECTION", "JOINING"} /\ net.cfg # "AUTO" => net.id = Unassigned
  /\ net.state = "DISCONNECTED" => net.id = Unassigned \/ left = 4
  /\ left = 4 => net.state = "DISCONNECTED"

(* Between two calls notify_state_changes has not seen the id that such a  *)
(* node, or a coordinator that is deposed, will be given next, and has not *)
(* seen one it has yet to tell.                                            *)
Excused == raced \/ unsent

LastSeen ==
  at = "idle" =>
    /\ net.state \in {"ELECTION", "JOINING"} => lastId \notin Assignable \/ Excused
    /\ net.cfg = "AUTO" /\ net.state = "CONNECTED" /\ net.role = "COORDINATOR"
         => lastId \notin Assignable \/ Excused

StillUntold ==
  left = 0 /\ unheard /\ net.id # Unassigned =>
    Excused \/ net.id = Coordinator \/ lastId # net.id

(* What umesh_stop has cleared remains clear.                              *)
Out ==
  /\ left > 0 =>
       \/ overruled \/ cutIn
       \/ /\ ~ disc.joined
          /\ left > 1 => disc.id = Unassigned
          /\ left > 2 => ~ disc.token
  /\ left = 0 /\ net.state = "DISCONNECTED" =>
       \/ overruled \/ cutIn
       \/ disc.id = Unassigned /\ ~ disc.joined /\ ~ disc.token

(* A node that is given its id by its configuration has it in both layers. *)
SetUp ==
  /\ left = 0 /\ net.cfg # "AUTO"
  /\ net.role # "COORDINATOR" /\ net.id \notin {0, Unassigned}
  => overruled \/ cutIn \/ disc.id = net.id

(* The fields of the node, without the power part.                         *)
NetRecords == [state : NetStates, cfg : Roles \cup {"AUTO"}, role : Roles, id : Ids \cup {0}]
DiscRecords ==
  [role : Roles, id : Ids \cup {0}, joined : BOOLEAN, token : BOOLEAN,
   coord : BOOLEAN, lower : BOOLEAN, result : BOOLEAN]

NodeTypes ==
  /\ ready \in BOOLEAN /\ macId \in Ids \cup {0}
  /\ net \in NetRecords /\ disc \in DiscRecords
  /\ lastId \in Ids
  /\ at \in {"idle", "tick", "stop", "reset"} /\ left \in 0..4 /\ calls \in 0..MaxCalls
  /\ unheard \in BOOLEAN /\ raced \in BOOLEAN /\ cutIn \in BOOLEAN
  /\ unsent \in BOOLEAN /\ overruled \in BOOLEAN

NodeInv ==
  /\ NodeTypes
  /\ Given
  /\ RoleFits
  /\ IdFits
  /\ JoinedWithId
  /\ NoIdYet
  /\ LastSeen
  /\ StillUntold
  /\ Out
  /\ SetUp
  /\ OneIdentity
  /\ JoiningCanFinish

-----------------------------------------------------------------------------
(* The ids.                                                                *)

LEMMA IdFacts ==
  /\ Coordinator # Unassigned /\ Coordinator # 0 /\ Unassigned # 0
  /\ Assignable \cup {Coordinator, Unassigned} \subseteq Ids
  /\ DerivedId \in Assignable /\ AssignedIds \subseteq Assignable
  /\ \A id \in Assignable : id \notin {0, Coordinator, Unassigned}
  /\ \A c \in Configs : /\ c.id \in Ids /\ c.id # 0
                        /\ c.role \in Roles \cup {"AUTO"} /\ c.mode \in Modes
                        /\ c.role = "AUTO" => c.id \notin Assignable
<1>1. Coordinator # Unassigned /\ Coordinator # 0 /\ Unassigned # 0
  BY DEF Coordinator, Unassigned
<1>2. \A id \in 2..253 : id \notin {0, Coordinator, Unassigned}
  BY DEF Coordinator, Unassigned
<1>3. \A c \in Configs : c \in [role : Roles \cup {"AUTO"}, id : 1..254, mode : Modes]
  BY DeviceAssumption
<1>4. \A id \in 1..254 : id # 0
  OBVIOUS
<1>5. \A c \in Configs : c.role \in Roles \cup {"AUTO"} /\ c.id # 0 /\ c.mode \in Modes
  BY <1>3, <1>4
<1>6. \A c \in Configs : c.role = "AUTO" => c.id \notin Assignable
  BY DeviceAssumption
<1>7. \A id \in Assignable : id \notin {0, Coordinator, Unassigned}
  BY <1>2, DeviceAssumption
<1> QED
  BY <1>1, <1>5, <1>6, <1>7 DEF Ids, Assignable

-----------------------------------------------------------------------------
(* The calls of the application.                                           *)

LEMMA CountedCall == calls \in 0..MaxCalls /\ Call => calls' \in 0..MaxCalls
BY DeviceAssumption DEF Call

LEMMA InitInv == Init => NodeInv
<1> SUFFICES ASSUME Init PROVE NodeInv
  OBVIOUS
<1>1. NodeTypes
  <2>1. BlankNet \in NetRecords
    BY DEF NetRecords, BlankNet, NetStates, Roles
  <2>2. BlankDisc \in DiscRecords
    BY DEF DiscRecords, BlankDisc, Roles
  <2>3. 0 \in 0..MaxCalls /\ 0 \in 0..4
    BY DeviceAssumption
  <2> QED
    BY <2>1, <2>2, <2>3, IdFacts DEF Init, NodeTypes
<1>2. /\ net.state = "UNINIT" /\ net.id = 0 /\ net.cfg = "COORDINATOR" /\ net.role = "COORDINATOR"
      /\ disc.role = "COORDINATOR" /\ disc.id = 0 /\ ~ disc.joined
      /\ ~ ready /\ macId = 0 /\ at = "idle" /\ left = 0 /\ ~ unheard
  BY DEF Init, BlankNet, BlankDisc
<1> QED
  BY <1>1, <1>2, IdFacts
  DEF NodeInv, Given, RoleFits, IdFits, JoinedWithId, NoIdYet, LastSeen, StillUntold, Out,
      SetUp, OneIdentity, JoiningCanFinish

(* A step that leaves the node alone.                                      *)
LEMMA NodeUnchanged ==
  /\ NodeInv
  /\ UNCHANGED <<ready, net, macId, disc, lastId, at, left, history>>
  /\ calls' \in 0..MaxCalls
  => NodeInv'
BY DEF NodeInv, NodeTypes, Given, RoleFits, IdFits, JoinedWithId, NoIdYet, LastSeen,
       StillUntold, Excused, Out, SetUp, OneIdentity, Deposed, JoiningCanFinish, Takes,
       history

LEMMA ConfiguredFacts ==
  ASSUME NEW c \in Configs
  PROVE  /\ ConfiguredDisc(c) \in DiscRecords /\ ~ ConfiguredDisc(c).token
         /\ ConfiguredDisc(c).role = IF c.role = "AUTO" THEN "ROUTER" ELSE c.role
         /\ ConfiguredDisc(c).id = IF c.role = "COORDINATOR" THEN Coordinator
                                   ELSE IF c.role = "AUTO" THEN Unassigned ELSE c.id
         /\ ConfiguredDisc(c).joined =
              (c.role = "COORDINATOR" \/ ConfiguredDisc(c).id \notin {Coordinator, Unassigned})
<1> DEFINE id == CASE c.role = "COORDINATOR" -> Coordinator
                   [] c.role = "AUTO" -> Unassigned
                   [] OTHER -> c.id
           d == [BlankDisc EXCEPT
                   !.role = IF c.role = "AUTO" THEN "ROUTER" ELSE c.role,
                   !.id = id,
                   !.joined = c.role = "COORDINATOR" \/ id \notin {Coordinator, Unassigned}]
<1>1. ConfiguredDisc(c) = d
  BY DEF ConfiguredDisc
<1>2. id = IF c.role = "COORDINATOR" THEN Coordinator
           ELSE IF c.role = "AUTO" THEN Unassigned ELSE c.id
  OBVIOUS
<1>3. id \in Ids /\ c.role \in Roles \cup {"AUTO"}
  BY <1>2, IdFacts
<1>4. /\ d \in DiscRecords /\ ~ d.token /\ d.id = id
      /\ d.role = IF c.role = "AUTO" THEN "ROUTER" ELSE c.role
      /\ d.joined = (c.role = "COORDINATOR" \/ id \notin {Coordinator, Unassigned})
  <2> HIDE DEF id
  <2> QED
    BY <1>3 DEF BlankDisc, DiscRecords, Roles
<1> QED
  BY <1>1, <1>2, <1>4

LEMMA UmeshInitStep ==
  ASSUME NodeInv, NEW c \in Configs, UmeshInit(c)
  PROVE  NodeInv'
<1>1. NodeTypes'
  <2>1. calls' \in 0..MaxCalls
    BY CountedCall DEF NodeInv, NodeTypes, UmeshInit
  <2>2. net' \in NetRecords
    BY IdFacts DEF UmeshInit, ConfiguredNet, NetRecords, NetStates, Roles
  <2>3. disc' \in DiscRecords
    BY ConfiguredFacts DEF UmeshInit
  <2> QED
    BY <2>1, <2>2, <2>3, IdFacts DEF NodeInv, NodeTypes, UmeshInit
<1>2. /\ net'.state = "SCANNING" /\ net'.cfg = c.role /\ net'.id = c.id
      /\ net'.role = IF c.role = "AUTO" THEN "ROUTER" ELSE c.role
      /\ ready' /\ macId' = c.id /\ at' = "idle" /\ left' = left /\ lastId' = Unassigned
      /\ at = "idle" /\ left = 0
  BY DEF UmeshInit, ConfiguredNet, Call, NodeInv, NodeTypes, Given
<1>3. disc' = ConfiguredDisc(c)
  BY DEF UmeshInit
<1>4. Given' /\ RoleFits'
  <2>1. c.id = Coordinator /\ c.role # "COORDINATOR" /\ c.role # "AUTO" =>
          net'.id = Coordinator /\ ~ disc'.token
    BY <1>2, <1>3, ConfiguredFacts
  <2>2. net'.state # "JOINING" /\ net'.state # "CONNECTED"
    BY <1>2
  <2> QED
    BY <1>1, <1>2, <1>3, <2>1, <2>2, ConfiguredFacts, IdFacts DEF Given, RoleFits, Roles
<1>5. IdFits' /\ JoinedWithId'
  <2>1. /\ disc'.id \in {Coordinator, Unassigned, c.id}
        /\ disc'.id \notin {Coordinator, Unassigned} => c.role # "AUTO" /\ disc'.joined
        /\ disc'.joined => disc'.id # Unassigned
    BY <1>3, ConfiguredFacts, IdFacts
  <2>2. net'.cfg = c.role /\ net'.id = c.id /\ left' < 2
    BY <1>2
  <2> QED
    BY <2>1, <2>2 DEF IdFits, JoinedWithId
<1>6. NoIdYet' /\ LastSeen' /\ StillUntold'
  BY <1>1, <1>2, <1>3, ConfiguredFacts, IdFacts
  DEF NodeInv, NodeTypes, NoIdYet, LastSeen, StillUntold, Excused
<1>7. Out' /\ SetUp' /\ OneIdentity' /\ JoiningCanFinish'
  BY <1>1, <1>2, <1>3, ConfiguredFacts, IdFacts
  DEF NodeInv, NodeTypes, Out, SetUp, OneIdentity, JoiningCanFinish
<1> QED
  BY <1>1, <1>4, <1>5, <1>6, <1>7 DEF NodeInv

LEMMA InitFailsStep == NodeInv /\ InitFails => NodeInv'
<1> SUFFICES ASSUME NodeInv, InitFails PROVE NodeInv'
  OBVIOUS
<1>1. NodeTypes'
  BY CountedCall, IdFacts
  DEF NodeInv, InitFails, NodeTypes, NetRecords, DiscRecords, BlankNet, BlankDisc, NetStates,
      Roles
<1>2. /\ net'.state = "UNINIT" /\ net'.id = 0 /\ net'.cfg = "COORDINATOR" /\ net'.role = "COORDINATOR"
      /\ disc'.role = "COORDINATOR" /\ disc'.id = 0 /\ ~ disc'.joined
      /\ ~ ready' /\ macId' = 0 /\ at = "idle" /\ at' = "idle" /\ left' = left /\ left = 0
      /\ ~ unheard'
  BY DEF InitFails, BlankNet, BlankDisc, Call, NodeInv, NodeTypes, Given
<1> QED
  BY <1>1, <1>2, IdFacts
  DEF NodeInv, Given, RoleFits, IdFits, JoinedWithId, NoIdYet, LastSeen, StillUntold, Out,
      SetUp, OneIdentity, JoiningCanFinish

(* umesh_start.                                                            *)
LEMMA AsksFacts ==
  ASSUME NEW d \in DiscRecords
  PROVE  /\ Asks(d) \in DiscRecords
         /\ Asks(d).id = d.id /\ Asks(d).role = d.role
         /\ d.role = "COORDINATOR" => Asks(d).joined
         /\ d.role # "COORDINATOR" => Asks(d).joined = d.joined /\ Asks(d).token
BY DEF Asks, DiscRecords

LEMMA RouterFacts ==
  ASSUME NEW d \in DiscRecords
  PROVE  /\ AsRouter(d) \in DiscRecords
         /\ AsRouter(d).role = "ROUTER" /\ AsRouter(d).id # Coordinator
         /\ AsRouter(d).id = IF d.id = Coordinator THEN Unassigned ELSE d.id
         /\ AsRouter(d).joined = (AsRouter(d).id # Unassigned)
<1> DEFINE id == IF d.id = Coordinator THEN Unassigned ELSE d.id
           e == [d EXCEPT !.role = "ROUTER", !.id = id, !.joined = id # Unassigned]
<1>1. AsRouter(d) = e
  BY DEF AsRouter
<1>2. id \in Ids \cup {0} /\ id # Coordinator
  BY IdFacts DEF DiscRecords
<1>3. e \in DiscRecords /\ e.role = "ROUTER" /\ e.id = id /\ e.joined = (id # Unassigned)
  <2> HIDE DEF id
  <2> QED
    BY <1>2 DEF DiscRecords, Roles
<1> QED
  BY <1>1, <1>2, <1>3

LEMMA ScanningFacts ==
  ASSUME NodeTypes, EnterScanning("AUTO")
  PROVE  /\ net' \in NetRecords /\ disc' \in DiscRecords /\ macId' = Unassigned
         /\ net'.state = "SCANNING" /\ net'.cfg = "AUTO"
         /\ net'.role = "ROUTER" /\ net'.id = Unassigned
         /\ disc'.role = "ROUTER" /\ disc'.id = Unassigned /\ ~ disc'.joined
         /\ cutIn' = FALSE
<1>1. net' \in NetRecords
  BY IdFacts DEF EnterScanning, NetRecords, NetStates, Roles
<1>2. disc' \in DiscRecords
  BY IdFacts DEF NodeTypes, EnterScanning, DiscRecords, Roles
<1> QED
  BY <1>1, <1>2 DEF NodeTypes, EnterScanning, MacSetNodeId, DiscRecords

LEMMA StartStep == NodeInv /\ Start => NodeInv'
<1> SUFFICES ASSUME NodeInv, Start PROVE NodeInv'
  OBVIOUS
<1>1. /\ calls' \in 0..MaxCalls /\ at = "idle" /\ at' = "idle" /\ ready /\ ready' /\ raced' = raced
      /\ left' = left /\ left = 0 /\ NodeTypes /\ macId # 0 /\ net.id # 0 /\ disc.id # 0
  BY CountedCall DEF Start, Call, NodeInv, NodeTypes, Given
<1>2. CASE StartCoordinator
  <2>1. /\ net' \in NetRecords /\ net'.state = "CONNECTED" /\ net'.id = Coordinator
        /\ net'.cfg = net.cfg /\ net'.role = net.role
    BY <1>1, <1>2, IdFacts DEF StartCoordinator, NodeTypes, NetRecords, NetStates
  <2>2. /\ macId' = Coordinator /\ disc' = disc /\ unsent' = unsent /\ cutIn' = cutIn
        /\ lastId' = Coordinator
        /\ overruled' = (overruled \/ disc.id # Coordinator)
        /\ net.cfg # "AUTO" /\ net.role = "COORDINATOR"
        /\ unheard' \in BOOLEAN
    BY <1>2, <2>1 DEF StartCoordinator, MacSetNodeId, Notify, Remembers
  <2>3. NodeTypes'
    BY <1>1, <2>1, <2>2, IdFacts DEF NodeTypes
  <2>4. Given' /\ RoleFits' /\ IdFits' /\ JoinedWithId'
    BY <1>1, <2>1, <2>2, <2>3, IdFacts
    DEF NodeInv, NodeTypes, Given, RoleFits, IdFits, JoinedWithId
  <2>5. NoIdYet' /\ LastSeen' /\ StillUntold'
    BY <1>1, <2>1, <2>2, <2>3, IdFacts
    DEF NodeInv, NodeTypes, NoIdYet, LastSeen, StillUntold, Excused, IdFits
  <2>6. Out' /\ SetUp' /\ OneIdentity' /\ JoiningCanFinish'
    BY <1>1, <2>1, <2>2, <2>3, IdFacts
    DEF NodeInv, NodeTypes, Out, SetUp, OneIdentity, JoiningCanFinish, Takes, RoleFits,
        JoinedWithId, NoIdYet
  <2> QED
    BY <2>3, <2>4, <2>5, <2>6 DEF NodeInv
<1>3. CASE StartWithId
  <2>1. /\ net' \in NetRecords /\ net'.state = "CONNECTED" /\ net'.id = net.id
        /\ net'.cfg = net.cfg /\ net'.role = net.cfg /\ net.id # Unassigned
        /\ net.cfg # "AUTO" /\ net.role # "COORDINATOR"
    BY <1>1, <1>3 DEF StartWithId, NodeTypes, NetRecords, NetStates
  <2>2. /\ macId' = net.id /\ disc' = disc /\ unsent' = unsent /\ cutIn' = cutIn
        /\ lastId' = net.id
        /\ overruled' = overruled
        /\ unheard' => unheard /\ net.id = lastId
        /\ unheard' \in BOOLEAN
    BY <1>3, <2>1 DEF StartWithId, MacSetNodeId, Notify, Remembers, TellsJoin
  <2>3. NodeTypes'
    BY <1>1, <2>1, <2>2, IdFacts DEF NodeTypes, NetRecords
  <2> QED
    BY <1>1, <2>1, <2>2, <2>3, IdFacts
    DEF NodeInv, Given, RoleFits, IdFits, JoinedWithId, NoIdYet, LastSeen, StillUntold,
        Excused, Out, SetUp, OneIdentity, JoiningCanFinish
<1>4. CASE StartJoining
  <2>1. /\ net' \in NetRecords /\ net'.state = "JOINING" /\ net'.id = Unassigned
        /\ net.id = Unassigned /\ net'.cfg = net.cfg /\ net'.role = net.role
        /\ net.cfg # "AUTO" /\ net.role # "COORDINATOR"
    BY <1>1, <1>4 DEF StartJoining, NodeTypes, NetRecords, NetStates
  <2>2. /\ macId' = macId /\ disc' = Asks(disc) /\ overruled' = overruled /\ cutIn' = cutIn
        /\ \/ lastId' = Unassigned /\ unsent' = unsent
           \/ lastId' = lastId /\ unsent'
        /\ unheard' \in BOOLEAN
    BY <1>4, <2>1 DEF StartJoining, Notify, Unnotified, Remembers
  <2>3. NodeTypes'
    BY <1>1, <2>1, <2>2, IdFacts, AsksFacts DEF NodeTypes
  <2> QED
    BY <1>1, <2>1, <2>2, <2>3, IdFacts, AsksFacts
    DEF NodeInv, NodeTypes, Given, RoleFits, IdFits, JoinedWithId, NoIdYet, LastSeen,
        StillUntold, Excused, Out, SetUp, OneIdentity, JoiningCanFinish, Takes
<1>5. CASE StartAuto
  <2>1. /\ net' \in NetRecords /\ disc' \in DiscRecords /\ macId' = Unassigned
        /\ net'.state = "SCANNING" /\ net'.cfg = "AUTO"
        /\ net'.role = "ROUTER" /\ net'.id = Unassigned
        /\ disc'.role = "ROUTER" /\ disc'.id = Unassigned /\ ~ disc'.joined
    BY <1>1, <1>5, ScanningFacts DEF StartAuto
  <2>2. /\ lastId' = Unassigned /\ unsent' = unsent /\ overruled' = overruled
        /\ unheard' \in BOOLEAN /\ cutIn' = FALSE
    BY <1>5, <2>1 DEF EnterScanning, StartAuto, Notify, Remembers
  <2>3. NodeTypes'
    BY <1>1, <2>1, <2>2, IdFacts DEF NodeTypes
  <2> QED
    BY <1>1, <2>1, <2>2, <2>3, IdFacts
    DEF NodeInv, Given, RoleFits, IdFits, JoinedWithId, NoIdYet, LastSeen, StillUntold, Out,
        SetUp, OneIdentity, JoiningCanFinish
<1> QED
  BY <1>2, <1>3, <1>4, <1>5 DEF Start

LEMMA TriggerStep == NodeInv /\ Trigger => NodeInv'
<1> SUFFICES ASSUME NodeInv, Trigger PROVE NodeInv'
  OBVIOUS
<1>1. /\ calls' \in 0..MaxCalls /\ at' = "idle" /\ at = "idle" /\ ready /\ ready'
      /\ lastId' = lastId /\ raced' = raced /\ unsent' = unsent /\ overruled' = overruled
      /\ NodeTypes /\ unheard' \in BOOLEAN /\ left' = left /\ left = 0 /\ cutIn' = FALSE
  BY CountedCall DEF Trigger, Call, NodeInv, NodeTypes, Given, Unnotified, EnterScanning
<1>2. /\ net' \in NetRecords /\ disc' \in DiscRecords /\ macId' = Unassigned
      /\ net'.state = "SCANNING" /\ net'.cfg = "AUTO"
      /\ net'.role = "ROUTER" /\ net'.id = Unassigned
      /\ disc'.role = "ROUTER" /\ disc'.id = Unassigned /\ ~ disc'.joined
  BY <1>1, ScanningFacts DEF Trigger
<1>3. NodeTypes'
  BY <1>1, <1>2, IdFacts DEF NodeTypes
<1> QED
  BY <1>1, <1>2, <1>3, IdFacts
  DEF NodeInv, Given, RoleFits, IdFits, JoinedWithId, NoIdYet, LastSeen, StillUntold, Out,
      SetUp, OneIdentity, JoiningCanFinish

(* umesh_stop and umesh_reset.                                             *)
LEMMA StopBeginsStep ==
  ASSUME NodeInv, NEW how \in {"stop", "reset"}, StopBegins(how)
  PROVE  NodeInv'
<1>1. /\ calls' \in 0..MaxCalls /\ at' = how /\ at = "idle" /\ left = 0 /\ left' = 1
      /\ disc' = [disc EXCEPT !.joined = FALSE]
      /\ UNCHANGED <<ready, net, macId, lastId>>
      /\ unheard' = unheard /\ raced' = raced /\ cutIn' = cutIn
      /\ unsent' = unsent /\ overruled' = overruled
      /\ NodeTypes
  BY CountedCall DEF StopBegins, Call, NodeInv, NodeTypes, Given, history
<1>2. /\ disc' \in DiscRecords /\ disc'.id = disc.id /\ ~ disc'.joined
      /\ disc'.role = disc.role /\ disc'.token = disc.token
  BY <1>1 DEF NodeTypes, DiscRecords
<1>3. NodeTypes'
  BY <1>1, <1>2 DEF NodeTypes
<1> QED
  BY <1>1, <1>2, <1>3, IdFacts
  DEF NodeInv, Given, RoleFits, IdFits, JoinedWithId, NoIdYet, LastSeen, StillUntold, Excused,
      Out, SetUp, OneIdentity, JoiningCanFinish

LEMMA LeaveOnStep == NodeInv /\ LeaveOn => NodeInv'
<1> SUFFICES ASSUME NodeInv, LeaveOn PROVE NodeInv'
  OBVIOUS
<1>1. /\ left \in 1..3 /\ left' = left + 1 /\ at' = at /\ at \in {"stop", "reset"}
      /\ UNCHANGED <<ready, macId, lastId, calls>>
      /\ unheard' = unheard /\ raced' = raced /\ cutIn' = cutIn
      /\ unsent' = unsent /\ overruled' = overruled
      /\ NodeTypes
  BY DEF LeaveOn, DropsId, DropsToken, Disconnects, NodeInv, NodeTypes, Given, history
<1>2. left' \in 2..4 /\ left' > 0
  BY <1>1
<1>3. net \in NetRecords /\ disc \in DiscRecords
  BY <1>1 DEF NodeTypes
<1>4. CASE DropsId
  <2>1. left = 1 /\ left' = 2 /\ net' = net /\ disc' = [disc EXCEPT !.id = Unassigned]
    BY <1>1, <1>4 DEF DropsId
  <2>2. /\ disc' \in DiscRecords /\ disc'.id = Unassigned /\ disc'.joined = disc.joined
        /\ disc'.role = disc.role
    BY <1>3, <2>1, IdFacts DEF DiscRecords
  <2>3. NodeTypes'
    BY <1>1, <1>2, <2>1, <2>2 DEF NodeTypes
  <2> QED
    BY <1>1, <2>1, <2>2, <2>3, IdFacts
    DEF NodeInv, Given, RoleFits, IdFits, JoinedWithId, NoIdYet, LastSeen, StillUntold, Out,
        SetUp, OneIdentity, JoiningCanFinish
<1>5. CASE DropsToken
  <2>1. left = 2 /\ left' = 3 /\ net' = net /\ disc' = [disc EXCEPT !.token = FALSE]
    BY <1>1, <1>5 DEF DropsToken
  <2>2. /\ disc' \in DiscRecords /\ disc'.id = disc.id /\ disc'.joined = disc.joined
        /\ disc'.role = disc.role /\ ~ disc'.token
    BY <1>3, <2>1 DEF DiscRecords
  <2>3. NodeTypes'
    BY <1>1, <1>2, <2>1, <2>2 DEF NodeTypes
  <2> QED
    BY <1>1, <2>1, <2>2, <2>3, IdFacts
    DEF NodeInv, Given, RoleFits, IdFits, JoinedWithId, NoIdYet, LastSeen, StillUntold, Out,
        SetUp, OneIdentity, JoiningCanFinish
<1>6. CASE Disconnects
  <2>1. left = 3 /\ left' = 4 /\ disc' = disc /\ net' = [net EXCEPT !.state = "DISCONNECTED"]
    BY <1>1, <1>6 DEF Disconnects
  <2>2. /\ net' \in NetRecords /\ net'.state = "DISCONNECTED"
        /\ net'.id = net.id /\ net'.cfg = net.cfg /\ net'.role = net.role
    BY <1>3, <2>1 DEF NetRecords, NetStates
  <2>3. NodeTypes'
    BY <1>1, <1>2, <2>1, <2>2 DEF NodeTypes
  <2> QED
    BY <1>1, <2>1, <2>2, <2>3, IdFacts
    DEF NodeInv, Given, RoleFits, IdFits, JoinedWithId, NoIdYet, LastSeen, StillUntold, Out,
        SetUp, OneIdentity, JoiningCanFinish
<1> QED
  BY <1>4, <1>5, <1>6 DEF LeaveOn

LEMMA StopEndsStep == NodeInv /\ StopEnds => NodeInv'
<1> SUFFICES ASSUME NodeInv, StopEnds PROVE NodeInv'
  OBVIOUS
<1>1. /\ left = 4 /\ left' = 0 /\ at' = "idle" /\ disc' = disc
      /\ net' = [net EXCEPT !.id = Unassigned]
      /\ ready' = (ready /\ at = "stop") /\ lastId' \in Ids /\ unheard' = FALSE /\ left' \in 0..4
      /\ macId' = macId /\ calls' = calls
      /\ raced' = raced /\ cutIn' = cutIn /\ unsent' = unsent /\ overruled' = overruled
      /\ NodeTypes
  BY IdFacts DEF StopEnds, NodeInv, NodeTypes
<1>2. net.state = "DISCONNECTED"
  BY <1>1 DEF NodeInv, NoIdYet
<1>3. /\ net' \in NetRecords /\ net'.id = Unassigned /\ net'.state = "DISCONNECTED"
      /\ net'.cfg = net.cfg /\ net'.role = net.role
  BY <1>1, <1>2, IdFacts DEF NodeTypes, NetRecords
<1>4. NodeTypes'
  BY <1>1, <1>3 DEF NodeTypes
<1> QED
  BY <1>1, <1>3, <1>4, IdFacts
  DEF NodeInv, NodeTypes, Given, RoleFits, IdFits, JoinedWithId, NoIdYet, LastSeen,
      StillUntold, Out, SetUp, OneIdentity, JoiningCanFinish

-----------------------------------------------------------------------------
(* umesh_tick.                                                             *)
LEMMA NetTickStep == NodeInv /\ NetTick => NodeInv'
<1> SUFFICES ASSUME NodeInv, NetTick PROVE NodeInv'
  OBVIOUS
<1>1. /\ ready /\ ready' /\ at = "idle" /\ at' = "tick" /\ lastId' = lastId /\ calls' = calls
      /\ left = 0 /\ left' = 0 /\ cutIn' \in {cutIn, FALSE}
      /\ raced' = raced /\ unsent' = unsent /\ overruled' = overruled
      /\ unheard' = (net'.id # Unassigned /\ (unheard \/ net'.id # net.id))
      /\ NodeTypes /\ macId # 0 /\ net.id # 0 /\ disc.id # 0
  <2>1. cutIn' \in {cutIn, FALSE}
    BY DEF NetTick, FindCoordinator, CallElection, Yield, Promote, AskAgain, StartOver,
           StepDown, CarryOn, EnterScanning
  <2>2. left = 0
    BY DEF NetTick, NodeInv, NodeTypes, Given
  <2> QED
    BY <2>1, <2>2 DEF NetTick, Unnotified, NodeInv, NodeTypes, Given
<1>2. net' \in NetRecords /\ disc' \in DiscRecords /\ macId' \in Ids \cup {0} => NodeTypes'
  BY <1>1 DEF NodeTypes
<1>3. net \in NetRecords /\ disc \in DiscRecords
  BY <1>1 DEF NodeTypes
<1>4. CASE FindCoordinator
  <2>0. cutIn' = cutIn
    BY <1>4 DEF FindCoordinator
  <2> DEFINE e == [disc EXCEPT !.coord = FALSE]
  <2>1. e \in DiscRecords /\ e.id = disc.id
    BY <1>3 DEF DiscRecords
  <2>2. /\ net' \in NetRecords /\ net'.state = "JOINING" /\ net'.id = net.id
        /\ net'.cfg = "AUTO" /\ net'.role = "ROUTER" /\ net.state = "SCANNING" /\ net.cfg = "AUTO"
        /\ macId' = macId /\ disc' = Asks(AsRouter(e))
    BY <1>3, <1>4 DEF FindCoordinator, NetRecords, NetStates, Roles
  <2>3. /\ disc' \in DiscRecords /\ disc'.role = "ROUTER" /\ disc'.token
        /\ disc'.id \in {disc.id, Unassigned}
        /\ disc'.id # Coordinator /\ disc'.id # 0
        /\ disc'.joined = (disc'.id # Unassigned)
    <3> HIDE DEF e
    <3> QED
      BY <1>1, <2>0, <2>1, <2>2, RouterFacts, AsksFacts, IdFacts
  <2>4. NodeTypes'
    BY <1>1, <1>2, <2>2, <2>3 DEF NodeTypes
  <2> HIDE DEF e
  <2>5. Given' /\ RoleFits' /\ IdFits' /\ JoinedWithId'
    BY <1>1, <2>0, <2>2, <2>3, <2>4, IdFacts
    DEF NodeInv, NodeTypes, Given, RoleFits, IdFits, JoinedWithId
  <2>6. NoIdYet' /\ LastSeen' /\ StillUntold'
    BY <1>1, <2>0, <2>2, <2>3, <2>4, IdFacts
    DEF NodeInv, NodeTypes, NoIdYet, LastSeen, StillUntold, Excused, IdFits
  <2>7. Out' /\ SetUp' /\ OneIdentity' /\ JoiningCanFinish'
    BY <1>1, <2>0, <2>2, <2>3, <2>4, IdFacts
    DEF NodeInv, NodeTypes, Out, SetUp, OneIdentity, JoiningCanFinish, Takes, RoleFits,
        JoinedWithId, NoIdYet
  <2> QED
    BY <2>4, <2>5, <2>6, <2>7 DEF NodeInv
<1>5. CASE CallElection
  <2>0. cutIn' = cutIn
    BY <1>5 DEF CallElection
  <2>1. /\ net' \in NetRecords /\ net'.state = "ELECTION" /\ net'.id = net.id
        /\ net'.cfg = "AUTO" /\ net.state = "SCANNING" /\ net.cfg = "AUTO"
        /\ macId' = macId
    BY <1>3, <1>5 DEF CallElection, NetRecords, NetStates
  <2>2. /\ disc' \in DiscRecords /\ disc'.role = disc.role
        /\ disc'.id = disc.id /\ disc'.joined = disc.joined
    BY <1>3, <1>5 DEF CallElection, DiscRecords
  <2>3. NodeTypes'
    BY <1>1, <1>2, <2>1, <2>2 DEF NodeTypes
  <2>4. Given' /\ RoleFits' /\ IdFits' /\ JoinedWithId'
    BY <1>1, <2>0, <2>1, <2>2, <2>3, IdFacts
    DEF NodeInv, NodeTypes, Given, RoleFits, IdFits, JoinedWithId
  <2>5. NoIdYet' /\ LastSeen' /\ StillUntold'
    BY <1>1, <2>0, <2>1, <2>2, <2>3, IdFacts
    DEF NodeInv, NodeTypes, NoIdYet, LastSeen, StillUntold, Excused, IdFits
  <2>6. Out' /\ SetUp' /\ OneIdentity' /\ JoiningCanFinish'
    BY <1>1, <2>0, <2>1, <2>2, <2>3, IdFacts
    DEF NodeInv, NodeTypes, Out, SetUp, OneIdentity, JoiningCanFinish, Takes, RoleFits,
        JoinedWithId, NoIdYet
  <2> QED
    BY <2>3, <2>4, <2>5, <2>6 DEF NodeInv
<1>6. CASE Yield
  <2>0. cutIn' = cutIn
    BY <1>6 DEF Yield
  <2> DEFINE d == AsRouter(disc)
  <2>1. /\ d \in DiscRecords /\ d.role = "ROUTER" /\ d.id # Coordinator /\ d.id # 0
        /\ d.joined = (d.id # Unassigned) /\ d.id \in {disc.id, Unassigned}
    BY <1>1, <1>3, RouterFacts, IdFacts
  <2>2. /\ net.cfg = "AUTO" /\ net.state = "ELECTION"
        /\ IF d.id # Unassigned
           THEN /\ net' = [net EXCEPT !.state = "CONNECTED", !.role = "ROUTER", !.id = d.id]
                /\ macId' = d.id /\ disc' = d
           ELSE /\ net' = [net EXCEPT !.state = "JOINING", !.role = "ROUTER"]
                /\ disc' = Asks(d) /\ macId' = macId
    BY <1>6 DEF Yield, MacSetNodeId
  <2> HIDE DEF d
  <2>3. CASE d.id # Unassigned
    <3>1. /\ net' \in NetRecords /\ net'.state = "CONNECTED" /\ net'.role = "ROUTER"
          /\ net'.id = d.id /\ net'.cfg = "AUTO"
      BY <1>3, <2>1, <2>2, <2>3 DEF NetRecords, DiscRecords, NetStates, Roles
    <3>2. macId' = d.id /\ disc' = d
      BY <2>2, <2>3
    <3>3. NodeTypes'
      BY <1>2, <2>1, <3>1, <3>2 DEF DiscRecords
    <3> QED
      BY <1>1, <2>0, <2>1, <2>2, <2>3, <3>1, <3>2, <3>3, IdFacts
      DEF NodeInv, Given, RoleFits, IdFits, JoinedWithId, NoIdYet, LastSeen, StillUntold,
          Excused, Out, SetUp, OneIdentity, JoiningCanFinish
  <2>4. CASE d.id = Unassigned
    <3>1. /\ net' \in NetRecords /\ net'.state = "JOINING" /\ net'.role = "ROUTER"
          /\ net'.id = net.id /\ net'.cfg = "AUTO" /\ macId' = macId
      BY <1>3, <2>2, <2>4 DEF NetRecords, NetStates, Roles
    <3>2. /\ disc' \in DiscRecords /\ disc'.id = Unassigned /\ disc'.role = "ROUTER"
          /\ ~ disc'.joined /\ disc'.token
      BY <2>1, <2>2, <2>4, AsksFacts
    <3>3. NodeTypes'
      BY <1>1, <1>2, <3>1, <3>2 DEF NodeTypes
    <3> QED
      BY <1>1, <2>0, <2>2, <3>1, <3>2, <3>3, IdFacts
      DEF NodeInv, Given, RoleFits, IdFits, JoinedWithId, NoIdYet, LastSeen, StillUntold,
          Excused, Out, SetUp, OneIdentity, JoiningCanFinish, Takes
  <2> QED
    BY <2>3, <2>4
<1>7. CASE Promote
  <2>0. cutIn' = cutIn
    BY <1>7 DEF Promote
  <2>1. /\ net' \in NetRecords /\ net'.state = "CONNECTED" /\ net'.role = "COORDINATOR"
        /\ net'.id = Coordinator /\ net'.cfg = "AUTO" /\ macId' = Coordinator
    BY <1>3, <1>7, IdFacts DEF Promote, MacSetNodeId, NetRecords, NetStates, Roles
  <2>2. /\ disc' \in DiscRecords /\ disc'.role = "COORDINATOR" /\ disc'.id = Coordinator
        /\ disc'.joined
    BY <1>3, <1>7, IdFacts DEF Promote, DiscRecords, Roles
  <2>3. NodeTypes'
    BY <1>2, <2>1, <2>2, IdFacts
  <2> QED
    BY <1>1, <2>0, <2>1, <2>2, <2>3, IdFacts
    DEF NodeInv, Given, RoleFits, IdFits, JoinedWithId, NoIdYet, LastSeen, StillUntold, Out,
        SetUp, OneIdentity, JoiningCanFinish
<1>8. CASE AskAgain
  <2>0. cutIn' = cutIn
    BY <1>8 DEF AskAgain
  <2>1. /\ net.state = "JOINING" /\ net' = net /\ macId' = macId /\ disc' = Asks(disc)
    BY <1>8 DEF AskAgain
  <2>2. NodeTypes'
    BY <1>1, <1>2, <1>3, <2>1, AsksFacts DEF NodeTypes
  <2> QED
    BY <1>1, <2>0, <1>3, <2>1, <2>2, IdFacts, AsksFacts
    DEF NodeInv, NodeTypes, Given, RoleFits, IdFits, JoinedWithId, NoIdYet, LastSeen,
        StillUntold, Excused, Out, SetUp, OneIdentity, JoiningCanFinish, Takes, DiscRecords
<1>9. CASE StartOver
  <2>1. /\ net' \in NetRecords /\ disc' \in DiscRecords /\ macId' = Unassigned
        /\ net'.state = "SCANNING" /\ net'.cfg = "AUTO"
        /\ net'.role = "ROUTER" /\ net'.id = Unassigned
        /\ disc'.role = "ROUTER" /\ disc'.id = Unassigned /\ ~ disc'.joined
    BY <1>1, <1>9, ScanningFacts DEF StartOver
  <2>2. NodeTypes'
    BY <1>2, <2>1, IdFacts
  <2> QED
    BY <1>1, <2>1, <2>2, IdFacts
    DEF NodeInv, Given, RoleFits, IdFits, JoinedWithId, NoIdYet, LastSeen, StillUntold, Out,
        SetUp, OneIdentity, JoiningCanFinish
<1>10. CASE StepDown
  <2>0. cutIn' = cutIn
    BY <1>10 DEF StepDown
  <2>1. /\ net.cfg = "AUTO" /\ net.state = "CONNECTED" /\ net.role = "COORDINATOR"
        /\ disc.role = "ROUTER" /\ macId' = disc.id /\ disc.id # Coordinator
        /\ net.id = Coordinator
    BY <1>3, <1>10 DEF StepDown, Deposed, MacSetNodeId, NodeInv, RoleFits, DiscRecords, Roles
  <2>2. CASE disc.id = Unassigned
    <3>1. /\ net' \in NetRecords /\ net'.state = "JOINING" /\ net'.role = "ROUTER"
          /\ net'.id = Unassigned /\ net'.cfg = "AUTO"
      BY <1>3, <1>10, <2>1, <2>2, IdFacts DEF StepDown, NetRecords, NetStates, Roles
    <3>2. /\ disc' \in DiscRecords /\ disc'.id = Unassigned /\ disc'.role = "ROUTER"
          /\ disc'.joined = disc.joined /\ disc'.token
      BY <1>3, <1>10, <2>1, <2>2, AsksFacts DEF StepDown
    <3>3. NodeTypes'
      BY <1>2, <2>1, <2>2, <3>1, <3>2, IdFacts
    <3> QED
      BY <1>1, <2>0, <2>1, <2>2, <3>1, <3>2, <3>3, IdFacts
      DEF NodeInv, Given, RoleFits, IdFits, JoinedWithId, NoIdYet, LastSeen, StillUntold,
          Excused, Out, SetUp, OneIdentity, JoiningCanFinish, Takes
  <2>3. CASE disc.id # Unassigned
    <3>1. /\ net' \in NetRecords /\ net'.state = "CONNECTED" /\ net'.role = "ROUTER"
          /\ net'.id = disc.id /\ net'.cfg = "AUTO" /\ disc' = disc
      BY <1>3, <1>10, <2>1, <2>3 DEF StepDown, NetRecords, DiscRecords, NetStates, Roles
    <3>2. NodeTypes'
      BY <1>2, <1>3, <2>1, <3>1 DEF DiscRecords
    <3> QED
      BY <1>1, <2>0, <2>1, <2>3, <3>1, <3>2, IdFacts
      DEF NodeInv, Given, RoleFits, IdFits, JoinedWithId, NoIdYet, LastSeen, StillUntold,
          Excused, Out, SetUp, OneIdentity, JoiningCanFinish, Deposed
  <2> QED
    BY <2>2, <2>3
<1>11. CASE CarryOn
  <2>0. cutIn' = cutIn
    BY <1>11 DEF CarryOn
  <2>1. net' = net /\ macId' = macId /\ disc' = disc
    BY <1>11 DEF CarryOn
  <2>2. NodeTypes'
    BY <1>1, <1>2, <2>1 DEF NodeTypes
  <2> QED
    BY <1>1, <2>0, <2>1, <2>2
    DEF NodeInv, NodeTypes, Given, RoleFits, IdFits, JoinedWithId, NoIdYet, LastSeen,
        StillUntold, Excused, Out, SetUp, OneIdentity, JoiningCanFinish, Deposed, Takes
<1> QED
  BY <1>4, <1>5, <1>6, <1>7, <1>8, <1>9, <1>10, <1>11 DEF NetTick

LEMMA TickEndsStep == NodeInv /\ TickEnds => NodeInv'
<1> SUFFICES ASSUME NodeInv, TickEnds PROVE NodeInv'
  OBVIOUS
<1>1. /\ at = "tick" /\ at' = "idle" /\ lastId' = net.id /\ unheard' \in BOOLEAN
      /\ unheard' => unheard /\ (net.id = lastId \/ net.id = Unassigned)
      /\ UNCHANGED <<ready, net, macId, disc, left, calls, raced, cutIn, unsent, overruled>>
      /\ NodeTypes /\ net.id # 0
  BY DEF TickEnds, Notify, Remembers, TellsJoin, NodeInv, NodeTypes, Given
<1>2. NodeTypes'
  BY <1>1 DEF NodeTypes, NetRecords
<1> QED
  BY <1>1, <1>2, IdFacts
  DEF NodeInv, NodeTypes, Given, RoleFits, IdFits, JoinedWithId, NoIdYet, LastSeen,
      StillUntold, Excused, Out, SetUp, OneIdentity, JoiningCanFinish, Deposed, Takes

-----------------------------------------------------------------------------
(* on_mac_rx, with what discovery_on_frame may leave in discovery.         *)
Leaves(d) ==
  /\ d \in DiscRecords /\ d.id # 0
  /\ d.id = Coordinator => d.role = "COORDINATOR" \/ (d.id = disc.id /\ d.role = disc.role)
  /\ d.role = "COORDINATOR" => d.id \in {Coordinator, Unassigned}
  /\ d.id \in Assignable \cup {Coordinator, Unassigned, disc.id}
  /\ d.id \notin {Coordinator, Unassigned} => d.joined \/ left = 1
  /\ d.token => disc.token
  /\ net.cfg = "AUTO" => d.role # "END_NODE"

(* What d is unless the node is overruled, ...                             *)
LeavesRole(d) ==
  /\ net.cfg # "AUTO" => d.role = disc.role
  /\ net.state = "JOINING" => d.role # "COORDINATOR"
  /\ net.state = "JOINING" /\ d.id = Unassigned =>
       d.role = disc.role /\ d.id = disc.id /\ d.joined = disc.joined /\ d.token = disc.token

(* ... or has met umesh_stop.                                              *)
LeavesId(d) ==
  /\ d.joined => d.id # Unassigned
  /\ left = 0 /\ net.state = "CONNECTED" =>
       \/ Deposed /\ d.role = disc.role
       \/ d.id = disc.id /\ d.role = disc.role
       \/ net.cfg = "AUTO" /\ net.role = "COORDINATOR" /\ d.role # "COORDINATOR"
  /\ left = 0 /\ net.cfg # "AUTO" /\ disc.id \notin {0, Unassigned} => d.id = disc.id
  /\ left = 0 /\ net.state = "DISCONNECTED" =>
       d.id = disc.id /\ d.joined = disc.joined /\ d.token = disc.token

LEMMA ReceiveStep ==
  ASSUME NodeInv, NEW d, Receive(d), Leaves(d),
         overruled' \in BOOLEAN, overruled => overruled',
         ~ overruled' => LeavesRole(d),
         ~ overruled' /\ ~ cutIn' => LeavesId(d)
  PROVE  NodeInv'
<1>1. /\ ready' = ready /\ lastId' = lastId /\ at' = at /\ left' = left /\ calls' = calls
      /\ unsent' = unsent
      /\ macId # 0 /\ net.id # 0 /\ disc.id # 0 /\ NodeTypes /\ disc' = d
      /\ raced' = (raced \/ (at = "tick" /\ (d.id # disc.id \/ net'.id # net.id)))
      /\ cutIn' = (cutIn \/ (left > 0 /\ (d.id # disc.id \/ d.joined # disc.joined)))
      /\ unheard' = (net'.id # Unassigned /\ (unheard \/ net'.id # net.id))
  BY DEF Receive, Listening, Unnotified, NodeInv, NodeTypes, Given
<1>2. /\ net \in NetRecords /\ unheard' \in BOOLEAN /\ raced' \in BOOLEAN /\ cutIn' \in BOOLEAN
      /\ (at \in {"stop", "reset"} <=> left > 0) /\ left \in 0..4
      /\ at \in {"idle", "tick", "stop", "reset"}
  BY <1>1 DEF NodeInv, NodeTypes, Given
<1>3. CASE Adopts(d)
  <2>1. /\ net.state = "JOINING" /\ d.id # Unassigned /\ macId' = d.id
        /\ net' = [net EXCEPT !.state = "CONNECTED", !.id = d.id, !.role = d.role]
    BY <1>3 DEF Receive, Adopts, MacSetNodeId
  <2>2. /\ net' \in NetRecords /\ net'.state = "CONNECTED" /\ net'.id = d.id
        /\ net'.role = d.role /\ net'.cfg = net.cfg
    BY <1>2, <2>1 DEF Leaves, NetRecords, DiscRecords, NetStates
  <2>3. NodeTypes'
    BY <1>1, <1>2, <2>1, <2>2 DEF NodeTypes, Leaves, DiscRecords
  <2>4. /\ net.cfg = "AUTO" => net.id \notin Assignable
        /\ net.cfg # "AUTO" => net.id = Unassigned
        /\ left # 4
    BY <2>1 DEF NodeInv, NoIdYet
  <2>5. d.id \in Assignable \cup {Coordinator}
    BY <1>1, <2>1, <2>4 DEF NodeInv, IdFits, Leaves
  <2>6. d.id = Coordinator => d.role = "COORDINATOR"
    BY <2>1, <2>4, IdFacts DEF NodeInv, RoleFits, Leaves
  <2>7. RoleFits'
    <3>1. net'.cfg # "AUTO" => overruled' \/ (d.role = net'.cfg /\ net'.role = net'.cfg)
      <4>1. CASE overruled'
        BY <4>1
      <4>2. CASE ~ overruled' /\ net.cfg # "AUTO"
        <5>1. disc.role = net.cfg /\ LeavesRole(d)
          BY <4>2 DEF NodeInv, RoleFits
        <5> QED
          BY <2>2, <4>2, <5>1 DEF LeavesRole
      <4> QED
        BY <2>2, <4>1, <4>2
    <3>2. net'.cfg = "AUTO" => d.role # "END_NODE"
      BY <2>2 DEF Leaves
    <3>3. net'.role = "COORDINATOR" => net'.id = Coordinator
      BY <2>1, <2>2 DEF Leaves
    <3> QED
      BY <1>1, <2>2, <2>6, <3>1, <3>2, <3>3 DEF RoleFits, Leaves
  <2>8. Given' /\ IdFits' /\ NoIdYet' /\ JoiningCanFinish'
    BY <1>1, <2>1, <2>2, <2>4, <2>5 DEF NodeInv, Given, IdFits, NoIdYet, JoiningCanFinish, Leaves
  <2>9. JoinedWithId' /\ Out' /\ OneIdentity' /\ SetUp'
    <3>1. left > 0 /\ ~ overruled' /\ ~ cutIn' => d.id = disc.id /\ d.joined = disc.joined
      BY <1>1
    <3> QED
      BY <1>1, <1>2, <2>1, <2>2, <3>1, IdFacts
      DEF NodeInv, JoinedWithId, Out, OneIdentity, SetUp, Leaves
  <2>10. LastSeen'
    BY <1>1, <2>1, <2>2 DEF NodeInv, LastSeen, Excused
  <2>11. StillUntold'
    <3>1. ASSUME at = "tick", net'.id = net.id PROVE net'.id = Coordinator
      BY <2>2, <2>4, <2>5, <3>1, IdFacts
    <3>2. ASSUME at = "idle" PROVE lastId # d.id \/ d.id = Coordinator \/ Excused
      BY <2>1, <2>5, <3>2 DEF NodeInv, LastSeen
    <3> QED
      BY <1>1, <1>2, <2>2, <3>1, <3>2 DEF StillUntold, Excused
  <2> QED
    BY <2>3, <2>7, <2>8, <2>9, <2>10, <2>11 DEF NodeInv
<1>4. CASE ~ Adopts(d)
  <2>1. net' = net /\ macId' = macId /\ (net.state = "JOINING" => d.id = Unassigned)
    BY <1>4 DEF Receive, Adopts
  <2>2. NodeTypes'
    BY <1>1, <1>2, <2>1 DEF NodeTypes, Leaves
  <2>3. Given' /\ NoIdYet' /\ LastSeen' /\ StillUntold' /\ IdFits'
    BY <1>1, <2>1 DEF NodeInv, Given, NoIdYet, LastSeen, StillUntold, Excused, IdFits, Leaves
  <2>4. RoleFits'
    BY <1>1, <2>1 DEF NodeInv, RoleFits, Leaves, LeavesRole
  <2>5. JoinedWithId' /\ JoiningCanFinish'
    BY <1>1, <2>1
    DEF NodeInv, JoinedWithId, JoiningCanFinish, Takes, Leaves, LeavesRole, LeavesId
  <2>6. Out' /\ SetUp'
    <3>1. left > 0 /\ ~ overruled' /\ ~ cutIn' => d.id = disc.id /\ d.joined = disc.joined
      BY <1>1
    <3> QED
      BY <1>1, <1>2, <2>1, <3>1 DEF NodeInv, Out, SetUp, Leaves, LeavesId
  <2>7. OneIdentity'
    <3>1. at \in {"idle", "tick"} => left = 0
      BY <1>2
    <3> QED
      BY <1>1, <2>1, <3>1 DEF NodeInv, OneIdentity, Deposed, LeavesId
  <2> QED
    BY <2>2, <2>3, <2>4, <2>5, <2>6, <2>7 DEF NodeInv
<1> QED
  BY <1>3, <1>4

LEMMA RegularHistory ==
  NodeInv /\ UNCHANGED overruled => overruled' \in BOOLEAN /\ (overruled => overruled')
BY DEF NodeInv, NodeTypes

(* A frame that changes no more than a flag of an AUTO node.               *)
LEMMA HearFlagsStep ==
  ASSUME NodeInv, NEW d \in DiscRecords, Receive(d), overruled' = overruled,
         d.role = disc.role, d.id = disc.id, d.joined = disc.joined, d.token = disc.token
  PROVE  NodeInv'
<1>1. /\ macId # 0 /\ disc.id # 0
  BY DEF Receive, Listening, NodeInv, Given
<1>2. Leaves(d)
  BY <1>1 DEF NodeInv, RoleFits, JoinedWithId, Leaves
<1>3. ~ overruled' => LeavesRole(d)
  BY DEF NodeInv, RoleFits, LeavesRole
<1>4. ~ overruled' /\ ~ cutIn' => LeavesId(d)
  BY DEF NodeInv, JoinedWithId, Receive, LeavesId
<1> QED
  BY <1>2, <1>3, <1>4, RegularHistory, ReceiveStep

LEMMA HearAssignStep ==
  ASSUME NodeInv, NEW id \in AssignedIds, HearAssign(id)
  PROVE  NodeInv'
<1> DEFINE d == [disc EXCEPT !.id = id, !.joined = TRUE, !.token = FALSE]
<1>1. /\ Receive(d) /\ overruled' = overruled /\ disc.role # "COORDINATOR"
      /\ ~ disc.joined /\ disc.token
  BY DEF HearAssign, Takes
<1>2. disc \in DiscRecords
  BY DEF NodeInv, NodeTypes
<1>3. /\ d \in DiscRecords /\ d.id = id /\ d.joined = TRUE /\ d.token = FALSE /\ d.role = disc.role
  BY <1>2, IdFacts DEF DiscRecords
<1>4. id \notin {0, Coordinator, Unassigned}
  BY IdFacts
<1> HIDE DEF d
<1>5. Leaves(d)
  BY <1>1, <1>3, <1>4, IdFacts DEF NodeInv, RoleFits, Leaves
<1>6. ~ overruled' => LeavesRole(d)
  BY <1>1, <1>3, <1>4 DEF LeavesRole
<1>7. ~ overruled' /\ ~ cutIn' => LeavesId(d)
  <2>1. left = 0 => disc.id \in {0, Unassigned}
    BY <1>1 DEF NodeInv, JoinedWithId, RoleFits
  <2>2. cutIn => cutIn'
    BY <1>1 DEF Receive
  <2>3. left = 0 => at \in {"idle", "tick"}
    BY DEF NodeInv, NodeTypes, Given
  <2> QED
    BY <1>1, <1>3, <1>4, <2>1, <2>2, <2>3 DEF NodeInv, OneIdentity, Out, LeavesId
<1> QED
  BY <1>1, <1>5, <1>6, <1>7, RegularHistory, ReceiveStep

LEMMA HearLowerStep ==
  ASSUME NodeInv, HearResult("lower")
  PROVE  NodeInv'
<1> DEFINE id == IF disc.id \in {Coordinator, Unassigned} THEN DerivedId ELSE disc.id
           e == [disc EXCEPT !.result = net.state = "ELECTION"]
           d == [e EXCEPT !.role = "ROUTER", !.id = id, !.joined = TRUE]
<1>1. /\ Receive(d)
      /\ overruled' = (overruled \/ net.cfg # "AUTO" \/ net.state = "DISCONNECTED")
  BY DEF HearResult
<1>2. disc \in DiscRecords /\ macId # 0 /\ disc.id # 0 /\ overruled \in BOOLEAN /\ net \in NetRecords
  BY <1>1 DEF NodeInv, NodeTypes, Receive, Listening, Given
<1>3. /\ id \in Ids /\ id \notin {0, Coordinator, Unassigned}
      /\ id \in Assignable \cup {disc.id}
  BY <1>2, IdFacts DEF DiscRecords
<1> HIDE DEF id
<1>4. /\ d \in DiscRecords /\ d.id = id /\ d.joined = TRUE /\ d.role = "ROUTER"
      /\ d.token = disc.token
  BY <1>2, <1>3 DEF DiscRecords, Roles
<1> HIDE DEF d
<1>5. Leaves(d)
  BY <1>3, <1>4 DEF Leaves
<1>6. ~ overruled' => LeavesRole(d)
  BY <1>1, <1>3, <1>4 DEF LeavesRole
<1>7. ~ overruled' /\ ~ cutIn' => LeavesId(d)
  <2> SUFFICES ASSUME ~ overruled', ~ cutIn' PROVE LeavesId(d)
    OBVIOUS
  <2>1. ~ overruled /\ net.cfg = "AUTO" /\ net.state # "DISCONNECTED" /\ ~ cutIn
    BY <1>1 DEF Receive
  <2>2. left = 0 => at \in {"idle", "tick"}
    BY DEF NodeInv, NodeTypes, Given
  <2>3. ASSUME net.state = "CONNECTED", left = 0, net.role # "COORDINATOR"
        PROVE  d.id = disc.id /\ d.role = disc.role
    <3>1. disc.id = net.id /\ disc.role = net.role /\ net.id # Unassigned
      BY <2>1, <2>2, <2>3 DEF NodeInv, OneIdentity, Deposed
    <3>2. disc.role = "ROUTER" /\ disc.id # Coordinator
      BY <1>2, <2>1, <2>3, <3>1 DEF NodeInv, RoleFits, DiscRecords, Roles
    <3> QED
      BY <1>4, <3>1, <3>2 DEF id
  <2> QED
    BY <1>3, <1>4, <2>1, <2>3 DEF LeavesId
<1> QED
  BY <1>1, <1>2, <1>5, <1>6, <1>7, ReceiveStep

LEMMA HearSelfStep ==
  ASSUME NodeInv, HearResult("self")
  PROVE  NodeInv'
<1> DEFINE e == [disc EXCEPT !.result = net.state = "ELECTION"]
           d == [e EXCEPT !.role = "COORDINATOR", !.id = Coordinator, !.joined = TRUE]
<1>1. Receive(d) /\ overruled' = TRUE
  BY DEF HearResult
<1>2. disc \in DiscRecords
  BY DEF NodeInv, NodeTypes
<1>3. /\ d \in DiscRecords /\ d.id = Coordinator /\ d.joined = TRUE /\ d.role = "COORDINATOR"
      /\ d.token = disc.token
  BY <1>2, IdFacts DEF DiscRecords, Roles
<1> HIDE DEF d
<1>4. Leaves(d)
  BY <1>3, IdFacts DEF Leaves
<1> QED
  BY <1>1, <1>4, ReceiveStep

LEMMA HearHigherStep ==
  ASSUME NodeInv, HearResult("higher")
  PROVE  NodeInv'
<1> DEFINE d == [disc EXCEPT !.result = net.state = "ELECTION"]
<1>1. Receive(d) /\ overruled' = overruled
  BY DEF HearResult, NodeInv, NodeTypes
<1>2. disc \in DiscRecords
  BY DEF NodeInv, NodeTypes
<1>3. d \in DiscRecords
  BY <1>2 DEF DiscRecords
<1>4. d.role = disc.role /\ d.id = disc.id /\ d.joined = disc.joined /\ d.token = disc.token
  BY <1>2 DEF DiscRecords
<1> HIDE DEF d
<1> QED
  BY <1>1, <1>3, <1>4, HearFlagsStep

LEMMA HearStep == NodeInv /\ Hear => NodeInv'
<1> SUFFICES ASSUME NodeInv, Hear PROVE NodeInv'
  OBVIOUS
<1>1. disc \in DiscRecords
  BY DEF NodeInv, NodeTypes
<1>2. CASE \E id \in AssignedIds : HearAssign(id)
  BY <1>2, HearAssignStep
<1>3. CASE HearCoordinator
  <2> DEFINE d == [disc EXCEPT !.coord = TRUE]
  <2>1. Receive(d) /\ overruled' = overruled
    BY <1>3 DEF HearCoordinator
  <2>2. /\ d \in DiscRecords
        /\ d.role = disc.role /\ d.id = disc.id /\ d.joined = disc.joined /\ d.token = disc.token
    BY <1>1 DEF DiscRecords
  <2> HIDE DEF d
  <2> QED
    BY <2>1, <2>2, HearFlagsStep
<1>4. CASE HearOther \/ \E profile \in Profiles : HearPowerBeacon(profile)
  <2>1. Receive(disc) /\ overruled' = overruled
    BY <1>4 DEF HearOther, HearPowerBeacon
  <2> QED
    BY <1>1, <2>1, HearFlagsStep
<1>5. CASE \E newer, lower \in BOOLEAN : HearElection(newer, lower)
  <2>1. PICK newer \in BOOLEAN, lower \in BOOLEAN : HearElection(newer, lower)
    BY <1>5
  <2> DEFINE d == [disc EXCEPT !.result = @ /\ ~ newer, !.lower = @ \/ lower]
  <2>2. Receive(d) /\ overruled' = overruled
    BY <2>1 DEF HearElection
  <2>3. /\ d \in DiscRecords
        /\ d.role = disc.role /\ d.id = disc.id /\ d.joined = disc.joined /\ d.token = disc.token
    BY <1>1 DEF DiscRecords
  <2> HIDE DEF d
  <2> QED
    BY <2>2, <2>3, HearFlagsStep
<1>6. CASE \E winner \in {"lower", "self", "higher"} : HearResult(winner)
  BY <1>6, HearLowerStep, HearSelfStep, HearHigherStep
<1> QED
  BY <1>2, <1>3, <1>4, <1>5, <1>6 DEF Hear

-----------------------------------------------------------------------------
(* The node.                                                               *)
LEMMA NodeStep == NodeInv /\ [Next]_vars => NodeInv'
<1> SUFFICES ASSUME NodeInv, [Next]_vars PROVE NodeInv'
  OBVIOUS
<1>1. ASSUME NEW c \in Configs, UmeshInit(c) PROVE NodeInv'
  BY <1>1, UmeshInitStep
<1>2. ASSUME NEW how \in {"stop", "reset"}, StopBegins(how) PROVE NodeInv'
  BY <1>2, StopBeginsStep
<1>3. CASE DeepSleepCycle \/ \E mode \in Modes : SetPowerMode(mode)
  <2>1. calls' \in 0..MaxCalls
    BY <1>3, CountedCall DEF DeepSleepCycle, SetPowerMode, NodeInv, NodeTypes
  <2>2. UNCHANGED <<ready, net, macId, disc, lastId, at, left, history>>
    BY <1>3 DEF DeepSleepCycle, SetPowerMode
  <2> QED
    BY <2>1, <2>2, NodeUnchanged
<1>4. CASE UNCHANGED vars
  <2>1. calls' \in 0..MaxCalls
    BY <1>4 DEF vars, NodeInv, NodeTypes
  <2>2. UNCHANGED <<ready, net, macId, disc, lastId, at, left, history>>
    BY <1>4 DEF vars
  <2> QED
    BY <2>1, <2>2, NodeUnchanged
<1> QED
  BY <1>1, <1>2, <1>3, <1>4, InitFailsStep, StartStep, LeaveOnStep, StopEndsStep, TriggerStep, NetTickStep,
     TickEndsStep, HearStep
  DEF Next

LEMMA NodeInvariance == Spec => []NodeInv
BY InitInv, NodeStep, PTL DEF Spec

(* A connected node has one id and one role, in mac.c, net.c and           *)
(* discovery.c, unless it was overruled or a frame met umesh_stop.         *)
THEOREM IdentityIsOne == Spec => []OneIdentity
<1>1. NodeInv => OneIdentity
  BY DEF NodeInv
<1> QED
  BY <1>1, NodeInvariance, PTL

(* The join of a node can end as long as the node waits for it, unless it  *)
(* was overruled or a frame came between the assignments of umesh_stop.    *)
THEOREM JoinsAreOpen == Spec => []JoiningCanFinish
<1>1. NodeInv => JoiningCanFinish
  BY DEF NodeInv
<1> QED
  BY <1>1, NodeInvariance, PTL

(* After umesh_stop no ASSIGN gives the node an id again, and nothing else *)
(* does unless it was overruled or a frame met umesh_stop.                 *)
THEOREM StopLasts == Spec => []StoppedStaysOut
<1>1. NodeInv => StoppedStaysOut
  BY DEF NodeInv, NodeTypes, Given, NoIdYet, Out, StoppedStaysOut
<1> QED
  BY <1>1, NodeInvariance, PTL

(* The end of umesh_tick leaves no id untold, but for ids that came in the *)
(* middle of it, requests that were not sent, and the coordinator's.       *)
THEOREM JoinsAreTold == Spec => EachJoinAnnounced
<1>1. NodeInv /\ TickEnds => ~ unheard' \/ raced \/ unsent \/ net.id = Coordinator
  BY DEF NodeInv, NodeTypes, Given, StillUntold, Excused, TickEnds, Notify, TellsJoin
<1>2. NodeInv => [TickEnds => ~ unheard' \/ raced \/ unsent \/ net.id = Coordinator]_vars
  BY <1>1
<1> QED
  BY <1>2, NodeInvariance, PTL DEF EachJoinAnnounced

-----------------------------------------------------------------------------
(* Power.  First the phase of a moment in its interval.                    *)
LEMMA PhaseRange ==
  ASSUME NEW t \in Nat, NEW k \in Nat \ {0}
  PROVE  t % k \in 0..(k - 1) /\ t % k <= t
BY SMT

LEMMA PhaseAgo ==
  ASSUME NEW s \in Nat, NEW t \in Nat, NEW k \in Nat \ {0}, t - (t % k) <= s, s <= t
  PROVE  s % k = s - (t - (t % k))
BY SMT

LEMMA PhaseAhead ==
  ASSUME NEW t \in Nat, NEW k \in Nat \ {0}, t % k = 0, NEW j \in 0..(k - 1)
  PROVE  (t + j) % k = j
BY SMT

LEMMA IntervalsAgo ==
  ASSUME NEW t \in Int, NEW k \in Int, k > 0
  PROVE  \E q \in Int : t = k * q + (t % k)
BY SMTT(30)

LEMMA NextInterval ==
  ASSUME NEW t \in Nat, NEW k \in Nat \ {0}, t % k = 0
  PROVE  (t + k) % k = 0
<1>0. t \in Int /\ k \in Int /\ k > 0
  OBVIOUS
<1>1. \E q \in Int : t = k * q + (t % k)
  BY <1>0, IntervalsAgo, Zenon
<1> PICK q \in Int : t = k * q + (t % k)
  BY <1>1
<1>2. t = k * q
  OBVIOUS
<1>3. k * (q + 1) = k * q + k
  BY SMT
<1>4. t + k = k * (q + 1)
  BY <1>2, <1>3
<1>5. \A p \in Int : (k * p) % k = 0
  BY SMT
<1>6. (k * (q + 1)) % k = 0
  BY <1>5
<1> QED
  BY <1>4, <1>6

(* How many elements a part of a finite set has, and the rest of it.       *)
LEMMA PartAndRest ==
  ASSUME NEW S, IsFiniteSet(S), NEW A, NEW B, A \cup B = S, A \cap B = {}
  PROVE  /\ Cardinality(A) \in Nat /\ Cardinality(B) \in Nat
         /\ Cardinality(A) + Cardinality(B) = Cardinality(S)
<1>1. A \subseteq S /\ B \subseteq S
  OBVIOUS
<1>2. IsFiniteSet(A) /\ IsFiniteSet(B)
  BY <1>1, FS_Subset
<1>3. Cardinality(A \cup B) = Cardinality(A) + Cardinality(B) - Cardinality(A \cap B)
  BY <1>2, FS_Union
<1>4. Cardinality(A \cap B) = 0
  BY FS_EmptySet
<1>5. Cardinality(A) \in Nat /\ Cardinality(B) \in Nat
  BY <1>2, FS_CardinalityType
<1> QED
  BY <1>3, <1>4, <1>5

(* The chunks of update_stats_window between the last tick and now: where  *)
(* the one that holds t starts, and which phase that moment has.           *)
LEMMA ProfileFacts ==
  ASSUME power \in PowerStates
  PROVE  /\ power.last \in Nat /\ power.profile.interval \in Nat \ {0}
         /\ power.profile.window \in Nat \ {0}
         /\ power.profile.window <= power.profile.interval
         /\ \A t \in Nat : Phase(t) \in 0..(power.profile.interval - 1) /\ Phase(t) <= t
<1>1. /\ power.last \in Nat /\ power.profile.interval \in Nat \ {0}
      /\ power.profile.window \in Nat \ {0}
      /\ power.profile.window <= power.profile.interval
  BY PowerAssumption DEF PowerStates
<1> QED
  BY <1>1, PhaseRange DEF Phase

LEMMA ChunkFacts ==
  ASSUME power \in PowerStates, NEW t \in Nat, power.last <= t
  PROVE  /\ t - Phase(t) < power.last =>
              /\ ChunkOf(t) = power.last
              /\ Phase(power.last) = power.last - (t - Phase(t))
         /\ t - Phase(t) >= power.last =>
              /\ ChunkOf(t) = t - Phase(t) /\ Phase(ChunkOf(t)) = 0
              /\ Listens(ChunkOf(t))
<1>1. /\ power.last \in Nat /\ power.profile.interval \in Nat \ {0}
      /\ power.profile.window \in Nat \ {0} /\ Phase(t) \in Nat /\ Phase(t) <= t
  BY ProfileFacts
<1>2. ASSUME t - Phase(t) < power.last
      PROVE  ChunkOf(t) = power.last /\ Phase(power.last) = power.last - (t - Phase(t))
  <2>1. t - (t % power.profile.interval) <= power.last
    BY <1>1, <1>2 DEF Phase
  <2>2. power.last % power.profile.interval = power.last - (t - (t % power.profile.interval))
    BY <1>1, <2>1, PhaseAgo
  <2> QED
    BY <1>2, <2>2 DEF ChunkOf, Phase
<1>3. ASSUME t - Phase(t) >= power.last
      PROVE  ChunkOf(t) = t - Phase(t) /\ Phase(ChunkOf(t)) = 0 /\ Listens(ChunkOf(t))
  <2>1. ~ t - Phase(t) < power.last
    BY <1>1, <1>3
  <2>2. ChunkOf(t) = t - Phase(t)
    BY <2>1 DEF ChunkOf
  <2> DEFINE s == t - Phase(t)
  <2>3. /\ s \in Nat /\ s = t - (t % power.profile.interval) /\ s <= t
        /\ t - (t % power.profile.interval) <= s
    BY <1>1, <1>3 DEF Phase
  <2> HIDE DEF s
  <2>4. s % power.profile.interval = s - (t - (t % power.profile.interval))
    BY <1>1, <2>3, PhaseAgo
  <2>5. Phase(s) = 0
    BY <1>1, <2>3, <2>4, PhaseRange DEF Phase
  <2>6. ChunkOf(t) = s
    BY <2>2 DEF s
  <2> QED
    BY <1>1, <2>2, <2>5, <2>6 DEF Listens
<1> QED
  BY <1>2, <1>3

(* What is counted as sleep is outside of the listen windows, ...          *)
LEMMA AsleepIsIdle ==
  ASSUME power \in PowerStates, NEW t \in Nat, power.last <= t, ~ Listens(ChunkOf(t))
  PROVE  Phase(t) >= power.profile.window
<1>1. /\ power.last \in Nat /\ power.profile.window \in Nat
      /\ Phase(t) \in Nat /\ Phase(t) <= t /\ Phase(power.last) \in Nat
  BY ProfileFacts
<1>2. t - Phase(t) < power.last
  BY <1>1, ChunkFacts
<1>3. ChunkOf(t) = power.last /\ Phase(power.last) = power.last - (t - Phase(t))
  BY <1>2, ChunkFacts
<1>4. ~ (Phase(power.last) < power.profile.window)
  BY <1>3 DEF Listens
<1> QED
  BY <1>1, <1>3, <1>4

(* ... and all of that time is, unless the last tick was so long ago that  *)
(* a window ended in between.                                              *)
LEMMA IdleIsAsleep ==
  ASSUME power \in PowerStates, NEW now \in Nat, ~ JumpsOver(now),
         NEW t \in Since(now), Phase(t) >= power.profile.window
  PROVE  ~ Listens(ChunkOf(t))
<1>1. /\ power.last \in Nat /\ power.profile.interval \in Nat \ {0}
      /\ power.profile.window \in Nat \ {0}
      /\ t \in Nat /\ power.last <= t /\ t < now
      /\ Phase(t) \in Nat /\ Phase(t) <= t /\ Phase(power.last) \in Nat
  BY ProfileFacts DEF Since
<1> DEFINE end == (t - Phase(t)) + power.profile.window
<1>2. Phase(end) = power.profile.window /\ end \in Nat /\ end <= t
  <2>1. /\ end \in Nat /\ end <= t /\ t - (t % power.profile.interval) <= end
        /\ end - (t - (t % power.profile.interval)) = power.profile.window
    BY <1>1 DEF Phase
  <2> HIDE DEF end
  <2>2. end % power.profile.interval = end - (t - (t % power.profile.interval))
    BY <1>1, <2>1, PhaseAgo
  <2> QED
    BY <2>1, <2>2 DEF Phase
<1>3. ~ (end \in (power.last + 1)..(now - 1))
  BY <1>2 DEF JumpsOver
<1>4. end <= power.last
  <2> HIDE DEF end
  <2> QED
    BY <1>1, <1>2, <1>3
<1>5. t - Phase(t) < power.last
  BY <1>1, <1>4
<1>6. ChunkOf(t) = power.last /\ Phase(power.last) = power.last - (t - Phase(t))
  BY <1>1, <1>5, ChunkFacts
<1>7. Phase(power.last) >= power.profile.window
  BY <1>1, <1>4, <1>6
<1> QED
  BY <1>1, <1>6, <1>7 DEF Listens

(* The totals of one tick.                                                 *)
LEMMA TotalsOfATick ==
  ASSUME power \in PowerStates, NEW now \in Nat, now > power.last
  PROVE  /\ AwakeMs(now) \in Nat /\ AsleepMs(now) \in Nat /\ IdleMs(now) \in Nat
         /\ AwakeMs(now) + AsleepMs(now) = now - power.last
         /\ AsleepMs(now) <= IdleMs(now)
         /\ ~ JumpsOver(now) => AsleepMs(now) = IdleMs(now)
<1> DEFINE A == {t \in Since(now) : Listens(ChunkOf(t))}
           B == {t \in Since(now) : ~ Listens(ChunkOf(t))}
           I == {t \in Since(now) : Phase(t) >= power.profile.window}
<1>1. power.last \in Nat
  BY ProfileFacts
<1>2. IsFiniteSet(Since(now)) /\ Cardinality(Since(now)) = now - power.last
  <2>1. power.last \in Int /\ now - 1 \in Int /\ ~ (power.last > now - 1)
        /\ (now - 1) - power.last + 1 = now - power.last
    BY <1>1
  <2> QED
    BY <2>1, FS_Interval DEF Since
<1>3. A \cup B = Since(now) /\ A \cap B = {}
  OBVIOUS
<1>4. /\ Cardinality(A) \in Nat /\ Cardinality(B) \in Nat
      /\ Cardinality(A) + Cardinality(B) = now - power.last
  <2> HIDE DEF A, B
  <2> QED
    BY <1>2, <1>3, PartAndRest
<1>5. \A t \in Since(now) : t \in Nat /\ power.last <= t
  BY <1>1 DEF Since
<1>6. B \subseteq I
  BY <1>5, AsleepIsIdle
<1>7. IsFiniteSet(I) /\ Cardinality(I) \in Nat
  <2>1. I \subseteq Since(now)
    OBVIOUS
  <2> HIDE DEF I
  <2> QED
    BY <1>2, <2>1, FS_Subset, FS_CardinalityType
<1>8. Cardinality(B) <= Cardinality(I)
  <2> HIDE DEF B, I
  <2> QED
    BY <1>6, <1>7, FS_Subset
<1>9. ~ JumpsOver(now) => B = I
  BY <1>6, IdleIsAsleep
<1>10. Cardinality(A) = AwakeMs(now) /\ Cardinality(B) = AsleepMs(now) /\ Cardinality(I) = IdleMs(now)
  BY DEF AwakeMs, AsleepMs, IdleMs
<1> HIDE DEF A, B, I
<1> QED
  BY <1>4, <1>7, <1>8, <1>9, <1>10

(* Where no callback is called, the last chunk is like the time before the *)
(* tick.                                                                   *)
LEMMA QuietTick ==
  ASSUME power \in PowerStates, NEW now \in Nat, now > power.last, ~ CallsBack(now)
  PROVE  AsleepAfter(now) <=> power.asleep
<1>1. /\ power.last \in Nat /\ power.profile.interval \in Nat \ {0}
      /\ power.profile.window \in Nat \ {0} /\ power.asleep \in BOOLEAN
      /\ Phase(power.last) \in 0..(power.profile.interval - 1)
      /\ Phase(power.last) <= power.last
  BY ProfileFacts DEF PowerStates
<1> DEFINE t == now - 1
<1>2. t \in Nat /\ power.last <= t /\ Phase(t) \in Nat /\ Phase(t) <= t
      /\ AsleepAfter(now) = ~ Listens(ChunkOf(t))
  <2>1. t \in Nat /\ power.last <= t
    BY <1>1
  <2> QED
    BY <2>1, ProfileFacts DEF AsleepAfter
<1>3. power.last \in Since(now)
  BY <1>1 DEF Since
<1>4. ~ Listens(power.last) <=> power.asleep
  <2>1. power.last \in Chunks(now)
    BY <1>3 DEF Chunks
  <2> QED
    BY <1>1, <2>1 DEF CallsBack, AsleepBefore, Listens
<1> HIDE DEF t
<1>5. CASE t - Phase(t) < power.last
  BY <1>2, <1>4, <1>5, ChunkFacts
<1>6. CASE t - Phase(t) = power.last
  BY <1>1, <1>2, <1>4, <1>6, ChunkFacts
<1>7. CASE t - Phase(t) > power.last
  <2> DEFINE s == t - Phase(t)
             k == power.profile.interval
             c == (power.last - Phase(power.last)) + k
             b == (power.last - Phase(power.last)) + (k - 1)
  <2>1. Listens(ChunkOf(t)) /\ Phase(s) = 0
    BY <1>1, <1>2, <1>7, ChunkFacts
  <2>2. (power.last - Phase(power.last)) % k = 0 /\ power.last - Phase(power.last) \in Nat
    <3>1. power.last - Phase(power.last) \in Nat
      BY <1>1
    <3>2. power.last - (power.last % k) <= power.last - Phase(power.last)
          /\ power.last - Phase(power.last) <= power.last
      BY <1>1 DEF Phase
    <3>3. (power.last - Phase(power.last)) % k
            = (power.last - Phase(power.last)) - (power.last - (power.last % k))
      BY <1>1, <3>1, <3>2, PhaseAgo
    <3> QED
      BY <1>1, <3>1, <3>3 DEF Phase
  <2>3. Phase(c) = 0 /\ c \in Nat /\ c > power.last
    BY <1>1, <2>2, NextInterval DEF Phase
  <2>4. Phase(b) = k - 1 /\ b \in Nat /\ b = c - 1 /\ power.last <= b
    <3>1. k - 1 \in 0..(k - 1) /\ k \in Nat \ {0}
      BY <1>1
    <3>2. b % k = k - 1
      BY <2>2, <3>1, PhaseAhead
    <3> QED
      BY <1>1, <2>2, <3>2 DEF Phase
  <2>5. c <= s
    <3> SUFFICES ASSUME s < c PROVE FALSE
      BY <1>1, <1>2, <2>3
    <3>1. s \in Nat /\ s <= b
      BY <1>1, <1>2, <1>7, <2>3, <2>4
    <3>2. b - Phase(b) = power.last - Phase(power.last) /\ s > power.last - Phase(power.last)
      BY <1>1, <1>2, <1>7, <2>4
    <3>3. b - (b % k) <= s /\ s - (b - (b % k)) > 0
      BY <1>1, <1>2, <2>2, <3>1, <3>2 DEF Phase
    <3> HIDE DEF s, b
    <3>4. s % k = s - (b - (b % k))
      BY <1>1, <2>4, <3>1, <3>3, PhaseAgo
    <3> QED
      BY <2>1, <3>3, <3>4 DEF Phase
  <2>6. c \in Chunks(now)
    <3>1. c <= now - 1
      BY <1>1, <1>2, <2>3, <2>5 DEF t
    <3> QED
      BY <1>1, <2>3, <3>1 DEF Chunks, Since
  <2>7. AsleepBefore(c) = ~ Listens(power.last)
    <3>1. ChunkOf(b) = power.last
      BY <1>1, <2>4, ChunkFacts
    <3>2. AsleepAfter(c) = ~ Listens(power.last)
      BY <2>4, <3>1 DEF AsleepAfter
    <3> QED
      BY <1>1, <2>3, <3>2 DEF AsleepBefore
  <2>8. Listens(c)
    BY <1>1, <2>3 DEF Listens
  <2> QED
    BY <1>2, <1>4, <2>1, <2>6, <2>7, <2>8 DEF CallsBack
<1> QED
  BY <1>1, <1>2, <1>5, <1>6, <1>7

(* The bookkeeping as a whole.  SleepIsReal and PhaseTold are inductive    *)
(* together with the types.                                                *)
PowerInv == PowerTypeOK /\ SleepIsReal /\ PhaseTold

(* What a step of a node may do to power and duty.                         *)
PowerStep ==
  \/ UNCHANGED <<power, duty>>
  \/ \E mode \in Modes : power' = PowerInit(mode) /\ duty' = NewDuty
  \/ \E mode \in Modes : SetMode(mode)
  \/ DeepCycle(net.role)
  \/ \E profile \in Profiles : SetProfile(profile) /\ UNCHANGED duty
  \/ \E now \in Nat : PowerTick(now, net.role)

LEMMA PowerStarts ==
  ASSUME NEW mode \in Modes
  PROVE  /\ PowerInit(mode) \in PowerStates /\ NewDuty \in Duties
         /\ PowerInit(mode).last = 0 /\ PowerInit(mode).asleep = FALSE
         /\ PowerInit(mode).activeMs = 0 /\ PowerInit(mode).sleepMs = 0
         /\ NewDuty.idle = 0 /\ NewDuty.deep = 0 /\ NewDuty.skew = 0 /\ NewDuty.told = "wake" /\ ~ NewDuty.cut
BY PowerAssumption DEF PowerInit, NewDuty, PowerStates, Duties

LEMMA ClockRuns ==
  ASSUME power \in PowerStates, NEW step \in Steps
  PROVE  Later(step) \in Nat
<1>1. power.last \in Nat /\ step \in Nat /\ MaxClock \in Nat
  BY DeviceAssumption DEF PowerStates
<1> QED
  BY <1>1 DEF Later

LEMMA StepOfPower == PowerTypeOK /\ [Next]_vars => PowerStep
<1> SUFFICES ASSUME PowerTypeOK, [Next]_vars PROVE PowerStep
  OBVIOUS
<1>1. ASSUME NEW c \in Configs, UmeshInit(c) PROVE PowerStep
  <2>1. c.mode \in Modes
    BY IdFacts
  <2> QED
    BY <1>1, <2>1 DEF UmeshInit, PowerStep
<1>2. CASE InitFails
  <2>1. "ACTIVE" \in Modes
    BY DEF Modes
  <2> QED
    BY <1>2, <2>1 DEF InitFails, PowerStep
<1>3. CASE TickEnds
  <2>1. PICK step \in Steps : PowerTick(Later(step), net.role)
    BY <1>3 DEF TickEnds
  <2>2. Later(step) \in Nat
    BY ClockRuns DEF PowerTypeOK
  <2> QED
    BY <2>1, <2>2 DEF PowerStep
<1>4. CASE Hear
  BY <1>4
  DEF Hear, HearAssign, HearCoordinator, HearOther, HearElection, HearResult, HearPowerBeacon,
      PowerStep
<1>5. CASE Start \/ LeaveOn \/ StopEnds \/ Trigger \/ NetTick \/ UNCHANGED vars
  BY <1>5 DEF Start, LeaveOn, StopEnds, Trigger, NetTick, vars, PowerStep
<1>6. ASSUME NEW how \in {"stop", "reset"}, StopBegins(how) PROVE PowerStep
  BY <1>6 DEF StopBegins, PowerStep
<1>7. ASSUME NEW mode \in Modes, SetPowerMode(mode) PROVE PowerStep
  BY <1>7 DEF SetPowerMode, PowerStep
<1>8. CASE DeepSleepCycle
  BY <1>8 DEF DeepSleepCycle, PowerStep
<1> QED
  BY <1>1, <1>2, <1>3, <1>4, <1>5, <1>6, <1>7, <1>8 DEF Next

LEMMA PowerTickStep ==
  ASSUME PowerInv, NEW now \in Nat, NEW role, PowerTick(now, role)
  PROVE  PowerInv'
<1>1. /\ power \in PowerStates /\ duty \in Duties
      /\ TimeAccounted /\ NoSleepInvented /\ NoSleepMissed /\ PhaseTold
  BY DEF PowerInv, PowerTypeOK, SleepIsReal
<1>2. /\ power.last \in Nat /\ power.activeMs \in Nat /\ power.sleepMs \in Nat
      /\ power.asleep \in BOOLEAN /\ duty.idle \in Nat /\ duty.deep \in Nat
      /\ duty.coarse \in BOOLEAN /\ duty.skew \in Nat /\ duty.cut \in BOOLEAN
      /\ duty.told \in {"sleep", "wake"}
  BY <1>1 DEF PowerStates, Duties
<1>3. CASE TickBackwards(now)
  <2>1. power' = [power EXCEPT !.last = now]
    BY <1>3 DEF TickBackwards
  <2> DEFINE skew == duty.skew + (power.last - now)
  <2>2. duty' = [duty EXCEPT !.skew = skew] /\ skew \in Nat
    BY <1>2, <1>3 DEF TickBackwards
  <2>3. /\ power' \in PowerStates /\ power'.last = now /\ power'.activeMs = power.activeMs
        /\ power'.sleepMs = power.sleepMs /\ power'.asleep = power.asleep
    BY <1>1, <2>1 DEF PowerStates
  <2>4. /\ duty' \in Duties /\ duty'.skew = skew
        /\ duty'.idle = duty.idle /\ duty'.deep = duty.deep /\ duty'.coarse = duty.coarse
        /\ duty'.told = duty.told /\ duty'.cut = duty.cut
    <3> HIDE DEF skew
    <3> QED
      BY <1>1, <2>2 DEF Duties
  <2>5. TimeAccounted'
    BY <1>1, <1>2, <2>3, <2>4 DEF TimeAccounted
  <2>6. NoSleepInvented' /\ NoSleepMissed' /\ PhaseTold'
    BY <1>1, <2>3, <2>4 DEF NoSleepInvented, NoSleepMissed, PhaseTold
  <2> QED
    BY <2>3, <2>4, <2>5, <2>6 DEF PowerInv, PowerTypeOK, SleepIsReal
<1>4. CASE TickLight(now, role)
  <2> DEFINE asleep == AsleepAfter(now)
             slept  == AsleepMs(now)
             awake  == AwakeMs(now)
             idle   == IdleMs(now)
             jumps  == JumpsOver(now)
             heard == CallsBack(now)
             told   == IF ~ heard THEN duty.told ELSE IF asleep THEN "sleep" ELSE "wake"
  <2>1. now > power.last
    BY <1>4 DEF TickLight
  <2>2. /\ asleep \in BOOLEAN /\ jumps \in BOOLEAN /\ heard \in BOOLEAN
        /\ awake \in Nat /\ slept \in Nat /\ idle \in Nat
        /\ awake + slept = now - power.last /\ slept <= idle
        /\ ~ jumps => slept = idle
    BY <1>1, <2>1, TotalsOfATick DEF AsleepAfter, JumpsOver, CallsBack
  <2>3. ~ heard => (asleep <=> power.asleep)
    BY <1>1, <2>1, QuietTick
  <2> DEFINE sleepMs  == power.sleepMs + slept
             activeMs == power.activeMs + awake
             idleMs   == duty.idle + idle
             coarse   == duty.coarse \/ jumps
             cut      == duty.cut /\ ~ heard
  <2>4. /\ power' = [power EXCEPT !.last = now, !.asleep = asleep,
                                  !.sleepMs = sleepMs, !.activeMs = activeMs]
        /\ duty' = [duty EXCEPT !.idle = idleMs, !.coarse = coarse, !.told = told, !.cut = cut]
    BY <1>4 DEF TickLight
  <2> HIDE DEF asleep, slept, awake, idle, jumps, heard
  <2>5. /\ told \in {"sleep", "wake"} /\ coarse \in BOOLEAN /\ cut \in BOOLEAN
        /\ sleepMs \in Nat /\ activeMs \in Nat /\ idleMs \in Nat
    BY <1>2, <2>2
  <2>6. (heard => (asleep <=> told = "sleep")) /\ (~ heard => told = duty.told)
    BY <2>2
  <2> HIDE DEF told, sleepMs, activeMs, idleMs, coarse, cut
  <2>7. /\ power' \in PowerStates /\ power'.last = now /\ power'.asleep = asleep
        /\ power'.activeMs = activeMs /\ power'.sleepMs = sleepMs
    BY <1>1, <2>2, <2>4, <2>5 DEF PowerStates
  <2>8. /\ duty' \in Duties /\ duty'.skew = duty.skew /\ duty'.deep = duty.deep
        /\ duty'.idle = idleMs /\ duty'.coarse = coarse /\ duty'.told = told /\ duty'.cut = cut
    BY <1>1, <2>4, <2>5 DEF Duties
  <2>9. TimeAccounted'
    BY <1>1, <1>2, <2>2, <2>7, <2>8 DEF TimeAccounted, activeMs, sleepMs
  <2>10. NoSleepInvented'
    BY <1>1, <1>2, <2>2, <2>7, <2>8 DEF NoSleepInvented, sleepMs, idleMs
  <2>11. NoSleepMissed'
    BY <1>1, <1>2, <2>2, <2>7, <2>8 DEF NoSleepMissed, sleepMs, idleMs, coarse
  <2>12. PhaseTold'
    BY <1>1, <2>3, <2>6, <2>7, <2>8 DEF PhaseTold, cut
  <2> QED
    BY <2>7, <2>8, <2>9, <2>10, <2>11, <2>12 DEF PowerInv, PowerTypeOK, SleepIsReal
<1>5. CASE TickActive(now, role)
  <2> DEFINE on == AlwaysOn(role)
  <2> DEFINE asleep   == power.asleep /\ ~ on
             activeMs == power.activeMs + (now - power.last)
             cut      == duty.cut \/ (power.asleep /\ on)
  <2>1. now > power.last /\ on \in BOOLEAN /\ asleep \in BOOLEAN /\ cut \in BOOLEAN
    BY <1>5 DEF TickActive, AlwaysOn
  <2>10. activeMs \in Nat
    BY <1>2, <2>1
  <2>2. /\ power' = [power EXCEPT !.last = now, !.asleep = asleep, !.activeMs = activeMs]
        /\ duty' = [duty EXCEPT !.cut = cut]
    BY <1>5 DEF TickActive
  <2> HIDE DEF on, asleep, activeMs, cut
  <2>3. /\ power' \in PowerStates /\ power'.last = now /\ power'.asleep = asleep
        /\ power'.activeMs = activeMs /\ power'.sleepMs = power.sleepMs
    BY <1>1, <2>1, <2>2, <2>10 DEF PowerStates
  <2>4. /\ duty' \in Duties /\ duty'.cut = cut
        /\ duty'.idle = duty.idle /\ duty'.deep = duty.deep /\ duty'.coarse = duty.coarse
        /\ duty'.told = duty.told /\ duty'.skew = duty.skew
    BY <1>1, <1>2, <2>1, <2>2 DEF Duties
  <2>5. TimeAccounted'
    BY <1>1, <1>2, <2>3, <2>4 DEF TimeAccounted, activeMs
  <2>6. NoSleepInvented' /\ NoSleepMissed'
    BY <1>1, <2>3, <2>4 DEF NoSleepInvented, NoSleepMissed
  <2>7. PhaseTold'
    BY <1>1, <2>1, <2>3, <2>4 DEF PhaseTold, asleep, cut
  <2> QED
    BY <2>3, <2>4, <2>5, <2>6, <2>7 DEF PowerInv, PowerTypeOK, SleepIsReal
<1> QED
  BY <1>3, <1>4, <1>5 DEF PowerTick

LEMMA PowerStepKeeps == PowerInv /\ PowerStep => PowerInv'
<1> SUFFICES ASSUME PowerInv, PowerStep PROVE PowerInv'
  OBVIOUS
<1>1. /\ power \in PowerStates /\ duty \in Duties
      /\ TimeAccounted /\ NoSleepInvented /\ NoSleepMissed /\ PhaseTold
  BY DEF PowerInv, PowerTypeOK, SleepIsReal
<1>2. /\ power.sleepMs \in Nat /\ power.activeMs \in Nat /\ power.last \in Nat
      /\ duty.deep \in Nat /\ duty.idle \in Nat /\ duty.skew \in Nat /\ DeepInterval \in Nat
      /\ duty.cut \in BOOLEAN /\ power.asleep \in BOOLEAN
  BY <1>1, PowerAssumption DEF PowerStates, Duties
<1>3. CASE UNCHANGED <<power, duty>>
  BY <1>1, <1>3
  DEF PowerInv, PowerTypeOK, SleepIsReal, TimeAccounted, NoSleepInvented, NoSleepMissed,
      PhaseTold
<1>4. ASSUME NEW mode \in Modes, power' = PowerInit(mode), duty' = NewDuty PROVE PowerInv'
  <2>1. /\ power' \in PowerStates /\ duty' \in Duties
        /\ power'.last = 0 /\ power'.asleep = FALSE /\ power'.activeMs = 0 /\ power'.sleepMs = 0
        /\ duty'.idle = 0 /\ duty'.deep = 0 /\ duty'.skew = 0 /\ duty'.told = "wake" /\ ~ duty'.cut
    BY <1>4, PowerStarts
  <2> QED
    BY <2>1
    DEF PowerInv, PowerTypeOK, SleepIsReal, TimeAccounted, NoSleepInvented, NoSleepMissed,
        PhaseTold
<1>5. ASSUME NEW mode \in Modes, SetMode(mode) PROVE PowerInv'
  <2>1. /\ power' = [power EXCEPT !.mode = mode, !.asleep = FALSE]
        /\ duty' = [duty EXCEPT !.cut = duty.cut \/ power.asleep]
    BY <1>5 DEF SetMode
  <2>2. /\ power' \in PowerStates /\ power'.last = power.last /\ power'.asleep = FALSE
        /\ power'.activeMs = power.activeMs /\ power'.sleepMs = power.sleepMs
    BY <1>1, <2>1 DEF PowerStates
  <2>3. /\ duty' \in Duties /\ duty'.cut = (duty.cut \/ power.asleep)
        /\ duty'.idle = duty.idle /\ duty'.deep = duty.deep /\ duty'.coarse = duty.coarse
        /\ duty'.told = duty.told /\ duty'.skew = duty.skew
    BY <1>1, <1>2, <2>1 DEF Duties
  <2> QED
    BY <1>1, <2>2, <2>3
    DEF PowerInv, PowerTypeOK, SleepIsReal, TimeAccounted, NoSleepInvented, NoSleepMissed,
        PhaseTold
<1>6. CASE DeepCycle(net.role)
  <2> DEFINE sleepMs == power.sleepMs + DeepInterval
             deep    == duty.deep + DeepInterval
  <2>1. /\ power' = [power EXCEPT !.sleepMs = sleepMs]
        /\ duty' = [duty EXCEPT !.deep = deep, !.told = "sleep", !.cut = TRUE]
    BY <1>6 DEF DeepCycle
  <2>5. sleepMs \in Nat /\ deep \in Nat
    BY <1>2
  <2> HIDE DEF sleepMs, deep
  <2>2. /\ power' \in PowerStates /\ power'.last = power.last
        /\ power'.activeMs = power.activeMs /\ power'.sleepMs = sleepMs
    BY <1>1, <2>1, <2>5 DEF PowerStates
  <2>3. /\ duty' \in Duties /\ duty'.cut = TRUE /\ duty'.deep = deep
        /\ duty'.idle = duty.idle /\ duty'.coarse = duty.coarse /\ duty'.skew = duty.skew
    BY <1>1, <2>1, <2>5 DEF Duties
  <2>4. TimeAccounted' /\ NoSleepInvented' /\ NoSleepMissed'
    BY <1>1, <1>2, <2>2, <2>3
    DEF TimeAccounted, NoSleepInvented, NoSleepMissed, sleepMs, deep
  <2> QED
    BY <2>2, <2>3, <2>4 DEF PowerInv, PowerTypeOK, SleepIsReal, PhaseTold
<1>7. ASSUME NEW profile \in Profiles, SetProfile(profile), UNCHANGED duty PROVE PowerInv'
  <2>1. /\ power' \in PowerStates /\ power'.last = power.last /\ power'.asleep = power.asleep
        /\ power'.activeMs = power.activeMs /\ power'.sleepMs = power.sleepMs
    BY <1>1, <1>7 DEF SetProfile, PowerStates
  <2> QED
    BY <1>1, <1>7, <2>1
    DEF PowerInv, PowerTypeOK, SleepIsReal, TimeAccounted, NoSleepInvented, NoSleepMissed,
        PhaseTold
<1>8. ASSUME NEW now \in Nat, PowerTick(now, net.role) PROVE PowerInv'
  BY <1>8, PowerTickStep
<1> QED
  BY <1>3, <1>4, <1>5, <1>6, <1>7, <1>8 DEF PowerStep

LEMMA PowerInvariance == Spec => []PowerInv
<1>1. Init => PowerInv
  <2>1. "ACTIVE" \in Modes
    BY DEF Modes
  <2> SUFFICES ASSUME Init PROVE PowerInv
    OBVIOUS
  <2>2. /\ power \in PowerStates /\ duty \in Duties
        /\ power.last = 0 /\ power.asleep = FALSE /\ power.activeMs = 0 /\ power.sleepMs = 0
        /\ duty.idle = 0 /\ duty.deep = 0 /\ duty.skew = 0 /\ duty.told = "wake" /\ ~ duty.cut
    BY <2>1, PowerStarts DEF Init
  <2> QED
    BY <2>2
    DEF PowerInv, PowerTypeOK, SleepIsReal, TimeAccounted, NoSleepInvented, NoSleepMissed,
        PhaseTold
<1>2. PowerInv /\ [Next]_vars => PowerInv'
  <2>1. PowerInv => PowerTypeOK
    BY DEF PowerInv
  <2> QED
    BY <2>1, StepOfPower, PowerStepKeeps
<1> QED
  BY <1>1, <1>2, PTL DEF Spec

(* The totals of power.c are right: the time awake and asleep is all the   *)
(* time there was, no listen window is counted as sleep, and nothing else  *)
(* is missed while the ticks are fine enough.                              *)
THEOREM SleepIsAccounted == Spec => []SleepIsReal
<1>1. PowerInv => SleepIsReal
  BY DEF PowerInv
<1> QED
  BY <1>1, PowerInvariance, PTL

(* The last of on_sleep and on_wake told the phase the node is in.         *)
THEOREM CallbacksAlternate == Spec => []PhaseTold
<1>1. PowerInv => PhaseTold
  BY DEF PowerInv
<1> QED
  BY <1>1, PowerInvariance, PTL

(* Every variable of the node and of its power part keeps its type.        *)
THEOREM TypeCorrect == Spec => []TypeOK
<1>1. NodeInv /\ PowerInv => TypeOK
  BY DEF NodeInv, NodeTypes, NetRecords, DiscRecords, PowerInv, TypeOK
<1> QED
  BY <1>1, NodeInvariance, PowerInvariance, PTL
=============================================================================
