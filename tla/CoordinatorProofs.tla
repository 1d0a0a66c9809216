------------------------- MODULE CoordinatorProofs -------------------------
(***************************************************************************)
(* That no two devices hold one id, that every member has a route and that *)
(* a request is announced once, for any number of devices, ids, tokens and *)
(* reboots and any size of the tables.                                     *)
(*                                                                         *)
(* The argument is IdsAccounted: until the join cache is full, the next id *)
(* to give away is above all that were given away, and it is free, because *)
(* members are only ever remembered by ids that were given away; when the  *)
(* cache is full, nothing is given away any more.  So each id belongs to   *)
(* one request, and a request to one MAC address.                          *)
(***************************************************************************)
EXTENDS Coordinator, FiniteSetTheorems, TLAPS

(* A member's route is there and not older than the member.                *)
RoutesYoung ==
  \A id \in Members(active) : id \in Members(routes) /\ routes[id] <= active[id]

CallsAccounted ==
  \A mac \in Macs, token \in Tokens :
    joined_calls[<<mac, token>>] = IF Cached(mac, token) = {} THEN 0 ELSE 1

(* A device that asks has a token, and one that is connected an id.        *)
StatesFit ==
  \A d \in Devices :
    /\ device[d].state = "joining" => device[d].token # NoToken
    /\ device[d].state = "connected" => device[d].id # Unassigned

Inv == /\ TypeOK
       /\ StatesFit
       /\ IsFiniteSet(join_cache)
       /\ IdsAccounted

-----------------------------------------------------------------------------
(* Lemmas about the tables and the ids.                                    *)

LEMMA IdsFinite == IsFiniteSet(Ids)
  <1>1. FirstId \in Int /\ LastId \in Int
    BY IdsAssumption
  <1> QED
    BY <1>1, FS_Interval DEF Ids

(* A table is bounded by any set of ids its members are from.              *)
LEMMA MembersFinite ==
  ASSUME NEW table
  PROVE  IsFiniteSet(Members(table)) /\ Cardinality(Members(table)) \in Nat
  <1>1. Members(table) \in SUBSET Ids
    BY DEF Members
  <1> QED
    BY <1>1, IdsFinite, FS_Subset, FS_CardinalityType

LEMMA FewerMembers ==
  ASSUME NEW table, NEW fewer, Members(fewer) \subseteq Members(table),
         NEW bound \in Nat, Cardinality(Members(table)) <= bound
  PROVE  Cardinality(Members(fewer)) <= bound
  <1>1. Cardinality(Members(fewer)) <= Cardinality(Members(table))
    BY MembersFinite, FS_Subset
  <1> QED
    BY <1>1, MembersFinite

LEMMA OneMoreMember ==
  ASSUME NEW table \in [Ids -> Ages], NEW id \in Ids
  PROVE  LET more == [table EXCEPT ![id] = 0]
         IN  /\ more \in [Ids -> Ages]
             /\ Members(more) = Members(table) \cup {id}
             /\ Cardinality(Members(more)) =
                  IF id \in Members(table) THEN Cardinality(Members(table))
                  ELSE Cardinality(Members(table)) + 1
  <1> DEFINE more == [table EXCEPT ![id] = 0]
  <1>1. more \in [Ids -> Ages]
    BY TablesAssumption DEF Ages
  <1>2. Members(more) = Members(table) \cup {id}
    BY DEF Members, Absent
  <1>3. Cardinality(Members(more)) =
          IF id \in Members(table) THEN Cardinality(Members(table))
          ELSE Cardinality(Members(table)) + 1
    BY <1>2, MembersFinite, FS_AddElement
  <1> QED
    BY <1>1, <1>2, <1>3

(* routing_add keeps the table within its array.                           *)
LEMMA RoutingAddFits ==
  ASSUME NEW table \in [Ids -> Ages], NEW id \in Ids,
         Cardinality(Members(table)) <= MaxRoutes
  PROVE  /\ RoutingAdd(table, id) \in [Ids -> Ages]
         /\ Cardinality(Members(RoutingAdd(table, id))) <= MaxRoutes
         /\ Members(RoutingAdd(table, id)) \subseteq Members(table) \cup {id}
  <1>1. CASE id \in Members(table) \/ Cardinality(Members(table)) < MaxRoutes
    <2> DEFINE more == [table EXCEPT ![id] = 0]
    <2>1. /\ more \in [Ids -> Ages]
          /\ Members(more) = Members(table) \cup {id}
          /\ Cardinality(Members(more)) =
               IF id \in Members(table) THEN Cardinality(Members(table))
               ELSE Cardinality(Members(table)) + 1
      BY OneMoreMember
    <2>2. RoutingAdd(table, id) = more
      BY <1>1 DEF RoutingAdd
    <2>3. Cardinality(Members(more)) <= MaxRoutes
      <3> HIDE DEF more
      <3> QED
        BY <1>1, <2>1, MembersFinite, TablesAssumption
    <2> QED
      BY <2>1, <2>2, <2>3
  <1>2. CASE ~ (id \in Members(table)
                \/ Cardinality(Members(table)) < MaxRoutes)
    BY <1>2 DEF RoutingAdd
  <1> QED
    BY <1>1, <1>2

(* Time takes entries away and adds none.                                  *)
LEMMA OlderTable ==
  ASSUME NEW table \in [Ids -> Ages], NEW older,
         \A id \in Ids : older[id] \in {Absent, Older(table[id])},
         DOMAIN older = Ids, older = [id \in Ids |-> older[id]]
  PROVE  older \in [Ids -> Ages] /\ Members(older) \subseteq Members(table)
  <1>1. ASSUME NEW id \in Ids
        PROVE  /\ older[id] \in Ages
               /\ older[id] # Absent => table[id] # Absent
    BY <1>1, TablesAssumption DEF Older, Ages, Absent
  <1> QED
    BY <1>1 DEF Members

(* While the join cache has room, the next id is free and is the one that  *)
(* is given away, it was given to nobody yet, and one higher is the next.  *)
LEMMA NextIsFree ==
  ASSUME Inv, JoinCacheRoom
  PROVE  /\ Allocate(FreeIds) = next_assign_id
         /\ next_assign_id \in Ids \ Given
         /\ next_assign_id = FirstId + Cardinality(join_cache)
         /\ Cardinality(join_cache) \in Nat
         /\ Cardinality(join_cache) + 1 < MaxNodes =>
              NextAssign(next_assign_id) = next_assign_id + 1
  <1> USE IdsAssumption, TablesAssumption
  <1>1. Cardinality(join_cache) \in Nat
    BY FS_CardinalityType DEF Inv
  <1>2. /\ next_assign_id = FirstId + Cardinality(join_cache)
        /\ \A id \in Given : id < next_assign_id
    BY DEF Inv, IdsAccounted, GivenInOrder, JoinCacheRoom
  <1>3. next_assign_id \in Ids \ Given
    BY <1>2 DEF Inv, TypeOK, Ids
  <1>4. next_assign_id \in FreeIds
    BY <1>3 DEF FreeIds, Inv, IdsAccounted
  <1>5. Allocate(FreeIds) = next_assign_id
    <2> DEFINE high == {id \in FreeIds : id >= next_assign_id}
    <2>1. next_assign_id \in high /\ \A id \in high : next_assign_id <= id
      BY <1>3, <1>4 DEF Ids, FreeIds
    <2>2. high \subseteq Int
      BY DEF FreeIds, Ids
    <2>3. Min(high) \in high /\ \A id \in high : Min(high) <= id
      BY <2>1 DEF Min
    <2>4. Min(high) = next_assign_id
      <3> HIDE DEF high
      <3>1. Min(high) \in Int /\ next_assign_id \in Int
        BY <2>1, <2>2, <2>3
      <3>2. Min(high) <= next_assign_id /\ next_assign_id <= Min(high)
        BY <2>1, <2>3
      <3> QED
        BY <3>1, <3>2
    <2> QED
      BY <2>1, <2>4 DEF Allocate
  <1>6. Cardinality(join_cache) + 1 < MaxNodes =>
          NextAssign(next_assign_id) = next_assign_id + 1
    BY <1>1, <1>2 DEF NextAssign
  <1> QED
    BY <1>1, <1>2, <1>3, <1>5, <1>6

(* What allocate_node_id returns is free.                                  *)
LEMMA MinOfIds ==
  ASSUME NEW S \in SUBSET Ids, S # {}
  PROVE  Min(S) \in S
  <1>1. \E least \in S : \A id \in S : least <= id
    <2>1. S \in SUBSET Nat
      BY IdsAssumption DEF Ids
    <2> QED
      <3>1. \E least \in S : \A id \in S : <<id, least>> \notin OpToRel(<, Nat)
        BY <2>1, WFMin, NatLessThanWellFounded
      <3>2. \A x, y \in Nat : x < y => <<x, y>> \in OpToRel(<, Nat)
        BY DEF OpToRel
      <3>3. PICK least \in S : \A id \in S : <<id, least>> \notin OpToRel(<, Nat)
        BY <3>1
      <3>4. \A id \in S : ~ (id < least)
        BY <2>1, <3>2, <3>3
      <3> QED
        BY <2>1, <3>4
  <1> QED
    BY <1>1 DEF Min

LEMMA AllocatesFree == FreeIds # {} => Allocate(FreeIds) \in FreeIds
  <1>1. FreeIds \in SUBSET Ids
    BY DEF FreeIds
  <1>2. CASE \E id \in FreeIds : id >= next_assign_id
    BY <1>1, <1>2, MinOfIds DEF Allocate
  <1>3. CASE ~ \E id \in FreeIds : id >= next_assign_id
    BY <1>1, <1>3, MinOfIds DEF Allocate
  <1> QED
    BY <1>2, <1>3

LEMMA FirstIdsFinite ==
  ASSUME NEW n \in Nat
  PROVE  /\ IsFiniteSet(FirstId..(FirstId + n - 1))
         /\ Cardinality(FirstId..(FirstId + n - 1)) = n
  <1> DEFINE last == FirstId + n - 1
  <1>1. FirstId \in Int /\ last \in Int
    BY IdsAssumption
  <1>2. /\ IsFiniteSet(FirstId..last)
        /\ Cardinality(FirstId..last) = IF FirstId > last THEN 0
                                        ELSE last - FirstId + 1
    <2> HIDE DEF last
    <2> QED
      BY <1>1, FS_Interval
  <1> QED
    BY <1>1, <1>2

(* A request is only refused when the join cache is full.                  *)
LEMMA OnlyFullRefuses ==
  ASSUME Inv, JoinCacheRoom
  PROVE  FreeIds # {} /\ ActiveRoom /\ Cardinality(Members(routes)) < MaxNodes
  <1> DEFINE count == Cardinality(join_cache)
             given == FirstId..(FirstId + count - 1)
  <1>1. /\ next_assign_id \in Ids \ Given
        /\ next_assign_id = FirstId + count
        /\ count \in Nat
    BY NextIsFree
  <1>2. IsFiniteSet(given) /\ Cardinality(given) = count
    BY <1>1, FirstIdsFinite
  <1>3. ASSUME NEW id \in Given PROVE id \in given
    <2>1. id \in Ids /\ id < next_assign_id
      BY DEF Inv, TypeOK, IdsAccounted, GivenInOrder, JoinCacheRoom, Given,
             JoinTxs
    <2> HIDE DEF count
    <2> QED
      BY <1>1, <2>1, IdsAssumption DEF Ids
  <1>4. Members(active) \in SUBSET given /\ Members(routes) \in SUBSET given
    BY <1>3 DEF Inv, IdsAccounted
  <1>5. /\ Cardinality(Members(active)) <= count
        /\ Cardinality(Members(routes)) <= count
    BY <1>2, <1>4, FS_Subset
  <1>6. FreeIds # {}
    BY <1>1 DEF FreeIds, Inv, IdsAccounted
  <1>7. count < MaxNodes
    BY DEF JoinCacheRoom
  <1> QED
    BY <1>1, <1>5, <1>6, <1>7, MembersFinite, TablesAssumption DEF ActiveRoom

-----------------------------------------------------------------------------
LEMMA InitInv == Init => Inv
  <1> SUFFICES ASSUME Init PROVE Inv
    OBVIOUS
  <1> USE IdsAssumption, TablesAssumption DEF Init
  <1>1. Members(active) = {} /\ Members(routes) = {}
    BY DEF Members
  <1>2. IsFiniteSet(join_cache) /\ Cardinality(join_cache) = 0
    BY FS_EmptySet
  <1>3. TypeOK
    <2>1. FirstId \in Ids
      BY <1>2 DEF Ids
    <2>2. /\ active \in [Ids -> Ages] /\ Cardinality(Members(active)) <= MaxNodes
          /\ routes \in [Ids -> Ages] /\ Cardinality(Members(routes)) <= MaxRoutes
      <3>1. Cardinality(Members(active)) = 0 /\ Cardinality(Members(routes)) = 0
        BY <1>1, FS_EmptySet
      <3>2. active \in [Ids -> Ages] /\ routes \in [Ids -> Ages]
        BY DEF Ages
      <3> QED
        BY <3>1, <3>2
    <2>3. /\ device \in [Devices -> DeviceStates]
          /\ up \in [Devices -> Requests]
          /\ down \in [Devices -> Answers]
      BY DEF DeviceStates, Requests, Answers, NoToken
    <2>4. joined_calls \in [Macs \X Tokens -> Calls] /\ reboots \in 0..MaxReboots
      BY DEF Calls
    <2> QED
      BY <1>2, <2>1, <2>2, <2>3, <2>4 DEF TypeOK
  <1>4. IdsAccounted
    BY <1>1, <1>2
    DEF IdsAccounted, GivenInOrder, DeviceAccounted, Given, GivenTo, Silence
  <1> QED
    BY <1>2, <1>3, <1>4 DEF Inv, StatesFit

-----------------------------------------------------------------------------
(* What the devices do leaves the coordinator's tables as they are, and    *)
(* only names ids that they have been given.                               *)
LEMMA DeviceStepInv ==
  ASSUME Inv, UNCHANGED coordinatorVars,
         device' \in [Devices -> DeviceStates],
         up' \in [Devices -> Requests],
         down' \in [Devices -> Answers],
         reboots' \in 0..MaxReboots,
         StatesFit',
         \A d \in Devices : DeviceAccounted(d)'
  PROVE  Inv'
  <1>1. TypeOK'
    BY DEF Inv, TypeOK, coordinatorVars, Members
  <1>2. IdsAccounted'
    BY DEF Inv, IdsAccounted, GivenInOrder, coordinatorVars, Members, Given
  <1> QED
    BY <1>1, <1>2 DEF Inv, coordinatorVars

LEMMA StartInv == ASSUME Inv, NEW d \in Devices, Start(d) PROVE Inv'
  <1> USE DEF Inv, TypeOK
  <1>1. PICK token \in NewTokens(d) :
          /\ device' = [device EXCEPT ![d].state = "joining",
                                      ![d].token = token, ![d].seq = token]
          /\ up' = [up EXCEPT ![d] = Join(token)]
    BY DEF Start, Send
  <1>2. token \in Tokens
    BY TablesAssumption DEF NewTokens, Tokens, DeviceStates
  <1>3. device'[d] = [state |-> "joining", id |-> device[d].id,
                      token |-> token, seq |-> token]
    BY <1>1 DEF DeviceStates
  <1>4. device' \in [Devices -> DeviceStates]
    <2>1. device'[d] \in DeviceStates
      BY <1>2, <1>3, TablesAssumption DEF DeviceStates, Tokens
    <2> QED
      BY <1>1, <2>1
  <1>5. up' \in [Devices -> Requests]
    BY <1>1, <1>2 DEF Requests
  <1>6. StatesFit'
    BY <1>1, <1>2, <1>3 DEF StatesFit, Tokens, NoToken
  <1>7. ASSUME NEW e \in Devices PROVE DeviceAccounted(e)'
    BY <1>1, <1>3, <1>7
    DEF DeviceAccounted, IdsAccounted, Start, coordinatorVars, Given, GivenTo,
        Join
  <1> QED
    BY <1>4, <1>5, <1>6, <1>7, DeviceStepInv DEF Start

LEMMA RetryInv == ASSUME Inv, NEW d \in Devices, Retry(d) PROVE Inv'
  <1> USE DEF Inv, TypeOK
  <1>1. device[d].token \in Tokens
    BY DEF Retry, StatesFit, DeviceStates
  <1>2. up' \in [Devices -> Requests]
    BY <1>1 DEF Retry, Send, Requests
  <1>3. ASSUME NEW e \in Devices PROVE DeviceAccounted(e)'
    BY <1>3
    DEF DeviceAccounted, IdsAccounted, Retry, Send, coordinatorVars, Given,
        GivenTo, Join
  <1> QED
    BY <1>2, <1>3, DeviceStepInv DEF Retry, StatesFit

LEMMA ReceiveAssignInv ==
  ASSUME Inv, NEW d \in Devices, ReceiveAssign(d) PROVE Inv'
  <1> USE DEF Inv, TypeOK
  <1>1. down[d].cmd = "ASSIGN" /\ down[d].id \in Ids
    BY DEF ReceiveAssign, Answers, Silence
  <1>2. down' = [down EXCEPT ![d] = Silence]
    BY DEF ReceiveAssign
  <1>3. \/ UNCHANGED device
        \/ device' = [device EXCEPT
                        ![d] = [state |-> "connected", id |-> down[d].id,
                                token |-> NoToken, seq |-> device[d].seq]]
    BY DEF ReceiveAssign, DeviceStates
  <1>4. device' \in [Devices -> DeviceStates]
    BY <1>1, <1>3 DEF DeviceStates
  <1>5. down' \in [Devices -> Answers]
    BY <1>2 DEF Answers
  <1>6. StatesFit'
    BY <1>1, <1>3, IdsAssumption DEF StatesFit, Ids
  <1>7. ASSUME NEW e \in Devices PROVE DeviceAccounted(e)'
    BY <1>1, <1>2, <1>3, <1>7
    DEF DeviceAccounted, IdsAccounted, ReceiveAssign, coordinatorVars, Given,
        GivenTo, Silence
  <1> QED
    BY <1>4, <1>5, <1>6, <1>7, DeviceStepInv DEF ReceiveAssign

LEMMA SendRouteUpdateInv ==
  ASSUME Inv, NEW d \in Devices, SendRouteUpdate(d) PROVE Inv'
  <1> USE DEF Inv, TypeOK
  <1>1. device[d].id \in Ids
    BY DEF SendRouteUpdate, StatesFit, DeviceStates
  <1>2. up' \in [Devices -> Requests]
    BY <1>1 DEF SendRouteUpdate, Send, Requests
  <1>3. ASSUME NEW e \in Devices PROVE DeviceAccounted(e)'
    BY <1>1, <1>3, IdsAssumption
    DEF DeviceAccounted, IdsAccounted, SendRouteUpdate, Send, coordinatorVars,
        Given, GivenTo, RouteUpdate, Ids
  <1> QED
    BY <1>2, <1>3, DeviceStepInv DEF SendRouteUpdate, StatesFit

LEMMA StopInv == ASSUME Inv, NEW d \in Devices, Stop(d) PROVE Inv'
  <1> USE DEF Inv, TypeOK
  <1>1. /\ device' \in [Devices -> DeviceStates]
        /\ device'[d] = [state |-> "off", id |-> Unassigned,
                         token |-> NoToken, seq |-> device[d].seq]
        /\ \A e \in Devices \ {d} : device'[e] = device[e]
    <2>1. device' = [device EXCEPT ![d].state = "off", ![d].id = Unassigned,
                                   ![d].token = NoToken]
      BY DEF Stop
    <2>2. device'[d] = [state |-> "off", id |-> Unassigned,
                        token |-> NoToken, seq |-> device[d].seq]
      BY <2>1 DEF DeviceStates
    <2>3. device'[d] \in DeviceStates
      BY <2>2 DEF DeviceStates
    <2> QED
      BY <2>1, <2>2, <2>3
  <1>2. \/ UNCHANGED up
        \/ /\ device[d].id \in Ids
           /\ up' = [up EXCEPT ![d] = Leave(device[d].id)]
    BY DEF Stop, Send, DeviceStates
  <1>3. up' \in [Devices -> Requests]
    BY <1>2 DEF Requests
  <1>4. StatesFit'
    BY <1>1 DEF StatesFit
  <1>5. ASSUME NEW e \in Devices PROVE DeviceAccounted(e)'
    <2>1. UNCHANGED <<join_cache, down>> /\ DeviceAccounted(e)
      BY <1>5 DEF Stop, coordinatorVars, IdsAccounted
    <2>2. CASE e = d
      <3>1. up'[e].cmd \in {"LEAVE", "ROUTE_UPDATE"} => up'[e].src \in Given
        BY <1>2, <2>1, <2>2, IdsAssumption
        DEF DeviceAccounted, Given, GivenTo, Leave, Ids
      <3> QED
        BY <1>1, <2>1, <2>2, <3>1 DEF DeviceAccounted, Given, GivenTo
    <2>3. CASE e # d
      BY <1>1, <1>2, <1>5, <2>1, <2>3 DEF DeviceAccounted, Given, GivenTo
    <2> QED
      BY <2>2, <2>3
  <1> QED
    BY <1>1, <1>3, <1>4, <1>5, DeviceStepInv DEF Stop

LEMMA RebootInv == ASSUME Inv, NEW d \in Devices, Reboot(d) PROVE Inv'
  <1> USE DEF Inv, TypeOK
  <1>1. device' \in [Devices -> DeviceStates] /\ reboots' \in 0..MaxReboots
    BY TablesAssumption DEF Reboot, DeviceStates, NoToken
  <1>2. StatesFit'
    BY DEF Reboot, StatesFit
  <1>3. ASSUME NEW e \in Devices PROVE DeviceAccounted(e)'
    BY <1>3
    DEF DeviceAccounted, IdsAccounted, Reboot, coordinatorVars, Given, GivenTo
  <1> QED
    BY <1>1, <1>2, <1>3, DeviceStepInv DEF Reboot

LEMMA LoseInv == ASSUME Inv, NEW d \in Devices, Lose(d) PROVE Inv'
  <1> USE DEF Inv, TypeOK
  <1>1. up' \in [Devices -> Requests]
    BY DEF Lose, Requests
  <1>2. ASSUME NEW e \in Devices PROVE DeviceAccounted(e)'
    BY <1>2
    DEF DeviceAccounted, IdsAccounted, Lose, coordinatorVars, Given, GivenTo,
        Silence
  <1> QED
    BY <1>1, <1>2, DeviceStepInv DEF Lose, StatesFit

-----------------------------------------------------------------------------
(* What the coordinator does.                                              *)

LEMMA AnswerFits ==
  ASSUME down \in [Devices -> Answers], NEW tx \in JoinTxs, Answer(tx)
  PROVE  /\ down' \in [Devices -> Answers]
         /\ \A d \in Devices :
              down'[d] = down[d] \/ (Mac[d] = tx.mac /\ down'[d] = Assign(tx))
  <1>1. PICK hearers \in SUBSET Twins(tx.mac) :
          down' = [d \in Devices |-> IF d \in hearers THEN Assign(tx)
                                     ELSE down[d]]
    BY DEF Answer
  <1>2. Assign(tx) \in Answers
    BY DEF Assign, Answers, JoinTxs
  <1> QED
    BY <1>1, <1>2 DEF Twins

LEMMA HearFits ==
  ASSUME up \in [Devices -> Requests], NEW d \in Devices, NEW cmd, Hear(d, cmd)
  PROVE  up' \in [Devices -> Requests] /\ up[d].cmd = cmd
         /\ up' = [up EXCEPT ![d] = Silence]
  BY DEF Hear, Requests

LEMMA AnswerAgainInv ==
  ASSUME Inv, NEW d \in Devices, AnswerAgain(d) PROVE Inv'
  <1> USE DEF Inv, TypeOK
  <1>1. PICK tx \in join_cache : Answer(tx)
    BY DEF AnswerAgain, Cached
  <1>2. tx \in JoinTxs
    BY <1>1
  <1>3. /\ down' \in [Devices -> Answers]
        /\ \A e \in Devices :
             down'[e] = down[e] \/ (Mac[e] = tx.mac /\ down'[e] = Assign(tx))
    BY <1>1, <1>2, AnswerFits
  <1>4. up' \in [Devices -> Requests] /\ up' = [up EXCEPT ![d] = Silence]
    BY HearFits DEF AnswerAgain
  <1>5. ASSUME NEW e \in Devices PROVE DeviceAccounted(e)'
    BY <1>1, <1>3, <1>4, <1>5
    DEF DeviceAccounted, IdsAccounted, AnswerAgain, coordinatorVars, Given,
        GivenTo, Silence, Assign
  <1> QED
    BY <1>3, <1>4, <1>5, DeviceStepInv DEF AnswerAgain, StatesFit

LEMMA AdmitInv == ASSUME Inv, NEW d \in Devices, Admit(d) PROVE Inv'
  <1> DEFINE id == next_assign_id
             tx == [mac |-> Mac[d], token |-> up[d].token, id |-> id]
  <1>1. /\ Allocate(FreeIds) = id
        /\ id \in Ids \ Given
        /\ id = FirstId + Cardinality(join_cache)
        /\ Cardinality(join_cache) \in Nat
        /\ Cardinality(join_cache) + 1 < MaxNodes => NextAssign(id) = id + 1
    BY NextIsFree DEF Admit
  <1>2. /\ next_assign_id' = NextAssign(id)
        /\ join_cache' = join_cache \cup {tx}
        /\ active' = [active EXCEPT ![id] = 0]
        /\ routes' = RoutingAdd(routes, id)
        /\ joined_calls' = [joined_calls EXCEPT ![<<tx.mac, tx.token>>] = More(@)]
        /\ Answer(tx)
        /\ UNCHANGED <<device, reboots>>
    BY <1>1 DEF Admit
  <1>3. tx \in JoinTxs /\ tx \notin join_cache
    <2>1. up[d].token \in Tokens
      BY DEF Inv, TypeOK, Admit, Hear, Requests, Silence, Join, Leave,
             RouteUpdate
    <2>2. Mac[d] \in Macs
      BY DEF Macs
    <2> QED
      BY <1>1, <2>1, <2>2 DEF JoinTxs, Given
  <1>4. /\ IsFiniteSet(join_cache')
        /\ Cardinality(join_cache') = Cardinality(join_cache) + 1
    BY <1>2, <1>3, FS_AddElement DEF Inv
  <1>5. /\ down' \in [Devices -> Answers]
        /\ \A e \in Devices :
             down'[e] = down[e] \/ (Mac[e] = tx.mac /\ down'[e] = Assign(tx))
    BY <1>2, <1>3, AnswerFits DEF Inv, TypeOK
  <1>6. up' \in [Devices -> Requests] /\ up' = [up EXCEPT ![d] = Silence]
    BY HearFits DEF Admit, Inv, TypeOK
  <1>7. /\ active' \in [Ids -> Ages]
        /\ Members(active)' = Members(active) \cup {id}
        /\ Cardinality(Members(active)') <= MaxNodes
    <2>1. /\ active' \in [Ids -> Ages]
          /\ Members(active') = Members(active) \cup {id}
          /\ Cardinality(Members(active')) =
               IF id \in Members(active) THEN Cardinality(Members(active))
               ELSE Cardinality(Members(active)) + 1
      BY <1>1, <1>2, OneMoreMember DEF Inv, TypeOK
    <2>2. Cardinality(Members(active)) < MaxNodes
      BY DEF Admit, ActiveRoom
    <2>3. Members(active)' = Members(active')
      BY DEF Members
    <2> QED
      BY <2>1, <2>2, <2>3, MembersFinite, TablesAssumption
  <1>8. /\ routes' \in [Ids -> Ages]
        /\ Members(routes)' \subseteq Members(routes) \cup {id}
        /\ Cardinality(Members(routes)') <= MaxRoutes
    <2>1. Members(routes)' = Members(routes')
      BY DEF Members
    <2> QED
      BY <1>1, <1>2, <2>1, RoutingAddFits DEF Inv, TypeOK
  <1>9. TypeOK'
    <2>1. join_cache' \subseteq JoinTxs /\ Cardinality(join_cache') <= MaxNodes
      BY <1>1, <1>2, <1>3, <1>4, TablesAssumption
      DEF Inv, TypeOK, Admit, JoinCacheRoom
    <2>2. next_assign_id' \in Ids
      BY <1>1, <1>2, IdsAssumption DEF NextAssign, Ids
    <2>3. joined_calls' \in [Macs \X Tokens -> Calls]
      <3>1. joined_calls \in [Macs \X Tokens -> Calls]
        BY DEF Inv, TypeOK
      <3>2. \A c \in Calls : More(c) \in Calls
        BY DEF More, Calls
      <3> QED
        BY <1>2, <3>1, <3>2
    <2> QED
      BY <1>2, <1>5, <1>6, <1>7, <1>8, <2>1, <2>2, <2>3 DEF Inv, TypeOK
  <1>10. Given' = Given \cup {id}
    BY <1>2 DEF Given
  <1>11. \A mac, i : GivenTo(mac, i) =>
                       \E t \in join_cache' : t.mac = mac /\ t.id = i
    BY <1>2 DEF GivenTo
  <1>12. GivenInOrder'
    <2>1. ASSUME NEW t \in join_cache', NEW u \in join_cache', t.id = u.id
          PROVE  t = u
      BY <1>1, <1>2, <2>1 DEF Inv, IdsAccounted, GivenInOrder, Given
    <2>2. ASSUME Cardinality(join_cache') < MaxNodes
          PROVE  /\ next_assign_id' = FirstId + Cardinality(join_cache')
                 /\ \A i \in Given' : i < next_assign_id'
      <3>1. Cardinality(join_cache) + 1 < MaxNodes
        BY <1>4, <2>2
      <3>2. next_assign_id' = id + 1
        BY <1>1, <1>2, <3>1
      <3>3. \A i \in Given : i < id /\ i \in Int
        BY <1>1, <3>1, TablesAssumption
        DEF Inv, TypeOK, IdsAccounted, GivenInOrder, Given, JoinTxs, Ids
      <3>4. id \in Int
        BY <1>1 DEF Ids
      <3> QED
        BY <1>1, <1>4, <1>10, <3>2, <3>3, <3>4, IdsAssumption
    <2> QED
      BY <2>1, <2>2 DEF GivenInOrder
  <1>13. ASSUME NEW e \in Devices PROVE DeviceAccounted(e)'
    <2>1. \E t \in join_cache' : t.mac = tx.mac /\ t.id = id
      BY <1>2
    <2>2. DeviceAccounted(e)
      BY DEF Inv, IdsAccounted
    <2>3. device'[e].id # Unassigned =>
            \E t \in join_cache' : t.mac = Mac[e] /\ t.id = device'[e].id
      BY <1>2, <1>11, <2>2 DEF DeviceAccounted
    <2>4. down'[e].cmd = "ASSIGN" =>
            \E t \in join_cache' : t.mac = Mac[e] /\ t.id = down'[e].id
      BY <1>5, <1>11, <2>1, <2>2 DEF DeviceAccounted, Assign
    <2>5. up'[e].cmd \in {"LEAVE", "ROUTE_UPDATE"} => up'[e].src \in Given'
      BY <1>6, <1>10, <2>2 DEF DeviceAccounted, Silence, Inv, TypeOK
    <2> QED
      BY <2>3, <2>4, <2>5 DEF DeviceAccounted, GivenTo
  <1> QED
    BY <1>2, <1>4, <1>7, <1>8, <1>9, <1>10, <1>12, <1>13
    DEF Inv, IdsAccounted, StatesFit

LEMMA RefuseInv == ASSUME Inv, NEW d \in Devices, Refuse(d) PROVE Inv'
  <1>1. up' \in [Devices -> Requests] /\ up' = [up EXCEPT ![d] = Silence]
    BY HearFits DEF Refuse, Inv, TypeOK
  <1>2. next_assign_id' \in Ids
    <2>1. CASE FreeIds = {}
      BY <2>1 DEF Refuse, Inv, TypeOK
    <2>2. CASE FreeIds # {}
      <3>1. Allocate(FreeIds) \in Ids
        BY <2>2, AllocatesFree DEF FreeIds
      <3> QED
        BY <2>2, <3>1, IdsAssumption DEF Refuse, NextAssign, Ids
    <2> QED
      BY <2>1, <2>2
  <1>3. TypeOK'
    BY <1>1, <1>2 DEF Refuse, Inv, TypeOK, Members
  <1>4. ~ JoinCacheRoom
    BY OnlyFullRefuses DEF Refuse
  <1>5. GivenInOrder'
    BY <1>4 DEF Refuse, GivenInOrder, JoinCacheRoom, Inv, IdsAccounted
  <1>6. ASSUME NEW e \in Devices PROVE DeviceAccounted(e)'
    BY <1>1, <1>6
    DEF Refuse, DeviceAccounted, IdsAccounted, Inv, TypeOK, Given, GivenTo,
        Silence
  <1> QED
    BY <1>3, <1>5, <1>6
    DEF Refuse, Inv, IdsAccounted, StatesFit, Given, Members

LEMMA ReceiveLeaveInv ==
  ASSUME Inv, NEW d \in Devices, ReceiveLeave(d) PROVE Inv'
  <1>1. /\ up' \in [Devices -> Requests] /\ up' = [up EXCEPT ![d] = Silence]
        /\ up[d].cmd = "LEAVE"
    BY HearFits DEF ReceiveLeave, Inv, TypeOK
  <1>2. up[d].src \in Ids
    BY <1>1 DEF Inv, TypeOK, Requests, Silence, Join, Leave, RouteUpdate
  <1>3. /\ active' \in [Ids -> Ages] /\ routes' \in [Ids -> Ages]
        /\ Members(active') \subseteq Members(active)
        /\ Members(routes') \subseteq Members(routes)
    BY <1>2 DEF ReceiveLeave, Inv, TypeOK, Members, Ages
  <1>4. /\ Cardinality(Members(active')) <= MaxNodes
        /\ Cardinality(Members(routes')) <= MaxRoutes
    BY <1>3, FewerMembers, TablesAssumption DEF Inv, TypeOK
  <1>5. Members(active)' = Members(active') /\ Members(routes)' = Members(routes')
    BY DEF Members
  <1>6. TypeOK'
    BY <1>1, <1>3, <1>4, <1>5 DEF ReceiveLeave, Inv, TypeOK
  <1>7. ASSUME NEW e \in Devices PROVE DeviceAccounted(e)'
    BY <1>1, <1>7
    DEF ReceiveLeave, DeviceAccounted, IdsAccounted, Inv, TypeOK, Given,
        GivenTo, Silence
  <1> QED
    BY <1>3, <1>5, <1>6, <1>7
    DEF ReceiveLeave, Inv, IdsAccounted, GivenInOrder, StatesFit, Given

LEMMA ReceiveRouteUpdateInv ==
  ASSUME Inv, NEW d \in Devices, ReceiveRouteUpdate(d) PROVE Inv'
  <1>1. /\ up' \in [Devices -> Requests] /\ up' = [up EXCEPT ![d] = Silence]
        /\ up[d].cmd = "ROUTE_UPDATE"
    BY HearFits DEF ReceiveRouteUpdate, Inv, TypeOK
  <1>2. up[d].src \in Ids /\ up[d].src \in Given
    BY <1>1 DEF Inv, TypeOK, Requests, Silence, Join, Leave, RouteUpdate,
                IdsAccounted, DeviceAccounted
  <1>3. /\ routes' \in [Ids -> Ages]
        /\ Cardinality(Members(routes')) <= MaxRoutes
        /\ Members(routes') \subseteq Members(routes) \cup {up[d].src}
    BY <1>2, RoutingAddFits DEF ReceiveRouteUpdate, Inv, TypeOK
  <1>4. Members(active)' = Members(active) /\ Members(routes)' = Members(routes')
    BY DEF ReceiveRouteUpdate, Members
  <1>5. TypeOK'
    BY <1>1, <1>3, <1>4 DEF ReceiveRouteUpdate, Inv, TypeOK
  <1>6. ASSUME NEW e \in Devices PROVE DeviceAccounted(e)'
    BY <1>1, <1>6
    DEF ReceiveRouteUpdate, DeviceAccounted, IdsAccounted, Inv, TypeOK, Given,
        GivenTo, Silence
  <1> QED
    BY <1>2, <1>3, <1>4, <1>5, <1>6
    DEF ReceiveRouteUpdate, Inv, IdsAccounted, GivenInOrder, StatesFit, Given

LEMMA TickInv == ASSUME Inv, Tick PROVE Inv'
  <1>1. /\ active' \in [Ids -> Ages] /\ Members(active') \subseteq Members(active)
        /\ routes' \in [Ids -> Ages] /\ Members(routes') \subseteq Members(routes)
    BY OlderTable DEF Tick, Inv, TypeOK
  <1>2. /\ Cardinality(Members(active')) <= MaxNodes
        /\ Cardinality(Members(routes')) <= MaxRoutes
    BY <1>1, FewerMembers, TablesAssumption DEF Inv, TypeOK
  <1>3. Members(active)' = Members(active') /\ Members(routes)' = Members(routes')
    BY DEF Members
  <1>4. TypeOK'
    BY <1>1, <1>2, <1>3 DEF Tick, Inv, TypeOK
  <1>5. ASSUME NEW e \in Devices PROVE DeviceAccounted(e)'
    BY <1>5 DEF Tick, DeviceAccounted, IdsAccounted, Inv, Given, GivenTo
  <1> QED
    BY <1>1, <1>3, <1>4, <1>5
    DEF Tick, Inv, IdsAccounted, GivenInOrder, StatesFit, Given

LEMMA StepInv == Inv /\ [Next]_vars => Inv'
  <1> SUFFICES ASSUME Inv, [Next]_vars PROVE Inv'
    OBVIOUS
  <1>1. CASE \E d \in Devices : Start(d) \/ Retry(d) \/ ReceiveAssign(d)
                                \/ SendRouteUpdate(d) \/ Stop(d) \/ Reboot(d)
                                \/ Lose(d)
    BY <1>1, StartInv, RetryInv, ReceiveAssignInv, SendRouteUpdateInv, StopInv,
       RebootInv, LoseInv
  <1>2. CASE \E d \in Devices : Receive(d)
    BY <1>2, AnswerAgainInv, AdmitInv, RefuseInv, ReceiveLeaveInv,
       ReceiveRouteUpdateInv DEF Receive, ReceiveJoin
  <1>3. CASE Tick
    BY <1>3, TickInv
  <1>4. CASE UNCHANGED vars
    BY <1>4, DeviceStepInv
    DEF vars, coordinatorVars, Inv, TypeOK, IdsAccounted, DeviceAccounted,
        StatesFit, Given, GivenTo
  <1> QED
    BY <1>1, <1>2, <1>3, <1>4 DEF Next

(* The tables keep within their arrays, what is known of devices fits      *)
(* their states, and every id that is held, sent or kept was given away to *)
(* the one that holds it (discovery.c, in all of its handlers).            *)
THEOREM Invariance == Spec => []Inv
  <1> QED
    BY InitInv, StepInv, PTL DEF Spec

(* Every field keeps its range and no table outgrows its array             *)
(* (discovery.c, join_cache_alloc and active_node_add; routing_add).       *)
THEOREM TypeCorrect == Spec => []TypeOK
  <1>1. Inv => TypeOK
    BY DEF Inv
  <1> QED
    BY <1>1, Invariance, PTL

(* Ids are given away in order, each for one request, until the join cache *)
(* is full, and nothing names an id that was not given away to it          *)
(* (discovery.c, allocate_node_id and join_cache_alloc).                   *)
THEOREM EveryIdAccounted == Spec => []IdsAccounted
  <1>1. Inv => IdsAccounted
    BY DEF Inv
  <1> QED
    BY <1>1, Invariance, PTL

(* No two devices hold the same id, whatever reboots, expires or is lost,  *)
(* provided that their MAC addresses differ (discovery.c, the JOIN and     *)
(* ASSIGN handlers).                                                       *)
THEOREM IdsDistinct ==
  ASSUME \A d, e \in Devices : Mac[d] = Mac[e] => d = e
  PROVE  Spec => []DistinctIds
  <1>1. Inv => DistinctIds
    BY DEF Inv, IdsAccounted, GivenInOrder, DeviceAccounted, GivenTo,
           DistinctIds
  <1> QED
    BY <1>1, Invariance, PTL

-----------------------------------------------------------------------------
(* on_node_joined is called for a request when it gets its entry in the    *)
(* join cache, and then never again (discovery.c, the JOIN handler).       *)
THEOREM AnnouncedOnce == Spec => []JoinedOnce
  <1>1. Init => CallsAccounted
    BY DEF Init, CallsAccounted, Cached
  <1>2. Inv /\ CallsAccounted /\ [Next]_vars => CallsAccounted'
    <2> SUFFICES ASSUME Inv, CallsAccounted, [Next]_vars
                 PROVE  CallsAccounted'
      OBVIOUS
    <2>1. ASSUME NEW d \in Devices, Admit(d) PROVE CallsAccounted'
      <3> DEFINE mine == <<Mac[d], up[d].token>>
      <3>1. PICK tx : /\ tx.mac = Mac[d] /\ tx.token = up[d].token
                      /\ join_cache' = join_cache \cup {tx}
                      /\ joined_calls' = [joined_calls EXCEPT
                                            ![<<tx.mac, tx.token>>] = More(@)]
        BY <2>1 DEF Admit
      <3>2. Cached(tx.mac, tx.token) = {}
        BY <2>1, <3>1 DEF Admit
      <3> SUFFICES ASSUME NEW mac \in Macs, NEW token \in Tokens
                   PROVE  joined_calls'[<<mac, token>>] =
                            IF Cached(mac, token)' = {} THEN 0 ELSE 1
        BY DEF CallsAccounted
      <3>3. joined_calls \in [Macs \X Tokens -> Calls]
        BY DEF Inv, TypeOK
      <3>4. joined_calls[<<mac, token>>] =
              IF Cached(mac, token) = {} THEN 0 ELSE 1
        BY DEF CallsAccounted
      <3>5. CASE mac = tx.mac /\ token = tx.token
        <4>1. tx \in Cached(mac, token)'
          BY <3>1, <3>5 DEF Cached
        <4>2. joined_calls'[<<mac, token>>] = 1
          BY <3>1, <3>2, <3>3, <3>4, <3>5 DEF More
        <4> QED
          BY <4>1, <4>2
      <3>6. CASE ~ (mac = tx.mac /\ token = tx.token)
        <4>1. Cached(mac, token)' = Cached(mac, token)
          BY <3>1, <3>6 DEF Cached
        <4>2. joined_calls'[<<mac, token>>] = joined_calls[<<mac, token>>]
          BY <3>1, <3>3, <3>6
        <4> QED
          BY <3>4, <4>1, <4>2
      <3> QED
        BY <3>5, <3>6
    <2>2. CASE UNCHANGED <<join_cache, joined_calls>>
      BY <2>2 DEF CallsAccounted, Cached
    <2> QED
      BY <2>1, <2>2
      DEF Next, Start, Retry, ReceiveAssign, SendRouteUpdate, Stop, Reboot,
          Receive, ReceiveJoin, AnswerAgain, Refuse, ReceiveLeave,
          ReceiveRouteUpdate, Lose, Tick, coordinatorVars, vars
  <1>3. CallsAccounted => JoinedOnce
    <2> SUFFICES ASSUME CallsAccounted, NEW request \in Macs \X Tokens
                 PROVE  joined_calls[request] <= 1
      BY DEF JoinedOnce
    <2>1. PICK mac \in Macs, token \in Tokens : request = <<mac, token>>
      OBVIOUS
    <2> QED
      BY <2>1 DEF CallsAccounted
  <1> QED
    BY <1>1, <1>2, <1>3, Invariance, PTL DEF Spec

(* Every member has a route, if there is one route for each member: a      *)
(* route is made young with its member and expires no sooner (discovery.c, *)
(* discovery_tick; routing.c, routing_expire).                             *)
THEOREM MembersHaveRoutes ==
  ASSUME MaxNodes <= MaxRoutes
  PROVE  Spec => []ActiveHasRoute
  <1>1. Init => RoutesYoung
    BY DEF Init, RoutesYoung, Members
  <1>2. Inv /\ RoutesYoung /\ [Next]_vars => RoutesYoung'
    <2> SUFFICES ASSUME Inv, RoutesYoung, [Next]_vars PROVE RoutesYoung'
      OBVIOUS
    <2> USE IdsAssumption, TablesAssumption
    <2>1. active \in [Ids -> Ages] /\ routes \in [Ids -> Ages]
      BY DEF Inv, TypeOK
    <2>2. ASSUME NEW id \in Ids
          PROVE  /\ active[id] # Absent => active[id] \in 0..NodeTimeout
                 /\ routes[id] # Absent => routes[id] \in 0..NodeTimeout
      BY <2>1, <2>2 DEF Ages
    <2>3. ASSUME NEW id \in Ids, active[id] # Absent
          PROVE  routes[id] # Absent /\ routes[id] <= active[id]
      BY <2>3 DEF RoutesYoung, Members
    <2>4. ASSUME NEW d \in Devices, Admit(d) PROVE RoutesYoung'
      <3> DEFINE id == next_assign_id
      <3>1. Allocate(FreeIds) = id /\ id \in Ids
        BY <2>4, NextIsFree DEF Admit
      <3>2. active' = [active EXCEPT ![id] = 0]
            /\ routes' = RoutingAdd(routes, id)
        BY <2>4, <3>1 DEF Admit
      <3>3. Cardinality(Members(routes)) < MaxRoutes
        BY <2>4, OnlyFullRefuses, MembersFinite DEF Admit
      <3>4. routes' = [routes EXCEPT ![id] = 0]
        BY <3>2, <3>3 DEF RoutingAdd
      <3> HIDE DEF id
      <3> QED
        BY <2>1, <2>2, <2>3, <3>1, <3>2, <3>4
        DEF RoutesYoung, Members, Absent
    <2>5. ASSUME NEW d \in Devices, ReceiveLeave(d) PROVE RoutesYoung'
      BY <2>1, <2>2, <2>3, <2>5 DEF ReceiveLeave, RoutesYoung, Members
    <2>6. ASSUME NEW d \in Devices, ReceiveRouteUpdate(d) PROVE RoutesYoung'
      <3>1. \/ routes' = [routes EXCEPT ![up[d].src] = 0]
            \/ UNCHANGED routes
        BY <2>6 DEF ReceiveRouteUpdate, RoutingAdd
      <3>2. active' = active
        BY <2>6 DEF ReceiveRouteUpdate
      <3>3. ASSUME NEW id \in Ids, active[id] # Absent
            PROVE  routes'[id] # Absent /\ routes'[id] <= active[id]
        <4>1. CASE routes'[id] = routes[id]
          BY <2>3, <3>3, <4>1
        <4>2. CASE routes'[id] = 0
          <5>1. active[id] \in 0..NodeTimeout
            BY <2>2, <3>3
          <5> QED
            BY <4>2, <5>1 DEF Absent
        <4> QED
          BY <2>1, <3>1, <4>1, <4>2
      <3> QED
        BY <3>2, <3>3 DEF RoutesYoung, Members
    <2>7. CASE Tick
      <3>1. ASSUME NEW id \in Ids, active'[id] # Absent
            PROVE  routes'[id] # Absent /\ routes'[id] <= active'[id]
        <4>1. /\ active'[id] = Older(active[id])
              /\ routes'[id] = IF id \in Expired THEN Absent
                               ELSE Older(routes[id])
          BY <2>7, <3>1 DEF Tick
        <4>2. active[id] \notin {Absent, NodeTimeout}
          BY <3>1, <4>1 DEF Older
        <4>3. id \notin Expired
          BY <4>2 DEF Expired
        <4>4. routes[id] \notin {Absent, NodeTimeout}
          BY <2>2, <2>3, <4>2
        <4> QED
          BY <2>2, <2>3, <4>1, <4>2, <4>3, <4>4 DEF Older, Absent
      <3> QED
        BY <3>1 DEF RoutesYoung, Members
    <2>8. CASE UNCHANGED <<active, routes>>
      BY <2>8 DEF RoutesYoung, Members
    <2> QED
      BY <2>4, <2>5, <2>6, <2>7, <2>8
      DEF Next, Start, Retry, ReceiveAssign, SendRouteUpdate, Stop, Reboot,
          Receive, ReceiveJoin, AnswerAgain, Refuse, Lose, coordinatorVars,
          vars
  <1>3. RoutesYoung => ActiveHasRoute
    BY DEF RoutesYoung, ActiveHasRoute
  <1> QED
    BY <1>1, <1>2, <1>3, Invariance, PTL DEF Spec
=============================================================================
