--------------------------- MODULE GradientProofs ---------------------------
(***************************************************************************)
(* That no node ever thinks it is closer to the coordinator than it is,    *)
(* and that frames for the coordinator go uphill, for every graph, hop     *)
(* limit and size of the neighbour table.                                  *)
(*                                                                         *)
(* What is remembered of a node (in a neighbour table, in the air, or in   *)
(* the hands of its own tick) is a distance it once had: not below its     *)
(* real distance, and, unless it has forgotten it since, not below the one *)
(* it has now.                                                             *)
(***************************************************************************)
EXTENDS Gradient, FiniteSetTheorems, TLAPS

(* A distance d that m had in its given life.                              *)
Past(m, d, l) ==
  /\ d >= Hops[m] /\ l <= life[m]
  /\ l = life[m] => distance[m] <= d

EntriesPast ==
  \A n, m \in Nodes : neighbors[n][m] # NoEntry =>
    Past(m, neighbors[n][m].distance, neighbors[n][m].life)

BeaconsPast ==
  \A beacon \in air : /\ <<beacon.from, beacon.to>> \in Links
                      /\ Past(beacon.from, beacon.distance, beacon.life)

PolledPast ==
  \A n \in Nodes : polled[n] # Unknown => Past(n, polled[n], life[n])

Inv == TypeOK /\ NeverTooClose /\ EntriesPast /\ BeaconsPast /\ PolledPast

-----------------------------------------------------------------------------
LEMMA InitInv == Init => Inv
  <1> SUFFICES ASSUME Init PROVE Inv
    OBVIOUS
  <1> USE GraphAssumption, BoundsAssumption DEF Init
  <1>1. \A n \in Nodes : Known(n) = {}
    BY DEF Known
  <1>2. \A n \in Nodes : Cardinality(Known(n)) <= MaxNeighbors
    BY <1>1, FS_EmptySet
  <1>3. TypeOK
    <2>1. neighbors \in [Nodes -> [Nodes -> Entries \cup {NoEntry}]]
      OBVIOUS
    <2>2. distance \in [Nodes -> Distances \cup {Unknown}]
      BY DEF Distances
    <2> QED BY <1>2, <2>1, <2>2 DEF TypeOK
  <1> QED
    BY <1>3 DEF Inv, NeverTooClose, EntriesPast, BeaconsPast, PolledPast

(* A table that gets one more entry when it has room still fits.           *)
LEMMA UpdateFits ==
  ASSUME TypeOK, NEW n \in Nodes, NEW m \in Nodes, NEW entry \in Entries,
         NeighborUpdate(n, m, entry)
  PROVE  /\ neighbors' \in [Nodes -> [Nodes -> Entries \cup {NoEntry}]]
         /\ \A k \in Nodes : Cardinality(Known(k)') <= MaxNeighbors
  <1> USE GraphAssumption, BoundsAssumption
  <1>1. neighbors' \in [Nodes -> [Nodes -> Entries \cup {NoEntry}]]
    BY DEF TypeOK, NeighborUpdate
  <1>2. ASSUME NEW k \in Nodes PROVE Cardinality(Known(k)') <= MaxNeighbors
    <2>1. IsFiniteSet(Known(k)) /\ Cardinality(Known(k)) \in Nat
      BY FS_Subset, FS_CardinalityType DEF Known
    <2>2. CASE Known(k)' = Known(k)
      BY <2>2 DEF TypeOK
    <2>3. CASE Known(k)' # Known(k)
      <3>1. HasRoom(n, m) /\ k = n /\ neighbors' = [neighbors EXCEPT ![n][m] = entry]
        BY <2>3 DEF NeighborUpdate, TypeOK, Known
      <3>2. entry # NoEntry
        BY DEF Entries, NoEntry, Distances, Unknown
      <3>3. Known(k)' = Known(k) \cup {m} /\ m \notin Known(k)
        BY <2>3, <3>1, <3>2 DEF TypeOK, Known
      <3>4. Cardinality(Known(k)') = Cardinality(Known(k)) + 1
        BY <2>1, <3>3, FS_AddElement
      <3>5. Cardinality(Known(k)) < MaxNeighbors
        BY <3>1, <3>3 DEF HasRoom
      <3> QED BY <2>1, <3>4, <3>5
    <2> QED BY <2>2, <2>3
  <1> QED BY <1>1, <1>2

(* A table that only loses entries still fits.                             *)
LEMMA FewerFit ==
  ASSUME TypeOK, \A k \in Nodes : Known(k)' \subseteq Known(k)
  PROVE  \A k \in Nodes : Cardinality(Known(k)') <= MaxNeighbors
  <1> SUFFICES ASSUME NEW k \in Nodes
               PROVE  Cardinality(Known(k)') <= MaxNeighbors
    OBVIOUS
  <1>1. IsFiniteSet(Known(k)) /\ IsFiniteSet(Known(k)')
    BY GraphAssumption, FS_Subset DEF Known
  <1>2. Cardinality(Known(k)') <= Cardinality(Known(k))
    BY <1>1, FS_Subset
  <1>3. Cardinality(Known(k)) \in Nat /\ Cardinality(Known(k)') \in Nat
    BY <1>1, FS_CardinalityType
  <1>4. Cardinality(Known(k)) <= MaxNeighbors BY DEF TypeOK
  <1> QED BY <1>2, <1>3, <1>4, BoundsAssumption

(* The beacons of one transmission.                                        *)
LEMMA BeaconTyped ==
  ASSUME NEW n \in Nodes, NEW d \in Distances, life \in [Nodes -> Nat]
  PROVE  /\ Beacon(n, d) \subseteq Beacons
         /\ \A beacon \in Beacon(n, d) :
              /\ beacon.from = n /\ beacon.distance = d /\ beacon.life = life[n]
              /\ <<n, beacon.to>> \in Links
  <1> SUFFICES ASSUME NEW beacon \in Beacon(n, d)
               PROVE  /\ beacon \in Beacons
                      /\ beacon.from = n /\ beacon.distance = d
                      /\ beacon.life = life[n] /\ <<n, beacon.to>> \in Links
    OBVIOUS
  <1>1. PICK m \in Nodes :
          /\ beacon = [from |-> n, to |-> m, distance |-> d, life |-> life[n]]
          /\ <<n, m>> \in Links
    BY DEF Beacon
  <1> QED BY <1>1 DEF Beacons

(* Distances only fall while they are not forgotten.                       *)
OnlyFall ==
  \A k \in Nodes : \/ life'[k] = life[k] /\ distance'[k] <= distance[k]
                   \/ life'[k] > life[k]

LEMMA PastKept ==
  ASSUME TypeOK, TypeOK', OnlyFall
  PROVE  \A m \in Nodes, d \in Distances, l \in Nat : Past(m, d, l) => Past(m, d, l)'
  <1> SUFFICES ASSUME NEW m \in Nodes, NEW d \in Distances, NEW l \in Nat,
                      Past(m, d, l)
               PROVE  Past(m, d, l)'
    OBVIOUS
  <1>1. /\ life[m] \in Nat /\ life'[m] \in Nat /\ d \in Int
        /\ distance[m] \in Int /\ distance'[m] \in Int
    BY BoundsAssumption DEF TypeOK, Distances, Unknown
  <1> QED BY <1>1 DEF Past, OnlyFall

(* Entries that stay, whatever their age.                                  *)
LEMMA EntriesKept ==
  ASSUME TypeOK, TypeOK', OnlyFall, EntriesPast,
         \A n, m \in Nodes : neighbors'[n][m] # NoEntry =>
           /\ neighbors[n][m] # NoEntry
           /\ neighbors'[n][m].distance = neighbors[n][m].distance
           /\ neighbors'[n][m].life = neighbors[n][m].life
  PROVE  EntriesPast'
  <1> SUFFICES ASSUME NEW n \in Nodes, NEW m \in Nodes, neighbors'[n][m] # NoEntry
               PROVE  Past(m, neighbors[n][m].distance, neighbors[n][m].life)'
    BY DEF EntriesPast
  <1>1. neighbors[n][m] \in Entries
    BY DEF TypeOK
  <1>2. PICK d \in Distances, l \in Nat :
          /\ neighbors[n][m].distance = d /\ neighbors[n][m].life = l
          /\ neighbors'[n][m].distance = d /\ neighbors'[n][m].life = l
    BY <1>1 DEF Entries
  <1>3. Past(m, d, l)
    BY <1>2 DEF EntriesPast
  <1>4. Past(m, d, l)'
    BY <1>3, PastKept
  <1> QED BY <1>2, <1>4 DEF Past

LEMMA BeaconsKept ==
  ASSUME TypeOK, TypeOK', OnlyFall, BeaconsPast
  PROVE  \A beacon \in air : /\ <<beacon.from, beacon.to>> \in Links
                             /\ Past(beacon.from, beacon.distance, beacon.life)'
  <1> SUFFICES ASSUME NEW beacon \in air
               PROVE  Past(beacon.from, beacon.distance, beacon.life)'
    BY DEF BeaconsPast
  <1>1. beacon.from \in Nodes /\ beacon.distance \in Distances /\ beacon.life \in Nat
    BY DEF TypeOK, Beacons
  <1> QED BY <1>1, PastKept DEF BeaconsPast
-----------------------------------------------------------------------------
(* Types, step by step.                                                    *)

LEMMA NextTypeOK == TypeOK /\ [Next]_vars => TypeOK'
  <1> SUFFICES ASSUME TypeOK, [Next]_vars PROVE TypeOK'
    OBVIOUS
  <1> USE GraphAssumption, BoundsAssumption DEF troubles
  <1>1. ASSUME NEW beacon \in air, OnBeacon(beacon) PROVE TypeOK'
    <2>1. /\ beacon.from \in Nodes /\ beacon.to \in Nodes
          /\ beacon.distance \in Distances /\ beacon.life \in Nat
      BY DEF TypeOK, Beacons
    <2>2. Heard(beacon) \in Entries
      BY <2>1 DEF Heard, Entries
    <2>3. /\ neighbors' \in [Nodes -> [Nodes -> Entries \cup {NoEntry}]]
          /\ \A k \in Nodes : Cardinality(Known(k)') <= MaxNeighbors
      BY <1>1, <2>1, <2>2, UpdateFits DEF OnBeacon
    <2>4. /\ distance' \in [Nodes -> Distances \cup {Unknown}]
          /\ pending' \in [Nodes -> BOOLEAN] /\ raced' \in BOOLEAN
      <3>1. CASE OnBeaconAtCoordinator(beacon)
        BY <3>1 DEF OnBeaconAtCoordinator, TypeOK, Distances
      <3>2. CASE OnBeaconCloser(beacon)
        <4>1. Candidate(beacon.distance) \in Distances
          BY <3>2, <2>1
             DEF OnBeaconCloser, Improves, WithinLimit, Candidate, Distances
        <4>2. WithinLimit(Candidate(beacon.distance)) \in BOOLEAN
          BY DEF WithinLimit
        <4> QED BY <3>2, <4>1, <4>2 DEF OnBeaconCloser, TypeOK
      <3>3. CASE OnBeaconFarther(beacon)
        BY <3>3 DEF OnBeaconFarther, TypeOK
      <3> QED BY <1>1, <3>1, <3>2, <3>3 DEF OnBeacon
    <2> QED BY <1>1, <2>3, <2>4 DEF OnBeacon, Arrives, TypeOK
  <1>2. ASSUME NEW beacon \in air, Lose(beacon) PROVE TypeOK'
    BY <1>2 DEF Lose, TypeOK, Known
  <1>3. ASSUME NEW n \in Nodes, NeighborExpire(n) PROVE TypeOK'
    <2>1. neighbors' \in [Nodes -> [Nodes -> Entries \cup {NoEntry}]]
      BY <1>3 DEF NeighborExpire, TypeOK
    <2>2. \A k \in Nodes : Known(k)' \subseteq Known(k)
      BY <1>3 DEF NeighborExpire, TypeOK, Known
    <2> QED BY <1>3, <2>1, <2>2, FewerFit DEF NeighborExpire, TypeOK
  <1>4. ASSUME NEW n \in Nodes, Poll(n) PROVE TypeOK'
    BY <1>4 DEF Poll, TypeOK, Known
  <1>5. ASSUME NEW n \in Nodes, Rebroadcast(n) PROVE TypeOK'
    <2>1. polled[n] \in Distances
      BY <1>5 DEF Rebroadcast, TypeOK
    <2>2. air' \subseteq Beacons
      BY <1>5, <2>1, BeaconTyped DEF Rebroadcast, TypeOK
    <2> QED BY <1>5, <2>2 DEF Rebroadcast, TypeOK, Known
  <1>6. ASSUME NEW n \in Nodes, Reboot(n) PROVE TypeOK'
    <2>1. neighbors' \in [Nodes -> [Nodes -> Entries \cup {NoEntry}]]
      BY <1>6 DEF Reboot, Forgets, TypeOK
    <2>2. \A k \in Nodes : Known(k)' \subseteq Known(k)
      BY <1>6 DEF Reboot, Forgets, TypeOK, Known
    <2> QED BY <1>6, <2>1, <2>2, FewerFit DEF Reboot, Forgets, TypeOK
  <1>7. CASE SendPeriodic \/ Refresh
    <2>1. air' \subseteq Beacons
      BY <1>7, BeaconTyped DEF SendPeriodic, Refresh, TypeOK, Distances
    <2>2. distance' \in [Nodes -> Distances \cup {Unknown}]
      BY <1>7 DEF SendPeriodic, Refresh, TypeOK, Distances
    <2>3. CASE SendPeriodic
      BY <2>1, <2>2, <2>3 DEF SendPeriodic, TypeOK, Known
    <2>4. CASE Refresh
      <3>1. due' = FALSE /\ extras' = extras + 1 /\ extras \in Nat
        BY <2>4 DEF Refresh, TypeOK
      <3>2. UNCHANGED <<pending, polled, neighbors, on, life, raced, losses,
                        reboots, outages>>
        BY <2>4 DEF Refresh
      <3>3. \A k \in Nodes : Cardinality(Known(k)') <= MaxNeighbors
        BY <3>2 DEF TypeOK, Known
      <3>4. extras' \in Nat
        BY <3>1
      <3> QED BY <2>1, <2>2, <3>1, <3>2, <3>3, <3>4 DEF TypeOK
    <2> QED BY <1>7, <2>3, <2>4
  <1>8. CASE Elapse
    <2>1. neighbors' \in [Nodes -> [Nodes -> Entries \cup {NoEntry}]]
      <3>1. \A entry \in Entries : [entry EXCEPT !.old = TRUE] \in Entries
        BY DEF Entries
      <3>2. \A n, m \in Nodes : neighbors[n][m] \in Entries \cup {NoEntry}
        BY DEF TypeOK
      <3> QED BY <1>8, <3>1, <3>2 DEF Elapse
    <2>2. \A k \in Nodes : Known(k)' \subseteq Known(k)
      BY <1>8 DEF Elapse, TypeOK, Known
    <2> QED BY <1>8, <2>1, <2>2, FewerFit DEF Elapse, TypeOK
  <1>9. CASE PowerOff
    <2>1. neighbors' \in [Nodes -> [Nodes -> Entries \cup {NoEntry}]]
      BY <1>9 DEF PowerOff, Forgets, TypeOK
    <2>2. \A k \in Nodes : Known(k)' \subseteq Known(k)
      BY <1>9 DEF PowerOff, Forgets, TypeOK, Known
    <2>3. /\ distance' \in [Nodes -> Distances \cup {Unknown}]
          /\ pending' \in [Nodes -> BOOLEAN] /\ life' \in [Nodes -> Nat]
          /\ polled' \in [Nodes -> Distances \cup {Unknown}]
      BY <1>9 DEF PowerOff, Forgets, TypeOK
    <2>4. air' \subseteq Beacons /\ on' \in BOOLEAN /\ due' \in BOOLEAN
      BY <1>9 DEF PowerOff, TypeOK
    <2>5. /\ raced' \in BOOLEAN /\ losses' \in Nat /\ reboots' \in Nat
          /\ outages' \in Nat /\ extras' \in Nat
      BY <1>9 DEF PowerOff, TypeOK
    <2> QED BY <2>1, <2>2, <2>3, <2>4, <2>5, FewerFit DEF TypeOK
  <1>10. CASE PowerOn
    <2>1. distance' \in [Nodes -> Distances \cup {Unknown}]
      BY <1>10 DEF PowerOn, TypeOK, Distances
    <2> QED BY <1>10, <2>1 DEF PowerOn, TypeOK, Known
  <1>11. CASE UNCHANGED vars
    BY <1>11 DEF vars, TypeOK, Known
  <1> QED
    BY <1>1, <1>2, <1>3, <1>4, <1>5, <1>6, <1>7, <1>8, <1>9, <1>10, <1>11
       DEF Next

-----------------------------------------------------------------------------
(* The invariant, step by step.                                            *)

(* Every step but the reception of a beacon: what such a step may do.      *)
LEMMA StepKeeps ==
  ASSUME Inv, TypeOK', OnlyFall,
         \A n \in Nodes \ {Coordinator} :
           distance'[n] = distance[n] \/ distance'[n] = Unknown,
         \A n, m \in Nodes : neighbors'[n][m] # NoEntry =>
           /\ neighbors[n][m] # NoEntry
           /\ neighbors'[n][m].distance = neighbors[n][m].distance
           /\ neighbors'[n][m].life = neighbors[n][m].life,
         \A beacon \in air' : beacon \in air \/
           \E n \in Nodes, d \in Distances :
             /\ beacon \in Beacon(n, d) /\ life'[n] = life[n]
             /\ d >= Hops[n] /\ distance'[n] <= d,
         \A n \in Nodes : polled'[n] # Unknown =>
           /\ distance'[n] <= polled'[n] /\ polled'[n] >= Hops[n]
  PROVE  Inv'
  <1>a. TypeOK
    BY DEF Inv
  <1>1. NeverTooClose'
    BY DEF Inv, NeverTooClose
  <1>2. EntriesPast'
    BY <1>a, EntriesKept DEF Inv
  <1>3. BeaconsPast'
    <2> SUFFICES ASSUME NEW beacon \in air'
                 PROVE  /\ <<beacon.from, beacon.to>> \in Links
                        /\ Past(beacon.from, beacon.distance, beacon.life)'
      BY DEF BeaconsPast
    <2>1. CASE beacon \in air
      BY <1>a, <2>1, BeaconsKept DEF Inv
    <2>2. ASSUME NEW n \in Nodes, NEW d \in Distances, beacon \in Beacon(n, d),
                 life'[n] = life[n], d >= Hops[n], distance'[n] <= d
          PROVE  /\ <<beacon.from, beacon.to>> \in Links
                 /\ Past(beacon.from, beacon.distance, beacon.life)'
      <3>1. /\ beacon.from = n /\ beacon.distance = d /\ beacon.life = life[n]
            /\ <<n, beacon.to>> \in Links
        BY <1>a, <2>2, BeaconTyped DEF TypeOK
      <3>2. life[n] \in Nat
        BY <1>a DEF TypeOK
      <3> QED BY <2>2, <3>1, <3>2 DEF Past
    <2> QED BY <2>1, <2>2
  <1>4. PolledPast'
    <2> SUFFICES ASSUME NEW n \in Nodes, polled'[n] # Unknown
                 PROVE  Past(n, polled[n], life[n])'
      BY DEF PolledPast
    <2>1. life'[n] \in Nat
      BY DEF TypeOK
    <2> QED BY <2>1 DEF Past
  <1> QED BY <1>1, <1>2, <1>3, <1>4 DEF Inv

(* The reception of a beacon.                                              *)
LEMMA OnBeaconKeeps ==
  ASSUME Inv, TypeOK', NEW beacon \in air, OnBeacon(beacon)
  PROVE  Inv'
  <1> USE GraphAssumption, HopsAssumption, BoundsAssumption DEF troubles
  <1>1. /\ beacon.from \in Nodes /\ beacon.to \in Nodes
        /\ beacon.distance \in Distances /\ beacon.life \in Nat
    BY DEF Inv, TypeOK, Beacons
  <1>2. /\ <<beacon.from, beacon.to>> \in Links
        /\ Past(beacon.from, beacon.distance, beacon.life)
    BY DEF Inv, BeaconsPast
  <1>3. Hops[beacon.to] <= Hops[beacon.from] + 1 /\ Hops[beacon.to] \in Nat
        /\ Hops[beacon.from] \in Nat /\ Hops[Coordinator] = 0
    BY <1>1, <1>2
  <1>4. TypeOK /\ life' = life /\ polled' = polled /\ air' \subseteq air
    BY DEF OnBeacon, Arrives, Inv
  <1>5. /\ \A n \in Nodes : distance'[n] <= distance[n]
        /\ NeverTooClose'
    <2>0. \A n \in Nodes : distance[n] \in Int /\ distance[n] >= 0
      BY <1>4 DEF TypeOK, Distances, Unknown
    <2>1. CASE OnBeaconAtCoordinator(beacon)
      BY <1>4, <2>0, <2>1 DEF OnBeaconAtCoordinator, TypeOK, Inv, NeverTooClose
    <2>2. CASE OnBeaconCloser(beacon)
      <3>1. /\ Candidate(beacon.distance) < distance[beacon.to]
            /\ distance' = [distance EXCEPT ![beacon.to] = Candidate(beacon.distance)]
        BY <2>2 DEF OnBeaconCloser, Improves
      <3>2. Candidate(beacon.distance) \in Int
            /\ Candidate(beacon.distance) >= Hops[beacon.to]
        BY <1>1, <1>2, <1>3 DEF Candidate, Past, Distances
      <3> QED BY <1>4, <2>0, <3>1, <3>2 DEF TypeOK, Inv, NeverTooClose
    <2>3. CASE OnBeaconFarther(beacon)
      BY <1>4, <2>0, <2>3 DEF OnBeaconFarther, Inv, NeverTooClose
    <2> QED BY <2>1, <2>2, <2>3 DEF OnBeacon
  <1>6. OnlyFall
    BY <1>4, <1>5 DEF OnlyFall
  <1>7. EntriesPast'
    <2> SUFFICES ASSUME NEW n \in Nodes, NEW m \in Nodes, neighbors'[n][m] # NoEntry
                 PROVE  Past(m, neighbors[n][m].distance, neighbors[n][m].life)'
      BY DEF EntriesPast
    <2>1. \A k \in Nodes, d \in Distances, l \in Nat : Past(k, d, l) => Past(k, d, l)'
      BY <1>4, <1>6, PastKept
    <2>2. CASE neighbors'[n][m] = neighbors[n][m]
      <3>1. neighbors[n][m] \in Entries
        BY <1>4, <2>2 DEF TypeOK
      <3>2. PICK d \in Distances, l \in Nat :
              neighbors[n][m].distance = d /\ neighbors[n][m].life = l
        BY <3>1 DEF Entries
      <3>3. Past(m, d, l)
        BY <2>2, <3>2 DEF Inv, EntriesPast
      <3> QED BY <2>1, <2>2, <3>2, <3>3 DEF Past
    <2>3. CASE neighbors'[n][m] # neighbors[n][m]
      <3>1. m = beacon.from /\ neighbors'[n][m] = Heard(beacon)
        BY <1>1, <1>4, <2>3 DEF OnBeacon, NeighborUpdate, TypeOK
      <3>2. /\ neighbors'[n][m].distance = beacon.distance
            /\ neighbors'[n][m].life = beacon.life
        BY <3>1 DEF Heard
      <3>3. Past(m, beacon.distance, beacon.life)'
        BY <1>1, <1>2, <2>1, <3>1
      <3> QED BY <3>2, <3>3 DEF Past
    <2> QED BY <2>2, <2>3
  <1>8. BeaconsPast'
    BY <1>4, <1>6, BeaconsKept DEF Inv, BeaconsPast
  <1>9. PolledPast'
    <2> SUFFICES ASSUME NEW n \in Nodes, polled[n] # Unknown
                 PROVE  Past(n, polled[n], life[n])'
      BY <1>4 DEF PolledPast
    <2>1. polled[n] \in Distances /\ life[n] \in Nat /\ Past(n, polled[n], life[n])
      BY <1>4 DEF Inv, PolledPast, TypeOK
    <2>2. PICK d \in Distances, l \in Nat : d = polled[n] /\ l = life[n]
      BY <2>1
    <2>3. Past(n, d, l)'
      BY <1>4, <1>6, <2>1, <2>2, PastKept
    <2> QED BY <1>4, <2>2, <2>3 DEF Past
  <1> QED BY <1>5, <1>7, <1>8, <1>9 DEF Inv

LEMMA NextInv == Inv /\ [Next]_vars => Inv'
  <1> SUFFICES ASSUME Inv, [Next]_vars PROVE Inv'
    OBVIOUS
  <1>a. TypeOK /\ TypeOK'
    BY NextTypeOK DEF Inv
  <1>b. /\ \A n \in Nodes : distance[n] \in Int /\ distance[n] >= 0 /\ life[n] \in Nat
        /\ Hops[Coordinator] = 0 /\ Hops \in [Nodes -> Nat]
        /\ \A n \in Nodes : polled[n] # Unknown =>
             /\ polled[n] \in Distances /\ distance[n] <= polled[n]
             /\ polled[n] >= Hops[n]
    BY <1>a, GraphAssumption, HopsAssumption
       DEF Inv, PolledPast, Past, TypeOK, Distances, Unknown
  <1> USE DEF OnlyFall
  <1>1. ASSUME NEW beacon \in air, OnBeacon(beacon) PROVE Inv'
    BY <1>1, <1>a, OnBeaconKeeps
  <1>2. ASSUME NEW beacon \in air, Lose(beacon) PROVE Inv'
    BY <1>2, <1>a, <1>b, StepKeeps DEF Lose
  <1>3. ASSUME NEW n \in Nodes, NeighborExpire(n) PROVE Inv'
    BY <1>3, <1>a, <1>b, StepKeeps DEF NeighborExpire, TypeOK
  <1>4. ASSUME NEW n \in Nodes, Poll(n) PROVE Inv'
    <2>1. \A k \in Nodes : polled'[k] # Unknown =>
            distance[k] <= polled'[k] /\ polled'[k] >= Hops[k]
      BY <1>4, <1>a, <1>b DEF Poll, TypeOK, Inv, NeverTooClose
    <2> QED BY <1>4, <1>a, <1>b, <2>1, StepKeeps DEF Poll
  <1>5. ASSUME NEW n \in Nodes, Rebroadcast(n) PROVE Inv'
    <2>1. \A beacon \in air' : beacon \in air \/
            (beacon \in Beacon(n, polled[n]) /\ polled[n] \in Distances
             /\ polled[n] >= Hops[n] /\ distance[n] <= polled[n])
      BY <1>5, <1>b DEF Rebroadcast
    <2>2. \A k \in Nodes : polled'[k] # Unknown =>
            distance[k] <= polled'[k] /\ polled'[k] >= Hops[k]
      BY <1>5, <1>a, <1>b DEF Rebroadcast, TypeOK
    <2> QED BY <1>5, <1>a, <1>b, <2>1, <2>2, StepKeeps DEF Rebroadcast
  <1>6. ASSUME NEW n \in Nodes, Reboot(n) PROVE Inv'
    <2>1. \A k \in Nodes : polled'[k] # Unknown =>
            distance'[k] <= polled'[k] /\ polled'[k] >= Hops[k]
      BY <1>6, <1>a, <1>b DEF Reboot, Forgets, TypeOK
    <2>2. \A k, m \in Nodes : neighbors'[k][m] # NoEntry =>
            neighbors'[k][m] = neighbors[k][m]
      BY <1>6, <1>a DEF Reboot, Forgets, TypeOK
    <2>3. OnlyFall /\ \A k \in Nodes : distance'[k] = distance[k] \/ distance'[k] = Unknown
      BY <1>6, <1>a, <1>b DEF Reboot, Forgets, TypeOK
    <2> QED BY <1>6, <1>a, <2>1, <2>2, <2>3, StepKeeps DEF Reboot
  <1>7. CASE SendPeriodic \/ Refresh
    <2>1. /\ distance' = [distance EXCEPT ![Coordinator] = 0]
          /\ air' = air \cup Beacon(Coordinator, 0)
          /\ UNCHANGED <<polled, neighbors, life>>
      BY <1>7 DEF SendPeriodic, Refresh
    <2>2. /\ distance'[Coordinator] = 0 /\ 0 \in Distances
          /\ \A k \in Nodes : distance'[k] <= distance[k]
          /\ \A k \in Nodes \ {Coordinator} : distance'[k] = distance[k]
      BY <2>1, <1>a, <1>b, GraphAssumption, BoundsAssumption DEF TypeOK, Distances
    <2>3. \A k \in Nodes : polled'[k] # Unknown =>
            distance'[k] <= polled'[k] /\ polled'[k] >= Hops[k]
      BY <2>1, <2>2, <1>b, GraphAssumption DEF Distances
    <2> QED BY <1>a, <1>b, <2>1, <2>2, <2>3, GraphAssumption, StepKeeps
  <1>8. CASE Elapse
    <2>1. \A k, m \in Nodes : neighbors'[k][m] # NoEntry =>
            /\ neighbors[k][m] # NoEntry
            /\ neighbors'[k][m].distance = neighbors[k][m].distance
            /\ neighbors'[k][m].life = neighbors[k][m].life
      <3>1. \A entry \in Entries :
              /\ [entry EXCEPT !.old = TRUE].distance = entry.distance
              /\ [entry EXCEPT !.old = TRUE].life = entry.life
        BY DEF Entries
      <3> QED BY <1>8, <1>a, <3>1 DEF Elapse, TypeOK
    <2> QED BY <1>8, <1>a, <1>b, <2>1, StepKeeps DEF Elapse
  <1>9. CASE PowerOff
    <2>1. \A k \in Nodes : polled'[k] # Unknown =>
            distance'[k] <= polled'[k] /\ polled'[k] >= Hops[k]
      BY <1>9, <1>a, <1>b DEF PowerOff, Forgets, TypeOK
    <2>2. \A k, m \in Nodes : neighbors'[k][m] # NoEntry =>
            neighbors'[k][m] = neighbors[k][m]
      BY <1>9, <1>a DEF PowerOff, Forgets, TypeOK
    <2>3. OnlyFall /\ \A k \in Nodes : distance'[k] = distance[k] \/ distance'[k] = Unknown
      BY <1>9, <1>a, <1>b DEF PowerOff, Forgets, TypeOK
    <2>4. air' \subseteq air
      BY <1>9 DEF PowerOff
    <2> QED BY <1>a, <2>1, <2>2, <2>3, <2>4, StepKeeps
  <1>10. CASE PowerOn
    <2>1. /\ \A k \in Nodes : distance'[k] <= distance[k]
          /\ \A k \in Nodes \ {Coordinator} : distance'[k] = distance[k]
          /\ UNCHANGED <<polled, neighbors, life, air>>
      BY <1>10, <1>a, <1>b DEF PowerOn, TypeOK
    <2>2. \A k \in Nodes : polled'[k] # Unknown =>
            distance'[k] <= polled'[k] /\ polled'[k] >= Hops[k]
      BY <2>1, <1>a, <1>b, BoundsAssumption DEF Distances, TypeOK, Unknown
    <2> QED BY <1>a, <2>1, <2>2, StepKeeps
  <1>11. CASE UNCHANGED vars
    BY <1>11, <1>a, <1>b, StepKeeps DEF vars
  <1> QED
    BY <1>1, <1>2, <1>3, <1>4, <1>5, <1>6, <1>7, <1>8, <1>9, <1>10, <1>11
       DEF Next

-----------------------------------------------------------------------------
(* Types are right and tables have room for what is in them.               *)
THEOREM Invariance == Spec => []Inv
  BY InitInv, NextInv, PTL DEF Spec

THEOREM TypeCorrect == Spec => []TypeOK
  BY Invariance, PTL DEF Inv

(* No node thinks it is closer than it is (discovery.c:747).               *)
THEOREM NoneTooClose == Spec => []NeverTooClose
  BY Invariance, PTL DEF Inv

(* Frames for the coordinator go uphill (routing.c, neighbor_find_uphill). *)
THEOREM FramesGoUphill == Spec => []GoesUphill
  <1>1. Inv => GoesUphill
    <2> SUFFICES ASSUME Inv, NEW n \in Nodes, NEW m \in NextHops(n),
                        neighbors[n][m].life = life[m]
                 PROVE  distance[m] < distance[n]
      BY DEF GoesUphill
    <2>1. /\ m \in Nodes /\ neighbors[n][m] # NoEntry
          /\ neighbors[n][m].distance < distance[n]
      BY DEF NextHops, Uphill, Known
    <2>2. distance[m] <= neighbors[n][m].distance
      BY <2>1 DEF Inv, EntriesPast, Past
    <2>3. neighbors[n][m].distance \in Int /\ distance[m] \in Int /\ distance[n] \in Int
      BY <2>1 DEF Inv, TypeOK, Entries, Distances, Unknown
    <2> QED BY <2>1, <2>2, <2>3
  <1> QED BY <1>1, Invariance, PTL
=============================================================================
