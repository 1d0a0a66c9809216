------------------------------ MODULE MCDevice ------------------------------
EXTENDS Device

(* An interval with a short window, and the one a coordinator announces.   *)
OwnProfile  == [interval |-> 3, window |-> 1]
TwoProfiles == {OwnProfile, [interval |-> 4, window |-> 2]}

(* The last is an AUTO node that is given an id it will not use.           *)
FiveConfigs ==
  {[role |-> "COORDINATOR", id |-> Coordinator, mode |-> "ACTIVE"],
   [role |-> "ROUTER", id |-> 9, mode |-> "ACTIVE"],
   [role |-> "END_NODE", id |-> Unassigned, mode |-> "LIGHT"],
   [role |-> "AUTO", id |-> Unassigned, mode |-> "ACTIVE"],
   [role |-> "AUTO", id |-> 9, mode |-> "ACTIVE"]}
=============================================================================
