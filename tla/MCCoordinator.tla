--------------------------- MODULE MCCoordinator ---------------------------
(* Coordinator with two devices: with a MAC address each, or both with the *)
(* one that discovery_init makes of the network's number and of no id.     *)
EXTENDS Coordinator

CONSTANTS d1, d2

OwnMac    == [d \in Devices |-> d]
SharedMac == [d \in Devices |-> d1]
=============================================================================
