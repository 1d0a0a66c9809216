---------------------------- MODULE MCForwarding ----------------------------
(* Three nodes and two places.  In the line, n1 - n2 - n3, n2 forwards; in *)
(* the loop n3 is gone, and n1 and n2 each take the other for the next hop *)
(* to it, with a duplicate cache that two packets can push each other out  *)
(* of.                                                                     *)
EXTENDS Forwarding

CONSTANTS n1, n2, n3

MCNodes  == {n1, n2, n3}
MCPlaces == {"line", "loop"}

MCHears == [line |-> [n \in MCNodes |-> IF n = n2 THEN {n1, n3} ELSE {n2}],
            loop |-> [n \in MCNodes |-> IF n = n3 THEN {} ELSE {n1, n2} \ {n}]]

(* The line when its ends are just in range of each other too, while the   *)
(* routes still lead over n2.                                              *)
TriangleHears == [MCHears EXCEPT !.line = [n \in MCNodes |-> MCNodes \ {n}]]

MCRoute ==
  [line |-> [n \in MCNodes |-> [d \in MCNodes |->
              IF d = n THEN NoRoute ELSE IF n = n2 THEN d ELSE n2]],
   loop |-> [n \in MCNodes |-> [d \in MCNodes |->
              CASE n = n1 /\ d # n1 -> n2
                [] n = n2 /\ d # n2 -> n1
                [] OTHER            -> NoRoute]]]

MCDestinations ==
  [line |-> [n \in MCNodes |-> {n3, Broadcast} \ {n}],
   loop |-> [n \in MCNodes |-> {n3} \ {n}]]

MCMaxSends     == [n \in MCNodes |-> IF n = n3 THEN 0 ELSE 1]
MCMaxLosses    == [line |-> 1, loop |-> 0]
MCDupCacheSize == [line |-> 2, loop |-> 1]

ASSUME MCSettled == Settled

OpenPatient   == [secure : {FALSE}, patient : {TRUE}, place : MCPlaces]
SecurePatient == [secure : {TRUE}, patient : {TRUE}, place : MCPlaces]
=============================================================================
