----------------------------- MODULE MCMacLink -----------------------------
(* MacLink on two nodes in range of each other.                            *)
EXTENDS MacLink

CONSTANTS
  n1, n2,
  Sends1, Sends2,  \* how many frames each of them sends
  Losses           \* how many the radio loses

MCNodes     == {n1, n2}
MCPlaces    == {"pair"}
MCHears     == [pair |-> [n \in MCNodes |-> MCNodes \ {n}]]
MCMaxSends  == [n \in MCNodes |-> IF n = n1 THEN Sends1 ELSE Sends2]
MCMaxLosses == [pair |-> Losses]

OpenHasty     == [secure : {FALSE}, patient : {FALSE}, place : MCPlaces]
SecurePatient == [secure : {TRUE}, patient : {TRUE}, place : MCPlaces]
SecureHastyOrOpenPatient ==
  {m \in [secure : BOOLEAN, patient : BOOLEAN, place : MCPlaces] :
     m.secure # m.patient}
=============================================================================
