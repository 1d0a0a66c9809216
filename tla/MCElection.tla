----------------------------- MODULE MCElection -----------------------------
(* Election with two and with three nodes, and announcements as far apart  *)
(* as elections are long, as with the defaults.                            *)
EXTENDS Election

ASSUME MCTimely == Timely

Two   == 1..2
Three == 1..3
=============================================================================
