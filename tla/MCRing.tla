------------------------------- MODULE MCRing -------------------------------
(* Ring with two bytes to tell apart.                                      *)
EXTENDS Ring

CONSTANTS a, b
=============================================================================
