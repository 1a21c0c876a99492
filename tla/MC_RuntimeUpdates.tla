--------------------------- MODULE MC_RuntimeUpdates ----------------------------
(* An instance of RuntimeUpdates for TLC.                                      *)
EXTENDS RuntimeUpdates

CONSTANTS o1, o2
=================================================================================
