------------------------------- MODULE MC_Overdue ------------------------------
(* Instances of Overdue for TLC.                                               *)
EXTENDS Overdue

CONSTANTS o1, o2, o3
===============================================================================
