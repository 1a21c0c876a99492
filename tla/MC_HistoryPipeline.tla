--------------------------- MODULE MC_HistoryPipeline ---------------------------
(* An instance of HistoryTables, and of the pipeline it is based on, for TLC.  *)
EXTENDS HistoryTables, TLC

CONSTANTS n1, n2, a, b

\* The events of a; b is from before.
ObjectOfEvent == 1 :> a @@ 2 :> a

\* Retention is enabled for one of the categories.
SomeOptions == "comment" :> 30
===============================================================================
