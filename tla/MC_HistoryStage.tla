---------------------------- MODULE MC_HistoryStage ----------------------------
(* Instances of HistoryTail, and of the stage it is based on, for TLC.          *)
EXTENDS HistoryTail, TLC

CONSTANTS m1, m2, m3, e1, e2, e3

\* userNotificationStage: m1 notified two users, m3 one, m2 nobody.
Notified == (e1 :> m1) @@ (e2 :> m1) @@ (e3 :> m3)
===============================================================================
