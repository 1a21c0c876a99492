---------------------------- MODULE MC_IdoMigration ----------------------------
(* Instances of IdoMigration for TLC.                                          *)
EXTENDS IdoMigration

CONSTANTS h, s, u

SeqsOf(n, S) == [1..n -> S]

SmallContents ==
  [t \in HistoryType |->
     CASE t = "ack & comment" -> SeqsOf(2, IdoRow(t))
       [] t = "downtime"      -> SeqsOf(3, IdoRow(t))
       [] t = "flapping"      -> SeqsOf(4, IdoRow(t))
       [] t = "notification"  ->
            SeqsOf(2, {r \in IdoRow(t) : r.reason \in {0, 4} /\ r.lastHard \in {0, 1}
                         /\ (~r.timed => r.reason = 0 /\ r.users = {})
                         /\ (r.reason = 4 => r.users = {})})
       [] t = "state"         ->
            SeqsOf(4, {r \in IdoRow(t) : r.state = r.lastHard /\ r.state \in {0, 2}
                                         /\ (r.hard <=> r.object = h)})]
===============================================================================
