------------------------------- MODULE IdoConvert -------------------------------
(* The conversions of icingadb-migrate: what rows of the IDO become in Icinga   *)
(* DB, as stages of rows to insert or upsert.  A row of the IDO is a record of  *)
(* what its conversion decides on.  Its ID stands for its time, its name and    *)
(* its payload as well, since no two rows of an object share them.              *)
EXTENDS Integers, FiniteSets

CONSTANTS
  Object,  \* hosts and services of the IDO
  Host,    \* those of them that are hosts
  User     \* contacts

ASSUME ConvertAssumption == Host \subseteq Object

None == "none"
Pending == 99
Open == 0  \* no end yet, where IDs of ends are stored

\* Names of typesToMigrate, and those of them that have a cache.
HistoryType == {"ack & comment", "downtime", "flapping", "notification", "state"}
HardStateTypes == {"notification", "state"}

\* What the queries select of a row, by type; timed: its time is not NULL
\* (the time of the other types' rows never is).
IdoRow(type) ==
  CASE type = "ack & comment" ->
         [timed : BOOLEAN, entry : {"user", "downtime", "ack"}, deleted : BOOLEAN,
          expires : BOOLEAN]
    [] type = "downtime" ->
         {r \in [timed : BOOLEAN, started : BOOLEAN, ended : BOOLEAN,
                 cancelled : BOOLEAN] : r.cancelled => r.ended}
    [] type = "flapping" -> [object : Object, start : BOOLEAN]
    [] type = "notification" ->
         [timed : BOOLEAN, object : Object, reason : 0..8, lastHard : 0..3,
          users : SUBSET User]
    [] type = "state" ->
         [object : Object, state : 0..3, hard : BOOLEAN, lastHard : 0..3]

-------------------------------------------------------------------------------
(* Rows of Icinga DB: where they are, a table and a primary key, and columns.   *)

Entry(table, key, columns) == [at |-> <<table, key>>, columns |-> columns]

\* The ID of an event is the hash of its kind and the name of what it is about;
\* ref is the row of another table that history refers to.
Event(kind, parent, key, time) ==
  Entry("history", <<kind, key>>, [ref |-> <<parent, key>>, time |-> time])

\* CommentEventTime.Value and DowntimeEventTime.Value of rows that have ended.
EndTime(cancelled, cancelTime, endTime) == IF cancelled THEN cancelTime ELSE endTime

Insert(rows) == [op |-> "insert", rows |-> rows]
Upsert(rows) == [op |-> "upsert", rows |-> rows]

-------------------------------------------------------------------------------
(* In the following, row maps IDs to rows of the IDO and ids is the slice.      *)

\* convertCommentRows; the comments of downtimes and flapping are not migrated.
CommentStages(row, ids) ==
  LET Of(entry) == {i \in ids : row[i].timed /\ row[i].entry = entry}
      Ended(set) == {i \in set : row[i].deleted}
      Rows(table, set) ==
        {Entry(table, i, [end |-> IF row[i].deleted THEN "deletion" ELSE None]) : i \in set}
      Events(first, last, table, set) ==
        {Event(first, table, i, "entry") : i \in set}
          \cup {Event(last, table, i, "deletion") : i \in Ended(set)}
  IN  << Insert(Rows("comment_history", Of("user"))),
         Insert(Rows("acknowledgement_history", Of("ack"))),
         Insert(Events("comment_add", "comment_remove", "comment_history", Of("user"))),
         Insert(Events("ack_set", "ack_clear", "acknowledgement_history", Of("ack"))) >>

\* Downtimes get their end event when their actual end is known.
\* Mutant: only cancelled ones get it.
EndedDowntimes_Cancelled(row, set) == {i \in set : row[i].cancelled}

EndedDowntimes(row, set) == {i \in set : row[i].ended}

\* convertDowntimeRows; downtimes that never started are not migrated.
DowntimeStages(row, ids) ==
  LET set == {i \in ids : row[i].timed /\ row[i].started}
      End(i) == IF row[i].ended THEN "actual" ELSE "scheduled"
      Cancel(i) == IF row[i].cancelled THEN "actual" ELSE None
      Final(i) == EndTime(row[i].cancelled, Cancel(i), End(i))
  IN  << Insert({Entry("downtime_history", i, [cancel |-> Cancel(i), end |-> End(i)]) :
                   i \in set}),
         Insert({Event("downtime_start", "downtime_history", i, "start") : i \in set}
                  \cup {Event("downtime_end", "downtime_history", i, Final(i)) :
                          i \in EndedDowntimes(row, set)}),
         Insert({Entry("sla_history_downtime", i, [end |-> Final(i)]) : i \in set}) >>

\* convertFlappingRows.  startOf is the cache: the start of rows that are ends.
\* An interval is named by its object and its start.  The upsert of an end sets
\* only the columns of the end, or inserts a row without percent_state_change_start
\* (started is FALSE).
FlappingStages(row, ids, startOf) ==
  LET starts == {i \in ids : row[i].start}
      ends == {i \in ids : ~row[i].start /\ i \in DOMAIN startOf}
      Key(i) == <<row[i].object, IF row[i].start THEN i ELSE startOf[i]>>
  IN  << Insert({Entry("flapping_history", Key(i), [started |-> TRUE, end |-> Open]) :
                   i \in starts}),
         Upsert({Entry("flapping_history", Key(i), [started |-> FALSE, end |-> i]) :
                   i \in ends}),
         Insert({Event("flapping_start", "flapping_history", Key(i), i) : i \in starts}
                  \cup {Event("flapping_end", "flapping_history", Key(i), i) : i \in ends}) >>

\* convertNotificationType; 4 is not known.
NotificationType(reason, state) ==
  CASE reason = 0 -> IF state = 0 THEN "recovery" ELSE "problem"
    [] reason = 1 -> "acknowledgement"
    [] reason = 2 -> "flapping_start"
    [] reason = 3 -> "flapping_end"
    [] reason = 5 -> "downtime_start"
    [] reason = 6 -> "downtime_end"
    [] reason = 7 -> "downtime_removed"
    [] reason = 8 -> "custom"
    [] OTHER -> None

\* convertNotificationRows.  previous is the cache of previous hard states.
NotificationStages(row, ids, previous) ==
  LET Type(i) == NotificationType(row[i].reason, row[i].lastHard)
      set == {i \in ids : row[i].timed /\ i \in DOMAIN previous /\ Type(i) # None}
  IN  << Insert({Entry("notification_history", i,
                   [type |-> Type(i), hard |-> row[i].lastHard, previous |-> previous[i]]) :
                   i \in set}),
         Insert(UNION {{Entry("user_notification_history", <<i, u>>,
                          [ref |-> <<"notification_history", i>>]) : u \in row[i].users} :
                         i \in set}),
         Insert({Event("notification", "notification_history", i, i) : i \in set}) >>

\* convertStateRows.  States out of range are capped, the cached one is not.
StateStages(row, ids, previous) ==
  LET set == ids \cap DOMAIN previous
      Bound(i) == IF row[i].object \in Host THEN 1 ELSE 3
      Capped(i, state) == IF state > Bound(i) /\ state # Pending THEN Bound(i) ELSE state
      HardState(i) == Capped(i, IF row[i].hard THEN row[i].state ELSE row[i].lastHard)
      Columns(i) == [hard |-> HardState(i), previous |-> previous[i]]
  IN  << Insert({Entry("state_history", i, Columns(i)) : i \in set}),
         Insert({Event("state_change", "state_history", i, i) : i \in set}),
         Insert({Entry("sla_history_state", i, Columns(i)) : i \in {j \in set : row[j].hard}}) >>

\* convertRows of a type.
Stages(type, row, ids, cache) ==
  CASE type = "ack & comment" -> CommentStages(row, ids)
    [] type = "downtime"      -> DowntimeStages(row, ids)
    [] type = "flapping"      -> FlappingStages(row, ids, cache)
    [] type = "notification"  -> NotificationStages(row, ids, cache)
    [] type = "state"         -> StateStages(row, ids, cache)

-------------------------------------------------------------------------------
(* What a stage does to the database, a function from places to columns.        *)

With(f, x, y) == [z \in DOMAIN f \cup {x} |-> IF z = x THEN y ELSE f[z]]

\* INSERT IGNORE
Inserted(db, e) == IF e.at \in DOMAIN db THEN db ELSE With(db, e.at, e.columns)

\* The columns of FlappingHistoryUpserter, or the whole row.
\* Mutant: a row that exists is replaced.
Upserted_WholeRow(db, e) == With(db, e.at, e.columns)

Upserted(db, e) ==
  IF e.at \in DOMAIN db THEN [db EXCEPT ![e.at].end = e.columns.end] ELSE Inserted(db, e)

Written(db, op, e) == IF op = "insert" THEN Inserted(db, e) ELSE Upserted(db, e)
===============================================================================
