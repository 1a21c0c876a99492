-------------------------------- MODULE Overdue ---------------------------------
(* The overdue sync for one type of objects (overdue.Sync): the sorted set     *)
(* icinga:nextupdate of Icinga 2, the set icingadb:overdue in which this code  *)
(* notes what it has flagged, and the column is_overdue of the state table,    *)
(* whose rows are inserted by the state sync and the runtime updates that run  *)
(* at the same time.                                                           *)
EXTENDS Naturals, FiniteSets

CONSTANTS
  Object,     \* hosts or services
  Existing,   \* those with a row in the state table from the start
  MaxRestart  \* takeovers of responsibility in a run, after the first one

ASSUME OverdueAssumption ==
  /\ Existing \subseteq Object
  /\ MaxRestart \in Nat

VARIABLES
  late,     \* objects whose next update lies in the past
  noted,    \* icingadb:overdue
  column,   \* is_overdue, or "none" without a row
  pc,       \* "select", "init", "tick" or "update"
  selected, \* initSync: rows it has selected
  ids,      \* what the script has returned: to flag and to clear
  todo,     \* those of them whose UPDATE has not been executed
  step,     \* updateOverdue of either: "db", "redis" or "done"
  restarts  \* takeovers so far

loop == <<pc, selected, ids, todo, step>>
overdueVars == <<late, noted, column, pc, selected, ids, todo, step, restarts>>

Kind == {"flag", "clear"}

OverdueTypeOK ==
  /\ late \subseteq Object /\ noted \subseteq Object
  /\ column \in [Object -> {"none", "y", "n"}]
  /\ pc \in {"select", "init", "tick", "update"}
  /\ selected \subseteq Object
  /\ ids \in [Kind -> SUBSET Object] /\ todo \in [Kind -> SUBSET Object]
  /\ step \in [Kind -> {"db", "redis", "done"}]
  /\ ids["flag"] \cap ids["clear"] = {}
  /\ restarts \in 0..MaxRestart

\* The set can hold anything: this Redis may have been written by an earlier
\* term of responsibility.
OverdueInit ==
  /\ late \in SUBSET Object /\ noted \in SUBSET Object
  /\ column \in {c \in [Object -> {"none", "y", "n"}] :
                   \A o \in Object : c[o] # "none" <=> o \in Existing}
  /\ pc = "select" /\ selected = {}
  /\ ids = [k \in Kind |-> {}] /\ todo = ids
  /\ step = [k \in Kind |-> "done"]
  /\ restarts = 0

Flagged == {o \in Object : column[o] = "y"}

-------------------------------------------------------------------------------
(* Around the overdue sync.                                                    *)

\* An object is not updated in time, or is updated again.
BecomeLate(o) ==
  /\ o \notin late
  /\ late' = late \cup {o}
  /\ UNCHANGED <<noted, column, loop, restarts>>

Check(o) ==
  /\ o \in late
  /\ late' = late \ {o}
  /\ UNCHANGED <<noted, column, loop, restarts>>

\* The state sync or a runtime update inserts a row, with the default "n".
InsertRow(o) ==
  /\ column[o] = "none"
  /\ column' = [column EXCEPT ![o] = "n"]
  /\ UNCHANGED <<late, noted, loop, restarts>>

\* The process loses responsibility wherever it is, or dies.  A new Sync starts
\* there or on the other node, whose Redis may hold anything as well.
Restart ==
  /\ restarts < MaxRestart
  /\ restarts' = restarts + 1
  /\ noted' \in SUBSET Object
  /\ pc' = "select" /\ selected' = {}
  /\ ids' = [k \in Kind |-> {}] /\ todo' = ids'
  /\ step' = [k \in Kind |-> "done"]
  /\ UNCHANGED <<late, column>>

-------------------------------------------------------------------------------
(* initSync.                                                                   *)

\* SELECT id ... WHERE is_overdue = 'y'
SelectFlagged ==
  /\ pc = "select"
  /\ selected' = Flagged
  /\ pc' = "init"
  /\ UNCHANGED <<late, noted, column, ids, todo, step, restarts>>

\* Mutants: the set is not deleted first; the rest after the last full hundred
\* is not added.
Refreshed_NotDeleted == noted \cup selected
Refreshed_HundredsOnly == {}

Refreshed == selected

\* A pipeline of DEL and SADD.
RefreshNoted ==
  /\ pc = "init"
  /\ noted' = Refreshed
  /\ pc' = "tick" /\ selected' = {}
  /\ UNCHANGED <<late, column, ids, todo, step, restarts>>

-------------------------------------------------------------------------------
(* sync.                                                                       *)

\* get_overdues.lua, one atomic script.
Differences ==
  [k \in Kind |-> IF k = "flag" THEN late \ noted ELSE noted \ late]

\* Every two seconds; what is empty needs no update.
Tick ==
  /\ pc = "tick"
  /\ ids' = Differences /\ todo' = Differences
  /\ step' = [k \in Kind |-> IF Differences[k] = {} THEN "done" ELSE "db"]
  /\ pc' = "update"
  /\ UNCHANGED <<late, noted, column, selected, restarts>>

\* updateDb for one object: the UPDATE matches no row where there is none.
Updated(k, o) ==
  IF column[o] = "none" THEN "none" ELSE IF k = "flag" THEN "y" ELSE "n"

\* UpdateStreamed executes a bulk; the two goroutines of a tick are concurrent.
UpdateDb(k, S) ==
  /\ pc = "update" /\ step[k] = "db" /\ S # {} /\ S \subseteq todo[k]
  /\ column' = [o \in Object |-> IF o \in S THEN Updated(k, o) ELSE column[o]]
  /\ todo' = [todo EXCEPT ![k] = @ \ S]
  /\ step' = [step EXCEPT ![k] = IF S = todo[k] THEN "redis" ELSE "db"]
  /\ UNCHANGED <<late, noted, pc, selected, ids, restarts>>

\* Mutant: a SADD for the objects that were cleared as well.
NotedAfter_Added(k) == noted \cup ids[k]

NotedAfter(k) == IF k = "flag" THEN noted \cup ids[k] ELSE noted \ ids[k]

\* SADD or SREM, only after all UPDATEs of the kind.
UpdateNoted(k) ==
  /\ pc = "update" /\ step[k] = "redis"
  /\ noted' = NotedAfter(k)
  /\ step' = [step EXCEPT ![k] = "done"]
  /\ UNCHANGED <<late, column, pc, selected, ids, todo, restarts>>

\* Both are done; the ticker is reset.
EndTick ==
  /\ pc = "update" /\ \A k \in Kind : step[k] = "done"
  /\ ids' = [k \in Kind |-> {}]
  /\ pc' = "tick"
  /\ UNCHANGED <<late, noted, column, selected, todo, step, restarts>>

Sync ==
  \/ SelectFlagged \/ RefreshNoted \/ Tick \/ EndTick
  \/ \E k \in Kind : \/ UpdateNoted(k)
                      \/ \E S \in SUBSET Object : UpdateDb(k, S)

OverdueNext ==
  \/ Sync \/ Restart
  \/ \E o \in Object : BecomeLate(o) \/ Check(o) \/ InsertRow(o)

OverdueSpec == OverdueInit /\ [][OverdueNext]_overdueVars

\* Redis and the database answer, the ticker ticks.
OverdueFairSpec == OverdueSpec /\ WF_overdueVars(Sync)

-------------------------------------------------------------------------------
(* Properties.                                                                 *)

\* What is about to change between the database and the set.
Between == ids["flag"] \cup ids["clear"]

\* Once initSync is through, every flag in the database is known to the set
\* unless it is just being set or cleared: only a known one is ever cleared.
FlaggedIsNoted ==
  pc \in {"tick", "update"} => Flagged \ Between \subseteq noted

\* Of the objects with a row from the start, the set knows nothing else either:
\* what it knows is never flagged again.
NotedMirrorsColumn ==
  pc \in {"tick", "update"} =>
    \A o \in Existing \ Between : o \in noted <=> column[o] = "y"

SettlesColumn(o) ==
  /\ [](o \in late /\ column[o] # "none") ~> column[o] = "y"
  /\ [](o \notin late /\ column[o] # "none") ~> column[o] = "n"

\* An object with a row from the start that stays late is flagged, one that
\* stays in time is cleared, whatever the set held at the takeover, wherever the
\* last term stopped and whatever rows are inserted meanwhile.
ExistingFlagged == \A o \in Existing : SettlesColumn(o)

\* The same for every object (doc/05-Distributed-Setups.md:41: "Flagging hosts
\* and services that are overdue for updates").
OverdueFlagged == \A o \in Object : SettlesColumn(o)
===============================================================================
