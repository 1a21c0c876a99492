------------------------------ MODULE IdoMigration ------------------------------
(* icingadb-migrate for one type of history: the cache file, the start times or *)
(* previous hard states in it, the migration in slices and its recorded         *)
(* progress, with runs that are interrupted anywhere and started again while    *)
(* the IDO gets more history.  The types of history have these phases in common *)
(* and share no data.                                                           *)
EXTENDS IdoConvert, FiniteSetsExt, Sequences

CONSTANTS
  Contents,  \* what the IDO may get: a set of sequences of rows, by type
  Bulk,      \* rows per slice
  From,      \* the first ID after the configured begin of the time range
  MaxCrash   \* interruptions

ASSUME MigrationAssumption ==
  /\ DOMAIN Contents = HistoryType
  /\ \A t \in HistoryType : Contents[t] \subseteq Seq(IdoRow(t))
  /\ Bulk \in Nat \ {0} /\ From \in Nat \ {0} /\ MaxCrash \in Nat

VARIABLES
  type,        \* the type of history
  row,         \* the rows the IDO gets, by ID
  shown,       \* the last of them it has got
  file,        \* the cache file
  idb,         \* the tables of Icinga DB
  lastId,      \* ido_migration_progress
  pc,          \* "off", "fill", "read", "write", "cleanup" or "done"
  range,       \* fromId and toId in the snapshot of this run
  cache,       \* the cache in its open transaction
  checkpoint,  \* the last ID that was processed in this phase
  slice,       \* rows that were read and converted
  stage,       \* the stage that is being written
  todo,        \* the rows of it that are not written
  crashes,     \* interruptions so far
  regrown      \* the IDO has got rows since a cache file was begun, only for properties

ido == <<type, row, shown>>
work == <<checkpoint, slice, stage, todo>>
vars == <<ido, file, idb, lastId, pc, range, cache, work, crashes, regrown>>

Endless == Len(row) + 1  \* math.MaxInt64

\* What the tables of a cache file hold: end_start_time or previous_hard_state,
\* last_start_time or next_hard_state by object, and next_ids.
EmptyCache == [final |-> << >>, last |-> << >>, waiting |-> {}]

IsCached == type \in HardStateTypes \cup {"flapping"}

-------------------------------------------------------------------------------
(* The snapshot and the range of IDs.                                           *)

\* The columns of time that limit the range are not NULL.
HasStart(i) ==
  CASE type = "ack & comment" -> row[i].timed
    [] type = "downtime"      -> row[i].timed \/ row[i].started
    [] OTHER                  -> TRUE
HasEnd(i) ==
  CASE type = "ack & comment" -> row[i].deleted \/ row[i].expires
    [] type = "notification"  -> row[i].timed
    [] OTHER                  -> TRUE

\* computeIdRange: comments that neither have ended nor expire do not count
\* for fromId.
IdRange ==
  [from |-> Min({i \in From..shown : HasEnd(i)} \cup {Endless}),
   to   |-> Max({i \in 1..shown : HasStart(i)} \cup {0})]

InRange(i) == i \in range.from..range.to

\* Where the cache has been left: start times are cached in the order of IDs,
\* hard states in the reverse order.
EventTimeCheckpoint(c) == Max(DOMAIN c.final \cup {0})

HardStateCheckpoint(c) ==
  CASE c.waiting # {}                           -> Min({w[2] : w \in c.waiting})
    [] c.waiting = {} /\ DOMAIN c.final = {}    -> Endless
    [] c.waiting = {} /\ DOMAIN c.final # {}    -> 0

\* The state of a process that does not run.
Idle == checkpoint' = 0 /\ slice' = {} /\ stage' = 0 /\ todo' = {}

\* main up to fillCache, when it is run for the first time, after it has been
\* interrupted, or because there are more rows.
Begin ==
  /\ pc = "off" \/ (pc = "done" /\ lastId < shown)
  /\ range' = IdRange
  /\ cache' = file
  /\ pc' = IF IsCached THEN "fill" ELSE "read"
  /\ checkpoint' = CASE ~IsCached              -> lastId
                     [] type = "flapping"      -> EventTimeCheckpoint(file)
                     [] type \in HardStateTypes -> HardStateCheckpoint(file)
  /\ slice' = {} /\ stage' = 0 /\ todo' = {}
  /\ UNCHANGED <<ido, file, idb, lastId, crashes, regrown>>

-------------------------------------------------------------------------------
(* The cache.                                                                   *)

Without(f, x) == [y \in DOMAIN f \ {x} |-> f[y]]

\* f with the value y for all in S.
Setting(f, S, y) == [x \in DOMAIN f \cup S |-> IF x \in S THEN y ELSE f[x]]

\* buildEventTimeCache, for a row: an end gets the last start of its object.
\* Mutant: the start is kept for further ends.
EventTimeStep_KeepStart(c, i) ==
  LET o == row[i].object
  IN  IF row[i].start THEN [c EXCEPT !.last = With(@, o, i)]
      ELSE IF o \in DOMAIN c.last THEN [c EXCEPT !.final = With(@, i, c.last[o])]
      ELSE c

EventTimeStep(c, i) ==
  LET o == row[i].object
  IN  IF row[i].start THEN [c EXCEPT !.last = With(@, o, i)]
      ELSE IF o \in DOMAIN c.last
      THEN [c EXCEPT !.final = With(@, i, c.last[o]), !.last = Without(@, o)]
      ELSE c

\* buildPreviousHardStateCache, for a row: the rows that came later and wait for
\* another hard state of the object than theirs get it, and this one waits.
HardStateStep(c, i) ==
  LET o == row[i].object
      waiting == {w \in c.waiting : w[1] = o}
      done == o \in DOMAIN c.last /\ c.last[o] # row[i].lastHard
  IN  [final   |-> IF done THEN Setting(c.final, {w[2] : w \in waiting}, row[i].lastHard)
                   ELSE c.final,
       last    |-> With(c.last, o, row[i].lastHard),
       waiting |-> (IF done THEN c.waiting \ waiting ELSE c.waiting) \cup {<<o, i>>}]

\* Fill the cache with a row; commitPeriodically may commit after it.
FillCache(i, c) ==
  /\ cache' = c
  /\ file' \in {file, c}
  /\ checkpoint' = i
  /\ UNCHANGED <<ido, idb, lastId, pc, range, slice, stage, todo, crashes, regrown>>

FillEventTimes ==
  /\ pc = "fill" /\ type = "flapping"
  /\ checkpoint < range.to
  /\ LET i == checkpoint + 1 IN FillCache(i, EventTimeStep(cache, i))

FillHardStates ==
  /\ pc = "fill" /\ type \in HardStateTypes
  /\ {i \in 1..range.to : i < checkpoint} # {}
  /\ LET i == Max({j \in 1..range.to : j < checkpoint})
     IN  FillCache(i, HardStateStep(cache, i))

\* After the last row: starts without end are dropped, rows without a different
\* hard state before them came after PENDING.
Completed(c) ==
  [EmptyCache EXCEPT !.final = Setting(c.final, {w[2] : w \in c.waiting}, Pending)]

CompleteCache ==
  /\ pc = "fill"
  /\ IF type = "flapping" THEN checkpoint >= range.to
     ELSE {i \in 1..range.to : i < checkpoint} = {}
  /\ cache' = Completed(cache) /\ file' = cache'
  /\ pc' = "read" /\ checkpoint' = lastId
  /\ UNCHANGED <<ido, idb, lastId, range, slice, stage, todo, crashes, regrown>>

-------------------------------------------------------------------------------
(* migrateOneType.                                                              *)

\* cacheLimitQuery: rows which came after the cache was begun are left for the
\* next time.
Limit == IF type \in HardStateTypes THEN Max(DOMAIN cache.final \cup {0}) ELSE Endless

Left == {i \in 1..Len(row) : InRange(i) /\ i <= Limit /\ i > checkpoint}

StagesOf(ids) == Stages(type, row, ids, cache.final)

\* sliceIdoHistory: the next rows, converted, or none.
ReadSlice ==
  /\ pc = "read" /\ Left # {}
  /\ slice' = {i \in Left : Cardinality({j \in Left : j <= i}) <= Bulk}
  /\ stage' = 1
  /\ todo' = StagesOf(slice')[1].rows
  /\ pc' = "write"
  /\ UNCHANGED <<ido, file, idb, lastId, range, cache, checkpoint, crashes, regrown>>

ReadNothing ==
  /\ pc = "read" /\ Left = {}
  /\ pc' = "cleanup"
  /\ UNCHANGED <<ido, file, idb, lastId, range, cache, work, crashes, regrown>>

\* The rows of a stage are written in bulks, which may be executed in any order.
WriteRow(e) ==
  /\ pc = "write" /\ e \in todo
  /\ idb' = Written(idb, StagesOf(slice)[stage].op, e)
  /\ todo' = todo \ {e}
  /\ UNCHANGED <<ido, file, lastId, pc, range, cache, checkpoint, slice, stage, crashes,
                 regrown>>

\* Mutant: a stage does not wait for the one before.
NextStage_Early ==
  /\ pc = "write"
  /\ stage < Len(StagesOf(slice))
  /\ stage' = stage + 1
  /\ todo' = todo \cup StagesOf(slice)[stage'].rows
  /\ UNCHANGED <<ido, file, idb, lastId, pc, range, cache, checkpoint, slice, crashes,
                 regrown>>

NextStage ==
  /\ pc = "write" /\ todo = {}
  /\ stage < Len(StagesOf(slice))
  /\ stage' = stage + 1
  /\ todo' = StagesOf(slice)[stage'].rows
  /\ UNCHANGED <<ido, file, idb, lastId, pc, range, cache, checkpoint, slice, crashes,
                 regrown>>

SaveProgress ==
  /\ pc = "write" /\ todo = {}
  /\ stage = Len(StagesOf(slice))
  /\ lastId' = Max(slice) /\ checkpoint' = Max(slice)
  /\ slice' = {} /\ stage' = 0 /\ UNCHANGED todo
  /\ pc' = "read"
  /\ UNCHANGED <<ido, file, idb, range, cache, crashes, regrown>>

\* cleanupCache.  Mutant: the file is kept.
CacheAfterwards_Kept == file

CacheAfterwards == EmptyCache

CleanupCache ==
  /\ pc = "cleanup"
  /\ file' = CacheAfterwards /\ cache' = EmptyCache
  /\ pc' = "done" /\ Idle
  /\ UNCHANGED <<ido, idb, lastId, range, crashes, regrown>>

-------------------------------------------------------------------------------
(* Around a run.                                                                *)

\* The process is killed, or exits because a query has failed.
Crash ==
  /\ pc \notin {"off", "done"} /\ crashes < MaxCrash
  /\ crashes' = crashes + 1
  /\ pc' = "off" /\ Idle
  /\ cache' = EmptyCache
  /\ UNCHANGED <<ido, file, idb, lastId, range, regrown>>

\* The IDO gets another row, which the next snapshot will show.
Grow ==
  /\ pc \in {"off", "done"} /\ shown < Len(row)
  /\ shown' = shown + 1
  /\ regrown' = (regrown \/ file # EmptyCache)
  /\ UNCHANGED <<type, row, file, idb, lastId, pc, range, cache, work, crashes>>

Init ==
  /\ type \in HistoryType
  /\ row \in Contents[type]
  /\ shown \in 0..Len(row)
  /\ file = EmptyCache /\ cache = EmptyCache
  /\ idb = << >> /\ lastId = 0
  /\ pc = "off" /\ range = [from |-> Endless, to |-> 0]
  /\ checkpoint = 0 /\ slice = {} /\ stage = 0 /\ todo = {}
  /\ crashes = 0 /\ regrown = FALSE

Migrate ==
  \/ FillEventTimes \/ FillHardStates \/ CompleteCache
  \/ ReadSlice \/ ReadNothing
  \/ \E e \in todo : WriteRow(e)
  \/ NextStage \/ SaveProgress
  \/ CleanupCache

Next == Begin \/ Migrate \/ Crash \/ Grow

Spec == Init /\ [][Next]_vars

\* A process that runs goes on, and the administrator starts it again until all
\* rows are migrated (doc/06-Migration.md, "you can run it again").
FairSpec == Spec /\ WF_vars(Migrate) /\ WF_vars(Begin)

-------------------------------------------------------------------------------
(* Properties.                                                                  *)

\* The state is well-formed, in particular the caches of unstarted runs.
TypeOK ==
  /\ type \in HistoryType /\ row \in Contents[type] /\ shown \in 0..Len(row)
  /\ pc \in {"off", "fill", "read", "write", "cleanup", "done"}
  /\ \A c \in {file, cache} :
       /\ DOMAIN c = {"final", "last", "waiting"}
       /\ DOMAIN c.final \subseteq 1..Len(row) /\ DOMAIN c.last \subseteq Object
       /\ c.waiting \subseteq Object \X (1..Len(row))
  /\ lastId \in 0..shown /\ regrown \in BOOLEAN /\ crashes \in 0..MaxCrash
  /\ range.from \in 1..Endless /\ range.to \in 0..shown
  /\ checkpoint \in 0..Endless /\ stage \in 0..4
  /\ slice \subseteq 1..Len(row) /\ Cardinality(slice) <= Bulk
  /\ pc \in {"off", "done"} => cache = EmptyCache /\ slice = {} /\ todo = {}

\* A row which refers to another one is never there without it, whatever stage
\* a run is interrupted in: the foreign keys of history and of
\* user_notification_history (migrateOneType writes stage by stage).
ParentsFirst ==
  \A at \in DOMAIN idb :
    "ref" \in DOMAIN idb[at] => idb[at].ref \in DOMAIN idb

\* The rows of the object of i before i.
Earlier(i) == {j \in 1..(i - 1) : row[j].object = row[i].object}

PreviousHard(i) ==
  LET j == Max({k \in Earlier(i) : row[k].lastHard # row[i].lastHard} \cup {0})
  IN  IF j = 0 THEN Pending ELSE row[j].lastHard

\* The start which the end i ends: nothing of the object is between them.
StartOf(i) ==
  LET j == Max(Earlier(i) \cup {0}) IN IF j > 0 /\ row[j].start THEN j ELSE 0

\* An end that no start of its object directly precedes.
Orphans == {i \in 1..Len(row) : ~row[i].start /\ StartOf(i) = 0}

\* Runs of buildEventTimeCache that continue another one can be trusted only if
\* each end has a start and the IDO has not got more rows since the first one.
CacheTrusted ==
  type = "flapping" => crashes = 0 \/ (Orphans = {} /\ ~regrown)

\* What the caches of all rows had to be.
ExactCache ==
  CASE type = "flapping" ->
         [i \in {j \in 1..Len(row) : ~row[j].start /\ StartOf(j) # 0} |-> StartOf(i)]
    [] type \in HardStateTypes -> [i \in 1..Len(row) |-> PreviousHard(i)]
    [] OTHER -> << >>

\* Progress is never ahead of the tables: all that becomes of the rows up to
\* last_ido_id is there, converted with the exact previous states and starts,
\* whenever runs were interrupted and however many rows came between them.
NothingSkipped ==
  CacheTrusted =>
    \A i \in range.from..lastId :
      LET stages == Stages(type, row, {i}, ExactCache)
      IN  \A n \in DOMAIN stages : \A e \in stages[n].rows :
            /\ e.at \in DOMAIN idb
            /\ e.at[1] # "flapping_history" => idb[e.at] = e.columns
            /\ e.at[1] = "flapping_history" =>
                 /\ idb[e.at].started <=> e.at[2][2] >= range.from
                 /\ row[i].start \/ idb[e.at].end = i

\* The history of a downtime or a comment, its own row and its SLA row agree on
\* whether and when it ended: the end event of a migrated row is there if and
\* only if the IDO has its end, with the time the other tables have.
EndsAgree ==
  \A i \in range.from..lastId :
    /\ <<"downtime_history", i>> \in DOMAIN idb =>
         LET columns == idb[<<"downtime_history", i>>]
             end == <<"history", <<"downtime_end", i>> >>
             final == IF columns.cancel # None THEN columns.cancel ELSE columns.end
         IN  /\ end \in DOMAIN idb <=> row[i].ended
             /\ end \in DOMAIN idb => idb[end].time = final
             /\ idb[<<"sla_history_downtime", i>>].end = final
             /\ row[i].ended => final = "actual"
    /\ \A p \in { <<"comment_history", "comment_remove">>,
                  <<"acknowledgement_history", "ack_clear">> } :
         <<p[1], i>> \in DOMAIN idb =>
           (idb[<<p[1], i>>].end # None <=> <<"history", <<p[2], i>> >> \in DOMAIN idb)

\* A row in Icinga DB is never changed or lost by a later bulk or a later run,
\* except that a flapping interval gets its end.
RewritesNothing ==
  [][CacheTrusted => \A at \in DOMAIN idb :
       /\ at \in DOMAIN idb'
       /\ \/ idb'[at] = idb[at]
          \/ /\ at[1] = "flapping_history"
             /\ idb[at].started => idb[at].end = Open
             /\ idb'[at] = [idb[at] EXCEPT !.end = idb'[at].end]]_vars

\* However it is interrupted, the migration arrives at the last row of what it
\* is asked for, also of the rows the IDO has got since its cache was begun.
AllMigrated ==
  []<>(pc = "done" /\ \A i \in IdRange.from..IdRange.to : HasEnd(i) => i <= lastId)
===============================================================================
