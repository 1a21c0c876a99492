----------------------------- MODULE HistoryTables ------------------------------
(* The tables behind a history pipeline: the events that begin and end a comment, *)
(* downtime, flapping interval or acknowledgement share one row of the first      *)
(* table, which the second one updates, and have a row each in history, which     *)
(* references it (ON DELETE CASCADE).  Retention deletes old rows of the first    *)
(* table while the pipelines of all nodes write.                                  *)
EXTENDS HistoryPipeline

CONSTANTS
  Object,      \* comments, downtimes, ...
  ObjectOf,    \* the object of each event
  Ending,      \* events that end their object
  Category,    \* pipelines that may be this one
  Options,     \* Retention.options
  HistoryDays, \* Retention.historyDays
  Old,         \* objects whose time, once it is set, is before olderThan
  Limit,       \* Retention.count
  MaxDelete    \* statements of retention in a run that delete rows

SharedRowCategory == {"acknowledgement", "comment", "downtime", "flapping"}

ASSUME TablesAssumption ==
  /\ Stages > 1 /\ ObjectOf \in [Id -> Object] /\ Ending \subseteq Id
  /\ \A m \in Id \ Ending, e \in Ending : ObjectOf[m] = ObjectOf[e] => m < e
  /\ Category \subseteq SharedRowCategory /\ DOMAIN Options \subseteq Category
  /\ \A c \in DOMAIN Options : Options[c] \in Nat
  /\ HistoryDays \in Nat /\ Old \subseteq Object /\ Limit \in Nat \ {0} /\ MaxDelete \in Nat

VARIABLES
  category,  \* of this pipeline
  row,       \* of each object in the first table: "absent", "open" or "ended"
  child,     \* events that have a row in each table that references the first
  cleaning,  \* whether a call of CleanupOlderThan is in its loop
  deletes,   \* statements of it so far that have deleted rows
  due,       \* what that call found and must delete, for properties
  overtaken, \* objects whose end was written before their beginning, for properties
  taken      \* rows of child that a DELETE has taken and no node has written
             \* again, for properties

retention == <<cleaning, deletes>>
ghosts == <<due, overtaken, taken>>
tableVars == <<row, child, retention, ghosts>>
allVars == <<vars, category, tableVars>>

Children == Stage \ {1}

-------------------------------------------------------------------------------
(* Upserts.                                                                     *)

\* The first event inserts the row, each later one overwrites the columns that the
\* Upserter of its type names, whichever event it is.
\* Mutant: no columns are overwritten.
Upserted_Not(r, m) == IF r # "absent" THEN r ELSE IF m \in Ending THEN "ended" ELSE "open"

Upserted(r, m) == IF m \in Ending THEN "ended" ELSE "open"

\* An end that does not come after what is written now has been written before.
Overtaken(n, m) ==
  {o \in {ObjectOf[m]} :
     /\ m \notin Ending
     /\ \E e \in Ending :
          /\ ObjectOf[e] = o /\ e <= published[n]
          /\ ~(e \in redis[n] /\ e > position[n])
          /\ e \notin channel[n] \cup busy[n][1]}

WriteParent(n, m) ==
  /\ Write(n, 1, m)
  /\ row' = [row EXCEPT ![ObjectOf[m]] = Upserted(@, m)]
  /\ due' = due \ {ObjectOf[m]}
  /\ overtaken' = overtaken \cup Overtaken(n, m)
  /\ UNCHANGED <<category, child, retention, taken>>

HasParent(m) == row[ObjectOf[m]] # "absent"

WriteChild(n, k, m) ==
  /\ k > 1 /\ Write(n, k, m) /\ HasParent(m)
  /\ child' = [child EXCEPT ![k] = @ \cup {m}]
  /\ taken' = [taken EXCEPT ![k] = @ \ {m}]
  /\ UNCHANGED <<category, row, retention, due, overtaken>>

\* Mutant: the error is only logged and the event goes on.
Refused_Skipped(n, k, m) ==
  /\ k > 1 /\ m \in busy[n][k] /\ ~HasParent(m)
  /\ busy' = [busy EXCEPT ![n][k] = @ \ {m}]
  /\ ready' = [ready EXCEPT ![n][k] = @ \cup {m}]
  /\ UNCHANGED <<streams, position, channel, counting, deleting, table, crashes,
                 category, tableVars>>

\* The foreign key fails, which is not retried: the stage returns the error and
\* the process ends.
Refused(n, k, m) ==
  /\ k > 1 /\ m \in busy[n][k] /\ ~HasParent(m)
  /\ Reset(n)
  /\ UNCHANGED <<crashes, category, tableVars>>

-------------------------------------------------------------------------------
(* Retention.                                                                   *)

\* Start: without days, nothing is deleted.
Days == IF category \in DOMAIN Options THEN Options[category] ELSE HistoryDays

\* Not NULL: the end_time of a downtime is known in advance.
HasTime(r) == r = "ended" \/ (r = "open" /\ category = "downtime")

Matching == {o \in Old : HasTime(row[o])}

\* A tick.
StartCleanup ==
  /\ Days >= 1 /\ ~cleaning /\ cleaning' = TRUE
  /\ due' = Matching
  /\ UNCHANGED <<vars, category, row, child, deletes, overtaken, taken>>

\* Mutant: a full batch is taken for the last one.
Exhausted_Full(deleted) == deleted <= Limit

Exhausted(deleted) == deleted < Limit

\* The rows of a table that reference those of the objects in set.
RowsOf(k, set) == {m \in child[k] : ObjectOf[m] \in set}

\* One DELETE ... LIMIT of the loop.
DeleteRows ==
  /\ cleaning
  /\ \E set \in SUBSET Matching :
       /\ Cardinality(set) = Limit
            \/ (Cardinality(set) < Limit /\ set = Matching)
       /\ row' = [o \in Object |-> IF o \in set THEN "absent" ELSE row[o]]
       /\ child' = [k \in Children |-> child[k] \ RowsOf(k, set)]
       /\ taken' = [k \in Children |-> taken[k] \cup RowsOf(k, set)]
       /\ due' = due \ set
       /\ cleaning' = ~Exhausted(Cardinality(set))
       /\ deletes' = deletes + (IF set = {} THEN 0 ELSE 1)
  /\ deletes' <= MaxDelete
  /\ UNCHANGED <<vars, category, overtaken>>

\* Handover: the context of the term is done.
CancelCleanup ==
  /\ cleaning /\ cleaning' = FALSE /\ due' = {}
  /\ UNCHANGED <<vars, category, row, child, deletes, overtaken, taken>>

Retention == StartCleanup \/ DeleteRows \/ CancelCleanup

-------------------------------------------------------------------------------

\* Objects without events are there from before.
TablesInit ==
  /\ Init
  /\ category \in Category
  /\ row = [o \in Object |-> IF \E m \in Id : ObjectOf[m] = o THEN "absent" ELSE "ended"]
  /\ child = [k \in Children |-> {}]
  /\ cleaning = FALSE /\ deletes = 0
  /\ due = {} /\ overtaken = {} /\ taken = [k \in Children |-> {}]

Elsewhere(n) ==
  \/ PassOn(n) \/ Delete(n)
  \/ \E m \in Id : \/ Read(n, m) \/ Take(n, m) \/ Count(n, m)
                   \/ \E k \in Stage : Forward(n, k, m)

TablesWork(n) ==
  \/ Elsewhere(n) /\ UNCHANGED <<category, tableVars>>
  \/ \E m \in Id : \/ WriteParent(n, m)
                   \/ \E k \in Children : WriteChild(n, k, m) \/ Refused(n, k, m)

TablesNext ==
  \/ \E n \in Node :
       \/ (Publish(n) \/ Restart(n)) /\ UNCHANGED <<category, tableVars>>
       \/ TablesWork(n)
  \/ Retention

TablesSpec ==
  /\ TablesInit /\ [][TablesNext]_allVars
  /\ \A n \in Node : WF_allVars(TablesWork(n))

-------------------------------------------------------------------------------
(* Properties.                                                                  *)

\* The state is well-formed and the foreign keys hold.
TablesTypeOK ==
  /\ category \in Category
  /\ row \in [Object -> {"absent", "open", "ended"}]
  /\ child \in [Children -> SUBSET Id]
  /\ \A k \in Children : \A m \in child[k] : row[ObjectOf[m]] # "absent"
  /\ cleaning \in BOOLEAN /\ deletes \in 0..MaxDelete
  /\ due \subseteq Old /\ overtaken \subseteq Object /\ taken \in [Children -> SUBSET Id]

\* When all nodes have written the end of an object, its row shows it as ended,
\* whatever crashes, repetitions and delays of either node there were, unless a
\* node has written the end before the beginning: only that order is not repaired
\* by the upserts of v1/history.
EndedUnlessOvertaken ==
  \A e \in Ending :
    LET o == ObjectOf[e]
        events == {m \in Id : ObjectOf[m] = o}
    IN  /\ \A n \in Node : e <= published[n] /\ events \cap redis[n] = {}
        /\ row[o] = "open"
        => o \in overtaken

\* When CleanupOlderThan returns, it has deleted every row that was old when it
\* began, unless that has been written again in the meantime: batches of count
\* rows leave no rest.
CleanupComplete == ~cleaning => due = {}

\* A written event has its row in every table, unless a DELETE has taken that: an
\* event whose first row is deleted before the others are written is refused, and
\* then done again instead of being lost, however old its object is.
OnlyDeletedRowsMissing ==
  \A n \in Node, m \in Id, k \in Children :
    m <= published[n] /\ m \notin redis[n] =>
      \/ row[ObjectOf[m]] # "absent" /\ m \in child[k]
      \/ m \in taken[k]
===============================================================================
