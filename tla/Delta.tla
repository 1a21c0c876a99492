--------------------------------- MODULE Delta ----------------------------------
(* Delta.run: compares the entities of one type in the database (actual) with  *)
(* those in Redis (desired).  Both arrive on channels of their own, in any     *)
(* order and interleaving, so each ID meets its counterpart in either of two   *)
(* maps.  An entity is what entitiesEqual compares: a checksum or its Equal.   *)
EXTENDS Naturals, FiniteSets

CONSTANTS
  Id,    \* primary keys
  Value, \* checksums
  None   \* no entity with this ID

ASSUME DeltaAssumption == None \notin Value

VARIABLES
  comparable,  \* update # nil: the type has checksums or an Equal method
  database,    \* the rows that are sent on actualCh, by ID
  redis,       \* the entities that are sent on desiredCh
  unread,      \* what each channel has still to deliver
  open,        \* whether a channel is still selected on (not nil)
  actual,      \* IDs only read from actualCh so far, with their entity
  desired,     \* IDs only read from desiredCh so far
  update,      \* mismatches
  snapshot,    \* RedisSnapshot
  result       \* "running", "ready" or "cancelled"

input == <<comparable, database, redis>>
vars  == <<input, unread, open, actual, desired, update, snapshot, result>>

Channel == {"actual", "desired"}
Map == [Id -> Value \cup {None}]
Keys(map) == {id \in Id : map[id] # None}
Empty == [id \in Id |-> None]

TypeOK ==
  /\ comparable \in BOOLEAN /\ database \in Map /\ redis \in Map
  /\ unread \in [Channel -> SUBSET Id]
  /\ open \in [Channel -> BOOLEAN]
  /\ actual \in Map /\ desired \in Map /\ update \in Map
  /\ snapshot \subseteq Id
  /\ result \in {"running", "ready", "cancelled"}
  /\ result = "ready" => \A c \in Channel : unread[c] = {}

\* The streams contain no duplicates (NewDelta), so they are maps.
Init ==
  /\ comparable \in BOOLEAN /\ database \in Map /\ redis \in Map
  /\ unread = [c \in Channel |->
                 IF c = "actual" THEN Keys(database) ELSE Keys(redis)]
  /\ open = [c \in Channel |-> TRUE]
  /\ actual = Empty /\ desired = Empty /\ update = Empty
  /\ snapshot = {}
  /\ result = "running"

-------------------------------------------------------------------------------

\* Mutant: the check for update # nil is missing.
Mismatch_Always(a, d) == a # d

\* update != nil && !entitiesEqual(actualValue, desiredValue)
Mismatch(a, d) == comparable /\ a # d

\* Mutant: the desired entity stays in the map after its counterpart was read.
Matched_Kept(map, id) == map

\* delete(desired, id), delete(actual, id)
Matched(map, id) == [map EXCEPT ![id] = None]

\* case actualValue := <-actualCh
ReadActual(id) ==
  /\ result = "running" /\ id \in unread["actual"]
  /\ unread' = [unread EXCEPT !["actual"] = @ \ {id}]
  /\ IF desired[id] # None
       THEN /\ desired' = Matched(desired, id)
            /\ update' = IF Mismatch(database[id], desired[id])
                           THEN [update EXCEPT ![id] = desired[id]] ELSE update
            /\ UNCHANGED actual
       ELSE /\ actual' = [actual EXCEPT ![id] = database[id]]
            /\ UNCHANGED <<desired, update>>
  /\ UNCHANGED <<input, open, snapshot, result>>

\* case desiredValue := <-desiredCh
ReadDesired(id) ==
  /\ result = "running" /\ id \in unread["desired"]
  /\ unread' = [unread EXCEPT !["desired"] = @ \ {id}]
  /\ snapshot' = snapshot \cup {id}
  /\ IF actual[id] # None
       THEN /\ actual' = Matched(actual, id)
            /\ update' = IF Mismatch(actual[id], redis[id])
                           THEN [update EXCEPT ![id] = redis[id]] ELSE update
            /\ UNCHANGED desired
       ELSE /\ desired' = [desired EXCEPT ![id] = redis[id]]
            /\ UNCHANGED <<actual, update>>
  /\ UNCHANGED <<input, open, result>>

\* A channel is closed: its case is disabled.
Exhausted(c) ==
  /\ result = "running" /\ open[c] /\ unread[c] = {}
  /\ open' = [open EXCEPT ![c] = FALSE]
  /\ UNCHANGED <<input, unread, actual, desired, update, snapshot, result>>

\* for actualCh != nil || desiredCh != nil
LoopEnds == \A c \in Channel : ~open[c]

\* Create, Update and Delete are set; closing done releases Wait.
Finish ==
  /\ result = "running" /\ LoopEnds
  /\ result' = "ready"
  /\ UNCHANGED <<input, unread, open, actual, desired, update, snapshot>>

\* <-ctx.Done(): Wait returns the error.
Cancel ==
  /\ result = "running" /\ ~LoopEnds
  /\ result' = "cancelled"
  /\ UNCHANGED <<input, unread, open, actual, desired, update, snapshot>>

Next ==
  \/ \E id \in Id : ReadActual(id) \/ ReadDesired(id)
  \/ \E c \in Channel : Exhausted(c)
  \/ Finish \/ Cancel

Spec == Init /\ [][Next]_vars

-------------------------------------------------------------------------------
(* Properties.                                                                 *)

Create == desired
Update == update
Delete == actual

\* What the rows are after ApplyDelta has executed the delta, if Redis still
\* holds what was compared.
Applied ==
  [id \in Id |-> IF Delete[id] # None THEN None
                 ELSE IF Create[id] # None THEN Create[id]
                 ELSE IF Update[id] # None THEN Update[id]
                 ELSE database[id]]

\* A delta that Wait returns without error turns the database into what Redis
\* holds, whatever the order of arrival was; entities that cannot be compared
\* (update is nil) are only created and deleted.
TurnsActualIntoDesired ==
  result = "ready" =>
    \A id \in Id :
      Applied[id] = IF ~comparable /\ database[id] # None /\ redis[id] # None
                      THEN database[id] ELSE redis[id]

\* It is also minimal: the statements executed concurrently by ApplyDelta touch
\* each row at most once, and no row that is in order.
TouchesOnlyDifferences ==
  result = "ready" =>
    /\ Keys(Create) \cap Keys(Delete) = {}
    /\ Keys(Update) \cap (Keys(Create) \cup Keys(Delete)) = {}
    /\ \A id \in Id :
         id \in Keys(Create) \cup Keys(Update) \cup Keys(Delete)
           => database[id] # redis[id]

\* The snapshot handed to a DeltaHook has every entity of Redis, not only those
\* that differ.
SnapshotComplete == result = "ready" => snapshot = Keys(redis)
===============================================================================
