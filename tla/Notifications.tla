----------------------------- MODULE Notifications ------------------------------
(* Client.ApplyDelta of pkg/notifications, the hook that the initial sync of a   *)
(* state type runs with its delta: it compares the incidents of the environment  *)
(* with the states in Redis, submits those that differ and closes the incidents  *)
(* of objects that are gone.  The map of incidents is shared by the workers of   *)
(* all state types, and with a term of responsibility that has not ended yet.    *)
EXTENDS Delta

CONSTANTS
  OtherId,   \* objects of the other state type
  State,     \* states that Redis may hold
  IsService, \* the type of this worker
  Nil        \* a nil map, or no entity in Redis

Hard == {0, 1, 2, 3, 99}  \* 99: PENDING

Incident == [severity : {"ok", "warning", "crit", "err"}, muted : BOOLEAN]

ASSUME NotificationsAssumption ==
  /\ Id \cap OtherId = {} /\ IsService \in BOOLEAN
  /\ State \subseteq [hard : Hard, previous : Hard, soft : BOOLEAN, volatile : BOOLEAN,
                      muted : BOOLEAN]
  /\ None \notin Incident \cup State
  /\ Nil \notin {None} \cup State
  /\ \A set \in SUBSET (Id \cup OtherId) : Nil \notin [set -> Incident]

VARIABLES
  incident,   \* the open incident of each object, or None
  cache,      \* incidentsByObjId
  hook,       \* ApplyDelta: "idle", "fetched", "running", "returned", "failed" or "ended"
  todo,       \* entities it has not got from Redis yet
  closing,    \* whether the obsolete incidents still have to be closed
  seen,       \* the state of each object that was looked up, Nil if it was gone,
              \* or None, for properties
  undisturbed \* the API worked and the cache was kept, for properties

hookVars == <<incident, cache, hook, todo, closing, seen, undisturbed>>
allVars == <<vars, hookVars>>

Object == Id \cup OtherId

\* len(client.incidentsByObjId) == 0
CacheEmpty == cache \in {Nil, << >>}

Cached(id) == cache # Nil /\ id \in DOMAIN cache

-------------------------------------------------------------------------------
(* Submit.                                                                      *)

\* Without a severity, the state is unexpected, like PENDING.
StateToSeverity(s) ==
  CASE s.hard = 0               -> "ok"
    [] s.hard = 1 /\ IsService  -> "warning"
    [] s.hard = 1 /\ ~IsService -> "crit"
    [] s.hard = 2 /\ IsService  -> "crit"
    [] s.hard = 3 /\ IsService  -> "err"
    [] OTHER                    -> None

\* Mutant: muted or not is not compared.
HaveSameState_Severity(i, s) == i.severity = StateToSeverity(s)

HaveSameState(i, s) == i.severity = StateToSeverity(s) /\ i.muted = s.muted

CanIgnore(s) == s.hard = 99 \/ (s.hard = 0 /\ s.previous = 99)

\* buildStateEvent returns an event.
IsEvent(s) == ~CanIgnore(s) /\ (~s.soft \/ s.volatile) /\ StateToSeverity(s) # None

Closes(s) == StateToSeverity(s) = "ok" /\ ~s.muted

\* What Icinga Notifications makes of an event: the incident is closed or has,
\* perhaps newly opened, the severity of the event.
Processed(s) ==
  IF Closes(s) THEN None ELSE [severity |-> StateToSeverity(s), muted |-> s.muted]

\* The event may fail to arrive within the timeout of three seconds.
Submit(id, s) ==
  IF ~IsEvent(s) THEN UNCHANGED <<incident, undisturbed>>
  ELSE \/ incident' = [incident EXCEPT ![id] = Processed(s)] /\ UNCHANGED undisturbed
       \/ undisturbed' = FALSE /\ UNCHANGED incident

-------------------------------------------------------------------------------
(* ApplyDelta.                                                                  *)

\* retrieveEnvironmentIncidents: an error may occur after some of them.
Retrieved(set) == [id \in {o \in set : incident[o] # None} |-> incident[id]]

DeltaKnown == result = "ready"

\* With the mutex locked, unless another worker has done it already.
Fetch ==
  /\ DeltaKnown /\ hook = "idle"
  /\ IF cache # Nil THEN UNCHANGED <<cache, undisturbed>>
     ELSE \E set \in SUBSET Object :
            /\ cache' = Retrieved(set)
            /\ undisturbed' = (undisturbed /\ set = Object)
  /\ hook' = "fetched"
  /\ UNCHANGED <<vars, incident, todo, closing, seen>>

\* No incident of either type is open, or none was retrieved.
NoIncidents ==
  /\ hook = "fetched" /\ CacheEmpty
  /\ hook' = "returned"
  /\ UNCHANGED <<vars, incident, cache, todo, closing, seen, undisturbed>>

Start ==
  /\ hook = "fetched" /\ ~CacheEmpty
  /\ hook' = "running" /\ todo' = snapshot /\ closing' = TRUE
  /\ UNCHANGED <<vars, incident, cache, seen, undisturbed>>

\* An entity, as it is in Redis now.
Handle(id, s) ==
  /\ hook = "running" /\ id \in todo
  /\ todo' = todo \ {id}
  /\ seen' = [seen EXCEPT ![id] = s]
  /\ IF Cached(id) /\ StateToSeverity(s) = None
     THEN hook' = "failed" /\ UNCHANGED <<incident, undisturbed>>
     ELSE /\ IF Cached(id) /\ HaveSameState(cache[id], s)
             THEN UNCHANGED <<incident, undisturbed>>
             ELSE Submit(id, s)
          /\ UNCHANGED hook
  /\ UNCHANGED <<vars, cache, closing>>

\* It has been deleted since the delta was calculated.
Vanish(id) ==
  /\ hook = "running" /\ id \in todo
  /\ todo' = todo \ {id}
  /\ seen' = [seen EXCEPT ![id] = Nil]
  /\ UNCHANGED <<vars, incident, cache, hook, closing, undisturbed>>

\* Mutant: all incidents that are not in this snapshot are closed.
Obsolete_OfAnyType(id) == id \notin snapshot

Obsolete(id) == id \in Id /\ (Delete[id] # None \/ id \notin snapshot)

CloseObsolete ==
  /\ hook = "running" /\ closing /\ closing' = FALSE
  /\ LET obsolete == {id \in Object : Cached(id) /\ Obsolete(id)}
     IN  \/ /\ incident' = [id \in Object |-> IF id \in obsolete THEN None ELSE incident[id]]
            /\ UNCHANGED undisturbed
         \/ /\ obsolete # {} /\ undisturbed' = FALSE
            /\ UNCHANGED incident
  /\ UNCHANGED <<vars, cache, hook, todo, seen>>

Return ==
  /\ hook = "running" /\ todo = {} /\ ~closing
  /\ hook' = "returned"
  /\ UNCHANGED <<vars, incident, cache, todo, closing, seen, undisturbed>>

\* The context is done.
Abort ==
  /\ hook \in {"fetched", "running"} /\ hook' = "failed"
  /\ UNCHANGED <<vars, incident, cache, todo, closing, seen, undisturbed>>

-------------------------------------------------------------------------------
(* The other users of the cache.                                                *)

\* ApplyDelta of the other state type was first, or the cache has been cleared.
OtherFetches ==
  /\ hook # "ended" /\ cache = Nil
  /\ \E set \in SUBSET Object :
       /\ cache' = Retrieved(set)
       /\ undisturbed' = (undisturbed /\ set = Object)
  /\ UNCHANGED <<vars, incident, hook, todo, closing, seen>>

\* The last worker of an older term, which nothing has waited for, returns.
OldTermClears ==
  /\ hook # "ended" /\ cache # Nil
  /\ cache' = Nil /\ undisturbed' = FALSE
  /\ UNCHANGED <<vars, incident, hook, todo, closing, seen>>

\* The last worker of this term returns.
ClearIncidents ==
  /\ hook \in {"returned", "failed"}
  /\ cache' = Nil /\ hook' = "ended"
  /\ UNCHANGED <<vars, incident, todo, closing, seen, undisturbed>>

HookInit ==
  /\ Init
  /\ incident \in [Object -> {None} \cup [severity : {"crit", "ok"}, muted : BOOLEAN]]
  /\ \A id \in Object : incident[id] # None /\ incident[id].severity = "ok" => incident[id].muted
  /\ cache = Nil /\ hook = "idle"
  /\ todo = {} /\ closing = FALSE /\ seen = [id \in Id |-> None]
  /\ undisturbed = TRUE

ApplyDelta ==
  \/ Fetch \/ NoIncidents \/ Start
  \/ \E id \in Id : (\E s \in State : Handle(id, s)) \/ Vanish(id)
  \/ CloseObsolete \/ Return \/ Abort

HookNext ==
  \/ Next /\ UNCHANGED hookVars
  \/ ApplyDelta
  \/ OtherFetches \/ OldTermClears \/ ClearIncidents

HookSpec == HookInit /\ [][HookNext]_allVars

-------------------------------------------------------------------------------
(* Properties.                                                                  *)

HookTypeOK ==
  /\ incident \in [Object -> {None} \cup Incident]
  /\ cache # Nil => DOMAIN cache \subseteq Object /\ \A id \in DOMAIN cache : cache[id] \in Incident
  /\ hook \in {"idle", "fetched", "running", "returned", "failed", "ended"}
  /\ hook # "idle" => result = "ready"
  /\ todo \subseteq snapshot /\ closing \in BOOLEAN /\ undisturbed \in BOOLEAN
  /\ seen \in [Id -> {None, Nil} \cup State]

\* An incident is closed only if its object is not in Redis, as the delta has
\* found, or OK and not muted: never one of the other type, also if the cache is
\* stale, partial or cleared in the middle (ApplyDelta's comments on isInRedis).
ClosesOnlyObsolete ==
  [][\A id \in Object :
       incident[id] # None /\ incident'[id] = None =>
         /\ id \in Id
         /\ redis[id] = None
              \/ (seen'[id] \in State /\ seen'[id].hard = 0 /\ ~seen'[id].muted)]_allVars

\* When the hook returns without an error, no request to the API has failed and no
\* older term has cleared the cache, the incidents are in line with Redis: those of
\* objects that are gone are closed, and if there was any incident at all, every
\* object that the delta has found in Redis was looked up, and its incident has the
\* severity and is muted like its state, except for states that are no events.
\* Without any incident, of this type or the other, no state is looked at.
IncidentsFollowStates ==
  hook = "returned" /\ undisturbed =>
    \A id \in Id :
      /\ id \notin snapshot => incident[id] = None
      /\ id \in snapshot /\ ~CacheEmpty => seen[id] # None
      /\ seen[id] \in State /\ IsEvent(seen[id]) =>
           IF seen[id].hard = 0 /\ ~seen[id].muted THEN incident[id] = None
           ELSE /\ incident[id] # None
                /\ incident[id].severity = StateToSeverity(seen[id])
                /\ incident[id].muted = seen[id].muted

\* What the comment of ApplyDelta says: if there are any changes, the new or updated
\* events are submitted.  At least, the hook has to look at the states of objects
\* that are new or have changed.
ChangesSubmitted ==
  hook = "returned" /\ undisturbed =>
    \A id \in Id : Create[id] # None \/ Update[id] # None => seen[id] # None
===============================================================================
