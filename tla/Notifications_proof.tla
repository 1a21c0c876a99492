-------------------------- MODULE Notifications_proof ---------------------------
(* The delta is correct for any entities and any order of arrival.  The hook     *)
(* closes no incident of an object that Redis has, and leaves all that it can in *)
(* line with Redis, for any objects, states and incidents.                       *)
EXTENDS Notifications, TLAPS

\* IDs a channel has delivered.
ReadA(id) == id \in Keys(database) \ unread["actual"]
ReadD(id) == id \in Keys(redis) \ unread["desired"]

\* Which map an ID is in only depends on which channels have delivered it.
Sorted(id) ==
  /\ actual[id] = IF ReadA(id) /\ ~ReadD(id) THEN database[id] ELSE None
  /\ desired[id] = IF ReadD(id) /\ ~ReadA(id) THEN redis[id] ELSE None
  /\ update[id] = IF /\ ReadA(id) /\ ReadD(id)
                     /\ comparable /\ database[id] # redis[id]
                    THEN redis[id] ELSE None

IInv ==
  /\ TypeOK
  /\ unread["actual"] \subseteq Keys(database)
  /\ unread["desired"] \subseteq Keys(redis)
  /\ \A id \in Id : Sorted(id)
  /\ snapshot = Keys(redis) \ unread["desired"]
  /\ \A c \in Channel : ~open[c] => unread[c] = {}
  /\ result = "ready" => \A c \in Channel : ~open[c]

\* Both channels are channels.
LEMMA Channels == "actual" \in Channel /\ "desired" \in Channel
  BY DEF Channel

\* An entity from the database is sorted correctly whether or not its
\* counterpart was there before it.
LEMMA ReadActualStep ==
  ASSUME IInv, NEW id \in Id, ReadActual(id)
  PROVE  IInv'
<1> USE DeltaAssumption DEF Map, input
<1>1. TypeOK'
  BY DEF IInv, TypeOK, ReadActual, Matched, Channel
<1>2. /\ unread'["actual"] = unread["actual"] \ {id}
      /\ unread'["desired"] = unread["desired"]
      /\ id \in unread["actual"] /\ database[id] # None
  BY DEF IInv, TypeOK, ReadActual, Channel, Keys
<1>3. ASSUME NEW j \in Id PROVE Sorted(j)'
  <2>1. Sorted(j) /\ Sorted(id)
    BY DEF IInv
  <2>2. CASE j # id
    BY <1>2, <2>1, <2>2
       DEF IInv, TypeOK, ReadActual, Matched, Sorted, ReadA, ReadD, Keys
  <2>3. CASE j = id
    BY <1>2, <2>1, <2>3
       DEF IInv, TypeOK, ReadActual, Matched, Mismatch, Sorted, ReadA, ReadD, Keys
  <2> QED
    BY <2>2, <2>3
<1>4. \A c \in Channel : ~open'[c] => unread'[c] = {}
  BY <1>2 DEF IInv, TypeOK, ReadActual, Channel
<1> QED
  BY <1>1, <1>2, <1>3, <1>4 DEF IInv, ReadActual, Keys

\* The same for an entity from Redis, which is also noted in the snapshot.
LEMMA ReadDesiredStep ==
  ASSUME IInv, NEW id \in Id, ReadDesired(id)
  PROVE  IInv'
<1> USE DeltaAssumption DEF Map, input
<1>1. TypeOK'
  BY DEF IInv, TypeOK, ReadDesired, Matched, Channel
<1>2. /\ unread'["desired"] = unread["desired"] \ {id}
      /\ unread'["actual"] = unread["actual"]
      /\ id \in unread["desired"] /\ redis[id] # None /\ id \in Keys(redis)
  BY DEF IInv, TypeOK, ReadDesired, Channel, Keys
<1>3. ASSUME NEW j \in Id PROVE Sorted(j)'
  <2>1. Sorted(j) /\ Sorted(id)
    BY DEF IInv
  <2>2. CASE j # id
    BY <1>2, <2>1, <2>2
       DEF IInv, TypeOK, ReadDesired, Matched, Sorted, ReadA, ReadD, Keys
  <2>3. CASE j = id
    BY <1>2, <2>1, <2>3
       DEF IInv, TypeOK, ReadDesired, Matched, Mismatch, Sorted, ReadA, ReadD, Keys
  <2> QED
    BY <2>2, <2>3
<1>4. \A c \in Channel : ~open'[c] => unread'[c] = {}
  BY <1>2 DEF IInv, TypeOK, ReadDesired, Channel
<1>5. snapshot' = Keys(redis') \ unread'["desired"]
  BY <1>2 DEF IInv, ReadDesired, Keys
<1> QED
  BY <1>1, <1>2, <1>3, <1>4, <1>5 DEF IInv, ReadDesired, Keys

\* The end of a channel, of the loop and of the context move no entity.
LEMMA QuietStep ==
  ASSUME IInv,
         \/ \E c \in Channel : Exhausted(c)
         \/ Finish \/ Cancel
         \/ UNCHANGED vars
  PROVE  IInv'
<1>1. /\ UNCHANGED <<input, unread, actual, desired, update, snapshot>>
      /\ TypeOK'
  BY DEF IInv, TypeOK, Exhausted, Finish, LoopEnds, Cancel, vars, input
<1>2. \A j \in Id : Sorted(j)'
  BY <1>1 DEF input, IInv, Sorted, ReadA, ReadD, Keys
<1>3. \A c \in Channel : ~open'[c] => unread'[c] = {}
  BY DEF IInv, TypeOK, Exhausted, Finish, Cancel, vars, input
<1>4. result' = "ready" => \A c \in Channel : ~open'[c]
  BY DEF IInv, TypeOK, Exhausted, Finish, LoopEnds, Cancel, vars, input
<1> QED
  BY <1>1, <1>2, <1>3, <1>4 DEF IInv, Keys, input

\* Where an ID is at each moment is known from what was delivered.
LEMMA InductiveInvariant == Spec => []IInv
<1>1. Init => IInv
  <2> SUFFICES ASSUME Init PROVE IInv
    OBVIOUS
  <2>1. TypeOK
    BY DeltaAssumption DEF Init, TypeOK, Empty, Map, Keys, Channel
  <2>2. unread["actual"] = Keys(database) /\ unread["desired"] = Keys(redis)
    BY Channels DEF Init
  <2>3. \A id \in Id : Sorted(id)
    BY <2>2 DEF Init, Sorted, ReadA, ReadD, Empty
  <2> QED
    BY <2>1, <2>2, <2>3 DEF Init, IInv
<1>2. IInv /\ [Next]_vars => IInv'
  BY ReadActualStep, ReadDesiredStep, QuietStep DEF Next
<1> QED
  BY <1>1, <1>2, PTL DEF Spec

\* Applying the delta makes the database equal to Redis, in every order in
\* which the two channels may deliver their entities.
THEOREM DeltaCorrect == Spec => []TurnsActualIntoDesired
<1>1. IInv => TurnsActualIntoDesired
  BY DeltaAssumption, Channels
     DEF IInv, TurnsActualIntoDesired, Applied, Create, Update, Delete, Sorted,
         ReadA, ReadD, Keys, TypeOK, Map
<1> QED
  BY <1>1, InductiveInvariant, PTL

\* The statements of a delta touch different rows, and only rows that differ.
THEOREM DeltaMinimal == Spec => []TouchesOnlyDifferences
<1>1. IInv => TouchesOnlyDifferences
  BY DeltaAssumption, Channels
     DEF IInv, TouchesOnlyDifferences, Create, Update, Delete, Sorted, ReadA,
         ReadD, Keys, TypeOK, Map
<1> QED
  BY <1>1, InductiveInvariant, PTL

\* The type invariant, with unread channels empty once a delta is ready.
THEOREM TypeCorrect == Spec => []TypeOK
<1>1. IInv => TypeOK
  BY DEF IInv
<1> QED
  BY <1>1, InductiveInvariant, PTL

\* The snapshot of a delta has every entity of Redis, whichever maps it went
\* through.
THEOREM SnapshotCorrect == Spec => []SnapshotComplete
<1>1. IInv => SnapshotComplete
  BY Channels DEF IInv, SnapshotComplete
<1> QED
  BY <1>1, InductiveInvariant, PTL

-------------------------------------------------------------------------------
(* The hook.                                                                    *)

\* What the delta guarantees to a hook that waits for it.
DeltaDone ==
  \A id \in Id :
    /\ id \in snapshot <=> redis[id] # None
    /\ Delete[id] # None => id \notin snapshot

\* An incident remains as it was fetched until its object is handled.
AsFetched(id) ==
  IF incident[id] = None THEN ~Cached(id) ELSE Cached(id) /\ cache[id] = incident[id]

\* An incident is as the state that was handled demands.
Follows(id) ==
  seen[id] \in State /\ IsEvent(seen[id]) =>
    IF seen[id].hard = 0 /\ ~seen[id].muted THEN incident[id] = None
    ELSE /\ incident[id] # None
         /\ incident[id].severity = StateToSeverity(seen[id])
         /\ incident[id].muted = seen[id].muted

\* How far the hook is with an object.
Progress(id) ==
  /\ hook = "idle" /\ cache # Nil => AsFetched(id) /\ seen[id] = None
  /\ hook = "idle" => seen[id] = None
  /\ hook = "fetched" => AsFetched(id) /\ seen[id] = None
  /\ hook = "running" =>
       /\ id \notin snapshot => IF closing THEN AsFetched(id) ELSE incident[id] = None
       /\ id \notin snapshot => seen[id] = None
       /\ id \in todo => AsFetched(id) /\ seen[id] = None
       /\ id \in snapshot \ todo => Follows(id) /\ seen[id] # None
  /\ hook = "returned" =>
       /\ id \notin snapshot => incident[id] = None /\ seen[id] = None
       /\ id \in snapshot => Follows(id) /\ (CacheEmpty \/ seen[id] # None)

\* The cache that a hook has fetched stays, unless an older term clears it.
Kept == undisturbed /\ hook \in {"fetched", "running", "returned"} => cache # Nil

\* An OK incident is muted, or it would have been closed.
Sound ==
  /\ \A id \in Object : incident[id] # None /\ incident[id].severity = "ok" => incident[id].muted
  /\ \A id \in Object : Cached(id) /\ cache[id].severity = "ok" => cache[id].muted

HookInv ==
  /\ HookTypeOK /\ Sound
  /\ undisturbed => \A id \in Id : Progress(id)

-------------------------------------------------------------------------------
(* The operators of Submit.                                                     *)

\* An event has a severity of Icinga Notifications.
LEMMA Severities ==
  ASSUME NEW s \in State, StateToSeverity(s) # None
  PROVE  /\ StateToSeverity(s) \in {"ok", "warning", "crit", "err"}
         /\ StateToSeverity(s) = "ok" <=> s.hard = 0
         /\ s.muted \in BOOLEAN
<1>1. s.hard \in Hard /\ s.muted \in BOOLEAN
  BY NotificationsAssumption
<1> QED
  BY <1>1, SMT DEF StateToSeverity, Hard

\* An event closes the incident of an object that is OK and not muted; every other
\* one leaves an incident of its severity.
LEMMA Events ==
  ASSUME NEW s \in State, IsEvent(s)
  PROVE  IF s.hard = 0 /\ ~s.muted THEN Processed(s) = None
         ELSE /\ Processed(s) \in Incident /\ Processed(s) # None
              /\ Processed(s).severity = StateToSeverity(s)
              /\ Processed(s).muted = s.muted
              /\ Processed(s).severity = "ok" => Processed(s).muted
BY Severities, NotificationsAssumption DEF IsEvent, Processed, Closes, Incident

LEMMA Ready == IInv /\ result = "ready" => DeltaDone
BY Channels DEF IInv, DeltaDone, Sorted, ReadA, ReadD, Keys, Delete

-------------------------------------------------------------------------------
(* Each step preserves the invariant.                                           *)

LEMMA HookInitial == HookInit => HookInv /\ Kept
BY DeltaAssumption, NotificationsAssumption
   DEF HookInit, HookInv, Kept, HookTypeOK, Sound, Progress, Incident, Cached, Init

\* What was retrieved is a map.
LEMMA RetrievedMap ==
  ASSUME HookTypeOK, NEW set \in SUBSET Object
  PROVE  Retrieved(set) \in [{o \in set : incident[o] # None} -> Incident]
         /\ Retrieved(set) # Nil
<1>1. Retrieved(set) \in [{o \in set : incident[o] # None} -> Incident]
  BY DEF Retrieved, HookTypeOK
<1>2. {o \in set : incident[o] # None} \subseteq Id \cup OtherId
  BY DEF Object
<1> QED
  BY <1>1, <1>2, NotificationsAssumption

LEMMA KeptStep ==
  ASSUME HookTypeOK, Kept, [HookNext]_allVars
  PROVE  Kept'
<1> USE DEF Kept
<1>1. CASE Fetch \/ OtherFetches
  BY <1>1, RetrievedMap DEF Fetch, OtherFetches
<1>2. ASSUME NEW id \in Id, NEW s \in State, Handle(id, s) PROVE Kept'
  BY <1>2 DEF Handle, Submit, HookTypeOK
<1>3. ASSUME NEW id \in Id, Vanish(id) PROVE Kept'
  BY <1>3 DEF Vanish
<1>4. CASE NoIncidents \/ Start \/ CloseObsolete \/ Return \/ Abort
  BY <1>4 DEF NoIncidents, Start, CloseObsolete, Return, Abort, HookTypeOK
<1>5. CASE OldTermClears \/ ClearIncidents
  BY <1>5 DEF OldTermClears, ClearIncidents
<1>6. CASE UNCHANGED hookVars
  BY <1>6 DEF hookVars
<1> QED
  BY <1>1, <1>2, <1>3, <1>4, <1>5, <1>6 DEF HookNext, ApplyDelta, allVars

\* Fetching, by either worker: what was retrieved is what is there.
LEMMA FetchStep ==
  ASSUME HookInv, Kept, Fetch \/ OtherFetches
  PROVE  HookInv'
<1> USE DEF HookInv
<1>1. /\ UNCHANGED <<vars, incident, todo, closing, seen>>
      /\ undisturbed' => hook \in {"idle", "failed"} /\ hook' \in {hook, "fetched"}
      /\ hook' = "fetched" => hook \in {"idle", "fetched"}
      /\ undisturbed' => undisturbed
  BY DEF Fetch, OtherFetches, Kept, HookTypeOK
<1>2. CASE UNCHANGED <<cache, undisturbed>> /\ cache # Nil
  <2>1. HookTypeOK'
    BY <1>1, <1>2 DEF HookTypeOK, Fetch, OtherFetches, DeltaKnown, vars
  <2>2. Sound'
    BY <1>1, <1>2 DEF Sound, Cached
  <2>3. ASSUME undisturbed', NEW id \in Id PROVE Progress(id)'
    BY <1>1, <1>2, <2>3 DEF Fetch, OtherFetches, Progress, AsFetched, Cached
  <2> QED
    BY <2>1, <2>2, <2>3
<1>3. ASSUME NEW set \in SUBSET Object,
             cache' = Retrieved(set), undisturbed' = (undisturbed /\ set = Object)
      PROVE  HookInv'
  <2>1. HookTypeOK'
    BY <1>1, <1>3 DEF HookTypeOK, Fetch, OtherFetches, DeltaKnown, vars, Retrieved
  <2>2. Sound'
    BY <1>1, <1>3 DEF Sound, Cached, Retrieved
  <2>3. ASSUME undisturbed', NEW id \in Id PROVE Progress(id)'
    <3>2. cache' # Nil
      BY <1>3, RetrievedMap
    <3>3. id \in DOMAIN cache' <=> incident[id] # None
      BY <1>3, <2>3 DEF Retrieved, Object
    <3>4. incident[id] # None => cache'[id] = incident[id]
      BY <1>3, <2>3 DEF Retrieved, Object
    <3>5. AsFetched(id)'
      BY <1>1, <3>2, <3>3, <3>4 DEF AsFetched, Cached
    <3> QED
      BY <1>1, <1>3, <2>3, <3>5 DEF Fetch, OtherFetches, Progress
  <2> QED
    BY <2>1, <2>2, <2>3
<1> QED
  BY <1>2, <1>3 DEF Fetch, OtherFetches

\* An entity from Redis: its incident is as it should be, or is left to an event.
LEMMA HandleStep ==
  ASSUME HookInv, NEW id \in Id, NEW s \in State, Handle(id, s)
  PROVE  HookInv'
<1> USE DEF HookInv
<1>1. /\ UNCHANGED <<vars, cache, closing>> /\ hook = "running" /\ id \in todo
      /\ todo' = todo \ {id} /\ seen' = [seen EXCEPT ![id] = s]
  BY DEF Handle
<1>2. id \in Object /\ s \in State /\ s # None
  BY NotificationsAssumption DEF Object
<1>3. CASE UNCHANGED <<incident, undisturbed>> /\ hook' = "failed"
  BY <1>1, <1>2, <1>3 DEF HookTypeOK, Sound, Cached, Progress, vars
<1>4. CASE /\ UNCHANGED <<incident, undisturbed, hook>>
           /\ Cached(id) /\ HaveSameState(cache[id], s) /\ StateToSeverity(s) # None
  <2>1. HookTypeOK' /\ Sound'
    BY <1>1, <1>2, <1>4 DEF HookTypeOK, Sound, Cached, vars
  <2>2. ASSUME undisturbed', NEW o \in Id PROVE Progress(o)'
    <3>1. Progress(o) /\ Progress(id)
      BY <1>4, <2>2
    <3>2. CASE o # id
      BY <1>1, <1>4, <3>1, <3>2 DEF Progress, AsFetched, Follows, Cached, HookTypeOK, vars
    <3>3. CASE o = id
      <4>1. incident[id] = cache[id] /\ incident[id] # None
        BY <1>1, <1>4, <3>1 DEF Progress, AsFetched
      <4>2. incident[id].severity = StateToSeverity(s) /\ incident[id].muted = s.muted
        BY <1>4, <4>1 DEF HaveSameState
      <4>3. ~(s.hard = 0 /\ ~s.muted)
        BY <1>2, <1>4, <4>1, <4>2, Severities DEF Sound
      <4>4. seen'[id] = s
        BY <1>1 DEF HookTypeOK
      <4> QED
        BY <1>1, <1>2, <1>4, <3>3, <4>1, <4>2, <4>3, <4>4
           DEF Progress, Follows, HookTypeOK, vars
    <3> QED
      BY <3>2, <3>3
  <2> QED
    BY <2>1, <2>2
<1>5. CASE UNCHANGED <<incident, hook>> /\ (undisturbed' => undisturbed /\ ~IsEvent(s))
           /\ undisturbed' \in BOOLEAN
  <2>1. HookTypeOK' /\ Sound'
    BY <1>1, <1>2, <1>5 DEF HookTypeOK, Sound, Cached, vars
  <2>2. ASSUME undisturbed', NEW o \in Id PROVE Progress(o)'
    BY <1>1, <1>2, <1>5, <2>2 DEF Progress, AsFetched, Follows, Cached, HookTypeOK, vars
  <2> QED
    BY <2>1, <2>2
<1>6. CASE /\ IsEvent(s) /\ incident' = [incident EXCEPT ![id] = Processed(s)]
           /\ UNCHANGED <<undisturbed, hook>>
  <2>1. incident'[id] = Processed(s) /\ \A o \in Object \ {id} : incident'[o] = incident[o]
    BY <1>2, <1>6 DEF HookTypeOK
  <2>2. HookTypeOK'
    BY <1>1, <1>2, <1>6, Events DEF HookTypeOK, vars
  <2>3. Sound'
    <3>1. incident'[id] # None /\ incident'[id].severity = "ok" => incident'[id].muted
      BY <1>6, <2>1, Events
    <3>2. \A o \in Object : incident'[o] # None /\ incident'[o].severity = "ok"
                             => incident'[o].muted
      BY <2>1, <3>1 DEF Sound
    <3> QED
      BY <1>1, <3>2 DEF Sound, Cached
  <2>4. ASSUME undisturbed', NEW o \in Id PROVE Progress(o)'
    <3>1. Progress(o) /\ o \in Object
      BY <1>6, <2>4 DEF Object
    <3>2. CASE o # id
      BY <1>1, <1>6, <2>1, <3>1, <3>2
         DEF Progress, AsFetched, Follows, Cached, HookTypeOK, vars
    <3>3. CASE o = id
      <4>1. seen'[id] = s
        BY <1>1 DEF HookTypeOK
      <4>2. Follows(id)'
        BY <1>2, <1>6, <2>1, <4>1, Events DEF Follows
      <4> QED
        BY <1>1, <1>2, <1>6, <3>3, <4>1, <4>2 DEF Progress, HookTypeOK, vars
    <3> QED
      BY <3>2, <3>3
  <2> QED
    BY <2>2, <2>3, <2>4
<1>7. CASE Submit(id, s) /\ UNCHANGED hook
  BY <1>5, <1>6, <1>7 DEF Submit, HookTypeOK
<1> QED
  BY <1>1, <1>3, <1>4, <1>7 DEF Handle

\* The other steps of the hook change at most the incidents of objects that are
\* gone.
LEMMA CloseStep ==
  ASSUME IInv, HookInv, CloseObsolete
  PROVE  HookInv'
<1> USE DEF HookInv
<1> DEFINE obsolete == {id \in Object : Cached(id) /\ Obsolete(id)}
<1>1. /\ UNCHANGED <<vars, cache, hook, todo, seen>>
      /\ hook = "running" /\ closing /\ ~closing' /\ closing' \in BOOLEAN
  BY DEF CloseObsolete
<1>2. DeltaDone
  BY <1>1, Ready DEF HookTypeOK
<1>3. CASE obsolete # {} /\ undisturbed' = FALSE /\ UNCHANGED incident
  BY <1>1, <1>3 DEF HookTypeOK, Sound, Cached, vars
<1>4. CASE /\ incident' = [id \in Object |-> IF id \in obsolete THEN None ELSE incident[id]]
           /\ UNCHANGED undisturbed
  <2>1. HookTypeOK'
    BY <1>1, <1>4 DEF HookTypeOK, vars
  <2>2. Sound'
    BY <1>1, <1>4 DEF Sound, Cached
  <2>3. ASSUME undisturbed', NEW id \in Id PROVE Progress(id)'
    <3>1. Progress(id) /\ id \in Object
      BY <1>4, <2>3 DEF Object
    <3>2. CASE id \in snapshot
      <4>1. id \notin obsolete
        BY <1>2, <3>2 DEF DeltaDone, Obsolete
      <4>2. incident'[id] = incident[id]
        BY <1>4, <3>1, <4>1
      <4> QED
        BY <1>1, <1>4, <3>1, <3>2, <4>2
           DEF Progress, AsFetched, Follows, Cached, HookTypeOK, vars
    <3>3. CASE id \notin snapshot
      <4>1. AsFetched(id)
        BY <1>1, <3>1, <3>3 DEF Progress
      <4>2. incident'[id] = None
        BY <1>4, <3>1, <3>3, <4>1 DEF AsFetched, Obsolete
      <4> QED
        BY <1>1, <3>1, <3>3, <4>2 DEF Progress, HookTypeOK, vars
    <3> QED
      BY <3>2, <3>3
  <2> QED
    BY <2>1, <2>2, <2>3
<1> QED
  BY <1>3, <1>4 DEF CloseObsolete

\* Steps of the delta, of the hook between its statements, and of the workers that
\* clear the map.
LEMMA QuietHookStep ==
  ASSUME IInv, HookInv,
         \/ Next /\ UNCHANGED hookVars
         \/ NoIncidents \/ Start \/ Return \/ Abort
         \/ \E id \in Id : Vanish(id)
         \/ OldTermClears \/ ClearIncidents
         \/ UNCHANGED allVars
  PROVE  HookInv'
<1> USE DEF HookInv
<1>1. UNCHANGED incident
  BY DEF hookVars, allVars, NoIncidents, Start, Return, Abort, Vanish, OldTermClears,
         ClearIncidents
<1>2. CASE Next /\ UNCHANGED hookVars
  <2>1. result' = "ready" \/ hook = "idle"
    BY <1>2 DEF Next, HookTypeOK, ReadActual, ReadDesired, Exhausted, Finish, Cancel
  <2>2. hook = "idle"
    BY <1>2 DEF Next, HookTypeOK, ReadActual, ReadDesired, Exhausted, Finish, Cancel
  <2>3. snapshot \subseteq snapshot'
    BY <1>2 DEF Next, ReadActual, ReadDesired, Exhausted, Finish, Cancel
  <2>4. HookTypeOK' /\ Sound'
    BY <1>1, <1>2, <2>2, <2>3 DEF HookTypeOK, Sound, Cached, hookVars
  <2>5. ASSUME undisturbed', NEW id \in Id PROVE Progress(id)'
    BY <1>1, <1>2, <2>2, <2>5 DEF Progress, AsFetched, Cached, hookVars
  <2> QED
    BY <2>4, <2>5
<1>3. CASE NoIncidents
  <2>1. HookTypeOK' /\ Sound'
    BY <1>3 DEF NoIncidents, HookTypeOK, Sound, Cached, vars
  <2>2. ASSUME undisturbed', NEW id \in Id PROVE Progress(id)'
    <3>1. undisturbed /\ CacheEmpty /\ Progress(id)
      BY <1>3, <2>2 DEF NoIncidents
    <3>2. ~Cached(id)
      BY <3>1 DEF CacheEmpty, Cached
    <3>3. incident[id] = None /\ seen[id] = None
      BY <1>3, <3>1, <3>2 DEF NoIncidents, Progress, AsFetched
    <3> QED
      BY <1>3, <3>1, <3>3, NotificationsAssumption
         DEF NoIncidents, Progress, Follows, CacheEmpty, vars
  <2> QED
    BY <2>1, <2>2
<1>4. CASE Start
  BY <1>4 DEF Start, HookTypeOK, Sound, Cached, Progress, AsFetched, vars
<1>5. CASE Return
  BY <1>5 DEF Return, HookTypeOK, Sound, Cached, Progress, Follows, vars
<1>6. CASE Abort
  BY <1>6 DEF Abort, HookTypeOK, Sound, Cached, Progress, vars
<1>7. ASSUME NEW id \in Id, Vanish(id)
      PROVE  HookInv'
  BY <1>7, NotificationsAssumption
     DEF Vanish, HookTypeOK, Sound, Cached, Progress, AsFetched, Follows, vars
<1>8. CASE OldTermClears
  BY <1>8 DEF OldTermClears, HookTypeOK, Sound, Cached, vars
<1>9. CASE ClearIncidents
  BY <1>9 DEF ClearIncidents, HookTypeOK, Sound, Cached, Progress, vars
<1>10. CASE UNCHANGED allVars
  BY <1>10
     DEF allVars, hookVars, HookTypeOK, Sound, Cached, Progress, AsFetched, Follows,
         CacheEmpty, vars
<1> QED
  BY <1>2, <1>3, <1>4, <1>5, <1>6, <1>7, <1>8, <1>9, <1>10

\* The delta runs as it would without the hook.
LEMMA DeltaUnderHook == HookSpec => []IInv
<1>1. HookInit => Init
  BY DEF HookInit
<1>2. [HookNext]_allVars => [Next]_vars
  BY DEF HookNext, ApplyDelta, Fetch, NoIncidents, Start, Handle, Vanish, CloseObsolete,
         Return, Abort, OtherFetches, OldTermClears, ClearIncidents, allVars
<1> QED
  BY <1>1, <1>2, InductiveInvariant, PTL DEF HookSpec, Spec

LEMMA HookInvariant == HookSpec => [](HookInv /\ Kept)
<1>1. IInv /\ HookInv /\ Kept /\ [HookNext]_allVars => HookInv' /\ Kept'
  BY FetchStep, HandleStep, CloseStep, QuietHookStep, KeptStep
     DEF HookNext, ApplyDelta, HookInv
<1> QED
  BY <1>1, HookInitial, DeltaUnderHook, PTL DEF HookSpec

-------------------------------------------------------------------------------

\* The type invariant of the hook.
THEOREM HookTypeCorrect == HookSpec => []HookTypeOK
<1>1. HookInv => HookTypeOK
  BY DEF HookInv
<1> QED
  BY <1>1, HookInvariant, PTL

\* When a hook returns whose requests all worked and whose cache nobody has cleared,
\* no incident is left of an object that is gone, and unless there was no incident
\* at all, the state of every object in Redis was looked at and its incident is in
\* line with it.
THEOREM Follow == HookSpec => []IncidentsFollowStates
<1>1. HookInv => IncidentsFollowStates
  BY NotificationsAssumption
     DEF HookInv, IncidentsFollowStates, Progress, Follows, HookTypeOK
<1> QED
  BY <1>1, HookInvariant, PTL

\* No incident is closed of an object that is in Redis and not OK, nor of the other
\* type, whatever the cache holds.
THEOREM Closing == HookSpec => ClosesOnlyObsolete
<1> DEFINE Permitted ==
      \A id \in Object :
        incident[id] # None /\ incident'[id] = None =>
          /\ id \in Id
          /\ redis[id] = None
               \/ (seen'[id] \in State /\ seen'[id].hard = 0 /\ ~seen'[id].muted)
<1>1. ASSUME IInv, HookInv, [HookNext]_allVars
      PROVE  [Permitted]_allVars
  <2>1. CASE UNCHANGED incident
    BY <2>1
  <2>2. ASSUME NEW id \in Id, NEW s \in State, Handle(id, s)
        PROVE  Permitted
    <3>1. CASE UNCHANGED incident
      BY <3>1
    <3>2. CASE IsEvent(s) /\ incident' = [incident EXCEPT ![id] = Processed(s)]
      <4>1. seen'[id] = s /\ s \in State
        BY <1>1, <2>2, NotificationsAssumption DEF Handle, HookInv, HookTypeOK
      <4>2. id \in Object /\ incident'[id] = Processed(s)
        BY <1>1, <3>2 DEF HookInv, HookTypeOK, Object
      <4>3. \A o \in Object \ {id} : incident'[o] = incident[o]
        BY <1>1, <3>2 DEF HookInv, HookTypeOK
      <4> QED
        BY <3>2, <4>1, <4>2, <4>3, Events
    <3> QED
      BY <2>2, <3>1, <3>2 DEF Handle, Submit
  <2>3. CASE CloseObsolete
    <3>1. DeltaDone
      BY <1>1, <2>3, Ready DEF CloseObsolete, HookInv, HookTypeOK
    <3> QED
      BY <2>3, <3>1 DEF CloseObsolete, Obsolete, DeltaDone
  <2> QED
    BY <1>1, <2>1, <2>2, <2>3
       DEF HookNext, ApplyDelta, hookVars, allVars, Fetch, NoIncidents, Start, Vanish,
           Return, Abort, OtherFetches, OldTermClears, ClearIncidents
<1>2. HookSpec => [][Permitted]_allVars
  BY <1>1, DeltaUnderHook, HookInvariant, PTL DEF HookSpec
<1> QED
  BY <1>2 DEF ClosesOnlyObsolete
===============================================================================
