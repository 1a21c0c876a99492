------------------------------- MODULE DumpSync ---------------------------------
(* The initial synchronization of a responsible process: the dump signals of   *)
(* Icinga 2 in the stream icinga:dump, DumpSignals.Listen that turns them into *)
(* closed channels, one SyncAfterDump per type waiting for its channel, and    *)
(* the loop of main.go that starts over when a new dump begins.                *)
(*                                                                             *)
(* Icinga 2 is not part of this repository.  It is modelled as this code needs *)
(* it: "wip" for all types replaces what is in the stream, then each type is   *)
(* rewritten in Redis and announced, and at last all of them are with "*".     *)
EXTENDS Naturals

CONSTANTS
  Key,      \* types with dump signals of their own
  All,      \* the key "*"
  MaxDumps, \* dumps in a run
  MaxBreak  \* handovers and breaks in a run

ASSUME DumpAssumption ==
  /\ All \notin Key
  /\ MaxDumps \in Nat /\ MaxBreak \in Nat

VARIABLES
  dump,       \* number of the dump Icinga 2 has last started
  rewritten,  \* types it has started to rewrite
  announced,  \* types whose done signal it has sent
  data,       \* Redis: the dump a type's entities are from, 0 if incomplete
  stream,     \* icinga:dump, its signals, in the order of their IDs
  lastId,     \* ID of the last signal ever sent
  position,   \* Listen: lastStreamId
  batch,      \* Listen: entries it has read and not handled, in that order
  anyDone,    \* Listen: anyDoneSent
  doneCh,     \* DumpSignals.doneCh: keys with a channel
  closed,     \* those whose channel is closed
  allDone,    \* DumpSignals.allDoneCh # nil
  inProgress, \* inProgressCh is closed
  listener,   \* "run" or "done"
  cancelled,  \* synctx
  worker,     \* the SyncAfterDump of each type
  copy,       \* what a worker has read from Redis
  db,         \* the dump a type's rows are from, 0 if they are a mixture
  breaks      \* handovers and breaks so far

icinga2  == <<dump, rewritten, announced, data, stream, lastId>>
channels == <<doneCh, closed, allDone, inProgress>>
listen   == <<position, batch, anyDone, listener>>
workers  == <<worker, copy, db>>
vars == <<dump, rewritten, announced, data, stream, lastId, position, batch,
          anyDone, doneCh, closed, allDone, inProgress, listener, cancelled,
          worker, copy, db, breaks>>

Signal == [id : Nat \ {0}, key : Key \cup {All}, done : BOOLEAN]

TypeOK ==
  /\ dump \in 0..MaxDumps /\ breaks \in 0..MaxBreak
  /\ rewritten \subseteq Key /\ announced \subseteq Key \cup {All}
  /\ data \in [Key -> 0..MaxDumps] /\ db \in [Key -> 0..MaxDumps]
  /\ copy \in [Key -> 0..MaxDumps]
  /\ lastId \in Nat /\ position \in 0..lastId
  /\ \A s \in stream \cup batch : s \in Signal /\ s.id <= lastId
  /\ doneCh \subseteq Key /\ closed \subseteq doneCh
  /\ anyDone \in BOOLEAN /\ allDone \in BOOLEAN
  /\ inProgress \in BOOLEAN /\ cancelled \in BOOLEAN
  /\ listener \in {"run", "done"}
  /\ worker \in [Key -> {"new", "wait", "read", "apply", "write", "synced",
                         "stopped"}]

Init ==
  /\ dump = 0 /\ rewritten = {} /\ announced = {} /\ data = [k \in Key |-> 0]
  /\ stream = {} /\ lastId = 0
  /\ position = 0 /\ batch = {} /\ anyDone = FALSE
  /\ listener = "run"
  /\ doneCh = {} /\ closed = {} /\ allDone = FALSE /\ inProgress = FALSE
  /\ cancelled = FALSE
  /\ worker = [k \in Key |-> "new"] /\ copy = [k \in Key |-> 0]
  /\ db = [k \in Key |-> 0] /\ breaks = 0

-------------------------------------------------------------------------------
(* Icinga 2.                                                                   *)

\* A dump begins, after a restart perhaps in the middle of another one.
StartDump ==
  /\ dump < MaxDumps
  /\ dump' = dump + 1
  /\ rewritten' = {} /\ announced' = {}
  /\ lastId' = lastId + 1
  /\ stream' = {[id |-> lastId', key |-> All, done |-> FALSE]}
  /\ UNCHANGED <<data, listen, channels, cancelled, workers, breaks>>

\* The entities of a type are deleted and written again.
Rewrite(k) ==
  /\ dump > 0 /\ k \notin rewritten
  /\ rewritten' = rewritten \cup {k}
  /\ data' = [data EXCEPT ![k] = 0]
  /\ UNCHANGED <<dump, announced, stream, lastId, listen, channels, cancelled,
                 workers, breaks>>

Announce(key) ==
  /\ announced' = announced \cup {key}
  /\ lastId' = lastId + 1
  /\ stream' = stream \cup {[id |-> lastId', key |-> key, done |-> TRUE]}

\* The type is complete and says so.
FinishType(k) ==
  /\ k \in rewritten \ announced
  /\ data' = [data EXCEPT ![k] = dump]
  /\ Announce(k)
  /\ UNCHANGED <<dump, rewritten, listen, channels, cancelled, workers, breaks>>

FinishDump ==
  /\ dump > 0 /\ announced = Key
  /\ Announce(All)
  /\ UNCHANGED <<dump, rewritten, data, listen, channels, cancelled, workers,
                 breaks>>

-------------------------------------------------------------------------------
(* DumpSignals.Listen.                                                         *)

Newer == {s \in stream : s.id > position}

\* XREAD returns all entries after lastStreamId.
Fetch ==
  /\ listener = "run" /\ ~cancelled
  /\ batch = {} /\ Newer # {}
  /\ batch' = Newer
  /\ UNCHANGED <<icinga2, channels, position, anyDone, listener,
                 cancelled, workers, breaks>>

\* The entry at the head of what was read.
Entry(s) ==
  /\ listener = "run"
  /\ \A t \in batch : s.id <= t.id
  /\ batch' = batch \ {s}
  /\ position' = s.id

\* ch, ok := s.doneCh[key]
ChannelsOf(key) == doneCh \cap {key}

\* A type is done: its channel is closed, if someone has asked for it.
HandleDone ==
  \E s \in batch :
    /\ Entry(s) /\ s.done /\ s.key # All
    /\ closed' = closed \cup ChannelsOf(s.key)
    /\ anyDone' = TRUE
    /\ UNCHANGED <<icinga2, doneCh, allDone, inProgress, listener, cancelled,
                   workers, breaks>>

\* Mutant: only existing listeners are notified of "*".
AllDoneAfter_Existing == allDone

\* allDoneCh is made and closed for all future listeners.
AllDoneAfter == TRUE

\* Everything is done: all channels are closed, also those to be asked for.
HandleAllDone ==
  \E s \in batch :
    /\ Entry(s) /\ s.done /\ s.key = All
    /\ allDone' = AllDoneAfter
    /\ closed' = IF allDone THEN closed ELSE doneCh
    /\ anyDone' = TRUE
    /\ UNCHANGED <<icinga2, doneCh, inProgress, listener, cancelled,
                   workers, breaks>>

\* Mutant: a new dump only counts after the whole last one was done.
Invalidates_AllDoneOnly == allDone

\* A new dump invalidates what was handed out.
Invalidates == anyDone

\* A new dump begins: Listen returns if it has handed out any done signal.
HandleWip ==
  \E s \in batch :
    /\ Entry(s) /\ ~s.done
    /\ inProgress' = (inProgress \/ Invalidates)
    /\ listener' = IF Invalidates THEN "done" ELSE "run"
    /\ UNCHANGED <<icinga2, doneCh, closed, allDone, anyDone,
                   cancelled, workers, breaks>>

\* The context is checked before each XREAD, which it also ends.
ListenerStops ==
  /\ listener = "run" /\ cancelled /\ batch = {}
  /\ listener' = "done"
  /\ UNCHANGED <<icinga2, channels, position, batch, anyDone,
                 cancelled, workers, breaks>>

\* The goroutine that waits for InProgress cancels the sync.
CancelSync ==
  /\ inProgress /\ ~cancelled
  /\ cancelled' = TRUE
  /\ UNCHANGED <<icinga2, channels, listen, workers, breaks>>

-------------------------------------------------------------------------------
(* SyncAfterDump of one type.                                                  *)

Goto(k, next) == worker' = [worker EXCEPT ![k] = next]

\* dump.Done(key) for the first time makes the channel, unless all are done.
AskForDone(k) ==
  /\ worker[k] = "new"
  /\ Goto(k, "wait")
  /\ doneCh' = IF allDone THEN doneCh ELSE doneCh \cup {k}
  /\ UNCHANGED <<icinga2, closed, allDone, inProgress, listen, cancelled, copy,
                 db, breaks>>

\* Mutant: the signal of any type will do.
Released_ByAny(k) == allDone \/ closed # {}

\* The channel that Done returns is closed.
Released(k) == allDone \/ k \in closed

StartSync(k) ==
  /\ worker[k] = "wait" /\ Released(k)
  /\ Goto(k, "read")
  /\ UNCHANGED <<icinga2, channels, listen, cancelled, copy, db, breaks>>

\* The entities of Redis and those of the database are compared.
CalculateDelta(k) ==
  /\ worker[k] = "read"
  /\ copy' = [copy EXCEPT ![k] = data[k]]
  /\ Goto(k, "apply")
  /\ UNCHANGED <<icinga2, channels, listen, cancelled, db, breaks>>

\* ApplyDelta executes some of its statements ...
BeginApply(k) ==
  /\ worker[k] = "apply"
  /\ db' = [db EXCEPT ![k] = 0]
  /\ Goto(k, "write")
  /\ UNCHANGED <<icinga2, channels, listen, cancelled, copy, breaks>>

\* ... and all of them.
EndApply(k) ==
  /\ worker[k] = "write"
  /\ db' = [db EXCEPT ![k] = copy[k]]
  /\ Goto(k, "synced")
  /\ UNCHANGED <<icinga2, channels, listen, cancelled, copy, breaks>>

\* The context ends it, wherever it is.
WorkerStops(k) ==
  /\ cancelled /\ worker[k] \notin {"synced", "stopped"}
  /\ Goto(k, "stopped")
  /\ UNCHANGED <<icinga2, channels, listen, cancelled, copy, db, breaks>>

-------------------------------------------------------------------------------
(* The loop in main.go.                                                        *)

\* NewDumpSignals and new goroutines.
NewIteration ==
  /\ position' = 0 /\ batch' = {} /\ anyDone' = FALSE
  /\ listener' = "run"
  /\ doneCh' = {} /\ closed' = {} /\ allDone' = FALSE /\ inProgress' = FALSE
  /\ cancelled' = FALSE
  /\ worker' = [k \in Key |-> "new"] /\ copy' = [k \in Key |-> 0]
  /\ UNCHANGED <<icinga2, db>>

\* g.Wait has returned for all goroutines of a cancelled sync.  After a handover
\* a process takes over in the end; that it would not wait for the goroutines of
\* its last term is left out.
StartOver ==
  /\ cancelled /\ listener = "done"
  /\ \A k \in Key : worker[k] \in {"synced", "stopped"}
  /\ NewIteration
  /\ UNCHANGED breaks

\* Responsibility is handed over: the context of the term is cancelled.  The
\* next term, here or on another node, is StartOver.
Handover ==
  /\ breaks < MaxBreak /\ ~cancelled
  /\ breaks' = breaks + 1
  /\ cancelled' = TRUE
  /\ UNCHANGED <<icinga2, channels, listen, workers>>

\* The process dies, of an error of any goroutine (Fatal) or otherwise, and a
\* process takes over anew.
Crash ==
  /\ breaks < MaxBreak
  /\ breaks' = breaks + 1
  /\ NewIteration

Listen  == Fetch \/ HandleDone \/ HandleAllDone \/ HandleWip \/ ListenerStops
Work(k) == AskForDone(k) \/ StartSync(k) \/ CalculateDelta(k)
             \/ BeginApply(k) \/ EndApply(k) \/ WorkerStops(k)
Icinga2 == (\E k \in Key : Rewrite(k) \/ FinishType(k)) \/ FinishDump

Next ==
  \/ StartDump \/ Icinga2
  \/ Listen \/ CancelSync \/ Handover \/ StartOver \/ Crash
  \/ \E k \in Key : Work(k)

Spec == Init /\ [][Next]_vars

\* Icinga 2 completes the dump it is doing; Redis and the database answer; all
\* goroutines are scheduled.
FairSpec ==
  /\ Spec
  /\ WF_vars(Icinga2) /\ WF_vars(Listen) /\ WF_vars(CancelSync)
  /\ WF_vars(StartOver) /\ \A k \in Key : WF_vars(Work(k))

-------------------------------------------------------------------------------
(* Properties.                                                                 *)

\* What Listen has not handled yet, read or not.
Pending == {s \in stream \cup batch : s.id > position}

\* A worker only acts on a dump it knows to be complete: while a type is
\* released and no new dump was noticed, Redis holds its complete entities, or
\* the signal that they are being rewritten is still unread.
ReleasedMeansComplete ==
  \A k \in Key :
    Released(k) /\ ~inProgress =>
      data[k] = dump \/ \E s \in Pending : ~s.done

\* A sync that has finished and was not invalidated has left the database with
\* the last dump, as far as the signals that Listen has handled can tell: the
\* runtime updates that follow start from there.
FinishedMeansCurrent ==
  \A k \in Key :
    worker[k] = "synced" /\ ~inProgress =>
      db[k] = data[k] \/ \E s \in Pending : ~s.done

\* The database ends up with the last dump, however often it was interrupted by
\* new dumps or breaks, and although done signals are lost on those who did
\* not ask for them in time.
LastDumpSynced ==
  <>[](\A k \in Key : dump > 0 => db[k] = dump)
===============================================================================
