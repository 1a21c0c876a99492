------------------------------ MODULE Syncs_proof ------------------------------
(* The two syncs that keep a table equal to what Redis says.  Of the dump      *)
(* signals, for any set of types, dumps and breaks: nobody is let loose on a   *)
(* dump that is not complete, and what a finished sync has left behind is the  *)
(* last dump, unless the signal of a newer one is still on its way.  Of the    *)
(* overdue sync, for any number of objects, rows inserted meanwhile and        *)
(* interrupted terms included: no flag is unknown to icingadb:overdue.         *)
EXTENDS DumpSync, Overdue, TLAPS

-------------------------------------------------------------------------------
(* The dump signals and the initial sync.                                      *)


\* The signal that the current dump has begun is still to be handled.
WipPending == \E w \in stream : ~w.done /\ w.id > position

\* Icinga 2 announces a type once it is complete, and all of them last.
AnnounceInv ==
  /\ \A k \in Key \cap announced : k \in rewritten /\ data[k] = dump
  /\ All \in announced => Key \subseteq announced

\* The stream is about the current dump only, and begins with its wip.
StreamInv ==
  /\ \A s \in stream : s.done => s.key \in announced
  /\ \A w, s \in stream : ~w.done => w.id <= s.id
  /\ \A s, t \in stream \cup batch : s.id = t.id => s = t

\* Listen skips no entry: what it has read is newer than what it has handled,
\* older than what it has not read, and of an earlier dump if it is not in the
\* stream any more.
BatchInv ==
  /\ \A t \in batch : t.id > position
  /\ \A s \in stream \ batch : s.id > position => \A t \in batch : t.id < s.id
  /\ \A t \in batch \ stream : \E w \in stream : ~w.done /\ t.id < w.id

\* Channels are only closed together with anyDoneSent.
ReleaseInv == closed # {} \/ allDone => anyDone

\* The goroutine of a type has passed its channel.
Loose(k) == worker[k] \in {"read", "apply", "write", "synced"}

LooseInv == \A k \in Key : Loose(k) => Released(k)

\* What is handed out and what was made of it is right: of the dump that the
\* current signals are about, and as it is now.
Right ==
  /\ closed \subseteq announced
  /\ allDone => All \in announced
  /\ \A k \in Key :
       /\ worker[k] \in {"apply", "write", "synced"} => copy[k] = data[k]
       /\ worker[k] = "synced" => db[k] = data[k]

RightInv == WipPending \/ inProgress \/ Right

IInv ==
  /\ TypeOK /\ AnnounceInv /\ StreamInv /\ BatchInv
  /\ ReleaseInv /\ LooseInv /\ RightInv

\* Nobody is let loose on a type that Icinga 2 has yet to complete.
LEMMA LooseIsAnnounced ==
  ASSUME IInv, Right, NEW k \in Key, Loose(k)
  PROVE  k \in announced
BY DEF IInv, LooseInv, Released, Right, AnnounceInv

LEMMA TypeStep == TypeOK /\ [Next]_vars => TypeOK'
<1> SUFFICES ASSUME TypeOK, [Next]_vars PROVE TypeOK'
  OBVIOUS
<1> USE DumpAssumption DEF TypeOK
<1>1. CASE UNCHANGED vars
  BY <1>1 DEF vars
<1>2. CASE StartDump
  <2> DEFINE w == [id |-> lastId + 1, key |-> All, done |-> FALSE]
  <2>1. w \in Signal /\ w.id = lastId + 1
    BY DEF Signal
  <2>2. stream' = {w} /\ lastId' = lastId + 1 /\ lastId \in Nat
    BY <1>2 DEF StartDump
  <2> HIDE DEF w
  <2>3. \A s \in stream' : s \in Signal /\ s.id <= lastId'
    BY <2>1, <2>2
  <2>4. \A s \in batch' : s \in Signal /\ s.id <= lastId'
    BY <1>2 DEF StartDump, Signal, listen
  <2> QED
    BY <1>2, <2>2, <2>3, <2>4 DEF StartDump, listen, channels, workers
<1>3. ASSUME NEW k \in Key, Rewrite(k) PROVE TypeOK'
  BY <1>3 DEF Rewrite, listen, channels, workers
<1>4. ASSUME NEW key \in Key \cup {All}, Announce(key), batch' = batch
      PROVE  /\ announced' \subseteq Key \cup {All} /\ lastId' \in Nat
             /\ \A s \in stream' \cup batch' : s \in Signal /\ s.id <= lastId'
  <2> DEFINE a == [id |-> lastId + 1, key |-> key, done |-> TRUE]
  <2>1. a \in Signal /\ a.id = lastId + 1
    BY DEF Signal
  <2>2. stream' = stream \cup {a} /\ lastId' = lastId + 1 /\ lastId \in Nat
    BY <1>4 DEF Announce
  <2>3. \A s \in stream \cup batch : s.id \in Nat
    BY DEF Signal
  <2> HIDE DEF a
  <2>4. \A s \in stream' \cup batch' : s \in Signal /\ s.id <= lastId'
    BY <1>4, <2>1, <2>2, <2>3
  <2> QED
    BY <1>4, <2>2, <2>4 DEF Announce
<1>5. CASE (\E k \in Key : FinishType(k)) \/ FinishDump
  <2>1. PICK key \in Key \cup {All} :
          /\ Announce(key)
          /\ UNCHANGED <<dump, rewritten, listen, channels, cancelled, workers,
                         breaks>>
          /\ data' = data \/ data' = [data EXCEPT ![key] = dump]
    BY <1>5 DEF FinishType, FinishDump
  <2>2. data' \in [Key -> 0..MaxDumps] /\ lastId <= lastId'
    BY <2>1 DEF Announce
  <2>3. position' \in 0..lastId'
    BY <2>1, <2>2, <1>4 DEF listen
  <2>4. announced' \subseteq Key \cup {All} /\ lastId' \in Nat
    BY <1>4, <2>1 DEF listen
  <2>5. \A s \in stream' \cup batch' : s \in Signal /\ s.id <= lastId'
    BY <1>4, <2>1 DEF listen
  <2> QED
    BY <2>1, <2>2, <2>3, <2>4, <2>5 DEF listen, channels, workers
<1>6. CASE Fetch
  BY <1>6 DEF Fetch, Newer, icinga2, channels, workers
<1>7. ASSUME NEW s \in batch, Entry(s) PROVE position' \in 0..lastId
  BY <1>7 DEF Entry, Signal
<1>8. CASE HandleDone
  BY <1>7, <1>8 DEF HandleDone, Entry, ChannelsOf, icinga2, workers
<1>9. CASE HandleAllDone
  BY <1>7, <1>9 DEF HandleAllDone, Entry, AllDoneAfter, icinga2, workers
<1>10. CASE HandleWip
  BY <1>7, <1>10 DEF HandleWip, Entry, Invalidates, icinga2, workers
<1>11. CASE ListenerStops \/ CancelSync
  BY <1>11 DEF ListenerStops, CancelSync, icinga2, channels, listen, workers
<1>12. CASE Handover
  BY <1>12 DEF Handover, icinga2, channels, listen, workers
<1>13. CASE StartOver \/ Crash
  <2>1. NewIteration /\ breaks' \in 0..MaxBreak
    BY <1>13 DEF StartOver, Crash
  <2>2. worker' \in [Key -> {"new", "wait", "read", "apply", "write", "synced",
                             "stopped"}]
    BY <2>1 DEF NewIteration
  <2>3. copy' \in [Key -> 0..MaxDumps]
    BY <2>1 DEF NewIteration
  <2>4. /\ anyDone' \in BOOLEAN /\ allDone' \in BOOLEAN
        /\ inProgress' \in BOOLEAN /\ cancelled' \in BOOLEAN
    BY <2>1, Zenon DEF NewIteration
  <2> QED
    BY <2>1, <2>2, <2>3, <2>4 DEF NewIteration, icinga2
<1>14. ASSUME NEW k \in Key, Work(k) PROVE TypeOK'
  BY <1>14 DEF Work, AskForDone, StartSync, CalculateDelta, BeginApply, EndApply,
     WorkerStops, Goto, icinga2, channels, listen
<1> QED
  BY <1>1, <1>2, <1>3, <1>5, <1>6, <1>8, <1>9, <1>10, <1>11, <1>12, <1>13, <1>14
     DEF Next, Icinga2, Listen

\* A new dump is on its way to Listen, whatever was handed out before.
LEMMA StartDumpStep == IInv /\ StartDump => IInv'
<1> SUFFICES ASSUME IInv, StartDump PROVE IInv'
  OBVIOUS
<1> USE DumpAssumption DEF IInv, StartDump
<1> DEFINE w == [id |-> lastId + 1, key |-> All, done |-> FALSE]
<1>0. TypeOK'
  BY TypeStep DEF Next
<1>1. /\ stream' = {w} /\ w.id = lastId + 1 /\ ~w.done
      /\ \A t \in batch : t.id \in Nat /\ t.id <= lastId
      /\ position \in Nat /\ position <= lastId /\ lastId \in Nat
      /\ UNCHANGED <<batch, position>>
  BY DEF TypeOK, Signal, listen
<1> HIDE DEF w
<1>2. AnnounceInv'
  BY DEF AnnounceInv
<1>3. StreamInv'
  BY <1>1 DEF StreamInv
<1>4. BatchInv'
  BY <1>1 DEF BatchInv
<1>5. WipPending'
  BY <1>1 DEF WipPending
<1>6. ReleaseInv' /\ LooseInv'
  BY DEF ReleaseInv, LooseInv, Loose, Released, listen, channels, workers
<1> QED
  BY <1>0, <1>2, <1>3, <1>4, <1>5, <1>6 DEF RightInv

\* Icinga 2 does not touch a type that it has announced.
LEMMA RewriteStep == ASSUME IInv, NEW k \in Key, Rewrite(k) PROVE IInv'
<1> USE DumpAssumption DEF IInv, Rewrite
<1>0. TypeOK'
  BY TypeStep DEF Next, Icinga2
<1>1. AnnounceInv'
  BY DEF AnnounceInv, TypeOK
<1>2. StreamInv' /\ BatchInv' /\ ReleaseInv' /\ LooseInv'
  BY DEF StreamInv, BatchInv, ReleaseInv, LooseInv, Loose, Released, listen,
     channels, workers
<1>3. k \notin announced
  BY DEF AnnounceInv
<1>4. Right => Right'
  BY <1>3, LooseIsAnnounced DEF Right, Loose, TypeOK, channels, workers
<1>5. RightInv'
  BY <1>4 DEF RightInv, WipPending, listen, channels
<1> QED
  BY <1>0, <1>1, <1>2, <1>5

\* A signal is only sent about what is complete, and is newer than all others.
LEMMA AnnounceStep ==
  ASSUME IInv, \/ \E k \in Key : FinishType(k)
               \/ FinishDump
  PROVE  IInv'
<1> USE DumpAssumption DEF IInv
<1>0. TypeOK'
  BY TypeStep DEF Next, Icinga2
<1>1. PICK key \in Key \cup {All} :
        /\ Announce(key)
        /\ UNCHANGED <<dump, rewritten, listen, channels, cancelled, workers>>
        /\ IF key = All THEN announced = Key /\ data' = data
           ELSE /\ key \in rewritten \ announced
                /\ data' = [data EXCEPT ![key] = dump]
  BY DEF FinishType, FinishDump
<1> DEFINE a == [id |-> lastId + 1, key |-> key, done |-> TRUE]
<1>2. /\ stream' = stream \cup {a} /\ a.id = lastId + 1 /\ a.done /\ a.key = key
      /\ announced' = announced \cup {key}
      /\ \A t \in batch \cup stream : t.id \in Nat /\ t.id <= lastId
      /\ position \in Nat /\ position <= lastId /\ lastId \in Nat
      /\ UNCHANGED <<batch, position>>
  BY <1>1 DEF Announce, TypeOK, Signal, listen
<1> HIDE DEF a
<1>3. AnnounceInv'
  BY <1>1, <1>2 DEF AnnounceInv, TypeOK
<1>4. StreamInv'
  BY <1>2 DEF StreamInv
<1>5. BatchInv'
  BY <1>2 DEF BatchInv
<1>6. ReleaseInv' /\ LooseInv'
  BY <1>1 DEF ReleaseInv, LooseInv, Loose, Released, listen, channels, workers
<1>7. Right => Right'
  <2> SUFFICES ASSUME Right PROVE Right'
    OBVIOUS
  <2>1. \A k \in Key : Loose(k) => data'[k] = data[k]
    BY <1>1, LooseIsAnnounced DEF TypeOK
  <2> QED
    BY <1>1, <1>2, <2>1 DEF Right, Loose, channels, workers
<1>8. WipPending => WipPending'
  BY <1>2 DEF WipPending
<1> QED
  BY <1>0, <1>1, <1>3, <1>4, <1>5, <1>6, <1>7, <1>8 DEF RightInv, channels

\* Listen reads everything that is newer than what it has handled.
LEMMA FetchStep == IInv /\ Fetch => IInv'
<1> SUFFICES ASSUME IInv, Fetch PROVE IInv'
  OBVIOUS
<1>1. TypeOK'
  BY TypeStep DEF IInv, Next, Listen
<1>2. batch' = Newer /\ UNCHANGED <<icinga2, channels, position, anyDone, workers>>
  BY DEF Fetch
<1>3. StreamInv'
  <2>1. StreamInv /\ Newer \subseteq stream /\ UNCHANGED <<stream, announced>>
    BY <1>2 DEF IInv, Newer, icinga2
  <2> QED
    BY <1>2, <2>1 DEF StreamInv
<1>4. BatchInv'
  BY <1>2 DEF BatchInv, Newer, icinga2
<1>5. AnnounceInv' /\ ReleaseInv' /\ LooseInv'
  BY <1>2 DEF IInv, AnnounceInv, ReleaseInv, LooseInv, Loose, Released, icinga2,
     channels, workers
<1>6. RightInv'
  BY <1>2 DEF IInv, RightInv, Right, WipPending, icinga2, channels, workers
<1> QED
  BY <1>1, <1>3, <1>4, <1>5, <1>6 DEF IInv

\* The entry at the head is the wip of the current dump, an entry of that dump,
\* or one of an earlier dump while the current wip is pending and stays so.
LEMMA EntryStep ==
  ASSUME IInv, NEW s \in batch, Entry(s), UNCHANGED stream
  PROVE  /\ StreamInv' => BatchInv'
         /\ WipPending => WipPending' \/ (s \in stream /\ ~s.done)
         /\ ~WipPending => s \in stream
<1> USE DEF IInv, Entry
<1>0. /\ \A t \in batch \cup stream : t.id \in Nat
      /\ position \in Nat /\ batch' = batch \ {s} /\ position' = s.id
      /\ \A t \in batch : s.id <= t.id
  BY DEF TypeOK, Signal
<1>1. \A t \in batch \ {s} : s.id < t.id
  BY <1>0 DEF StreamInv
<1>2. ASSUME NEW t \in stream \ batch', t.id > s.id PROVE t \in stream \ batch
  BY <1>0, <1>2
<1>3. StreamInv' => BatchInv'
  BY <1>0, <1>1 DEF BatchInv
<1>4. WipPending => WipPending' \/ (s \in stream /\ ~s.done)
  <2> SUFFICES ASSUME NEW w \in stream, ~w.done, w.id > position
               PROVE  w.id > s.id \/ w = s
    BY <1>0 DEF WipPending
  <2> QED
    BY <1>0, <1>1 DEF BatchInv
<1>5. ~WipPending => s \in stream
  BY <1>0 DEF BatchInv, WipPending
<1> QED
  BY <1>3, <1>4, <1>5

\* A done signal of the current dump is right, an older one does not matter.
LEMMA DoneStep == IInv /\ (HandleDone \/ HandleAllDone) => IInv'
<1> SUFFICES ASSUME IInv, HandleDone \/ HandleAllDone PROVE IInv'
  OBVIOUS
<1> USE DEF IInv
<1>0. TypeOK'
  BY TypeStep DEF Next, Listen
<1>1. PICK s \in batch :
        /\ Entry(s) /\ s.done
        /\ \/ /\ s.key # All /\ closed' = closed \cup ChannelsOf(s.key)
              /\ allDone' = allDone
           \/ /\ s.key = All /\ allDone' = TRUE
              /\ closed' = IF allDone THEN closed ELSE doneCh
        /\ anyDone'
        /\ UNCHANGED <<icinga2, doneCh, inProgress, workers>>
  BY DEF HandleDone, HandleAllDone, AllDoneAfter
<1>2. StreamInv'
  BY <1>1 DEF StreamInv, Entry, icinga2
<1>3. BatchInv'
  BY <1>1, <1>2, EntryStep DEF icinga2
<1>4. AnnounceInv' /\ ReleaseInv'
  BY <1>1 DEF AnnounceInv, ReleaseInv, icinga2
<1>5. closed \subseteq closed' /\ (allDone => allDone')
  BY <1>1 DEF TypeOK
<1>6. LooseInv'
  BY <1>1, <1>5 DEF LooseInv, Loose, Released, workers
<1>7. WipPending => WipPending'
  BY <1>1, EntryStep DEF icinga2
<1>8. ASSUME ~WipPending, Right PROVE Right'
  <2>1. s.key \in announced
    BY <1>1, <1>8, EntryStep DEF StreamInv, icinga2
  <2>2. closed' \subseteq announced
    BY <1>1, <1>8, <2>1 DEF Right, ChannelsOf, TypeOK, AnnounceInv
  <2>3. allDone' => All \in announced
    BY <1>1, <1>8, <2>1 DEF Right
  <2> QED
    BY <1>1, <1>8, <2>2, <2>3 DEF Right, icinga2, workers
<1> QED
  BY <1>0, <1>1, <1>2, <1>3, <1>4, <1>6, <1>7, <1>8 DEF RightInv

\* When the current dump begins, nothing was handed out, or all of it is
\* invalidated.
LEMMA WipStep == IInv /\ HandleWip => IInv'
<1> SUFFICES ASSUME IInv, HandleWip PROVE IInv'
  OBVIOUS
<1> USE DEF IInv
<1>0. TypeOK'
  BY TypeStep DEF Next, Listen
<1>1. PICK s \in batch :
        /\ Entry(s) /\ ~s.done
        /\ inProgress' = (inProgress \/ anyDone)
        /\ UNCHANGED <<icinga2, doneCh, closed, allDone, anyDone, workers>>
  BY DEF HandleWip, Invalidates
<1>2. StreamInv'
  BY <1>1 DEF StreamInv, Entry, icinga2
<1>3. BatchInv'
  BY <1>1, <1>2, EntryStep DEF icinga2
<1>4. AnnounceInv' /\ ReleaseInv' /\ LooseInv'
  BY <1>1 DEF AnnounceInv, ReleaseInv, LooseInv, Loose, Released, icinga2, workers
<1>5. CASE anyDone
  BY <1>0, <1>1, <1>2, <1>3, <1>4, <1>5 DEF RightInv
<1>6. CASE ~anyDone
  <2>1. Right'
    BY <1>1, <1>6 DEF Right, ReleaseInv, LooseInv, Loose, Released, icinga2, workers
  <2> QED
    BY <1>0, <1>2, <1>3, <1>4, <2>1 DEF RightInv
<1> QED
  BY <1>5, <1>6

\* What only decides when something ends, and what begins from nothing.
LEMMA LoopStep ==
  ASSUME IInv, \/ ListenerStops \/ CancelSync \/ Handover
               \/ StartOver \/ Crash \/ UNCHANGED vars
  PROVE  IInv'
<1> USE DEF IInv
<1>0. TypeOK'
  BY TypeStep DEF Next, Listen
<1>1. CASE ListenerStops \/ CancelSync \/ Handover \/ UNCHANGED vars
  <2>1. UNCHANGED <<icinga2, channels, position, batch, anyDone, workers>>
    BY <1>1 DEF ListenerStops, CancelSync, Handover, vars, listen, icinga2,
       channels, workers
  <2> QED
    BY <1>0, <2>1 DEF AnnounceInv, StreamInv, BatchInv, ReleaseInv, LooseInv,
       Loose, Released, RightInv, Right, WipPending, icinga2, channels, workers
<1>2. CASE StartOver \/ Crash
  <2>1. /\ NewIteration /\ \A k \in Key : worker'[k] = "new"
    BY <1>2 DEF StartOver, Crash, NewIteration
  <2>2. AnnounceInv' /\ StreamInv' /\ ReleaseInv'
    BY <2>1 DEF NewIteration, AnnounceInv, StreamInv, ReleaseInv, icinga2
  <2>3. BatchInv'
    BY <2>1 DEF NewIteration, BatchInv
  <2>4. LooseInv' /\ Right'
    BY <2>1 DEF NewIteration, LooseInv, Loose, Right
  <2> QED
    BY <1>0, <2>2, <2>3, <2>4 DEF RightInv
<1> QED
  BY <1>1, <1>2

\* A worker goes on with what is right for as long as that is not known to have
\* changed.
LEMMA WorkStep == ASSUME IInv, NEW k \in Key, Work(k) PROVE IInv'
<1> USE DEF IInv
<1>0. TypeOK'
  BY TypeStep DEF Next
<1>1. /\ UNCHANGED <<icinga2, closed, allDone, inProgress, listen>>
      /\ worker' \in [Key -> {"new", "wait", "read", "apply", "write", "synced",
                              "stopped"}]
      /\ \A j \in Key \ {k} : /\ worker'[j] = worker[j]
                              /\ copy'[j] = copy[j] /\ db'[j] = db[j]
  BY <1>0 DEF Work, AskForDone, StartSync, CalculateDelta, BeginApply, EndApply,
     WorkerStops, Goto, channels, TypeOK
<1>2. Loose(k)' => Released(k)
  BY DEF Work, AskForDone, StartSync, CalculateDelta, BeginApply, EndApply,
     WorkerStops, Goto, Loose, LooseInv, TypeOK
<1>3. LooseInv'
  BY <1>1, <1>2 DEF LooseInv, Loose, Released
<1>4. AnnounceInv' /\ StreamInv' /\ BatchInv' /\ ReleaseInv'
  BY <1>1 DEF AnnounceInv, StreamInv, BatchInv, ReleaseInv, icinga2, listen
<1>5. Right => Right'
  <2> SUFFICES ASSUME Right PROVE Right'
    OBVIOUS
  <2>1. /\ worker'[k] \in {"apply", "write", "synced"} => copy'[k] = data[k]
        /\ worker'[k] = "synced" => db'[k] = data[k]
    BY DEF Right, Work, AskForDone, StartSync, CalculateDelta, BeginApply,
       EndApply, WorkerStops, Goto, TypeOK
  <2> QED
    BY <1>1, <2>1 DEF Right, icinga2
<1>6. RightInv'
  BY <1>1, <1>5 DEF RightInv, WipPending, icinga2, listen
<1> QED
  BY <1>0, <1>3, <1>4, <1>6

\* The strengthened invariant holds in every reachable state.
LEMMA InductiveInvariant == Spec => []IInv
<1>1. Init => IInv
  <2> SUFFICES ASSUME Init PROVE IInv
    OBVIOUS
  <2>1. /\ anyDone \in BOOLEAN /\ allDone \in BOOLEAN
        /\ inProgress \in BOOLEAN /\ cancelled \in BOOLEAN
    BY Zenon DEF Init
  <2>2. TypeOK
    BY <2>1, DumpAssumption DEF Init, TypeOK
  <2> QED
    BY <2>2, DumpAssumption
       DEF Init, IInv, AnnounceInv, StreamInv, BatchInv, ReleaseInv, LooseInv,
           Loose, RightInv, Right
<1>2. IInv /\ [Next]_vars => IInv'
  BY StartDumpStep, RewriteStep, AnnounceStep, FetchStep, DoneStep, WipStep,
     LoopStep, WorkStep DEF Next, Icinga2, Listen
<1> QED
  BY <1>1, <1>2, PTL DEF Spec

\* Every variable of the dump signals and of the initial sync has its type.
THEOREM TypeCorrect == Spec => []TypeOK
  BY InductiveInvariant, PTL DEF IInv

\* No SyncAfterDump starts on a type that is not completely in Redis, unless the
\* signal of a newer dump, which cancels it, is still to be handled.
THEOREM ReleasedComplete == Spec => []ReleasedMeansComplete
<1>1. IInv => ReleasedMeansComplete
  <2> SUFFICES ASSUME IInv, NEW k \in Key, Released(k), ~inProgress,
                      ~ \E s \in Pending : ~s.done
               PROVE  data[k] = dump
    BY DEF ReleasedMeansComplete
  <2>1. Right
    BY DEF IInv, RightInv, WipPending, Pending
  <2> QED
    BY <2>1 DEF IInv, Right, Released, AnnounceInv
<1> QED
  BY <1>1, InductiveInvariant, PTL

\* A sync that has finished and was not invalidated has left the database with
\* the entities of the last dump, unless the signal of a newer one is still to be
\* handled.
THEOREM FinishedCurrent == Spec => []FinishedMeansCurrent
<1>1. IInv => FinishedMeansCurrent
  BY DEF IInv, RightInv, Right, WipPending, Pending, FinishedMeansCurrent
<1> QED
  BY <1>1, InductiveInvariant, PTL

-------------------------------------------------------------------------------
(* The overdue sync.                                                           *)

\* What initSync has selected is still what is flagged when it is written to the
\* set: no other component sets or clears flags.
SelectInv == pc = "init" => selected = Flagged

\* How far the two goroutines of a tick are.
UpdateInv ==
  pc = "update" =>
    /\ todo["flag"] \subseteq ids["flag"]
    /\ step["flag"] = "done" => ids["flag"] \subseteq noted
    /\ step["clear"] # "db" => todo["clear"] = {}
    /\ \A o \in ids["clear"] : column[o] = "y" => o \in todo["clear"]

\* Between two ticks nothing is being updated.
TickInv == pc # "update" => Between = {}

\* How far they are with the objects that had a row from the start: the UPDATE
\* finds their rows, so that what SADD or SREM then writes is true of them.
MirrorInv ==
  /\ \A o \in Existing : column[o] # "none"
  /\ pc = "update" =>
       /\ todo["clear"] \subseteq ids["clear"]
       /\ step["flag"] # "db" => todo["flag"] = {}
       /\ \A o \in Existing \cap ids["flag"] :
            column[o] = "y" \/ o \in todo["flag"]
       /\ step["clear"] = "done" => ids["clear"] \cap noted = {}

MInv == MirrorInv /\ NotedMirrorsColumn

OverdueIInv == OverdueTypeOK /\ SelectInv /\ UpdateInv /\ TickInv /\
     FlaggedIsNoted

\* What happens around the sync sets and clears no flag.
LEMMA AroundStep ==
  ASSUME OverdueIInv,
         \/ \E o \in Object : BecomeLate(o) \/ Check(o) \/ InsertRow(o)
         \/ Restart
         \/ UNCHANGED overdueVars
  PROVE  OverdueIInv'
<1> USE OverdueAssumption DEF OverdueIInv, loop
<1>0. CASE UNCHANGED overdueVars
  BY <1>0 DEF overdueVars, OverdueTypeOK, SelectInv, UpdateInv, TickInv,
     FlaggedIsNoted, Between, Flagged
<1>1. ASSUME NEW o \in Object, BecomeLate(o) \/ Check(o) PROVE OverdueIInv'
  BY <1>1 DEF BecomeLate, Check, OverdueTypeOK, SelectInv, UpdateInv, TickInv,
     FlaggedIsNoted, Between, Flagged
<1>2. ASSUME NEW o \in Object, InsertRow(o) PROVE OverdueIInv'
  <2>1. OverdueTypeOK'
    BY <1>2 DEF InsertRow, OverdueTypeOK
  <2>2. Flagged' = Flagged
    BY <1>2 DEF InsertRow, OverdueTypeOK, Flagged
  <2>3. \A p \in Object : column'[p] = "y" => column[p] = "y"
    BY <1>2 DEF InsertRow, OverdueTypeOK
  <2>4. UpdateInv'
    BY <1>2, <2>3 DEF InsertRow, UpdateInv, OverdueTypeOK, Kind
  <2> QED
    BY <1>2, <2>1, <2>2, <2>4
       DEF InsertRow, SelectInv, TickInv, FlaggedIsNoted, Between
<1>3. CASE Restart
  BY <1>3 DEF Restart, OverdueTypeOK, SelectInv, UpdateInv, TickInv,
     FlaggedIsNoted, Between, Kind
<1> QED
  BY <1>0, <1>1, <1>2, <1>3

\* initSync and the script start from a set that knows all flags.
LEMMA TickStep ==
  ASSUME OverdueIInv, SelectFlagged \/ RefreshNoted \/ Tick \/ EndTick
  PROVE  OverdueIInv'
<1> USE OverdueAssumption DEF OverdueIInv
<1>1. CASE SelectFlagged
  BY <1>1 DEF SelectFlagged, OverdueTypeOK, SelectInv, UpdateInv, TickInv,
     FlaggedIsNoted, Between, Flagged
<1>2. CASE RefreshNoted
  BY <1>2 DEF RefreshNoted, Refreshed, OverdueTypeOK, SelectInv, UpdateInv, TickInv,
     FlaggedIsNoted, Between, Flagged
<1>3. CASE Tick
  BY <1>3 DEF Tick, Differences, OverdueTypeOK, SelectInv, UpdateInv, TickInv,
     FlaggedIsNoted, Between, Flagged, Kind
<1>4. CASE EndTick
  BY <1>4 DEF EndTick, OverdueTypeOK, SelectInv, UpdateInv, TickInv,
     FlaggedIsNoted, Between, Flagged, Kind
<1> QED
  BY <1>1, <1>2, <1>3, <1>4

\* The UPDATE of one kind does not disturb the other: their objects differ.
LEMMA UpdateDbStep ==
  ASSUME OverdueIInv, NEW k \in Kind, NEW S \in SUBSET Object, UpdateDb(k, S)
  PROVE  OverdueIInv'
<1> USE OverdueAssumption DEF OverdueIInv, UpdateDb
<1>1. OverdueTypeOK'
  BY DEF OverdueTypeOK, Updated, Kind
<1>2. \A o \in Object : column'[o] = "y" =>
        \/ column[o] = "y" /\ ~(k = "clear" /\ o \in S)
        \/ k = "flag" /\ o \in S
  BY DEF OverdueTypeOK, Updated, Kind
<1>0. ids["flag"] \subseteq Object /\ ids["clear"] \subseteq Object
  BY DEF OverdueTypeOK, Kind
<1>3. FlaggedIsNoted'
  <2> SUFFICES ASSUME NEW o \in Object, column'[o] = "y", o \notin Between
               PROVE  o \in noted
    BY DEF FlaggedIsNoted, Flagged, Between
  <2>1. CASE column[o] = "y"
    BY <2>1 DEF FlaggedIsNoted, Flagged
  <2>2. CASE k = "flag" /\ o \in S
    BY <2>2 DEF UpdateInv, Between
  <2> QED
    BY <1>2, <2>1, <2>2
<1>4. UpdateInv'
  <2>0. todo'["flag"] \subseteq ids'["flag"]
    BY DEF UpdateInv, OverdueTypeOK, Kind
  <2>1. step'["flag"] = "done" => ids'["flag"] \subseteq noted'
    BY DEF UpdateInv, OverdueTypeOK, Kind
  <2>2. step'["clear"] # "db" => todo'["clear"] = {}
    BY DEF UpdateInv, OverdueTypeOK, Kind
  <2>3. ASSUME NEW o \in ids["clear"], column'[o] = "y" PROVE o \in todo'["clear"]
    <3>1. column[o] = "y" /\ ~(k = "clear" /\ o \in S)
      BY <1>0, <1>2, <2>3 DEF UpdateInv, OverdueTypeOK
    <3> QED
      BY <3>1 DEF UpdateInv, OverdueTypeOK, Kind
  <2> QED
    BY <2>0, <2>1, <2>2, <2>3 DEF UpdateInv
<1> QED
  BY <1>1, <1>3, <1>4 DEF SelectInv, TickInv

\* SADD and SREM leave the objects of the other kind alone.
LEMMA UpdateNotedStep ==
  ASSUME OverdueIInv, NEW k \in Kind, UpdateNoted(k)
  PROVE  OverdueIInv'
<1> USE OverdueAssumption DEF OverdueIInv, UpdateNoted, NotedAfter
<1>1. OverdueTypeOK'
  BY DEF OverdueTypeOK, Kind
<1>2. FlaggedIsNoted'
  BY DEF FlaggedIsNoted, Flagged, Between, OverdueTypeOK, Kind
<1>3. UpdateInv'
  BY DEF UpdateInv, OverdueTypeOK, Kind
<1> QED
  BY <1>1, <1>2, <1>3 DEF SelectInv, TickInv

\* The strengthened invariant holds in every reachable state.
LEMMA OverdueInductiveInvariant == OverdueSpec => []OverdueIInv
<1>1. OverdueInit => OverdueIInv
  BY OverdueAssumption
     DEF OverdueInit, OverdueIInv, OverdueTypeOK, SelectInv, UpdateInv, TickInv,
         FlaggedIsNoted, Between, Kind
<1>2. OverdueIInv /\ [OverdueNext]_overdueVars => OverdueIInv'
  BY AroundStep, TickStep, UpdateDbStep, UpdateNotedStep DEF OverdueNext, Sync
<1> QED
  BY <1>1, <1>2, PTL DEF OverdueSpec

\* The objects with a row keep it, and an inserted row is none of theirs.
LEMMA AroundMirror ==
  ASSUME OverdueIInv, MInv,
         \/ \E o \in Object : BecomeLate(o) \/ Check(o) \/ InsertRow(o)
         \/ Restart
         \/ UNCHANGED overdueVars
  PROVE  MInv'
<1> USE OverdueAssumption DEF MInv, MirrorInv, NotedMirrorsColumn, Between, loop
<1>0. CASE UNCHANGED overdueVars
  BY <1>0 DEF overdueVars
<1>1. ASSUME NEW o \in Object, BecomeLate(o) \/ Check(o) PROVE MInv'
  BY <1>1 DEF BecomeLate, Check
<1>2. ASSUME NEW o \in Object, InsertRow(o) PROVE MInv'
  <2>1. \A p \in Existing : column'[p] = column[p]
    BY <1>2 DEF InsertRow, OverdueIInv, OverdueTypeOK
  <2> QED
    BY <1>2, <2>1 DEF InsertRow
<1>3. CASE Restart
  BY <1>3 DEF Restart
<1> QED
  BY <1>0, <1>1, <1>2, <1>3

\* The set is made of the column, and the script splits what differs.
LEMMA TickMirror ==
  ASSUME OverdueIInv, MInv, SelectFlagged \/ RefreshNoted \/ Tick \/ EndTick
  PROVE  MInv'
<1> USE OverdueAssumption DEF MInv, MirrorInv, NotedMirrorsColumn, Between
<1>1. CASE SelectFlagged
  BY <1>1 DEF SelectFlagged
<1>2. CASE RefreshNoted
  BY <1>2 DEF RefreshNoted, Refreshed, OverdueIInv, SelectInv, Flagged
<1>3. CASE Tick
  BY <1>3 DEF Tick, Differences, OverdueIInv, TickInv, Kind
<1>4. CASE EndTick
  <2>1. ASSUME NEW o \in Existing PROVE o \in noted <=> column[o] = "y"
    BY <1>4, <2>1 DEF EndTick, OverdueIInv, UpdateInv, Kind
  <2> QED
    BY <1>4, <2>1 DEF EndTick
<1> QED
  BY <1>1, <1>2, <1>3, <1>4

\* The UPDATE of one kind changes what it is about, and all of it before the set
\* is written.
LEMMA UpdateDbMirror ==
  ASSUME OverdueIInv, MInv, NEW k \in Kind, NEW S \in SUBSET Object, UpdateDb(k, S)
  PROVE  MInv'
<1> USE OverdueAssumption DEF MInv, UpdateDb
<1>1. \A o \in Object : column'[o] = IF o \in S THEN Updated(k, o) ELSE column[o]
  OBVIOUS
<1>2. \A o \in Existing : column'[o] # "none"
  BY <1>1 DEF MirrorInv, Updated
<1>3. \A o \in Existing \ Between : column'[o] = column[o]
  BY <1>1 DEF OverdueIInv, UpdateInv, OverdueTypeOK, MirrorInv, Between, Kind
<1>4. NotedMirrorsColumn'
  BY <1>3 DEF NotedMirrorsColumn, Between
<1>5. step'["flag"] # "db" => todo'["flag"] = {}
  BY DEF OverdueIInv, OverdueTypeOK, Kind, MirrorInv
<1>6. ASSUME NEW o \in Existing \cap ids["flag"], o \notin todo'["flag"]
      PROVE  column'[o] = "y"
  <2>1. CASE k = "flag"
    BY <1>1, <1>6, <2>1 DEF MirrorInv, Updated, OverdueIInv, OverdueTypeOK, Kind
  <2>2. CASE k = "clear"
    BY <1>1, <1>6, <2>2 DEF MirrorInv, Updated, OverdueIInv, OverdueTypeOK, Kind
  <2> QED
    BY <2>1, <2>2 DEF Kind
<1>7. step'["clear"] = "done" => ids'["clear"] \cap noted' = {}
  BY DEF OverdueIInv, OverdueTypeOK, Kind, MirrorInv
<1>8. todo'["clear"] \subseteq ids'["clear"]
  BY DEF OverdueIInv, OverdueTypeOK, Kind, MirrorInv
<1> QED
  BY <1>2, <1>4, <1>5, <1>6, <1>7, <1>8 DEF MirrorInv

\* SADD and SREM of a kind leave the objects of the other, and of none, alone.
LEMMA UpdateNotedMirror ==
  ASSUME OverdueIInv, MInv, NEW k \in Kind, UpdateNoted(k)
  PROVE  MInv'
<1> USE OverdueAssumption DEF MInv, UpdateNoted, NotedAfter
<1>1. NotedMirrorsColumn'
  BY DEF NotedMirrorsColumn, Between, Kind
<1>2. MirrorInv'
  BY DEF MirrorInv, OverdueIInv, OverdueTypeOK, Kind
<1> QED
  BY <1>1, <1>2

\* The set mirrors the column of the objects with a row from the start.
LEMMA MirrorInvariant == OverdueSpec => []MInv
<1>1. OverdueInit => MInv
  BY OverdueAssumption DEF OverdueInit, MInv, MirrorInv, NotedMirrorsColumn
<1>2. OverdueIInv /\ MInv /\ [OverdueNext]_overdueVars => MInv'
  BY AroundMirror, TickMirror, UpdateDbMirror, UpdateNotedMirror DEF OverdueNext, Sync
<1> QED
  BY <1>1, <1>2, OverdueInductiveInvariant, PTL DEF OverdueSpec

\* What the set says of an object with a row from the start is what its column
\* says, unless a tick is just changing it: neither is it flagged again every two
\* seconds nor does it stay flagged for ever.
THEOREM SetMirrorsColumn == OverdueSpec => []NotedMirrorsColumn
  BY MirrorInvariant, PTL DEF MInv
\* A flag in the database is always known to the set, so that it is cleared once
\* the object is in time again.
THEOREM FlagsKnown == OverdueSpec => []FlaggedIsNoted
  BY OverdueInductiveInvariant, PTL DEF OverdueIInv
\* Every variable of the overdue sync has its type, for any objects.
THEOREM OverdueTypeCorrect == OverdueSpec => []OverdueTypeOK
  BY OverdueInductiveInvariant, PTL DEF OverdueIInv
===============================================================================
