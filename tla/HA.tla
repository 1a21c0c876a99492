---------------------------------- MODULE HA ----------------------------------
(* High availability of Icinga DB: the controller loop of every process, the   *)
(* heartbeat signal that drives it and the icingadb_instance table they share. *)
(*                                                                             *)
(* An Instance is one process incarnation (NewHA draws a fresh UUID), so a     *)
(* restart is another element of Instance with the same Endpoint.  Times are   *)
(* kept as ages in ticks that saturate at Cap: nothing in the code tells two   *)
(* ages above PeerTimeout apart.  A transaction of realize() is one atomic     *)
(* step: it locks the rows it reads and runs serializable.                     *)
EXTENDS Naturals, FiniteSets

CONSTANTS
  Instance,     \* process incarnations
  Endpoint,     \* Icinga 2 endpoint each one is attached to
  Reliable,     \* incarnations the environment neither stops nor crashes
  Notifying,    \* incarnations configured to feed Icinga Notifications
  Timeout,      \* icingaredis.Timeout: heartbeat expiry, and realize's deadline
  PeerTimeout,  \* age from which a peer's row counts as expired
  MaxLag,       \* oldest an Icinga 2 message can be when it is received
  MaxGap        \* longest silence after which a stream not yet lost resumes

Cap == PeerTimeout + 1

ASSUME TimeAssumption ==
  /\ Timeout \in Nat \ {0}
  /\ PeerTimeout \in Nat
  /\ Timeout <= PeerTimeout
  /\ MaxLag \in 0..Cap
  /\ MaxGap \in 0..Cap
  /\ Reliable \subseteq Instance
  /\ Notifying \subseteq Instance

VARIABLES
  status,       \* "new", "up" or "gone"
  pc,           \* where the controller loop of an instance is
  tx,           \* decision of the transaction whose signal is due
  curAge,       \* age of the heartbeat being realized, since it was received
  responsible,  \* HA.responsible
  other,        \* haState.otherResponsible, published to telemetry
  unhealthy,    \* notifications unhealthy for longer than retry.DefaultTimeout
  cleanup,      \* removeOldInstances: not started, waiting, done
  active,       \* Heartbeat.active
  recvAge,      \* age of Heartbeat.lastReceivedMs
  msgAge,       \* age of Heartbeat.lastMessageMs
  event,        \* content of the one-slot Heartbeat.events channel
  row,          \* icingadb_instance.responsible of an instance, or no row
  rowAge        \* age of icingadb_instance.heartbeat

mem   == <<status, pc, tx, curAge, responsible, other, unhealthy, cleanup>>
beats == <<active, recvAge, msgAge, event>>
db    == <<row, rowAge>>
vars  == <<status, pc, tx, curAge, responsible, other, unhealthy, cleanup,
           active, recvAge, msgAge, event, row, rowAge>>

Age == 0..Cap

TypeOK ==
  /\ status \in [Instance -> {"new", "up", "gone"}]
  /\ pc \in [Instance -> {"wait", "verify", "realize", "signal", "lost"}]
  /\ tx \in [Instance -> {"none", "takeover", "other", "keep"}]
  /\ curAge \in [Instance -> Age]
  /\ responsible \in [Instance -> BOOLEAN]
  /\ other \in [Instance -> BOOLEAN]
  /\ unhealthy \in [Instance -> BOOLEAN]
  /\ cleanup \in [Instance -> {"idle", "armed", "done"}]
  /\ active \in [Instance -> BOOLEAN]
  /\ recvAge \in [Instance -> Age]
  /\ msgAge \in [Instance -> Age]
  /\ event \in [Instance -> {"none", "beat", "lost"}]
  /\ row \in [Instance -> {"none", "y", "n"}]
  /\ rowAge \in [Instance -> Age]

Up(i) == status[i] = "up"

Init ==
  /\ status = [i \in Instance |-> "new"]
  /\ pc = [i \in Instance |-> "wait"]
  /\ tx = [i \in Instance |-> "none"]
  /\ curAge = [i \in Instance |-> 0]
  /\ responsible = [i \in Instance |-> FALSE]
  /\ other = [i \in Instance |-> FALSE]
  /\ unhealthy = [i \in Instance |-> FALSE]
  /\ cleanup = [i \in Instance |-> "idle"]
  /\ active = [i \in Instance |-> FALSE]
  /\ recvAge = [i \in Instance |-> Cap]
  /\ msgAge = [i \in Instance |-> Cap]
  /\ event = [i \in Instance |-> "none"]
  /\ row = [i \in Instance |-> "none"]
  /\ rowAge = [i \in Instance |-> Cap]

-------------------------------------------------------------------------------
(* Heartbeat: the state loop turns messages and silence into events.  The      *)
(* one-slot channel always holds the newest event: sendEvent drops an older    *)
(* one that was not delivered, be it a beat or a loss.                         *)

\* A message published by Icinga 2 lag ticks ago arrives.  MaxGap = Cap puts no
\* restriction on when; a smaller MaxGap restricts the environment.
ReceiveBeat(i) ==
  /\ Up(i)
  /\ active[i] \/ event[i] = "lost" => recvAge[i] <= MaxGap
  /\ active' = [active EXCEPT ![i] = TRUE]
  /\ recvAge' = [recvAge EXCEPT ![i] = 0]
  /\ \E lag \in 0..MaxLag : msgAge' = [msgAge EXCEPT ![i] = lag]
  /\ event' = [event EXCEPT ![i] = "beat"]
  /\ UNCHANGED <<mem, db>>

\* No message for Timeout: the loss is announced once, both times are reset.
LoseBeat(i) ==
  /\ Up(i) /\ active[i]
  /\ recvAge[i] >= Timeout
  /\ active' = [active EXCEPT ![i] = FALSE]
  /\ recvAge' = [recvAge EXCEPT ![i] = Cap]
  /\ msgAge' = [msgAge EXCEPT ![i] = Cap]
  /\ event' = [event EXCEPT ![i] = "lost"]
  /\ UNCHANGED <<mem, db>>

-------------------------------------------------------------------------------
(* The controller loop.                                                        *)

Idle(i) == Up(i) /\ pc[i] = "wait"

\* Mutant: the handover is published but the flag is kept.
SignalHandover_Forgets(i) ==
  /\ other' = [other EXCEPT ![i] = other[i] /\ ~responsible[i]]
  /\ UNCHANGED responsible

\* signalHandover: publish the state, send on the handover channel.
SignalHandover(i) ==
  /\ responsible' = [responsible EXCEPT ![i] = FALSE]
  /\ other' = [other EXCEPT ![i] = other[i] /\ ~responsible[i]]

\* A beat whose message is older than PeerTimeout gives up responsibility.
TakePastBeat(i) ==
  /\ Idle(i) /\ event[i] = "beat"
  /\ msgAge[i] > PeerTimeout
  /\ event' = [event EXCEPT ![i] = "none"]
  /\ SignalHandover(i)
  /\ pc' = [pc EXCEPT ![i] = "lost"]
  /\ UNCHANGED <<status, tx, curAge, unhealthy, cleanup,
                 active, recvAge, msgAge, db>>

\* Any other beat is realized until it expires, after the notifications check.
TakeBeat(i) ==
  /\ Idle(i) /\ event[i] = "beat"
  /\ msgAge[i] <= PeerTimeout
  /\ event' = [event EXCEPT ![i] = "none"]
  /\ curAge' = [curAge EXCEPT ![i] = recvAge[i]]
  /\ pc' = [pc EXCEPT ![i] = IF unhealthy[i] THEN "verify" ELSE "realize"]
  /\ UNCHANGED <<status, tx, responsible, other, unhealthy, cleanup,
                 active, recvAge, msgAge, db>>

\* Mutant: the nil event is only logged.
TakeLoss_Ignored(i) ==
  /\ Idle(i) /\ event[i] = "lost"
  /\ event' = [event EXCEPT ![i] = "none"]
  /\ UNCHANGED <<mem, active, recvAge, msgAge, db>>

\* The nil event.
TakeLoss(i) ==
  /\ Idle(i) /\ event[i] = "lost"
  /\ event' = [event EXCEPT ![i] = "none"]
  /\ SignalHandover(i)
  /\ pc' = [pc EXCEPT ![i] = "lost"]
  /\ UNCHANGED <<status, tx, curAge, unhealthy, cleanup,
                 active, recvAge, msgAge, db>>

\* verifyNotificationsState with more than one row in the table.  The query of
\* instanceCount has no deadline: it may be answered at any time, even after the
\* beat has expired.
HandOverUnhealthy(i) ==
  /\ Up(i) /\ pc[i] = "verify"
  /\ Cardinality({j \in Instance : row[j] # "none"}) > 1
  /\ SignalHandover(i)
  /\ unhealthy' = [unhealthy EXCEPT ![i] = FALSE]
  /\ curAge' = [curAge EXCEPT ![i] = 0]
  /\ pc' = [pc EXCEPT ![i] = "lost"]
  /\ UNCHANGED <<status, tx, cleanup, beats, db>>

\* It finds no other instance, or the count fails and yields 0.
StayUnhealthy(i) ==
  /\ Up(i) /\ pc[i] = "verify"
  /\ pc' = [pc EXCEPT ![i] = "realize"]
  /\ UNCHANGED <<status, tx, curAge, responsible, other, unhealthy, cleanup,
                 beats, db>>

\* realizeLostHeartbeat; a failing UPDATE is only logged.
RealizeLostHeartbeat(i) ==
  /\ Up(i) /\ pc[i] = "lost"
  /\ \/ row' = [row EXCEPT ![i] = IF @ = "y" THEN "n" ELSE @]
     \/ UNCHANGED row
  /\ pc' = [pc EXCEPT ![i] = "wait"]
  /\ UNCHANGED <<status, tx, curAge, responsible, other, unhealthy, cleanup,
                 beats, rowAge>>

-------------------------------------------------------------------------------
(* realize: one retryable transaction.                                         *)

\* Mutant: without the 5 seconds that peerTimeout adds.
Expired_AtTimeout(j) == rowAge[j] > Timeout

\* A row's heartbeat is before now - peerTimeout.
Expired(j) == rowAge[j] > PeerTimeout

\* Rows of other instances the SELECT ... FOR UPDATE may return.
Claimants(i) == {j \in Instance \ {i} : row[j] = "y"}

\* Other incarnations of the Icinga DB attached to the same endpoint.
Siblings(i) == {j \in Instance \ {i} : Endpoint[j] = Endpoint[i]}

\* Mutant: another claimant is respected forever.
Decisions_Respectful(i) ==
  IF Claimants(i) # {} THEN {"other"}
  ELSE {IF responsible[i] THEN "keep" ELSE "takeover"}

\* What the transaction may decide.  The SELECT has no ORDER BY and only its
\* first row is read: with two claimants any of them may decide.
Decisions(i) ==
  IF Claimants(i) = {}
    THEN {IF responsible[i] THEN "keep" ELSE "takeover"}
    ELSE {IF Expired(j) THEN "takeover" ELSE "other" : j \in Claimants(i)}

\* Upsert of the own row and, on a takeover, the UPDATE of all the others.
RowsAfter(i, d) ==
  [j \in Instance |->
     IF j = i THEN IF d = "takeover" \/ responsible[i] THEN "y" ELSE "n"
     ELSE IF d = "takeover" /\ row[j] = "y" THEN "n" ELSE row[j]]

\* The transaction commits before the deadline and the process learns of it.
RealizeCommit(i) ==
  /\ Up(i) /\ pc[i] = "realize" /\ curAge[i] < Timeout
  /\ \E d \in Decisions(i) :
       /\ row' = RowsAfter(i, d)
       /\ tx' = [tx EXCEPT ![i] = d]
  /\ rowAge' = [rowAge EXCEPT ![i] = msgAge[i]]
  /\ pc' = [pc EXCEPT ![i] = "signal"]
  /\ curAge' = [curAge EXCEPT ![i] = 0]
  /\ UNCHANGED <<status, responsible, other, unhealthy, cleanup, beats>>

\* It commits but the process does not learn of it: the reply is lost and the
\* function is retried, or COMMIT goes on in the background past the deadline;
\* the locks it keeps until then let it count from when it read the rows.
RealizeUnseen(i) ==
  /\ Up(i) /\ pc[i] = "realize" /\ curAge[i] < Timeout
  /\ \E d \in Decisions(i) : row' = RowsAfter(i, d)
  /\ rowAge' = [rowAge EXCEPT ![i] = msgAge[i]]
  /\ UNCHANGED <<mem, beats>>

\* DeadlineExceeded: hand over and wait for the next event.
RealizeDeadline(i) ==
  /\ Up(i) /\ pc[i] = "realize" /\ curAge[i] >= Timeout
  /\ SignalHandover(i)
  /\ pc' = [pc EXCEPT ![i] = "wait"]
  /\ curAge' = [curAge EXCEPT ![i] = 0]
  /\ UNCHANGED <<status, tx, unhealthy, cleanup, beats, db>>

\* signalTakeover, or signalHandover where another instance is responsible.
ResponsibleAfter(i) ==
  tx[i] = "takeover" \/ (tx[i] = "keep" /\ responsible[i])

\* haState.otherResponsible, which only signalTakeover and signalHandover reset.
OtherAfter(i) ==
  tx[i] = "other" \/ (other[i] /\ (tx[i] = "keep" \/ responsible[i]))

\* After the commit.  The first success starts removeOldInstances; where no
\* other incarnation has the endpoint, its DELETE can match no row and is left
\* out.
Signal(i) ==
  /\ Up(i) /\ pc[i] = "signal"
  /\ responsible' = [responsible EXCEPT ![i] = ResponsibleAfter(i)]
  /\ other' = [other EXCEPT ![i] = OtherAfter(i)]
  /\ cleanup' = [cleanup EXCEPT
       ![i] = IF @ = "idle" /\ Siblings(i) # {} THEN "armed" ELSE @]
  /\ tx' = [tx EXCEPT ![i] = "none"]
  /\ pc' = [pc EXCEPT ![i] = "wait"]
  /\ UNCHANGED <<status, curAge, unhealthy, beats, db>>

-------------------------------------------------------------------------------
(* Around the loop.                                                            *)

\* Mutant: the DELETE has no condition on the heartbeat.
Outdated_Any(i) == Siblings(i)

\* Rows of the same endpoint that have expired.
Outdated(i) == {j \in Siblings(i) : Expired(j)}

\* removeOldInstances, once per process, some time after the first success.
RemoveOldInstances(i) ==
  /\ Up(i) /\ cleanup[i] = "armed"
  /\ row' = [j \in Instance |-> IF j \in Outdated(i) THEN "none" ELSE row[j]]
  /\ rowAge' = [j \in Instance |-> IF j \in Outdated(i) THEN Cap ELSE rowAge[j]]
  /\ cleanup' = [cleanup EXCEPT ![i] = "done"]
  /\ UNCHANGED <<status, pc, tx, curAge, responsible, other, unhealthy, beats>>

\* Icinga Notifications turned unhealthy for long, or healthy again.
NotificationsHealth(i) ==
  /\ Idle(i) /\ i \in Notifying
  /\ unhealthy' = [unhealthy EXCEPT ![i] = ~unhealthy[i]]
  /\ UNCHANGED <<status, pc, tx, curAge, responsible, other, cleanup, beats, db>>

\* NewHA with NewHeartbeat.
Start(i) ==
  /\ status[i] = "new"
  /\ status' = [status EXCEPT ![i] = "up"]
  /\ UNCHANGED <<pc, tx, curAge, responsible, other, unhealthy, cleanup, beats, db>>

\* The memory of the process is gone.
Vanish(i) ==
  /\ Up(i) /\ i \notin Reliable
  /\ status' = [status EXCEPT ![i] = "gone"]
  /\ pc' = [pc EXCEPT ![i] = "wait"]
  /\ tx' = [tx EXCEPT ![i] = "none"]
  /\ curAge' = [curAge EXCEPT ![i] = 0]
  /\ responsible' = [responsible EXCEPT ![i] = FALSE]
  /\ other' = [other EXCEPT ![i] = FALSE]
  /\ unhealthy' = [unhealthy EXCEPT ![i] = FALSE]
  /\ cleanup' = [cleanup EXCEPT ![i] = "idle"]
  /\ active' = [active EXCEPT ![i] = FALSE]
  /\ recvAge' = [recvAge EXCEPT ![i] = Cap]
  /\ msgAge' = [msgAge EXCEPT ![i] = Cap]
  /\ event' = [event EXCEPT ![i] = "none"]

\* Close on a signal: the own row is deleted (a failing DELETE is a Crash).
Close(i) ==
  /\ Vanish(i)
  /\ row' = [row EXCEPT ![i] = "none"]
  /\ rowAge' = [rowAge EXCEPT ![i] = Cap]

\* A crash, or abort: main's Fatal skips the deferred Close, the row stays.
Crash(i) == Vanish(i) /\ UNCHANGED db

-------------------------------------------------------------------------------
(* Time.  Timers fire and the loop reacts within the tick they are due: the    *)
(* processes are scheduled.  Only the database may let time pass: in realize   *)
(* until the deadline, in instanceCount and realizeLostHeartbeat without end.  *)

Due(i) ==
  /\ Up(i)
  /\ \/ active[i] /\ recvAge[i] >= Timeout
     \/ pc[i] = "wait" /\ event[i] # "none"
     \/ pc[i] = "realize" /\ curAge[i] >= Timeout
     \/ pc[i] = "signal"

Older(age) == [i \in Instance |-> IF age[i] < Cap THEN age[i] + 1 ELSE Cap]

Tick ==
  /\ \A i \in Instance : ~Due(i)
  /\ curAge' = [i \in Instance |->
                  IF pc[i] \in {"verify", "realize"} THEN Older(curAge)[i] ELSE 0]
  /\ recvAge' = Older(recvAge)
  /\ msgAge' = Older(msgAge)
  /\ rowAge' = Older(rowAge)
  /\ UNCHANGED <<status, pc, tx, responsible, other, unhealthy, cleanup,
                 active, event, row>>

Heartbeats(i) == ReceiveBeat(i) \/ LoseBeat(i)
Realize(i)    == RealizeCommit(i) \/ RealizeUnseen(i) \/ RealizeDeadline(i) \/ Signal(i)
Take(i)       == TakePastBeat(i) \/ TakeBeat(i) \/ TakeLoss(i)
Verify(i)     == HandOverUnhealthy(i) \/ StayUnhealthy(i)
Lifecycle(i)  == Start(i) \/ Close(i) \/ Crash(i)

Next ==
  \/ Tick
  \/ \E i \in Instance :
       \/ Heartbeats(i) \/ Take(i) \/ Verify(i) \/ Realize(i)
       \/ RealizeLostHeartbeat(i) \/ RemoveOldInstances(i)
       \/ NotificationsHealth(i) \/ Lifecycle(i)

Spec == Init /\ [][Next]_vars

\* Everything of an instance that depends on its own timers and loop alone, and
\* the UPDATE of realizeLostHeartbeat, which returns, be it with an error.
Loop(i) ==
  \/ Take(i) \/ Verify(i) \/ Signal(i) \/ RealizeDeadline(i)
  \/ LoseBeat(i) \/ RealizeLostHeartbeat(i)

\* Time advances, processes start, the loop runs.  For a process that stays up,
\* beats keep coming, and a database that is asked again and again by it answers
\* in time again and again: to realize and to the UPDATE after a loss.  Of the
\* others only takeovers must succeed in time now and then: one that commits
\* forever without learning of it would renew its claim forever.
Fairness ==
  /\ SF_vars(Tick)
  /\ \A i \in Instance :
       /\ WF_vars(Start(i)) /\ WF_vars(Loop(i))
       /\ SF_vars(RealizeCommit(i) /\ tx'[i] = "takeover")
  /\ \A i \in Reliable :
       /\ SF_vars(ReceiveBeat(i)) /\ SF_vars(RealizeCommit(i))
       /\ SF_vars(/\ RealizeLostHeartbeat(i)
                  /\ recvAge[i] < Timeout /\ msgAge[i] <= PeerTimeout)

FairSpec == Spec /\ Fairness

-------------------------------------------------------------------------------
(* Properties.                                                                 *)

\* What keeps a claim alive while its holder may still act on it: the 5 seconds
\* by which peerTimeout exceeds the heartbeat timeout cover the age of a message
\* at its arrival and the silence before it.
Margin == Timeout + MaxGap + MaxLag <= PeerTimeout

\* Responsible, or about to learn that the takeover it committed succeeded.
Holder(i) == responsible[i] \/ (pc[i] = "signal" /\ tx[i] = "takeover")

\* instanceCount has not been answered when the beat at hand expired, and has
\* kept the loop busy beyond that moment: for so long the process cannot notice
\* that it has lost its claim.
Stalled(i) == curAge[i] > Timeout

\* Two processes never both believe to be responsible (h.responsible), not even
\* while one of them still waits for the signal of its committed takeover.  The
\* exception is a process whose loop hangs in instanceCount: the query has no
\* deadline (ha.go:544), and others take over meanwhile.
ExclusiveResponsibility ==
  \A i, j \in Instance :
    Holder(i) /\ Holder(j) => i = j \/ Stalled(i) \/ Stalled(j)

\* The database never contradicts a responsible process, except where it hangs
\* in instanceCount: its row says 'y', has not expired in the eyes of its peers,
\* and no other row says 'y'.
LeaseHeld ==
  \A i \in Instance : Holder(i) /\ ~Stalled(i) =>
    /\ row[i] = "y" /\ ~Expired(i)
    /\ \A j \in Instance \ {i} : row[j] # "y"

\* Icinga 2 or Redis has been silent for longer than Timeout and the process is
\* still responsible, although nothing is about to end that.
SilentHolder(i) == responsible[i] /\ recvAge[i] > Timeout /\ ~Due(i)

\* After a silence longer than Timeout no time passes with a process still
\* responsible, whatever realize, a lost COMMIT or a message from before does to
\* its loop, with one exception.  instanceCount waits for its answer on a context
\* without a deadline and puts the release off, once the beat that it is asked
\* for has expired: there the code does not keep what doc/05-Distributed-Setups.md
\* says in lines 53-54.
SilenceReleases ==
  \A i \in Instance :
    SilentHolder(i) => pc[i] = "verify" /\ curAge[i] >= Timeout

\* Telemetry never reports the own process and another one as responsible.
PublishedStateConsistent ==
  \A i \in Instance : ~(responsible[i] /\ other[i])

\* A process's claim in the table is only revoked by another one after the
\* claim has expired (realize's UPDATE ... WHERE id <> ?).
NoFreshRevocation ==
  [][\A i \in Instance :
       row[i] = "y" /\ row'[i] # "y" /\ pc'[i] = pc[i] /\ status'[i] = status[i]
         => Expired(i)]_vars

\* Again and again exactly one process is responsible, whatever crashes, lost
\* replies, stale rows and handovers happen in between: nobody respects the claim
\* of a dead process forever, and of two processes that both believe to be
\* responsible one sees the other's claim in realize and hands over.
SettlesOnOne == []<>(Cardinality({i \in Instance : responsible[i]}) = 1)
===============================================================================
