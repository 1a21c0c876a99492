------------------------------ MODULE HistoryTail -------------------------------
(* The end of a history pipeline: its last stage that writes, with all its     *)
(* goroutines, countElementStage and deleteFromRedis.  Only they can tell when *)
(* an event is deleted from Redis, and whether an error anywhere ends the sync.*)
EXTENDS HistoryStage

VARIABLES
  counter,    \* countElementStage: "receive", "send" or "done"
  counted,    \* the event it has to send, at most one
  collector,  \* the goroutine of com.Bulk in deleteFromRedis: "run" or "done"
  collected,  \* events it holds
  deleter,    \* deleteFromRedis: "run", "failed" (with an error) or "done"
  deleted     \* events deleted from the stream

tailVars == <<counter, counted, collector, collected, deleter, deleted>>
allVars  == <<vars, tailVars>>

TailTypeOK ==
  /\ counter \in {"receive", "send", "done"} /\ counted \subseteq Msg
  /\ counter # "send" => counted = {}
  /\ collector \in {"run", "done"} /\ collected \subseteq Msg
  /\ deleter \in {"run", "failed", "done"} /\ deleted \subseteq Msg

TailInit ==
  /\ Init
  /\ counter = "receive" /\ counted = {}
  /\ collector = "run" /\ collected = {}
  /\ deleter = "run" /\ deleted = {}

-------------------------------------------------------------------------------
(* countElementStage.                                                          *)

\* msg := <-in, which is the out channel of the stage.
Count ==
  /\ Forward
  /\ counter = "receive"
  /\ counter' = "send" /\ counted' = outgoing
  /\ UNCHANGED <<collector, collected, deleter, deleted>>

\* out <- msg, not in a select: only com.Bulk can release the counter.
Collect ==
  /\ counter = "send" /\ collector = "run"
  /\ collected' = collected \cup counted
  /\ counter' = "receive" /\ counted' = {}
  /\ UNCHANGED <<vars, collector, deleter, deleted>>

\* Its context is done, or the forwarder has closed its input.
CounterReturns ==
  /\ counter = "receive" /\ (parent \/ forwarder = "done")
  /\ counter' = "done" /\ NextStops
  /\ UNCHANGED <<counted, collector, collected, deleter, deleted>>

-------------------------------------------------------------------------------
(* deleteFromRedis.                                                            *)

\* com.Bulk stops: it drops what it holds if its context is done, and keeps it for
\* deleteFromRedis if its input is closed.
CollectorReturns ==
  /\ collector = "run"
  /\ \/ parent /\ collected' = {}
     \/ counter = "done" /\ UNCHANGED collected
  /\ collector' = "done"
  /\ UNCHANGED <<vars, counter, counted, deleter, deleted>>

\* XDEL of a bulk.
DeleteBulk(S) ==
  /\ deleter = "run" /\ S # {} /\ S \subseteq collected
  /\ deleted' = deleted \cup S
  /\ collected' = collected \ S
  /\ UNCHANGED <<vars, counter, counted, collector, deleter>>

\* XDEL fails, perhaps after Redis has executed it.
DeleteFails(S) ==
  /\ deleter = "run" /\ collected # {} /\ S \subseteq collected
  /\ deleted' = deleted \cup S
  /\ deleter' = "failed"
  /\ UNCHANGED <<vars, counter, counted, collector, collected>>

\* Its context is done, or com.Bulk has closed its output.
DeleterReturns ==
  /\ deleter = "run"
  /\ parent \/ (collector = "done" /\ collected = {})
  /\ deleter' = "done"
  /\ UNCHANGED <<vars, counter, counted, collector, collected, deleted>>

-------------------------------------------------------------------------------
(* Sync.Sync.                                                                  *)

\* A function of the group has returned an error: the stage when all its
\* goroutines have (g.Wait), the stage before, which has closed in, or
\* deleteFromRedis.
HasError == (Returned /\ cancelled) \/ inClosed \/ deleter = "failed"

\* The group cancels the context of the pipelines.
CancelGroup == HasError /\ Cancel /\ UNCHANGED tailVars

\* Anything else cancels it, or the stage before fails.
PipelineStops ==
  \/ Cancel /\ UNCHANGED tailVars
  \/ PreviousStops /\ UNCHANGED tailVars

\* A fault of the stage.
StageFails ==
  /\ (\E m \in Msg : ReaderFails(m)) \/ UpserterReturns(TRUE)
  /\ UNCHANGED tailVars

TailForwarder ==
  \/ ((\E e \in Entity : Acknowledge(e)) \/ ForwarderReturns) /\ UNCHANGED tailVars
  \/ Count

Counter   == Collect \/ CounterReturns
Deleter   == (\E S \in SUBSET Msg : DeleteBulk(S)) \/ DeleterReturns

TailNext ==
  \/ Reader /\ UNCHANGED tailVars
  \/ Upserter /\ UNCHANGED tailVars
  \/ TailForwarder \/ Counter \/ CollectorReturns \/ Deleter
  \/ CancelGroup
  \/ PipelineStops \/ StageFails \/ (\E S \in SUBSET Msg : DeleteFails(S))

TailSpec == TailInit /\ [][TailNext]_allVars

\* Go schedules every goroutine, database and Redis answer, and the stage before,
\* which has closed its output, returns its error.
TailFairSpec ==
  /\ TailSpec
  /\ WF_allVars(Reader /\ UNCHANGED tailVars)
  /\ WF_allVars(Upserter /\ UNCHANGED tailVars)
  /\ WF_allVars(TailForwarder)
  /\ WF_allVars(Counter) /\ WF_allVars(CollectorReturns) /\ WF_allVars(Deleter)
  /\ WF_allVars(CancelGroup)

-------------------------------------------------------------------------------
(* Properties.                                                                 *)

\* An event is deleted from Redis only after all its rows are in the database,
\* wherever an error or a cancellation hits (StageFunc: "on error conditions, the
\* message must not be forwarded to the next stage").
DeletedIsWritten == \A m \in deleted : Entities(m) \subseteq db

\* Unless the context is cancelled, every event is deleted in the end.
EveryEventDeleted == \A m \in Msg : <>(m \in deleted \/ cancelled)

AllReturned == Returned /\ counter = "done" /\ collector = "done" /\ deleter # "run"

\* One of both sends that are not in a select has lost its receiver for good.
Stuck ==
  \/ reader = "skip" /\ forwarder = "done"
  \/ counter = "send" /\ collector = "done"

\* An error in the stage or a cancellation ends everything, and reaches the
\* context of all pipelines, unless one of these sends is stuck.
StopsUnlessStuck == cancelled ~> (parent /\ AllReturned) \/ Stuck
================================================================================
