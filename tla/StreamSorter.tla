------------------------------ MODULE StreamSorter ------------------------------
(* pkg/notifications/sorter.go: a StreamSorter is a stage of several pipelines   *)
(* of the history sync.  Its worker collects the messages of all of them in a    *)
(* heap for some time, passes them to a callback in the order of their stream    *)
(* IDs and forwards them to the output of their pipeline.                        *)
EXTENDS Integers, FiniteSetsExt, Sequences

CONSTANTS
  Pipeline,  \* the pipelines that have the sorter as a stage
  Inputs,    \* what they may get: functions from Pipeline to sequences of IDs
  MinAge,    \* submissionMinAge
  Patience   \* the time after which submit gives up

ASSUME SorterAssumption ==
  /\ \A input \in Inputs :
       /\ input \in [Pipeline -> Seq(Nat)]
       /\ \A p \in Pipeline : \A i, j \in DOMAIN input[p] : i < j => input[p][i] < input[p][j]
  /\ Patience \in Nat /\ MinAge \in Nat /\ Patience <= MinAge

VARIABLES
  in,         \* what each pipeline still reads
  stage,      \* where each PipelineFunc is: "register", "loop", "submit", "exit", "returned"
  offer,      \* the message each PipelineFunc submits
  age,        \* time since submitTime of each submission, up to MinAge
  heap,       \* submissionHeap
  outputs,    \* registeredOutputs: pending and close, of each registered output
  worker,     \* "top" of the loop, "select", "forward" or "returned"
  running,    \* runningSubmission
  callback,   \* its goroutine: "none", "trying", "done" or "aborted"
  closed,     \* how often each output was closed
  forwarded,  \* what each output got
  stopped,    \* pipelines whose next stage does not read any more
  syncDone,   \* the context of the history sync is done
  sorterDone, \* the context of the sorter, its parent, is done
  calls,      \* messages in the order of their successful callbacks, for properties
  late        \* <<m, n>>: n was due already when m was accepted, for properties

func == <<in, stage, offer>>
loop == <<heap, outputs, worker, running>>
ends == <<closed, forwarded, stopped>>
done == <<syncDone, sorterDone>>
ghosts == <<calls, late>>
vars == <<func, age, loop, callback, ends, done, ghosts>>

None == << >>

\* A message, by its pipeline and ID.
IdOf(m) == m[2]

Accepted == heap \cup (IF running = None THEN {} ELSE {running})

\* streamSorterSubmissions.Less, with equal times in either order.
Less(m, n) == IdOf(m) < IdOf(n) \/ (IdOf(m) = IdOf(n) /\ age[m] > age[n])

IsNext(m) == m \in heap /\ \A n \in heap : ~Less(n, m)

-------------------------------------------------------------------------------
(* PipelineFunc and submit.                                                     *)

\* A map with another entry.
With(map, key, value) ==
  [k \in DOMAIN map \cup {key} |-> IF k = key THEN value ELSE map[k]]

Closes(set) == closed' = [p \in Pipeline |-> closed[p] + (IF p \in set THEN 1 ELSE 0)]

Goto(p, s) == stage' = [stage EXCEPT ![p] = s]

Register(p) ==
  /\ stage[p] = "register" /\ worker = "select"
  /\ outputs' = With(outputs, p, [pending |-> 0, close |-> FALSE])
  /\ worker' = "top" /\ Goto(p, "loop")
  /\ UNCHANGED <<in, offer, age, heap, running, callback, ends, done, ghosts>>

NotRegistered(p) ==
  /\ stage[p] = "register" /\ (syncDone \/ sorterDone)
  /\ Closes({p}) /\ Goto(p, "returned")
  /\ UNCHANGED <<in, offer, age, loop, callback, forwarded, stopped, done, ghosts>>

Receive(p) ==
  /\ stage[p] = "loop" /\ in[p] # << >>
  /\ LET m == <<p, Head(in[p])>>
     IN  /\ offer' = [offer EXCEPT ![p] = m]
         /\ age' = With(age, m, 0)
  /\ in' = [in EXCEPT ![p] = Tail(@)]
  /\ Goto(p, "submit")
  /\ UNCHANGED <<loop, callback, ends, done, ghosts>>

\* The counter of the output, which is closed with its last submission.
PendingAfter(p, d) == outputs[p].pending + d

\* The worker takes the submission.
Accept(p) ==
  /\ stage[p] = "submit" /\ worker = "select"
  /\ heap' = heap \cup {offer[p]}
  /\ outputs' = [outputs EXCEPT ![p].pending = PendingAfter(p, 1)]
  /\ late' = late \cup {<<offer[p], m>> :
                          m \in {n \in DOMAIN age : Less(offer[p], n) /\ age[n] >= MinAge}}
  /\ worker' = "top"
  /\ offer' = [offer EXCEPT ![p] = None] /\ Goto(p, "loop")
  /\ UNCHANGED <<in, age, running, callback, ends, done, calls>>

\* The error is logged and the message is not forwarded.
NotAccepted(p) ==
  /\ stage[p] = "submit"
  /\ age[offer[p]] >= Patience \/ sorterDone
  /\ offer' = [offer EXCEPT ![p] = None] /\ Goto(p, "loop")
  /\ age' = [m \in DOMAIN age \ {offer[p]} |-> age[m]]
  /\ UNCHANGED <<in, loop, callback, ends, done, ghosts>>

\* The input is closed after its last message, or a context is done.
LoopEnds(p) ==
  /\ stage[p] = "loop"
  /\ in[p] = << >> \/ syncDone \/ sorterDone
  /\ Goto(p, "exit")
  /\ UNCHANGED <<in, offer, age, loop, callback, ends, done, ghosts>>

\* The worker closes the output now, or with its last submission.
\* Mutant: now, whatever is pending.
Idle_Always(p) == TRUE

Idle(p) == outputs[p].pending = 0

CloseOut(p) ==
  /\ stage[p] = "exit" /\ worker = "select"
  /\ IF Idle(p)
     THEN /\ Closes({p})
          /\ outputs' = [q \in DOMAIN outputs \ {p} |-> outputs[q]]
     ELSE /\ outputs' = [outputs EXCEPT ![p].close = TRUE]
          /\ UNCHANGED closed
  /\ worker' = "top" /\ Goto(p, "returned")
  /\ UNCHANGED <<in, offer, age, heap, running, callback, forwarded, stopped, done, ghosts>>

\* Mutant: PipelineFunc waits for the worker in any case.
NoCloseOut_Never(p) == FALSE

NoCloseOut(p) ==
  /\ stage[p] = "exit" /\ sorterDone
  /\ Goto(p, "returned")
  /\ UNCHANGED <<in, offer, age, loop, callback, ends, done, ghosts>>

-------------------------------------------------------------------------------
(* The worker and the goroutine of startCallback.                               *)

\* Mutant: a submission need not have an age.
Due_Always(m) == TRUE

Due(m) == age[m] >= MinAge

\* The callback of the first submission is started if that is due.
Top ==
  /\ worker = "top" /\ worker' = "select"
  /\ \/ /\ running = None
        /\ \E m \in heap :
             /\ IsNext(m) /\ Due(m)
             /\ running' = m /\ heap' = heap \ {m}
        /\ callback' = "trying"
     \/ /\ running # None \/ (\A m \in heap : IsNext(m) => ~Due(m))
        /\ UNCHANGED <<heap, running, callback>>
  /\ UNCHANGED <<func, age, outputs, ends, done, ghosts>>

\* The timer for the first submission, which the top of the loop found too young.
NextIsDue ==
  /\ worker = "select" /\ running = None
  /\ \E m \in heap : IsNext(m) /\ Due(m)
  /\ worker' = "top"
  /\ UNCHANGED <<func, age, heap, outputs, running, callback, ends, done, ghosts>>

CallbackSucceeds ==
  /\ callback = "trying"
  /\ callback' = "done" /\ calls' = Append(calls, running)
  /\ UNCHANGED <<func, age, loop, ends, done, late>>

\* The callback has failed and is not tried again.
\* Mutant: at once, without the context being done.
GivesUp_AtOnce == TRUE

GivesUp == sorterDone

CallbackAborted ==
  /\ callback = "trying" /\ GivesUp
  /\ callback' = "aborted"
  /\ UNCHANGED <<func, age, loop, ends, done, ghosts>>

CallbackFinished ==
  /\ worker = "select" /\ callback \in {"done", "aborted"}
  /\ worker' = "forward"
  /\ UNCHANGED <<func, age, heap, outputs, running, callback, ends, done, ghosts>>

\* Mutant: the counter is compared before it is decremented.
IsLast_Zero(p) == outputs[p].close /\ outputs[p].pending = 0

IsLast(p) == outputs[p].close /\ outputs[p].pending = 1

\* The send to the output has no alternative.
Forward ==
  /\ worker = "forward" /\ running[1] \notin stopped
  /\ LET p == running[1]
     IN  /\ forwarded' = [forwarded EXCEPT ![p] = Append(@, running)]
         /\ Closes(IF IsLast(p) THEN {p} ELSE {})
         /\ outputs' = IF IsLast(p) THEN [q \in DOMAIN outputs \ {p} |-> outputs[q]]
                       ELSE [outputs EXCEPT ![p].pending = PendingAfter(p, -1)]
  /\ running' = None /\ callback' = "none" /\ worker' = "top"
  /\ UNCHANGED <<func, age, heap, stopped, done, ghosts>>

WorkerReturns ==
  /\ worker = "select" /\ sorterDone
  /\ Closes(DOMAIN outputs)
  /\ worker' = "returned"
  /\ UNCHANGED <<func, age, heap, outputs, running, callback, forwarded, stopped, done, ghosts>>

-------------------------------------------------------------------------------
(* Time, and what happens around the sorter.                                    *)

Tick ==
  /\ \E m \in DOMAIN age : age[m] < MinAge
  /\ age' = [m \in DOMAIN age |-> Min({age[m] + 1, MinAge})]
  /\ UNCHANGED <<func, loop, callback, ends, done, ghosts>>

\* Another stage has failed, or the process is asked to terminate.
StopSync ==
  /\ ~syncDone /\ syncDone' = TRUE
  /\ UNCHANGED <<func, age, loop, callback, ends, sorterDone, ghosts>>

StopAll ==
  /\ ~sorterDone /\ syncDone' = TRUE /\ sorterDone' = TRUE
  /\ UNCHANGED <<func, age, loop, callback, ends, ghosts>>

NextStageReturns(p) ==
  /\ syncDone /\ p \notin stopped
  /\ stopped' = stopped \cup {p}
  /\ UNCHANGED <<func, age, loop, callback, closed, forwarded, done, ghosts>>

Init ==
  /\ in \in Inputs
  /\ stage = [p \in Pipeline |-> "register"] /\ offer = [p \in Pipeline |-> None]
  /\ age = << >> /\ heap = {} /\ outputs = << >>
  /\ worker = "top" /\ running = None /\ callback = "none"
  /\ closed = [p \in Pipeline |-> 0] /\ forwarded = [p \in Pipeline |-> << >>]
  /\ stopped = {} /\ syncDone = FALSE /\ sorterDone = FALSE
  /\ calls = << >> /\ late = {}

PipelineFunc(p) ==
  \/ Register(p) \/ NotRegistered(p)
  \/ Receive(p) \/ Accept(p) \/ NotAccepted(p)
  \/ LoopEnds(p) \/ CloseOut(p) \/ NoCloseOut(p)

Worker == Top \/ NextIsDue \/ CallbackFinished \/ Forward \/ WorkerReturns

Callback == CallbackSucceeds \/ CallbackAborted

Program == (\E p \in Pipeline : PipelineFunc(p)) \/ Worker \/ Callback \/ Tick

Environment == StopSync \/ StopAll \/ \E p \in Pipeline : NextStageReturns(p)

Next == Program \/ Environment

Spec == Init /\ [][Next]_vars

\* Goroutines go on, time passes and a callback that is tried again and again
\* succeeds at some time.  None of them can take infinitely many steps, so that a
\* condition for all of them together says as much as one for each.
FairSpec == Spec /\ WF_vars(Program)

-------------------------------------------------------------------------------
(* Properties.                                                                  *)

\* The state is well-formed; runningSubmission and runningCallbackCh are nil
\* together, so that the first panic of the worker does not happen.
TypeOK ==
  /\ stage \in [Pipeline -> {"register", "loop", "submit", "exit", "returned"}]
  /\ \A p \in Pipeline : stage[p] = "submit" <=> offer[p] # None
  /\ \A m \in DOMAIN age : m[1] \in Pipeline /\ age[m] \in 0..MinAge
  /\ heap \subseteq DOMAIN age
  /\ \A p \in DOMAIN outputs :
       /\ p \in Pipeline /\ outputs[p].pending \in Nat
       /\ outputs[p].close \in BOOLEAN
  /\ worker \in {"top", "select", "forward", "returned"}
  /\ callback \in {"none", "trying", "done", "aborted"}
  /\ (running = None) <=> (callback = "none")
  /\ stopped \subseteq Pipeline /\ (sorterDone => syncDone)

\* Callbacks are in the order of the stream IDs across all pipelines, except for
\* messages which the worker accepted only when the other one had been submitted
\* for submissionMinAge: the promise of StreamSorter's comment, with the delay
\* measured where it counts.
OrderedUnlessLate ==
  \A i, j \in DOMAIN calls :
    i < j /\ IdOf(calls[j]) < IdOf(calls[i]) => <<calls[j], calls[i]>> \in late

\* Successful callbacks for messages of a pipeline, among the first few.
CallsOf(p, last) == {i \in 1..last : calls[i][1] = p}

\* Unless the sorter is being stopped, the message that leaves the stage as the
\* i-th of its pipeline is the one whose callback has succeeded as the i-th: none
\* leaves before its callback, is left out, repeated or overtaken.
ForwardedAfterCallback ==
  ~sorterDone =>
    \A p \in Pipeline : \A i \in DOMAIN forwarded[p] :
      \E j \in DOMAIN calls :
        /\ calls[j] = forwarded[p][i] /\ calls[j][1] = p
        /\ Cardinality(CallsOf(p, j)) = i

\* No output is closed twice, and none before everything that was accepted for it
\* has been forwarded, unless the sorter is stopped: a send to a closed channel or
\* a second close would panic, and the next stage would miss messages.
ClosedOnceAndLast ==
  \A p \in Pipeline :
    /\ closed[p] <= 1
    /\ closed[p] = 1 /\ worker # "returned" => \A m \in Accepted : m[1] # p
    /\ stage[p] \in {"loop", "submit", "exit"} /\ worker # "returned" => closed[p] = 0

\* The worker waits for a stage that has returned.
Blocked == worker = "forward" /\ running[1] \in stopped

\* Everything that was accepted is forwarded and the outputs of all pipelines,
\* which have got their last message, are closed, unless the sync is stopped.
EverythingForwarded ==
  <>[](syncDone \/ (Accepted = {} /\ \A p \in Pipeline : stage[p] = "returned" /\ closed[p] = 1))

\* When the sync is stopped, every PipelineFunc returns, and the worker if the
\* sorter is stopped too, except when the worker is stuck in a send to a stage
\* that has returned before.
StopsUnlessBlocked ==
  <>[](syncDone =>
         \/ Blocked
         \/ /\ \A p \in Pipeline : stage[p] = "returned"
            /\ sorterDone => worker = "returned")
===============================================================================
