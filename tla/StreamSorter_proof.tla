--------------------------- MODULE StreamSorter_proof ----------------------------
(* For any pipelines, messages and delays: the order of the callbacks, what is *)
(* forwarded, and that every output is closed once and last.                   *)
EXTENDS StreamSorter, FiniteSetTheorems, TLAPS

Message == Pipeline \X Nat

\* Messages whose callback has succeeded, or has been started.
Called == {calls[i] : i \in DOMAIN calls}
Started == Called \cup (IF running = None THEN {} ELSE {running})

Held(p) == {m \in Accepted : m[1] = p}

\* The types of the model, down to the messages.
TypeInv ==
  /\ in \in [Pipeline -> Seq(Nat)]
  /\ stage \in [Pipeline -> {"register", "loop", "submit", "exit", "returned"}]
  /\ offer \in [Pipeline -> Message \cup {None}]
  /\ DOMAIN age \subseteq Message /\ age \in [DOMAIN age -> 0..MinAge]
  /\ heap \subseteq DOMAIN age /\ IsFiniteSet(heap)
  /\ DOMAIN outputs \subseteq Pipeline
  /\ outputs \in [DOMAIN outputs -> [pending : Nat, close : BOOLEAN]]
  /\ worker \in {"top", "select", "forward", "returned"}
  /\ running \in DOMAIN age \cup {None}
  /\ callback \in {"none", "trying", "done", "aborted"}
  /\ closed \in [Pipeline -> Nat]
  /\ forwarded \in [Pipeline -> Seq(Message)]
  /\ stopped \subseteq Pipeline
  /\ syncDone \in BOOLEAN /\ sorterDone \in BOOLEAN /\ (sorterDone => syncDone)
  /\ calls \in Seq(Message)

\* What the worker is doing: submit and the callback wait for it.
PhaseInv ==
  /\ \A p \in Pipeline : stage[p] = "submit" <=> offer[p] # None
  /\ (running = None) <=> (callback = "none")
  /\ worker = "forward" => callback \in {"done", "aborted"}

\* No message is there twice: IDs increase in each pipeline.
UniqueInv ==
  /\ \A p \in Pipeline :
       /\ \A i, j \in DOMAIN in[p] : i < j => in[p][i] < in[p][j]
       /\ \A m \in DOMAIN age, i \in DOMAIN in[p] : m[1] = p => m[2] < in[p][i]
       /\ offer[p] # None =>
            /\ offer[p] \in DOMAIN age /\ offer[p][1] = p
            /\ offer[p] \notin heap \cup Started
  /\ Started \subseteq DOMAIN age
  /\ running \notin heap

\* What was started was due, and whatever precedes it came late.
OrderInv ==
  /\ \A n \in Started : age[n] = MinAge
  /\ \A m \in heap, n \in Started : IdOf(m) < IdOf(n) => <<m, n>> \in late
  /\ running # None =>
       \A n \in Called : IdOf(running) < IdOf(n) => <<running, n>> \in late
  /\ OrderedUnlessLate

\* An output is registered until it is closed, and counts what is held for it.
OutputInv ==
  \A p \in Pipeline :
    /\ stage[p] \in {"loop", "submit", "exit"} => p \in DOMAIN outputs
    /\ stage[p] = "register" => p \notin DOMAIN outputs /\ closed[p] = 0
    /\ p \in DOMAIN outputs =>
         /\ closed[p] = (IF worker = "returned" THEN 1 ELSE 0)
         /\ outputs[p].close => stage[p] = "returned"
         /\ outputs[p].pending = Cardinality(Held(p))
    /\ p \notin DOMAIN outputs => Held(p) = {}
    /\ closed[p] <= 1

\* What has been forwarded are the successful callbacks, but for the last one
\* while the worker has not forwarded that.
ForwardInv ==
  ~sorterDone =>
    /\ callback # "aborted"
    /\ callback = "done" => calls # << >> /\ calls[Len(calls)] = running
    /\ \A p \in Pipeline :
         Cardinality(CallsOf(p, Len(calls))) =
           Len(forwarded[p]) + (IF callback = "done" /\ running[1] = p THEN 1 ELSE 0)
    /\ ForwardedAfterCallback

IInv == TypeInv /\ PhaseInv /\ UniqueInv /\ OrderInv /\ OutputInv /\ ForwardInv
-------------------------------------------------------------------------------
(* Facts about the operators.                                                   *)

LEMMA MessageFacts ==
  ASSUME NEW m \in Message
  PROVE  m[1] \in Pipeline /\ m[2] \in Nat /\ m # None /\ IdOf(m) = m[2]
<1>1. PICK p \in Pipeline, id \in Nat : m = <<p, id>>
  BY DEF Message
<1>2. <<p, id>>[1] = p /\ <<p, id>>[2] = id /\ <<p, id>> # << >>
  OBVIOUS
<1> QED
  BY <1>1, <1>2 DEF None, IdOf

LEMMA MinFacts ==
  ASSUME NEW a \in Nat, NEW b \in Nat
  PROVE  Min({a, b}) = IF a <= b THEN a ELSE b
BY DEF Min

LEMMA NewMessage ==
  ASSUME NEW p \in Pipeline, NEW id \in Nat
  PROVE  <<p, id>> \in Message /\ <<p, id>>[1] = p /\ <<p, id>>[2] = id
BY DEF Message

LEMMA WithFacts ==
  ASSUME NEW map, NEW key, NEW value
  PROVE  /\ DOMAIN With(map, key, value) = DOMAIN map \cup {key}
         /\ With(map, key, value)[key] = value
         /\ \A k \in DOMAIN map \ {key} : With(map, key, value)[k] = map[k]
         /\ With(map, key, value) =
              [k \in DOMAIN map \cup {key} |-> With(map, key, value)[k]]
BY DEF With

LEMMA AppendFacts ==
  ASSUME NEW S, NEW s \in Seq(S), NEW x \in S
  PROVE  /\ Append(s, x) \in Seq(S) /\ Len(Append(s, x)) = Len(s) + 1
         /\ DOMAIN Append(s, x) = DOMAIN s \cup {Len(s) + 1}
         /\ \A i \in DOMAIN s : Append(s, x)[i] = s[i]
         /\ Append(s, x)[Len(s) + 1] = x
         /\ DOMAIN s = 1..Len(s) /\ Len(s) \in Nat
OBVIOUS

LEMMA HeadTailFacts ==
  ASSUME NEW S, NEW s \in Seq(S), s # << >>
  PROVE  /\ Head(s) = s[1] /\ 1 \in DOMAIN s /\ s[1] \in S
         /\ Tail(s) \in Seq(S)
         /\ \A i \in DOMAIN Tail(s) :
              i \in Nat \ {0} /\ i + 1 \in DOMAIN s /\ Tail(s)[i] = s[i + 1]
OBVIOUS

LEMMA ClosesFacts ==
  ASSUME TypeInv, NEW set, Closes(set)
  PROVE  /\ closed' \in [Pipeline -> Nat]
         /\ \A p \in Pipeline :
              closed'[p] = IF p \in set THEN closed[p] + 1 ELSE closed[p]
BY DEF TypeInv, Closes

LEMMA HeldFacts ==
  ASSUME IInv
  PROVE  /\ IsFiniteSet(Accepted) /\ Accepted \subseteq DOMAIN age
         /\ \A p : IsFiniteSet(Held(p)) /\ Cardinality(Held(p)) \in Nat
         /\ running # None =>
              /\ running \in Message /\ running[1] \in DOMAIN outputs
              /\ running \in Held(running[1])
              /\ outputs[running[1]].pending \in Nat \ {0}
<1> USE DEF IInv
<1>1. IsFiniteSet(Accepted)
  BY FS_Union, FS_Singleton, FS_EmptySet DEF Accepted, TypeInv
<1>2. Accepted \subseteq DOMAIN age
  BY DEF Accepted, TypeInv
<1>3. ASSUME NEW p PROVE IsFiniteSet(Held(p)) /\ Cardinality(Held(p)) \in Nat
  BY <1>1, FS_Subset, FS_CardinalityType DEF Held
<1>4. ASSUME running # None
      PROVE  /\ running \in Message /\ running[1] \in DOMAIN outputs
             /\ running \in Held(running[1])
             /\ outputs[running[1]].pending \in Nat \ {0}
  <2>1. running \in Message /\ running[1] \in Pipeline
    BY <1>4, MessageFacts DEF TypeInv
  <2>2. running \in Held(running[1])
    BY <1>4 DEF Held, Accepted
  <2>3. /\ running[1] \in DOMAIN outputs
        /\ outputs[running[1]].pending = Cardinality(Held(running[1]))
    BY <2>1, <2>2 DEF OutputInv
  <2>4. Cardinality(Held(running[1])) # 0
    BY <1>3, <2>2, FS_EmptySet
  <2> QED
    BY <1>3, <2>1, <2>2, <2>3, <2>4
<1> QED
  BY <1>1, <1>2, <1>3, <1>4

LEMMA TypeStep ==
  ASSUME IInv, [Next]_vars
  PROVE  TypeInv'
<1> USE SorterAssumption DEF IInv, TypeInv
<1>0. /\ offer \in [Pipeline -> Message \cup {None}]
      /\ \A p \in Pipeline : offer[p] # None =>
           /\ offer[p] \in DOMAIN age /\ offer[p][1] = p
           /\ offer[p] \notin heap \cup Started
  BY DEF UniqueInv
<1>1. ASSUME NEW p \in Pipeline, Register(p) PROVE TypeInv'
  <2> DEFINE new == [pending |-> 0, close |-> FALSE]
  <2>1. new \in [pending : Nat, close : BOOLEAN]
    OBVIOUS
  <2> HIDE DEF new
  <2>2. outputs' = With(outputs, p, new)
    BY <1>1 DEF Register, new
  <2>3. /\ DOMAIN outputs' \subseteq Pipeline
        /\ outputs' \in [DOMAIN outputs' -> [pending : Nat, close : BOOLEAN]]
    BY <2>1, <2>2 DEF With
  <2> QED
    BY <1>1, <2>3 DEF Register, Goto, ends, done, ghosts
<1>2. ASSUME NEW p \in Pipeline, NotRegistered(p) PROVE TypeInv'
  BY <1>2, ClosesFacts DEF NotRegistered, Goto, loop, done, ghosts
<1>3. ASSUME NEW p \in Pipeline, Receive(p) PROVE TypeInv'
  <2> DEFINE m == <<p, Head(in[p])>>
  <2>1. /\ in[p] \in Seq(Nat) /\ in[p] # << >>
        /\ offer' = [offer EXCEPT ![p] = m] /\ age' = With(age, m, 0)
        /\ in' = [in EXCEPT ![p] = Tail(@)]
        /\ UNCHANGED <<loop, callback, ends, done, ghosts>>
        /\ stage' = [stage EXCEPT ![p] = "submit"]
    BY <1>3 DEF Receive, Goto
  <2>2. m \in Message /\ Tail(in[p]) \in Seq(Nat)
    BY <2>1, HeadTailFacts, NewMessage
  <2> HIDE DEF m
  <2>3. /\ DOMAIN age' = DOMAIN age \cup {m}
        /\ age' \in [DOMAIN age' -> 0..MinAge]
    BY <2>1 DEF With
  <2> QED
    BY <2>1, <2>2, <2>3 DEF loop, ends, done, ghosts
<1>4. ASSUME NEW p \in Pipeline, Accept(p) PROVE TypeInv'
  <2>1. stage[p] = "submit" /\ offer[p] \in DOMAIN age /\ p \in DOMAIN outputs
    BY <1>0, <1>4 DEF Accept, PhaseInv, OutputInv
  <2>2. outputs[p].pending + 1 \in Nat
    BY <2>1
  <2>3. /\ DOMAIN outputs' \subseteq Pipeline
        /\ outputs' \in [DOMAIN outputs' -> [pending : Nat, close : BOOLEAN]]
    BY <1>4, <2>1, <2>2 DEF Accept, PendingAfter
  <2>4. heap' \subseteq DOMAIN age /\ IsFiniteSet(heap')
    BY <1>4, <2>1, FS_AddElement DEF Accept
  <2> QED
    BY <1>4, <2>3, <2>4 DEF Accept, Goto, ends, done
<1>5. ASSUME NEW p \in Pipeline, NotAccepted(p) PROVE TypeInv'
  <2>1. offer[p] \notin heap \cup Started /\ DOMAIN age' = DOMAIN age \ {offer[p]}
    BY <1>0, <1>5 DEF NotAccepted, PhaseInv
  <2>2. running \in DOMAIN age' \cup {None} /\ heap \subseteq DOMAIN age'
    BY <2>1 DEF Started
  <2>3. age' \in [DOMAIN age' -> 0..MinAge]
    BY <1>5 DEF NotAccepted
  <2> QED
    BY <1>5, <2>1, <2>2, <2>3 DEF NotAccepted, Goto, loop, ends, done, ghosts
<1>6. ASSUME NEW p \in Pipeline, LoopEnds(p) \/ NoCloseOut(p) PROVE TypeInv'
  <2>1. /\ stage' \in [Pipeline -> {"register", "loop", "submit", "exit", "returned"}]
        /\ UNCHANGED <<in, offer, age, loop, callback, ends, done, ghosts>>
    BY <1>6 DEF LoopEnds, NoCloseOut, Goto
  <2> QED
    BY <2>1 DEF loop, ends, done, ghosts
<1>7. ASSUME NEW p \in Pipeline, CloseOut(p) PROVE TypeInv'
  <2>1. p \in DOMAIN outputs
    BY <1>7 DEF CloseOut, OutputInv
  <2>2. closed' \in [Pipeline -> Nat]
    BY <1>7, ClosesFacts DEF CloseOut
  <2>3. /\ DOMAIN outputs' \subseteq Pipeline
        /\ outputs' \in [DOMAIN outputs' -> [pending : Nat, close : BOOLEAN]]
    <3>1. CASE Idle(p)
      BY <1>7, <3>1 DEF CloseOut
    <3>2. CASE ~Idle(p)
      <4> DEFINE new == [outputs[p] EXCEPT !.close = TRUE]
      <4>1. outputs' = [outputs EXCEPT ![p] = new]
        BY <1>7, <3>2 DEF CloseOut
      <4>2. outputs[p] \in [pending : Nat, close : BOOLEAN]
        BY <2>1
      <4>3. new \in [pending : Nat, close : BOOLEAN]
        BY <4>2
      <4> HIDE DEF new
      <4> QED
        BY <4>1, <4>3
    <3> QED
      BY <3>1, <3>2
  <2> QED
    BY <1>7, <2>2, <2>3 DEF CloseOut, Goto, done, ghosts
<1>8. CASE Top
  <2>1. running' \in DOMAIN age \cup {None} /\ heap' \subseteq heap
    BY <1>8 DEF Top
  <2>2. IsFiniteSet(heap')
    BY <2>1, FS_Subset
  <2> QED
    BY <1>8, <2>1, <2>2 DEF Top, func, ends, done, ghosts
<1>9. CASE NextIsDue \/ CallbackAborted \/ CallbackFinished
  BY <1>9 DEF NextIsDue, CallbackAborted, CallbackFinished, func, loop, ends, done,
     ghosts
<1>10. CASE CallbackSucceeds
  <2>1. running \in Message
    BY <1>10 DEF CallbackSucceeds, PhaseInv
  <2>2. calls' \in Seq(Message)
    BY <1>10, <2>1, AppendFacts DEF CallbackSucceeds
  <2> QED
    BY <1>10, <2>2 DEF CallbackSucceeds, func, loop, ends, done
<1>11. CASE Forward
  <2> DEFINE p == running[1]
  <2>1. running # None
    BY <1>11 DEF Forward, PhaseInv
  <2>2. /\ p \in DOMAIN outputs /\ running \in Message
        /\ outputs[p].pending + -1 \in Nat
    BY <2>1, HeldFacts
  <2>3. closed' \in [Pipeline -> Nat]
    BY <1>11, ClosesFacts DEF Forward
  <2>4. forwarded' \in [Pipeline -> Seq(Message)]
    BY <1>11, <2>2, AppendFacts DEF Forward
  <2>5. /\ DOMAIN outputs' \subseteq Pipeline
        /\ outputs' \in [DOMAIN outputs' -> [pending : Nat, close : BOOLEAN]]
    <3>1. CASE IsLast(p)
      BY <1>11, <3>1 DEF Forward
    <3>2. CASE ~IsLast(p)
      <4>1. outputs' = [outputs EXCEPT ![p].pending = outputs[p].pending + -1]
        BY <1>11, <3>2 DEF Forward, PendingAfter
      <4> QED
        BY <2>2, <4>1
    <3> QED
      BY <3>1, <3>2
  <2> QED
    BY <1>11, <2>3, <2>4, <2>5 DEF Forward, func, done, ghosts
<1>12. CASE WorkerReturns
  BY <1>12, ClosesFacts DEF WorkerReturns, func, done, ghosts
<1>13. CASE Tick
  <2>1. ASSUME NEW m \in DOMAIN age PROVE Min({age[m] + 1, MinAge}) \in 0..MinAge
    <3>1. age[m] \in 0..MinAge
      OBVIOUS
    <3>2. age[m] + 1 \in Nat /\ MinAge \in Nat
      BY <3>1
    <3>3. Min({age[m] + 1, MinAge}) = IF age[m] + 1 <= MinAge THEN age[m] + 1 ELSE MinAge
      BY <3>2, MinFacts
    <3> QED
      BY <3>1, <3>3
  <2>2. DOMAIN age' = DOMAIN age /\ age' \in [DOMAIN age' -> 0..MinAge]
    BY <1>13, <2>1 DEF Tick
  <2> QED
    BY <1>13, <2>2 DEF Tick, func, loop, ends, done, ghosts
<1>14. CASE StopSync \/ StopAll \/ \E p \in Pipeline : NextStageReturns(p)
  BY <1>14 DEF StopSync, StopAll, NextStageReturns, func, loop, ends, done, ghosts
<1>15. CASE UNCHANGED vars
  BY <1>15 DEF vars, func, loop, ends, done, ghosts
<1> QED
  BY <1>1, <1>2, <1>3, <1>4, <1>5, <1>6, <1>7, <1>8, <1>9, <1>10, <1>11, <1>12,
     <1>13, <1>14, <1>15
     DEF Next, Program, PipelineFunc, Worker, Callback, Environment

LEMMA PhaseStep ==
  ASSUME IInv, [Next]_vars
  PROVE  PhaseInv'
<1> USE DEF IInv, TypeInv, PhaseInv
<1>1. ASSUME NEW p \in Pipeline, Register(p) \/ NotRegistered(p) PROVE PhaseInv'
  BY <1>1 DEF Register, NotRegistered, Goto, loop
<1>2. ASSUME NEW p \in Pipeline, Receive(p) PROVE PhaseInv'
  <2>1. <<p, Head(in[p])>> # None
    BY DEF None
  <2> QED
    BY <1>2, <2>1 DEF Receive, Goto, loop
<1>3. ASSUME NEW p \in Pipeline, Accept(p) \/ NotAccepted(p) PROVE PhaseInv'
  BY <1>3 DEF Accept, NotAccepted, Goto, loop
<1>4. ASSUME NEW p \in Pipeline, LoopEnds(p) \/ CloseOut(p) \/ NoCloseOut(p)
      PROVE  PhaseInv'
  BY <1>4 DEF LoopEnds, CloseOut, NoCloseOut, Goto, loop
<1>5. CASE Top
  <2>1. \A m \in heap : m # None
    BY MessageFacts
  <2> QED
    BY <1>5, <2>1 DEF Top, func
<1>6. CASE NextIsDue \/ CallbackSucceeds \/ CallbackAborted \/ CallbackFinished
  BY <1>6 DEF NextIsDue, CallbackSucceeds, CallbackAborted, CallbackFinished, func,
     loop
<1>7. CASE Forward \/ WorkerReturns \/ Tick
  BY <1>7 DEF Forward, WorkerReturns, Tick, func, loop
<1>8. CASE StopSync \/ StopAll \/ (\E p \in Pipeline : NextStageReturns(p))
           \/ UNCHANGED vars
  BY <1>8 DEF StopSync, StopAll, NextStageReturns, func, loop, vars
<1> QED
  BY <1>1, <1>2, <1>3, <1>4, <1>5, <1>6, <1>7, <1>8
     DEF Next, Program, PipelineFunc, Worker, Callback, Environment

\* The other actions touch no message, or take one from the heap.
LEMMA UniqueStep ==
  ASSUME IInv, TypeInv', [Next]_vars
  PROVE  UniqueInv'
<1> USE DEF IInv, UniqueInv
<1>0. /\ \A m \in DOMAIN age : m \in Message
      /\ \A p \in Pipeline : in[p] \in Seq(Nat)
      /\ DOMAIN in = Pipeline /\ DOMAIN offer = Pipeline
  BY DEF TypeInv
<1>1. ASSUME NEW p \in Pipeline, Receive(p) PROVE UniqueInv'
  <2> DEFINE m == <<p, Head(in[p])>>
  <2>1. /\ in[p] # << >>
        /\ offer' = [offer EXCEPT ![p] = m] /\ age' = With(age, m, 0)
        /\ in' = [in EXCEPT ![p] = Tail(@)]
        /\ UNCHANGED <<heap, running, calls>>
    BY <1>1 DEF Receive, loop, ghosts
  <2>2. /\ m[1] = p /\ m[2] = in[p][1] /\ m[2] \in Nat
    BY <1>0, <2>1, HeadTailFacts, NewMessage
  <2> HIDE DEF m
  <2>3. /\ 1 \in DOMAIN in[p]
        /\ \A i \in DOMAIN Tail(in[p]) :
             i \in Nat \ {0} /\ i + 1 \in DOMAIN in[p] /\ Tail(in[p])[i] = in[p][i + 1]
    BY <1>0, <2>1, HeadTailFacts
  <2>4. m \notin DOMAIN age
    BY <2>2, <2>3
  <2>5. DOMAIN age' = DOMAIN age \cup {m} /\ Started' = Started
    BY <2>1 DEF With, Started, Called
  <2>6. \A i \in DOMAIN in'[p] : m[2] < in'[p][i]
    BY <1>0, <2>1, <2>2, <2>3
  <2>7. \A i, j \in DOMAIN in'[p] : i < j => in'[p][i] < in'[p][j]
    BY <1>0, <2>1, <2>3
  <2>8. \A n \in DOMAIN age, i \in DOMAIN in'[p] : n[1] = p => n[2] < in'[p][i]
    BY <1>0, <2>1, <2>3
  <2>9. offer'[p] = m /\ m \notin heap \cup Started
    BY <1>0, <2>1, <2>4 DEF TypeInv
  <2>10. ASSUME NEW q \in Pipeline, q # p
         PROVE  in'[q] = in[q] /\ offer'[q] = offer[q] /\ m[1] # q
    BY <1>0, <2>1, <2>2, <2>10
  <2> QED
    BY <2>1, <2>2, <2>5, <2>6, <2>7, <2>8, <2>9, <2>10
<1>2. ASSUME NEW p \in Pipeline, Accept(p) PROVE UniqueInv'
  <2>1. /\ heap' = heap \cup {offer[p]} /\ offer' = [offer EXCEPT ![p] = None]
        /\ UNCHANGED <<in, age, running, calls>> /\ offer[p] # None
    BY <1>2 DEF Accept, PhaseInv
  <2>2. Started' = Started
    BY <2>1 DEF Started, Called
  <2>3. \A q \in Pipeline \ {p} : offer[q] # None => offer[q] # offer[p]
    BY <2>1
  <2>4. running # offer[p] \/ running = None
    BY <2>1 DEF Started
  <2>5. \A q \in Pipeline : offer'[q] = IF q = p THEN None ELSE offer[q]
    BY <1>0, <2>1
  <2>6. running \notin heap'
    BY <2>1, <2>4
  <2> QED
    BY <2>1, <2>2, <2>3, <2>5, <2>6
<1>3. ASSUME NEW p \in Pipeline, NotAccepted(p) PROVE UniqueInv'
  <2>1. /\ offer' = [offer EXCEPT ![p] = None] /\ DOMAIN age' = DOMAIN age \ {offer[p]}
        /\ UNCHANGED <<in, heap, running, calls>> /\ offer[p] # None
    BY <1>3 DEF NotAccepted, PhaseInv, loop, ghosts
  <2>2. Started' = Started
    BY <2>1 DEF Started, Called
  <2>3. \A q \in Pipeline \ {p} : offer[q] # None => offer[q] # offer[p]
    BY <2>1
  <2>4. \A q \in Pipeline : offer'[q] = IF q = p THEN None ELSE offer[q]
    BY <1>0, <2>1
  <2> QED
    BY <2>1, <2>2, <2>3, <2>4
<1>4. CASE Top
  <2>1. /\ UNCHANGED <<in, offer, age, calls>> /\ heap' \subseteq heap
        /\ \/ running' = running
           \/ running' \in heap \ heap'
    BY <1>4 DEF Top, func, ghosts
  <2>2. Started' \subseteq Started \cup (heap \ heap')
    BY <2>1 DEF Started, Called
  <2> QED
    BY <2>1, <2>2 DEF TypeInv
<1>5. CASE CallbackSucceeds
  <2>1. /\ UNCHANGED <<in, offer, age, heap, running>> /\ calls' = Append(calls, running)
        /\ running # None
    BY <1>5 DEF CallbackSucceeds, func, loop, PhaseInv
  <2>2. running \in Message /\ calls \in Seq(Message)
    BY <2>1 DEF TypeInv
  <2>3. Started' = Started
    BY <2>1, <2>2, AppendFacts DEF Started, Called
  <2> QED
    BY <2>1, <2>3
<1>6. CASE Forward
  <2>1. UNCHANGED <<in, offer, age, heap, calls>> /\ running' = None
    BY <1>6 DEF Forward, func, ghosts
  <2>2. Started' \subseteq Started /\ running' \notin heap
    BY <1>0, <2>1, MessageFacts DEF Started, Called, TypeInv
  <2> QED
    BY <2>1, <2>2
<1>7. ASSUME UNCHANGED <<in, offer, heap, running, calls>>, DOMAIN age' = DOMAIN age
      PROVE  UniqueInv'
  BY <1>7 DEF Started, Called
<1>8. ASSUME NEW p \in Pipeline,
             \/ Register(p) \/ NotRegistered(p) \/ LoopEnds(p)
             \/ CloseOut(p) \/ NoCloseOut(p) \/ NextStageReturns(p)
      PROVE  UniqueInv'
  BY <1>7, <1>8 DEF Register, NotRegistered, LoopEnds, CloseOut, NoCloseOut,
     NextStageReturns, func, loop, ghosts
<1>9. CASE \/ NextIsDue \/ CallbackAborted \/ CallbackFinished \/ WorkerReturns
           \/ Tick \/ StopSync \/ StopAll \/ UNCHANGED vars
  BY <1>7, <1>9 DEF NextIsDue, CallbackAborted, CallbackFinished, WorkerReturns, Tick,
     StopSync, StopAll, func, loop, ghosts, vars
<1> QED
  BY <1>1, <1>2, <1>3, <1>4, <1>5, <1>6, <1>8, <1>9
     DEF Next, Program, PipelineFunc, Worker, Callback, Environment

\* A message is started when nothing in the heap precedes it, so that what does
\* has yet to be accepted, and late then.
LEMMA OrderStep ==
  ASSUME IInv, [Next]_vars
  PROVE  OrderInv'
<1> USE DEF IInv, OrderInv
<1>0. /\ \A m \in DOMAIN age : m \in Message /\ IdOf(m) \in Nat
      /\ heap \subseteq DOMAIN age /\ Started \subseteq DOMAIN age
      /\ MinAge \in Nat /\ \A m \in DOMAIN age : age[m] \in 0..MinAge
  <2>1. ASSUME NEW m \in DOMAIN age PROVE m \in Message /\ IdOf(m) \in Nat
    <3>1. m \in Message
      BY DEF TypeInv
    <3> QED
      BY <3>1, MessageFacts
  <2>2. \A m \in DOMAIN age : age[m] \in 0..MinAge
    BY DEF TypeInv
  <2> QED
    BY <2>1, <2>2, SorterAssumption DEF TypeInv, UniqueInv
<1>1. ASSUME UNCHANGED <<heap, running, calls, late>>,
             \A m \in Started : age'[m] = MinAge
      PROVE  OrderInv'
  <2>1. Started' = Started /\ Called' = Called
    BY <1>1 DEF Started, Called
  <2> QED
    BY <1>1, <2>1 DEF OrderedUnlessLate, IdOf
<1>2. ASSUME NEW p \in Pipeline, Receive(p) PROVE OrderInv'
  <2> DEFINE m == <<p, Head(in[p])>>
  <2>1. /\ in[p] # << >> /\ age' = With(age, m, 0)
        /\ offer' = [offer EXCEPT ![p] = m]
        /\ UNCHANGED <<heap, running, calls, late>>
    BY <1>2 DEF Receive, loop, ghosts
  <2>2. /\ m[1] = p /\ m[2] = in[p][1] /\ 1 \in DOMAIN in[p] /\ m[2] \in Nat
    BY <2>1, HeadTailFacts, NewMessage DEF TypeInv
  <2> HIDE DEF m
  <2>3. m \notin DOMAIN age
    BY <2>2 DEF UniqueInv
  <2> QED
    BY <1>0, <1>1, <2>1, <2>3 DEF With
<1>3. ASSUME NEW p \in Pipeline, Accept(p) PROVE OrderInv'
  <2> DEFINE o == offer[p]
  <2>1. /\ heap' = heap \cup {o} /\ UNCHANGED <<age, running, calls>>
        /\ late' = late \cup {<<o, m>> :
                     m \in {n \in DOMAIN age : Less(o, n) /\ age[n] >= MinAge}}
        /\ o \in DOMAIN age
    BY <1>3 DEF Accept, PhaseInv, UniqueInv
  <2>2. Started' = Started /\ Called' = Called
    BY <2>1 DEF Started, Called
  <2>3. \A n \in Started : IdOf(o) < IdOf(n) => <<o, n>> \in late'
    <3> SUFFICES ASSUME NEW n \in Started, IdOf(o) < IdOf(n)
                 PROVE  n \in DOMAIN age /\ Less(o, n) /\ age[n] >= MinAge
      BY <2>1
    <3> QED
      BY <1>0 DEF Less
  <2>4. late \subseteq late'
    BY <2>1
  <2> HIDE DEF o
  <2> QED
    BY <2>1, <2>2, <2>3, <2>4 DEF OrderedUnlessLate, IdOf
<1>4. ASSUME NEW p \in Pipeline, NotAccepted(p) PROVE OrderInv'
  <2>1. offer[p] \notin Started
    BY <1>4 DEF NotAccepted, PhaseInv, UniqueInv
  <2> QED
    BY <1>0, <1>1, <1>4, <2>1 DEF NotAccepted, loop, ghosts
<1>5. CASE Top
  <2>1. CASE UNCHANGED <<heap, running>>
    BY <1>1, <1>5, <2>1 DEF Top, func, ghosts
  <2>2. CASE ~UNCHANGED <<heap, running>>
    <3>1. PICK m \in heap : /\ IsNext(m) /\ Due(m) /\ running = None
                            /\ running' = m /\ heap' = heap \ {m}
      BY <1>5, <2>2 DEF Top
    <3>2. UNCHANGED <<age, calls, late>>
      BY <1>5 DEF Top, func, ghosts
    <3>3. Called' = Called /\ Started' = Started \cup {m} /\ Called \subseteq Started
      BY <1>0, <3>1, <3>2, MessageFacts DEF Started, Called
    <3>4. age[m] = MinAge
      BY <1>0, <3>1 DEF Due
    <3>5. \A n \in heap' : ~(IdOf(n) < IdOf(m))
      BY <3>1 DEF IsNext, Less
    <3>6. \A n \in Called : IdOf(m) < IdOf(n) => <<m, n>> \in late
      BY <3>1, <3>3
    <3> QED
      BY <3>1, <3>2, <3>3, <3>4, <3>5, <3>6 DEF OrderedUnlessLate, IdOf
  <2> QED
    BY <2>1, <2>2
<1>6. CASE CallbackSucceeds
  <2>1. /\ UNCHANGED <<age, heap, running, late>> /\ calls' = Append(calls, running)
        /\ running # None
    BY <1>6 DEF CallbackSucceeds, func, loop, PhaseInv
  <2>2. running \in Message /\ calls \in Seq(Message) /\ IdOf(running) \in Nat
    BY <1>0, <2>1 DEF TypeInv
  <2>3. /\ DOMAIN calls' = DOMAIN calls \cup {Len(calls) + 1}
        /\ \A i \in DOMAIN calls : calls'[i] = calls[i]
        /\ calls'[Len(calls) + 1] = running
        /\ DOMAIN calls = 1..Len(calls) /\ Len(calls) \in Nat
    BY <2>1, <2>2, AppendFacts
  <2>4. Called' = Called \cup {running} /\ Started' = Started
    BY <2>1, <2>3 DEF Started, Called
  <2>5. OrderedUnlessLate'
    <3> SUFFICES ASSUME NEW i \in DOMAIN calls', NEW j \in DOMAIN calls', i < j,
                        IdOf(calls'[j]) < IdOf(calls'[i])
                 PROVE  <<calls'[j], calls'[i]>> \in late
      BY <2>1 DEF OrderedUnlessLate, IdOf
    <3>1. i \in DOMAIN calls
      BY <2>3
    <3>2. CASE j \in DOMAIN calls
      BY <2>3, <3>1, <3>2 DEF OrderedUnlessLate
    <3>3. CASE j = Len(calls) + 1
      <4>1. calls'[j] = running /\ calls'[i] = calls[i] /\ calls[i] \in Called
        BY <2>3, <3>1, <3>3 DEF Called
      <4> QED
        BY <2>1, <4>1
    <3> QED
      BY <2>3, <3>2, <3>3
  <2>6. ~(IdOf(running) < IdOf(running))
    BY <2>2
  <2> QED
    BY <2>1, <2>4, <2>5, <2>6 DEF IdOf
<1>7. CASE Forward
  <2>1. UNCHANGED <<age, heap, calls, late>> /\ running' = None
    BY <1>7 DEF Forward, func, ghosts
  <2>2. Started' \subseteq Started
    BY <2>1 DEF Started, Called
  <2> QED
    BY <2>1, <2>2 DEF OrderedUnlessLate, IdOf
<1>8. CASE Tick
  <2>1. \A m \in Started : age'[m] = MinAge
    <3> SUFFICES ASSUME NEW m \in Started PROVE Min({MinAge + 1, MinAge}) = MinAge
      BY <1>0, <1>8 DEF Tick
    <3> QED
      BY <1>0, MinFacts
  <2> QED
    BY <1>1, <1>8, <2>1 DEF Tick, loop, ghosts
<1>9. ASSUME NEW p \in Pipeline,
             \/ Register(p) \/ NotRegistered(p) \/ LoopEnds(p)
             \/ CloseOut(p) \/ NoCloseOut(p) \/ NextStageReturns(p)
      PROVE  OrderInv'
  BY <1>1, <1>9 DEF Register, NotRegistered, LoopEnds, CloseOut, NoCloseOut,
     NextStageReturns, func, loop, ghosts
<1>10. CASE \/ NextIsDue \/ CallbackAborted \/ CallbackFinished \/ WorkerReturns
            \/ StopSync \/ StopAll \/ UNCHANGED vars
  BY <1>1, <1>10 DEF NextIsDue, CallbackAborted, CallbackFinished, WorkerReturns,
     StopSync, StopAll, func, loop, ghosts, vars
<1> QED
  BY <1>2, <1>3, <1>4, <1>5, <1>6, <1>7, <1>8, <1>9, <1>10
     DEF Next, Program, PipelineFunc, Worker, Callback, Environment

\* What the steps of the other pipelines and of the callback leave alone.
LEMMA OutputsKept ==
  ASSUME IInv, UNCHANGED <<heap, running, outputs, closed>>,
         worker' = "returned" <=> worker = "returned",
         \A p \in Pipeline :
           \/ stage'[p] = stage[p]
           \/ /\ stage[p] \in {"loop", "submit", "exit"}
              /\ stage'[p] \in {"loop", "submit", "exit", "returned"}
  PROVE  OutputInv'
<1>1. \A p : Held(p)' = Held(p)
  BY DEF Held, Accepted
<1> QED
  BY <1>1 DEF IInv, TypeInv, OutputInv

LEMMA OutputStep ==
  ASSUME IInv, [Next]_vars
  PROVE  OutputInv'
<1> USE DEF IInv
<1>0. /\ stage \in [Pipeline -> {"register", "loop", "submit", "exit", "returned"}]
      /\ \A p \in Pipeline : closed[p] \in Nat
      /\ \A p \in DOMAIN outputs : /\ p \in Pipeline /\ outputs[p].pending \in Nat
                                   /\ outputs[p].close \in BOOLEAN
                                   /\ outputs[p] \in [pending : Nat, close : BOOLEAN]
  BY DEF TypeInv
<1>1. ASSUME NEW p \in Pipeline, Register(p) PROVE OutputInv'
  <2> DEFINE new == [pending |-> 0, close |-> FALSE]
  <2>1. new.pending = 0 /\ ~new.close
    OBVIOUS
  <2>2. outputs' = With(outputs, p, new)
    BY <1>1 DEF Register, new
  <2> HIDE DEF new
  <2>3. /\ DOMAIN outputs' = DOMAIN outputs \cup {p} /\ outputs'[p] = new
        /\ \A q \in DOMAIN outputs \ {p} : outputs'[q] = outputs[q]
    BY <2>2 DEF With
  <2>4. /\ stage[p] = "register" /\ stage'[p] = "loop"
        /\ \A q \in Pipeline \ {p} : stage'[q] = stage[q]
        /\ worker = "select" /\ worker' = "top" /\ closed' = closed
    BY <1>0, <1>1 DEF Register, Goto, ends
  <2>5. \A q : Held(q)' = Held(q)
    BY <1>1 DEF Register, Held, Accepted
  <2>6. Held(p) = {} /\ Cardinality(Held(p)) = 0
    BY <2>4, FS_EmptySet DEF OutputInv
  <2> QED
    BY <2>1, <2>3, <2>4, <2>5, <2>6 DEF OutputInv
<1>2. ASSUME NEW p \in Pipeline, NotRegistered(p) PROVE OutputInv'
  <2>1. /\ stage[p] = "register" /\ stage'[p] = "returned"
        /\ \A q \in Pipeline \ {p} : stage'[q] = stage[q]
        /\ UNCHANGED <<worker, outputs>>
    BY <1>0, <1>2 DEF NotRegistered, Goto, loop
  <2>2. \A q : Held(q)' = Held(q)
    BY <1>2 DEF NotRegistered, Held, Accepted, loop
  <2>3. \A q \in Pipeline : closed'[q] = IF q = p THEN closed[q] + 1 ELSE closed[q]
    BY <1>2, ClosesFacts DEF NotRegistered
  <2> QED
    BY <1>0, <2>1, <2>2, <2>3 DEF OutputInv
<1>3. ASSUME NEW p \in Pipeline,
             Receive(p) \/ NotAccepted(p) \/ LoopEnds(p) \/ NoCloseOut(p)
      PROVE  OutputInv'
  <2>1. \A q \in Pipeline :
          \/ stage'[q] = stage[q]
          \/ /\ stage[q] \in {"loop", "submit", "exit"}
             /\ stage'[q] \in {"loop", "submit", "exit", "returned"}
    BY <1>0, <1>3 DEF Receive, NotAccepted, LoopEnds, NoCloseOut, Goto
  <2>2. UNCHANGED <<heap, running, outputs, closed, worker>>
    BY <1>3 DEF Receive, NotAccepted, LoopEnds, NoCloseOut, loop, ends
  <2> QED
    BY <2>1, <2>2, OutputsKept
<1>4. ASSUME NEW p \in Pipeline, Accept(p) PROVE OutputInv'
  <2> DEFINE o == offer[p]
  <2>1. /\ stage[p] = "submit" /\ stage' = [stage EXCEPT ![p] = "loop"]
        /\ worker = "select" /\ worker' = "top"
        /\ heap' = heap \cup {o} /\ UNCHANGED <<running, closed>>
        /\ outputs' = [outputs EXCEPT ![p].pending = outputs[p].pending + 1]
    BY <1>4 DEF Accept, Goto, ends, PendingAfter
  <2>2. o[1] = p /\ o \notin heap /\ o \notin Started /\ o # None
    BY <2>1 DEF PhaseInv, UniqueInv
  <2>3. p \in DOMAIN outputs
    BY <2>1 DEF OutputInv
  <2>4. o \notin Accepted
    BY <2>2 DEF Accepted, Started
  <2> HIDE DEF o
  <2>5. /\ Held(p)' = Held(p) \cup {o} /\ o \notin Held(p)
        /\ \A q \in Pipeline \ {p} : Held(q)' = Held(q)
    BY <2>1, <2>2, <2>4 DEF Held, Accepted
  <2>6. Cardinality(Held(p)') = Cardinality(Held(p)) + 1
    <3>1. IsFiniteSet(Held(p))
      BY HeldFacts
    <3> QED
      BY <2>5, <3>1, FS_AddElement
  <2>7. /\ DOMAIN outputs' = DOMAIN outputs
        /\ \A q \in DOMAIN outputs \ {p} : outputs'[q] = outputs[q]
        /\ outputs'[p].close = outputs[p].close
        /\ outputs'[p].pending = outputs[p].pending + 1
    BY <1>0, <2>1, <2>3
  <2>8. /\ stage'[p] = "loop" /\ \A q \in Pipeline \ {p} : stage'[q] = stage[q]
    BY <1>0, <2>1
  <2>9. ~outputs[p].close
    BY <2>1, <2>3 DEF OutputInv
  <2> QED
    BY <2>1, <2>3, <2>5, <2>6, <2>7, <2>8, <2>9 DEF OutputInv
<1>5. ASSUME NEW p \in Pipeline, CloseOut(p) PROVE OutputInv'
  <2>1. /\ stage[p] = "exit" /\ worker = "select" /\ worker' = "top"
        /\ stage'[p] = "returned" /\ \A q \in Pipeline \ {p} : stage'[q] = stage[q]
    BY <1>0, <1>5 DEF CloseOut, Goto
  <2>2. \A q : Held(q)' = Held(q)
    BY <1>5 DEF CloseOut, Held, Accepted
  <2>3. p \in DOMAIN outputs /\ closed[p] = 0
    BY <2>1 DEF OutputInv
  <2>4. CASE Idle(p)
    <3>1. /\ DOMAIN outputs' = DOMAIN outputs \ {p}
          /\ \A q \in DOMAIN outputs \ {p} : outputs'[q] = outputs[q]
      BY <1>5, <2>4 DEF CloseOut
    <3>2. \A q \in Pipeline : closed'[q] = IF q = p THEN closed[q] + 1 ELSE closed[q]
      BY <1>5, <2>4, ClosesFacts DEF CloseOut
    <3>3. Held(p) = {}
      BY <2>3, <2>4, HeldFacts, FS_EmptySet DEF Idle, OutputInv
    <3> QED
      BY <1>0, <2>1, <2>2, <2>3, <3>1, <3>2, <3>3 DEF OutputInv
  <2>5. CASE ~Idle(p)
    <3>1. outputs' = [outputs EXCEPT ![p].close = TRUE] /\ closed' = closed
      BY <1>5, <2>5 DEF CloseOut
    <3>2. /\ DOMAIN outputs' = DOMAIN outputs
          /\ \A q \in DOMAIN outputs \ {p} : outputs'[q] = outputs[q]
          /\ outputs'[p].pending = outputs[p].pending
      BY <1>0, <2>3, <3>1
    <3> QED
      BY <2>1, <2>2, <2>3, <3>1, <3>2 DEF OutputInv
  <2> QED
    BY <2>4, <2>5
<1>6. CASE Top
  <2>1. /\ UNCHANGED <<stage, outputs, closed>>
        /\ worker = "top" /\ worker' = "select"
    BY <1>6 DEF Top, func, ends
  <2>2. Accepted' = Accepted
    BY <1>6, MessageFacts DEF Top, Accepted, TypeInv
  <2>3. \A q : Held(q)' = Held(q)
    BY <2>2 DEF Held
  <2> QED
    BY <2>1, <2>3 DEF OutputInv
<1>7. CASE NextIsDue \/ CallbackSucceeds \/ CallbackAborted \/ CallbackFinished
           \/ Tick
  BY <1>7, OutputsKept DEF NextIsDue, CallbackSucceeds, CallbackAborted,
     CallbackFinished, Tick, func, loop, ends
<1>8. CASE Forward
  <2>1. running # None /\ worker = "forward" /\ worker' = "top"
    BY <1>8 DEF Forward, PhaseInv
  <2>0. PICK p \in Pipeline : p = running[1]
    BY <2>1, HeldFacts, MessageFacts
  <2>2. /\ p \in DOMAIN outputs /\ running \in Held(p)
        /\ outputs[p].pending \in Nat \ {0} /\ p \in Pipeline
    BY <2>0, <2>1, HeldFacts
  <2>3. heap' = heap /\ running' = None /\ stage' = stage /\ running \notin heap
    BY <1>8 DEF Forward, func, UniqueInv
  <2>4. Accepted' = Accepted \ {running}
    BY <2>1, <2>3, MessageFacts DEF Accepted, TypeInv
  <2>5. /\ Held(p)' = Held(p) \ {running}
        /\ \A q : q # p => Held(q)' = Held(q)
    BY <2>0, <2>4 DEF Held
  <2>6. Cardinality(Held(p)') = outputs[p].pending - 1
    <3>1. outputs[p].pending = Cardinality(Held(p)) /\ IsFiniteSet(Held(p))
      BY <2>0, <2>2, HeldFacts DEF OutputInv
    <3>2. running \in Held(p)
      BY <2>2
    <3>3. Cardinality(Held(p) \ {running}) = Cardinality(Held(p)) - 1
      BY <3>1, <3>2, FS_RemoveElement
    <3> QED
      BY <2>5, <3>1, <3>3
  <2>7. CASE IsLast(p)
    <3>1. /\ DOMAIN outputs' = DOMAIN outputs \ {p}
          /\ \A q \in DOMAIN outputs \ {p} : outputs'[q] = outputs[q]
      BY <1>8, <2>0, <2>7 DEF Forward
    <3>2. \A q \in Pipeline : closed'[q] = IF q = p THEN closed[q] + 1 ELSE closed[q]
      <4>1. Closes({p})
        BY <1>8, <2>0, <2>7 DEF Forward
      <4> QED
        BY <4>1, ClosesFacts
    <3>3. Held(p)' = {}
      <4>1. IsFiniteSet(Held(p)')
        BY <2>5, HeldFacts, FS_RemoveElement
      <4>2. Cardinality(Held(p)') = 0
        BY <2>6, <2>7 DEF IsLast
      <4> QED
        BY <4>1, <4>2, FS_EmptySet
    <3>4. closed[p] = 0 /\ stage[p] = "returned"
      BY <2>1, <2>2, <2>7 DEF OutputInv, IsLast
    <3> QED
      BY <1>0, <2>1, <2>2, <2>3, <2>5, <3>1, <3>2, <3>3, <3>4 DEF OutputInv
  <2>8. CASE ~IsLast(p)
    <3>1. outputs' = [outputs EXCEPT ![p].pending = outputs[p].pending + -1]
      BY <1>8, <2>0, <2>8 DEF Forward, PendingAfter
    <3>2. /\ DOMAIN outputs' = DOMAIN outputs
          /\ \A q \in DOMAIN outputs \ {p} : outputs'[q] = outputs[q]
          /\ outputs'[p].close = outputs[p].close
          /\ outputs'[p].pending = outputs[p].pending - 1
      BY <1>0, <2>2, <3>1
    <3>3. \A q \in Pipeline : closed'[q] = closed[q]
      <4>1. Closes({})
        BY <1>8, <2>0, <2>8 DEF Forward
      <4> QED
        BY <4>1, ClosesFacts
    <3> QED
      <4>1. \A q \in Pipeline :
              /\ stage'[q] \in {"loop", "submit", "exit"} => q \in DOMAIN outputs'
              /\ stage'[q] = "register" => q \notin DOMAIN outputs' /\ closed'[q] = 0
              /\ closed'[q] <= 1
        BY <2>3, <3>2, <3>3 DEF OutputInv
      <4>2. \A q \in Pipeline : q \notin DOMAIN outputs' => Held(q)' = {}
        BY <2>2, <2>5, <3>2 DEF OutputInv
      <4>3. \A q \in DOMAIN outputs' : outputs'[q].pending = Cardinality(Held(q)')
        <5>1. \A q \in DOMAIN outputs : outputs[q].pending = Cardinality(Held(q))
          BY <1>0 DEF OutputInv
        <5>2. outputs'[p].pending = Cardinality(Held(p)')
          BY <2>6, <3>2
        <5>3. ASSUME NEW q \in DOMAIN outputs \ {p}
              PROVE  outputs'[q].pending = Cardinality(Held(q)')
          BY <2>5, <3>2, <5>1
        <5> QED
          BY <3>2, <5>2, <5>3
      <4>4. \A q \in DOMAIN outputs' : closed'[q] = 0 /\ worker' # "returned"
        BY <1>0, <2>1, <3>2, <3>3 DEF OutputInv
      <4>5. \A q \in DOMAIN outputs' : outputs'[q].close => stage'[q] = "returned"
        BY <1>0, <2>3, <3>2 DEF OutputInv
      <4> QED
        BY <1>0, <3>2, <4>1, <4>2, <4>3, <4>4, <4>5 DEF OutputInv
  <2> QED
    BY <2>7, <2>8
<1>9. CASE WorkerReturns
  <2>1. /\ UNCHANGED <<stage, outputs>> /\ worker = "select" /\ worker' = "returned"
    BY <1>9 DEF WorkerReturns, func
  <2>2. \A q : Held(q)' = Held(q)
    BY <1>9 DEF WorkerReturns, Held, Accepted
  <2>3. \A q \in Pipeline :
          closed'[q] = IF q \in DOMAIN outputs THEN closed[q] + 1 ELSE closed[q]
    BY <1>9, ClosesFacts DEF WorkerReturns
  <2> QED
    BY <1>0, <2>1, <2>2, <2>3 DEF OutputInv
<1>10. CASE StopSync \/ StopAll \/ (\E p \in Pipeline : NextStageReturns(p))
            \/ UNCHANGED vars
  BY <1>10, OutputsKept DEF StopSync, StopAll, NextStageReturns, func, loop, ends, vars
<1> QED
  BY <1>1, <1>2, <1>3, <1>4, <1>5, <1>6, <1>7, <1>8, <1>9, <1>10
     DEF Next, Program, PipelineFunc, Worker, Callback, Environment

\* What the steps that neither end a callback nor forward leave alone.
LEMMA ForwardKept ==
  ASSUME IInv, UNCHANGED <<calls, forwarded, running, callback>>,
         sorterDone => sorterDone'
  PROVE  ForwardInv'
<1>1. \A p, j : CallsOf(p, j)' = CallsOf(p, j)
  BY DEF CallsOf
<1>2. \A p : CallsOf(p, Len(calls))' = CallsOf(p, Len(calls))
  BY DEF CallsOf
<1>3. ForwardedAfterCallback => ForwardedAfterCallback'
  BY <1>1 DEF ForwardedAfterCallback
<1> QED
  BY <1>2, <1>3 DEF IInv, ForwardInv

LEMMA CallsOfFinite ==
  ASSUME NEW p, NEW last \in Nat
  PROVE  IsFiniteSet(CallsOf(p, last)) /\ Cardinality(CallsOf(p, last)) \in Nat
<1>1. IsFiniteSet(1..last)
  BY FS_Interval
<1> QED
  BY <1>1, FS_Subset, FS_CardinalityType DEF CallsOf

\* One more successful callback adds one to those of its pipeline, at the end.
LEMMA CallsOfAppend ==
  ASSUME NEW m \in Message, calls \in Seq(Message), calls' = Append(calls, m)
  PROVE  /\ Len(calls) \in Nat /\ Len(calls') = Len(calls) + 1
         /\ calls'[Len(calls')] = m /\ calls' # << >>
         /\ \A i \in DOMAIN calls : i \in DOMAIN calls' /\ calls'[i] = calls[i]
         /\ \A p, j : j \in DOMAIN calls => CallsOf(p, j)' = CallsOf(p, j)
         /\ \A p : Cardinality(CallsOf(p, Len(calls))') =
                     Cardinality(CallsOf(p, Len(calls))) + (IF m[1] = p THEN 1 ELSE 0)
<1>1. /\ Len(calls) \in Nat /\ Len(calls') = Len(calls) + 1
      /\ calls'[Len(calls')] = m /\ calls' # << >>
      /\ DOMAIN calls = 1..Len(calls) /\ DOMAIN calls' = 1..(Len(calls) + 1)
      /\ \A i \in DOMAIN calls : i \in DOMAIN calls' /\ calls'[i] = calls[i]
  BY AppendFacts
<1>2. ASSUME NEW p, NEW j, j \in DOMAIN calls PROVE CallsOf(p, j)' = CallsOf(p, j)
  BY <1>1, <1>2 DEF CallsOf
<1>3. ASSUME NEW p
      PROVE  Cardinality(CallsOf(p, Len(calls))') =
               Cardinality(CallsOf(p, Len(calls))) + (IF m[1] = p THEN 1 ELSE 0)
  <2>1. CallsOf(p, Len(calls))' =
          CallsOf(p, Len(calls)) \cup (IF m[1] = p THEN {Len(calls) + 1} ELSE {})
    BY <1>1 DEF CallsOf
  <2>2. Len(calls) + 1 \notin CallsOf(p, Len(calls))
    BY <1>1 DEF CallsOf
  <2>3. IsFiniteSet(CallsOf(p, Len(calls))) /\ Cardinality(CallsOf(p, Len(calls))) \in Nat
    BY <1>1, CallsOfFinite
  <2>4. CASE m[1] = p
    BY <2>1, <2>2, <2>3, <2>4, FS_AddElement
  <2>5. CASE m[1] # p
    BY <2>1, <2>3, <2>5
  <2> QED
    BY <2>4, <2>5
<1> QED
  BY <1>1, <1>2, <1>3

LEMMA ForwardStep ==
  ASSUME IInv, [Next]_vars
  PROVE  ForwardInv'
<1> USE DEF IInv
<1>1. CASE Top
  <2>1. CASE callback' = "trying" /\ running = None
    <3>1. callback = "none"
      BY <2>1 DEF PhaseInv
    <3>2. UNCHANGED <<calls, forwarded, sorterDone>>
      BY <1>1 DEF Top, ends, done, ghosts
    <3>3. \A p, j : CallsOf(p, j)' = CallsOf(p, j)
      BY <3>2 DEF CallsOf
    <3> QED
      BY <2>1, <3>1, <3>2, <3>3 DEF ForwardInv, ForwardedAfterCallback
  <2>2. CASE UNCHANGED <<heap, running, callback>>
    BY <1>1, <2>2, ForwardKept DEF Top, ends, done, ghosts
  <2> QED
    BY <1>1, <2>1, <2>2 DEF Top
<1>2. CASE CallbackSucceeds
  <2>1. /\ callback = "trying" /\ callback' = "done" /\ calls' = Append(calls, running)
        /\ UNCHANGED <<running, forwarded, sorterDone>>
    BY <1>2 DEF CallbackSucceeds, loop, ends, done
  <2>2. running \in Message /\ calls \in Seq(Message) /\ running[1] \in Pipeline
    BY <2>1, HeldFacts, MessageFacts DEF PhaseInv, TypeInv
  <2>3. SUFFICES ASSUME ~sorterDone PROVE ForwardInv'
    BY <2>1 DEF ForwardInv
  <2>4. \A p \in Pipeline : Len(forwarded[p]) \in Nat
    BY DEF TypeInv
  <2>5. ASSUME NEW p \in Pipeline
        PROVE  Cardinality(CallsOf(p, Len(calls))') =
                 Len(forwarded[p]) + (IF running[1] = p THEN 1 ELSE 0)
    <3>1. Cardinality(CallsOf(p, Len(calls))) = Len(forwarded[p])
      BY <2>1, <2>3, <2>4 DEF ForwardInv
    <3> QED
      <4>1. Cardinality(CallsOf(p, Len(calls))') =
              Cardinality(CallsOf(p, Len(calls))) + (IF running[1] = p THEN 1 ELSE 0)
        BY <2>1, <2>2, CallsOfAppend
      <4> QED
        BY <3>1, <4>1
  <2>6. ForwardedAfterCallback'
    <3> SUFFICES ASSUME NEW p \in Pipeline, NEW i \in DOMAIN forwarded[p]
                 PROVE  \E j \in DOMAIN calls' :
                          /\ calls'[j] = forwarded[p][i] /\ calls'[j][1] = p
                          /\ Cardinality(CallsOf(p, j)') = i
      BY <2>1 DEF ForwardedAfterCallback
    <3>1. PICK j \in DOMAIN calls :
            /\ calls[j] = forwarded[p][i] /\ calls[j][1] = p
            /\ Cardinality(CallsOf(p, j)) = i
      BY <2>3 DEF ForwardInv, ForwardedAfterCallback
    <3>2. j \in DOMAIN calls' /\ calls'[j] = calls[j] /\ CallsOf(p, j)' = CallsOf(p, j)
      BY <2>1, <2>2, CallsOfAppend
    <3> QED
      BY <3>1, <3>2
  <2>7. calls' # << >> /\ calls'[Len(calls')] = running
    BY <2>1, <2>2, CallsOfAppend
  <2> QED
    BY <2>1, <2>5, <2>6, <2>7 DEF ForwardInv
<1>3. CASE CallbackAborted
  BY <1>3 DEF CallbackAborted, GivesUp, ForwardInv, done
<1>4. CASE Forward
  <2>1. SUFFICES ASSUME ~sorterDone PROVE ForwardInv'
    BY <1>4 DEF Forward, ForwardInv, done
  <2>2. callback = "done" /\ callback' = "none" /\ running # None
    BY <1>4, <2>1 DEF Forward, PhaseInv, ForwardInv
  <2>3. PICK p \in Pipeline : p = running[1]
    BY <2>2, HeldFacts, MessageFacts
  <2>4. /\ forwarded' = [forwarded EXCEPT ![p] = Append(@, running)]
        /\ UNCHANGED <<calls, sorterDone>>
    BY <1>4, <2>3 DEF Forward, ghosts, done
  <2>5. calls # << >> /\ calls[Len(calls)] = running /\ Len(calls) \in DOMAIN calls
    BY <2>1, <2>2 DEF ForwardInv, TypeInv
  <2>6. \A q, j : CallsOf(q, j)' = CallsOf(q, j)
    BY <2>4 DEF CallsOf
  <2>7. /\ \A q \in Pipeline : Len(forwarded[q]) \in Nat
        /\ Cardinality(CallsOf(p, Len(calls))) = Len(forwarded[p]) + 1
        /\ \A q \in Pipeline \ {p} : Cardinality(CallsOf(q, Len(calls))) = Len(forwarded[q])
    BY <2>1, <2>2, <2>3 DEF ForwardInv, TypeInv
  <2>8. /\ \A q \in Pipeline \ {p} : forwarded'[q] = forwarded[q]
        /\ forwarded'[p] = Append(forwarded[p], running)
        /\ forwarded[p] \in Seq(Message) /\ running \in Message
    BY <2>2, <2>4, HeldFacts DEF TypeInv
  <2>9. /\ Len(forwarded'[p]) = Len(forwarded[p]) + 1
        /\ DOMAIN forwarded'[p] = DOMAIN forwarded[p] \cup {Len(forwarded[p]) + 1}
        /\ \A i \in DOMAIN forwarded[p] : forwarded'[p][i] = forwarded[p][i]
        /\ forwarded'[p][Len(forwarded[p]) + 1] = running
    BY <2>8, AppendFacts
  <2>10. ForwardedAfterCallback'
    <3> SUFFICES ASSUME NEW q \in Pipeline, NEW i \in DOMAIN forwarded'[q]
                 PROVE  \E j \in DOMAIN calls :
                          /\ calls[j] = forwarded'[q][i] /\ calls[j][1] = q
                          /\ Cardinality(CallsOf(q, j)) = i
      BY <2>4, <2>6 DEF ForwardedAfterCallback
    <3>1. CASE q = p /\ i = Len(forwarded[p]) + 1
      BY <2>3, <2>5, <2>7, <2>9, <3>1
    <3>2. CASE ~(q = p /\ i = Len(forwarded[p]) + 1)
      <4>1. i \in DOMAIN forwarded[q] /\ forwarded'[q][i] = forwarded[q][i]
        BY <2>8, <2>9, <3>2
      <4> QED
        BY <2>1, <4>1 DEF ForwardInv, ForwardedAfterCallback
    <3> QED
      BY <3>1, <3>2
  <2>11. ASSUME NEW q \in Pipeline
         PROVE  Cardinality(CallsOf(q, Len(calls))) = Len(forwarded'[q])
    BY <2>7, <2>8, <2>9
  <2>12. \A q \in Pipeline : Len(forwarded'[q]) \in Nat
    BY <2>7, <2>8, <2>9
  <2> QED
    BY <2>2, <2>4, <2>6, <2>10, <2>11, <2>12 DEF ForwardInv
<1>5. CASE StopAll
  BY <1>5 DEF StopAll, ForwardInv
<1>6. ASSUME NEW p \in Pipeline, PipelineFunc(p) PROVE ForwardInv'
  <2>1. UNCHANGED <<calls, forwarded, running, callback, sorterDone>>
    BY <1>6 DEF PipelineFunc, Register, NotRegistered, Receive, Accept, NotAccepted,
       LoopEnds, CloseOut, NoCloseOut, loop, ends, done, ghosts
  <2> QED
    BY <2>1, ForwardKept
<1>7. CASE NextIsDue \/ CallbackFinished \/ WorkerReturns \/ Tick \/ StopSync
           \/ (\E p \in Pipeline : NextStageReturns(p)) \/ UNCHANGED vars
  <2>1. UNCHANGED <<calls, forwarded, running, callback, sorterDone>>
    BY <1>7 DEF NextIsDue, CallbackFinished, WorkerReturns, Tick, StopSync,
       NextStageReturns, loop, ends, done, ghosts, vars
  <2> QED
    BY <2>1, ForwardKept
<1> QED
  BY <1>1, <1>2, <1>3, <1>4, <1>5, <1>6, <1>7
     DEF Next, Program, Worker, Callback, Environment

-------------------------------------------------------------------------------
(* The invariant.                                                               *)

LEMMA InitInvariant ==
  ASSUME Init
  PROVE  IInv
<1> USE SorterAssumption DEF Init
<1>0. in \in [Pipeline -> Seq(Nat)]
  OBVIOUS
<1>1. calls = << >> /\ DOMAIN calls = {} /\ Len(calls) = 0 /\ running = None
      /\ DOMAIN age = {} /\ DOMAIN outputs = {} /\ heap = {}
  OBVIOUS
<1>2. Started = {} /\ Called = {} /\ Accepted = {} /\ \A p : Held(p) = {}
  BY <1>1 DEF Started, Called, Accepted, Held
<1>3. TypeInv
  <2>1. IsFiniteSet(heap)
    BY FS_EmptySet
  <2>2. << >> \in [{} -> 0..MinAge] /\ << >> \in [{} -> [pending : Nat, close : BOOLEAN]]
    OBVIOUS
  <2>3. forwarded \in [Pipeline -> Seq(Message)] /\ calls \in Seq(Message)
    OBVIOUS
  <2>4. /\ stage \in [Pipeline -> {"register", "loop", "submit", "exit", "returned"}]
        /\ offer \in [Pipeline -> Message \cup {None}] /\ closed \in [Pipeline -> Nat]
    OBVIOUS
  <2>5. age \in [DOMAIN age -> 0..MinAge]
    BY <1>1, <2>2
  <2>6. outputs \in [DOMAIN outputs -> [pending : Nat, close : BOOLEAN]]
    BY <1>1, <2>2
  <2> QED
    BY <1>0, <1>1, <2>1, <2>3, <2>4, <2>5, <2>6 DEF TypeInv
<1>4. PhaseInv
  BY DEF PhaseInv
<1>5. UniqueInv
  BY <1>0, <1>1, <1>2 DEF UniqueInv
<1>6. OrderInv
  BY <1>1, <1>2 DEF OrderInv, OrderedUnlessLate
<1>7. OutputInv
  BY <1>1, <1>2 DEF OutputInv
<1>8. ForwardInv
  <2>1. \A p : CallsOf(p, Len(calls)) = {} /\ Cardinality(CallsOf(p, Len(calls))) = 0
    BY <1>1, FS_EmptySet DEF CallsOf
  <2>2. \A p \in Pipeline : forwarded[p] = << >> /\ Len(forwarded[p]) = 0
                            /\ DOMAIN forwarded[p] = {}
    OBVIOUS
  <2> QED
    BY <2>1, <2>2 DEF ForwardInv, ForwardedAfterCallback
<1> QED
  BY <1>3, <1>4, <1>5, <1>6, <1>7, <1>8 DEF IInv

LEMMA Inductive == Spec => []IInv
<1>1. IInv /\ [Next]_vars => IInv'
  BY TypeStep, PhaseStep, UniqueStep, OrderStep, OutputStep, ForwardStep DEF IInv
<1> QED
  BY <1>1, InitInvariant, PTL DEF Spec

-------------------------------------------------------------------------------

\* The state is well-formed, and runningSubmission and runningCallbackCh are nil
\* together, so that the first panic of startCallback's worker does not happen.
THEOREM TypeCorrect == Spec => []TypeOK
<1>1. IInv => TypeOK
  <2> SUFFICES ASSUME IInv PROVE TypeOK
    OBVIOUS
  <2>1. \A m \in DOMAIN age : m[1] \in Pipeline /\ age[m] \in 0..MinAge
    BY MessageFacts DEF IInv, TypeInv
  <2> QED
    BY <2>1 DEF IInv, TypeInv, PhaseInv, TypeOK
<1> QED
  BY <1>1, Inductive, PTL

\* Callbacks are in the order of the stream IDs across all pipelines, except for
\* messages that the worker accepted only when the other one had been submitted
\* for submissionMinAge.
THEOREM Ordered == Spec => []OrderedUnlessLate
<1>1. IInv => OrderedUnlessLate
  BY DEF IInv, OrderInv
<1> QED
  BY <1>1, Inductive, PTL

\* Until the sorter is stopped, the messages leave the stage in the order of
\* their successful callbacks, one for each: none before its callback.
THEOREM Forwarded == Spec => []ForwardedAfterCallback
<1>1. IInv => ForwardedAfterCallback
  BY DEF IInv, ForwardInv, ForwardedAfterCallback
<1> QED
  BY <1>1, Inductive, PTL

\* No output is closed twice, and none before everything that was accepted for
\* it has been forwarded, unless the sorter is stopped.
THEOREM ClosedOnce == Spec => []ClosedOnceAndLast
<1>1. IInv => ClosedOnceAndLast
  <2> SUFFICES ASSUME IInv, NEW p \in Pipeline
               PROVE  /\ closed[p] <= 1
                      /\ closed[p] = 1 /\ worker # "returned" => \A m \in Accepted : m[1] # p
                      /\ stage[p] \in {"loop", "submit", "exit"} /\ worker # "returned" =>
                           closed[p] = 0
    BY DEF ClosedOnceAndLast
  <2>1. closed[p] = 1 /\ worker # "returned" => Held(p) = {}
    BY DEF IInv, OutputInv
  <2> QED
    BY <2>1 DEF IInv, OutputInv, Held
<1> QED
  BY <1>1, Inductive, PTL
===============================================================================
