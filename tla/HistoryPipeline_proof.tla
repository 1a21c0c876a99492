------------------------- MODULE HistoryPipeline_proof --------------------------
(* For any number of nodes, events, stages and crashes, with and without a     *)
(* retention that deletes rows under the pipelines: an event only leaves Redis *)
(* when it has been written to all tables, and in their order; retention       *)
(* deletes all that it found.                                                  *)
EXTENDS HistoryTables, TLAPS

\* What has passed a stage is in the tables written up to there, whatever node
\* it is on and however often it was read.
Passed ==
  /\ \A n \in Node, k, j \in Stage :
       /\ j < k => busy[n][k] \subseteq table[j]
       /\ j <= k => ready[n][k] \subseteq table[j]
  /\ \A n \in Node, j \in Stage :
       counting[n] \subseteq table[j] /\ deleting[n] \subseteq table[j]

IInv == TypeOK /\ Passed /\ NothingLost /\ DependenciesFirst

\* Memory is lost, in a crash or because a foreign key has failed.
Resets(n) == Reset(n) /\ crashes' \in [Node -> 0..MaxCrash]

\* A step of a pipeline, on its own or with the tables.
Step == [Next]_vars \/ \E n \in Node : Resets(n)

\* Every step is a step of one node.
LEMMA StepCases ==
  ASSUME TypeOK, Step
  PROVE  \/ vars' = vars
         \/ \E n \in Node : Publish(n) \/ PassOn(n) \/ Delete(n) \/ Resets(n)
         \/ \E n \in Node, m \in Id : Read(n, m) \/ Take(n, m) \/ Count(n, m)
         \/ \E n \in Node, m \in Id, k \in Stage :
              Write(n, k, m) \/ Forward(n, k, m)
<1>1. ASSUME NEW n \in Node, Restart(n) PROVE Resets(n)
  BY <1>1, PipelineAssumption DEF TypeOK, Restart, Resets
<1> QED
  BY <1>1 DEF Step, Next, Work

\* The values stay in their sets: no position passes the last event, no node
\* crashes more often than it may.
LEMMA TypeStep ==
  ASSUME TypeOK, Step
  PROVE  TypeOK'
<1> USE PipelineAssumption DEF Id, Stage
<1>0. CASE vars' = vars
  BY <1>0 DEF TypeOK, vars
<1>1. ASSUME NEW n \in Node,
             Publish(n) \/ PassOn(n) \/ Delete(n) \/ Resets(n)
      PROVE  TypeOK'
  <2>1. CASE Publish(n)
    BY <2>1 DEF TypeOK, Publish, memory
  <2>2. CASE PassOn(n)
    BY <2>2 DEF TypeOK, PassOn, streams
  <2>3. CASE Delete(n)
    BY <2>3 DEF TypeOK, Delete
  <2>4. CASE Resets(n)
    BY <2>4 DEF TypeOK, Resets, Reset, StartPosition, streams
  <2> QED
    BY <1>1, <2>1, <2>2, <2>3, <2>4
<1>2. ASSUME NEW n \in Node, NEW m \in Id,
             Read(n, m) \/ Take(n, m) \/ Count(n, m)
      PROVE  TypeOK'
  <2>1. CASE Read(n, m)
    BY <2>1, SMTT(30) DEF TypeOK, Read, PositionAfter, streams
  <2>2. CASE Take(n, m)
    BY <2>2, SMTT(30) DEF TypeOK, Take, streams
  <2>3. CASE Count(n, m)
    BY <2>3 DEF TypeOK, Count, Leave, Finished, streams
  <2> QED
    BY <1>2, <2>1, <2>2, <2>3
<1>3. ASSUME NEW n \in Node, NEW m \in Id, NEW k \in Stage,
             Write(n, k, m) \/ Forward(n, k, m)
      PROVE  TypeOK'
  <2>1. CASE Write(n, k, m)
    BY <2>1, SMTT(30) DEF TypeOK, Write, streams
  <2>2. CASE Forward(n, k, m)
    BY <2>2, SMTT(30) DEF TypeOK, Forward, Leave, Finished, streams
  <2> QED
    BY <1>3, <2>1, <2>2
<1> QED
  <2> HIDE DEF Id, Stage
  <2> QED
    BY <1>0, <1>1, <1>2, <1>3, StepCases

\* Passed is inductive: a stage only forwards what it has written, and rows are
\* never removed from the tables of a pipeline by the pipeline itself.
LEMMA PassedStep ==
  ASSUME TypeOK, Passed, Step
  PROVE  Passed'
<1> USE PipelineAssumption DEF Id, Stage
<1>0. CASE vars' = vars
  BY <1>0 DEF Passed, vars
<1>1. ASSUME NEW n \in Node,
             Publish(n) \/ PassOn(n) \/ Delete(n) \/ Resets(n)
      PROVE  Passed'
  <2>1. CASE Publish(n)
    BY <2>1 DEF Passed, Publish, memory
  <2>2. CASE PassOn(n)
    BY <2>2, SMTT(30) DEF TypeOK, Passed, PassOn, streams
  <2>3. CASE Delete(n)
    BY <2>3 DEF TypeOK, Passed, Delete
  <2>4. CASE Resets(n)
    BY <2>4, SMTT(30) DEF TypeOK, Passed, Resets, Reset, streams
  <2> QED
    BY <1>1, <2>1, <2>2, <2>3, <2>4
<1>2. ASSUME NEW n \in Node, NEW m \in Id,
             Read(n, m) \/ Take(n, m) \/ Count(n, m)
      PROVE  Passed'
  <2>1. CASE Read(n, m)
    BY <2>1 DEF Passed, Read, streams
  <2>2. CASE Take(n, m)
    BY <2>2, SMTT(30) DEF TypeOK, Passed, Take, streams
  <2>3. CASE Count(n, m)
    BY <2>3, SMTT(30) DEF TypeOK, Passed, Count, Leave, Finished, streams
  <2> QED
    BY <1>2, <2>1, <2>2, <2>3
<1>3. ASSUME NEW n \in Node, NEW m \in Id, NEW k \in Stage,
             Write(n, k, m) \/ Forward(n, k, m)
      PROVE  Passed'
  <2> HIDE DEF Id, Stage
  <2>1. CASE Write(n, k, m)
    <3>1. /\ \A i \in Node, s \in Stage : busy'[i][s] \subseteq busy[i][s]
          /\ \A i \in Node, s \in Stage :
               ready'[i][s] \subseteq
                 ready[i][s] \cup (IF i = n /\ s = k THEN {m} ELSE {})
      BY <2>1 DEF TypeOK, Write
    <3>2. /\ \A j \in Stage : table[j] \subseteq table'[j]
          /\ m \in busy[n][k] /\ m \in table'[k]
          /\ counting' = counting /\ deleting' = deleting
      BY <2>1 DEF TypeOK, Write
    <3>3. \A j \in Stage : j <= k => m \in table'[j]
      <4> TAKE j \in Stage
      <4>1. j < k => busy[n][k] \subseteq table[j]
        BY DEF Passed
      <4> QED
        BY <3>2, <4>1 DEF Stage
    <3> QED
      BY <3>1, <3>2, <3>3 DEF Passed
  <2>2. CASE Forward(n, k, m)
    <3>1. /\ \A i \in Node, s \in Stage :
               busy'[i][s] \subseteq
                 busy[i][s] \cup (IF i = n /\ s = k + 1 THEN {m} ELSE {})
          /\ \A i \in Node, s \in Stage : ready'[i][s] \subseteq ready[i][s]
      BY <2>2 DEF TypeOK, Forward, Leave, Finished, Stage
    <3>2. /\ table' = table /\ m \in ready[n][k]
          /\ counting' = counting /\ deleting' = deleting
      BY <2>2 DEF Forward, Leave, Finished
    <3>3. \A j \in Stage : j < k + 1 => m \in table[j]
      BY <3>2 DEF Passed, Stage
    <3> QED
      BY <3>1, <3>2, <3>3 DEF Passed
  <2> QED
    BY <1>3, <2>1, <2>2
<1> QED
  <2> HIDE DEF Id, Stage
  <2> QED
    BY <1>0, <1>1, <1>2, <1>3, StepCases

\* Tables only grow; they grow by what a stage is busy with.
LEMMA TableStep ==
  ASSUME TypeOK, Step
  PROVE  \/ UNCHANGED table
         \/ \E n \in Node, k \in Stage, m \in Id :
              m \in busy[n][k] /\ table' = [table EXCEPT ![k] = @ \cup {m}]
<1> DEFINE P == \/ UNCHANGED table
                \/ \E n \in Node, k \in Stage, m \in Id :
                     /\ m \in busy[n][k]
                     /\ table' = [table EXCEPT ![k] = @ \cup {m}]
<1>0. vars' = vars => P
  BY DEF vars
<1>1. ASSUME NEW n \in Node,
             Publish(n) \/ PassOn(n) \/ Delete(n) \/ Resets(n)
      PROVE  P
  BY <1>1 DEF Publish, PassOn, Delete, Resets, Reset
<1>2. ASSUME NEW n \in Node, NEW m \in Id,
             Read(n, m) \/ Take(n, m) \/ Count(n, m)
      PROVE  P
  BY <1>2 DEF Read, Take, Count
<1>3. ASSUME NEW n \in Node, NEW m \in Id, NEW k \in Stage,
             Write(n, k, m) \/ Forward(n, k, m)
      PROVE  P
  BY <1>3 DEF Write, Forward
<1>4. P
  <2> HIDE DEF P
  <2> QED
    BY <1>0, <1>1, <1>2, <1>3, StepCases
<1> QED
  BY <1>4

\* Redis only loses what deleteFromRedis has collected, and gains what Icinga 2
\* publishes.
LEMMA RedisStep ==
  ASSUME TypeOK, Step, NEW n \in Node
  PROVE  \/ published'[n] = published[n]
            /\ redis[n] \ deleting[n] \subseteq redis'[n]
         \/ /\ published'[n] = published[n] + 1
            /\ redis'[n] = redis[n] \cup {published[n] + 1}
<1> DEFINE P ==
      \/ published'[n] = published[n] /\ redis[n] \ deleting[n] \subseteq redis'[n]
      \/ /\ published'[n] = published[n] + 1
         /\ redis'[n] = redis[n] \cup {published[n] + 1}
<1>0. vars' = vars => P
  BY DEF vars
<1>1. ASSUME NEW i \in Node,
             Publish(i) \/ PassOn(i) \/ Delete(i) \/ Resets(i)
      PROVE  P
  BY <1>1 DEF TypeOK, Publish, PassOn, Delete, Resets, Reset, streams
<1>2. ASSUME NEW i \in Node, NEW m \in Id,
             Read(i, m) \/ Take(i, m) \/ Count(i, m)
      PROVE  P
  BY <1>2 DEF Read, Take, Count, streams
<1>3. ASSUME NEW i \in Node, NEW m \in Id, NEW k \in Stage,
             Write(i, k, m) \/ Forward(i, k, m)
      PROVE  P
  BY <1>3 DEF Write, Forward, streams
<1>4. P
  <2> HIDE DEF P
  <2> QED
    BY <1>0, <1>1, <1>2, <1>3, StepCases
<1> QED
  BY <1>4

\* The strengthened invariant holds initially and is preserved.
LEMMA InitInvariant == Init => IInv
  BY PipelineAssumption DEF Init, Empty, IInv, TypeOK, Passed, NothingLost,
     DependenciesFirst, Id, Stage

LEMMA StepInvariant == IInv /\ Step => IInv'
<1> SUFFICES ASSUME IInv, Step PROVE IInv'
  OBVIOUS
<1>1. TypeOK'
  BY TypeStep DEF IInv
<1>2. Passed'
  BY PassedStep DEF IInv
<1>3. \A k \in Stage : table[k] \subseteq table'[k]
  BY TableStep DEF IInv, TypeOK
<1>4. NothingLost'
  <2> SUFFICES ASSUME NEW n \in Node, NEW m \in 1..published'[n],
                      m \notin redis'[n], NEW k \in Stage
               PROVE  m \in table'[k]
    BY DEF NothingLost
  <2>1. published[n] \in Nat
    BY PipelineAssumption DEF IInv, TypeOK
  <2>2. m \in 1..published[n]
    BY <2>1, RedisStep DEF IInv
  <2>3. m \notin redis[n] \/ m \in deleting[n]
    BY RedisStep DEF IInv
  <2> QED
    BY <2>2, <2>3, <1>3 DEF IInv, NothingLost, Passed
<1>5. DependenciesFirst'
  <2> SUFFICES ASSUME NEW k \in Stage, k > 1, NEW m \in table'[k]
               PROVE  m \in table'[k - 1]
    BY DEF DependenciesFirst
  <2>1. k - 1 \in Stage /\ k - 1 < k
    BY PipelineAssumption DEF Stage
  <2>2. CASE m \in table[k]
    BY <2>1, <2>2, <1>3 DEF IInv, DependenciesFirst
  <2>3. CASE m \notin table[k]
    <3>1. PICK n \in Node : m \in busy[n][k]
      BY <2>3, TableStep DEF IInv, TypeOK
    <3> QED
      BY <2>1, <3>1, <1>3 DEF IInv, Passed
  <2> QED
    BY <2>2, <2>3
<1> QED
  BY <1>1, <1>2, <1>4, <1>5 DEF IInv

\* A step of the tables is a step of the pipelines, or leaves them alone.
LEMMA TablesStep == TypeOK /\ [TablesNext]_allVars => Step
<1> SUFFICES ASSUME TypeOK, [TablesNext]_allVars PROVE Step
  OBVIOUS
<1>1. CASE UNCHANGED allVars
  BY <1>1 DEF allVars, Step
<1>2. ASSUME NEW n \in Node, Publish(n) \/ Restart(n) \/ Elsewhere(n)
      PROVE  Step
  BY <1>2 DEF Step, Next, Work, Elsewhere
<1>3. ASSUME NEW n \in Node, NEW m \in Id, NEW k \in Stage, Write(n, k, m)
      PROVE  Step
  BY <1>3 DEF Step, Next, Work
<1>4. ASSUME NEW n \in Node, NEW m \in Id, WriteParent(n, m) PROVE Step
  BY <1>3, <1>4, TablesAssumption, PipelineAssumption DEF WriteParent, Stage
<1>5. ASSUME NEW n \in Node, NEW m \in Id, NEW k \in Children,
             WriteChild(n, k, m) \/ Refused(n, k, m)
      PROVE  Step
  BY <1>3, <1>5 DEF WriteChild, Refused, Children, Step, Resets, TypeOK
<1>6. CASE Retention
  BY <1>6 DEF Retention, StartCleanup, DeleteRows, CancelCleanup, Step
<1> QED
  BY <1>1, <1>2, <1>4, <1>5, <1>6 DEF TablesNext, TablesWork

\* The strengthened invariant holds in every reachable state, with and without
\* the tables.
LEMMA InductiveInvariant == Spec => []IInv
<1>1. IInv /\ [Next]_vars => IInv'
  BY StepInvariant DEF Step
<1> QED
  BY <1>1, InitInvariant, PTL DEF Spec

LEMMA TablesInvariant == TablesSpec => []IInv
<1>1. TablesInit => IInv
  BY InitInvariant DEF TablesInit
<1>2. IInv /\ [TablesNext]_allVars => IInv'
  BY StepInvariant, TablesStep DEF IInv
<1> QED
  BY <1>1, <1>2, PTL DEF TablesSpec

\* An event leaves a node's Redis only when it has been written to all tables,
\* with crashes at any point, both nodes writing the same rows, and retention
\* deleting them in the middle.
THEOREM Nothing == (Spec \/ TablesSpec) => []NothingLost
  BY InductiveInvariant, TablesInvariant, PTL DEF IInv

\* No event is written to a table before it is written to the table before it.
THEOREM Order == (Spec \/ TablesSpec) => []DependenciesFirst
  BY InductiveInvariant, TablesInvariant, PTL DEF IInv

\* Events are where they can be in a process and in Redis, with the tables or
\* without.
THEOREM TypeCorrect == (Spec \/ TablesSpec) => []TypeOK
  BY InductiveInvariant, TablesInvariant, PTL DEF IInv

-------------------------------------------------------------------------------

\* What a call of CleanupOlderThan still has to delete matches its statement.
CleanupInv == TablesTypeOK /\ due \subseteq Matching /\ CleanupComplete

LEMMA CleanupInit == TablesInit => CleanupInv
<1> SUFFICES ASSUME TablesInit PROVE CleanupInv
  OBVIOUS
<1>1. row \in [Object -> {"absent", "open", "ended"}]
  <2> DEFINE r(o) == IF \E m \in Id : ObjectOf[m] = o THEN "absent" ELSE "ended"
  <2>1. row = [o \in Object |-> r(o)]
    BY DEF TablesInit
  <2>2. \A o \in Object : r(o) \in {"absent", "open", "ended"}
    OBVIOUS
  <2> HIDE DEF r
  <2> QED
    BY <2>1, <2>2
<1>2. child = [k \in Children |-> {}] /\ child \in [Children -> SUBSET Id]
  BY DEF TablesInit
<1>3. category \in Category /\ cleaning \in BOOLEAN
  BY Zenon DEF TablesInit
<1>4. deletes \in 0..MaxDelete
  BY TablesAssumption DEF TablesInit
<1>5. due = {} /\ overtaken = {} /\ taken \in [Children -> SUBSET Id]
  BY DEF TablesInit
<1> QED
  BY <1>1, <1>2, <1>3, <1>4, <1>5 DEF CleanupInv, TablesTypeOK, CleanupComplete

LEMMA CleanupStep == TypeOK /\ CleanupInv /\ [TablesNext]_allVars => CleanupInv'
<1> SUFFICES ASSUME TypeOK, CleanupInv, [TablesNext]_allVars PROVE CleanupInv'
  OBVIOUS
<1> USE TablesAssumption DEF CleanupInv, TablesTypeOK, CleanupComplete
<1>1. CASE UNCHANGED <<category, tableVars>>
  BY <1>1 DEF tableVars, retention, ghosts, Matching, HasTime
<1>2. ASSUME NEW n \in Node, NEW m \in Id, WriteParent(n, m) PROVE CleanupInv'
  <2>1. ObjectOf[m] \in Object
    OBVIOUS
  <2>2. /\ row' \in [Object -> {"absent", "open", "ended"}]
        /\ row'[ObjectOf[m]] # "absent"
        /\ \A o \in Object \ {ObjectOf[m]} : row'[o] = row[o]
    BY <1>2, <2>1 DEF WriteParent, Upserted
  <2>3. \A k \in Children : \A i \in child'[k] : row'[ObjectOf[i]] # "absent"
    BY <1>2, <2>2 DEF WriteParent
  <2>4. due' \subseteq Matching'
    BY <1>2, <2>2 DEF WriteParent, Matching, HasTime
  <2> QED
    BY <1>2, <2>2, <2>3, <2>4 DEF WriteParent, retention, Overtaken
<1>3. ASSUME NEW n \in Node, NEW m \in Id, NEW k \in Children, WriteChild(n, k, m)
      PROVE  CleanupInv'
  BY <1>3 DEF WriteChild, HasParent, retention, ghosts, Matching, HasTime
<1>4. CASE StartCleanup
  BY <1>4 DEF StartCleanup, Matching, HasTime
<1>5. CASE DeleteRows
  <2>1. PICK set \in SUBSET Matching :
          /\ Cardinality(set) = Limit
               \/ (Cardinality(set) < Limit /\ set = Matching)
          /\ row' = [o \in Object |-> IF o \in set THEN "absent" ELSE row[o]]
          /\ child' = [k \in Children |-> child[k] \ RowsOf(k, set)]
          /\ taken' = [k \in Children |-> taken[k] \cup RowsOf(k, set)]
          /\ due' = due \ set
          /\ cleaning' = ~Exhausted(Cardinality(set))
          /\ deletes' = deletes + (IF set = {} THEN 0 ELSE 1)
    BY <1>5 DEF DeleteRows
  <2>2. due' \subseteq Matching' /\ category' = category /\ overtaken' = overtaken
    BY <1>5, <2>1 DEF DeleteRows, Matching, HasTime
  <2>3. ~cleaning' => due' = {}
    BY <2>1 DEF Exhausted
  <2>4. deletes' \in 0..MaxDelete /\ cleaning' \in BOOLEAN
    BY <1>5, <2>1 DEF DeleteRows, Exhausted
  <2>5. \A k \in Children : \A i \in child'[k] : row'[ObjectOf[i]] # "absent"
    BY <2>1 DEF RowsOf
  <2>6. taken' \in [Children -> SUBSET Id] /\ child' \in [Children -> SUBSET Id]
    BY <2>1 DEF RowsOf
  <2> QED
    BY <2>1, <2>2, <2>3, <2>4, <2>5, <2>6
<1>6. CASE CancelCleanup
  BY <1>6 DEF CancelCleanup, Matching, HasTime
<1> QED
  BY <1>1, <1>2, <1>3, <1>4, <1>5, <1>6
  DEF TablesNext, TablesWork, Retention, Refused, allVars

\* The state of the tables is well-formed and their foreign keys hold.
THEOREM TablesCorrect == TablesSpec => []TablesTypeOK
<1>1. IInv => TypeOK
  BY DEF IInv
<1>2. CleanupInv => TablesTypeOK
  BY DEF CleanupInv
<1> QED
  BY <1>1, <1>2, CleanupInit, CleanupStep, TablesInvariant, PTL DEF TablesSpec

\* CleanupOlderThan returns only when every row that it had to delete is gone,
\* for any number of rows and any limit.
THEOREM Cleanup == TablesSpec => []CleanupComplete
<1>1. IInv => TypeOK
  BY DEF IInv
<1>2. CleanupInv => CleanupComplete
  BY DEF CleanupInv
<1> QED
  BY <1>1, <1>2, CleanupInit, CleanupStep, TablesInvariant, PTL DEF TablesSpec

-------------------------------------------------------------------------------

\* Where an event is before the first stage has written it, and after.
Early(n) == channel[n] \cup busy[n][1]
Later(n) ==
  {m \in Id : \/ m \in counting[n] \cup deleting[n]
              \/ \E k \in Stage : m \in ready[n][k] \/ (k > 1 /\ m \in busy[n][k])}

\* An event is read once in the life of a process and is in one place; while the
\* first stage has not written it, it stays in Redis.
Places(n) ==
  /\ position[n] <= published[n] /\ redis[n] \subseteq 1..published[n]
  /\ Early(n) \subseteq redis[n]
  /\ \A m \in Early(n) \cup Later(n) : m <= position[n]
  /\ channel[n] \cap busy[n][1] = {}
  /\ Early(n) \cap Later(n) = {}

PlacesInv == \A n \in Node : Places(n)

\* What a node has yet to write to the first table.
Pending(n, e) ==
  \/ e > published[n]
  \/ e \in redis[n] /\ (e > position[n] \/ e \in Early(n))

\* How a step moves the events of a node: along the stages, one at a time, from
\* Redis and, by the bulk that deleteFromRedis has collected, out of it.
Moved(n) ==
  \/ /\ published'[n] = published[n] + 1
     /\ redis'[n] = redis[n] \cup {published'[n]}
     /\ position'[n] = position[n] /\ channel'[n] = channel[n]
     /\ busy'[n][1] = busy[n][1] /\ Later(n)' = Later(n)
  \/ /\ published'[n] = published[n] /\ redis'[n] \subseteq redis[n]
     /\ redis[n] \ redis'[n] \subseteq Later(n)
     /\ position'[n] = position[n] /\ channel'[n] = channel[n]
     /\ busy'[n][1] = busy[n][1] /\ Later(n)' \subseteq Later(n)
  \/ /\ published'[n] = published[n] /\ redis'[n] = redis[n]
     /\ Later(n)' = Later(n)
     /\ \/ \E m \in redis[n] :
             /\ m > position[n]
             /\ \A other \in redis[n] : other > position[n] => m <= other
             /\ position'[n] = m
             /\ channel'[n] = channel[n] \cup {m} /\ busy'[n][1] = busy[n][1]
        \/ \E m \in channel[n] :
             /\ position'[n] = position[n] /\ channel'[n] = channel[n] \ {m}
             /\ busy'[n][1] = busy[n][1] \cup {m}
  \/ /\ published'[n] = published[n] /\ redis'[n] = redis[n]
     /\ position'[n] = position[n] /\ channel'[n] = channel[n]
     /\ \E m \in busy[n][1] :
          /\ Write(n, 1, m)
          /\ busy'[n][1] = busy[n][1] \ {m} /\ Later(n)' = Later(n) \cup {m}
  \/ /\ published'[n] = published[n] /\ redis'[n] = redis[n]
     /\ position'[n] = 0 /\ channel'[n] = {} /\ busy'[n][1] = {}
     /\ Later(n)' = {}

LEMMA MovedStep ==
  ASSUME TypeOK, Step, NEW i \in Node
  PROVE  Moved(i)
<1> USE PipelineAssumption DEF TypeOK
<1>0. /\ 1 \in Stage
      /\ \A k \in Stage : k \in Nat /\ (k = 1 \/ k > 1) /\ k <= Stages
      /\ \A k \in Stage : k < Stages => k + 1 \in Stage /\ k + 1 > 1
      /\ Stages \in Stage
  BY DEF Stage
<1>1. CASE vars' = vars
  BY <1>1 DEF vars, Moved, Later
<1>2. ASSUME NEW n \in Node, Publish(n) PROVE Moved(i)
  <2>1. CASE i = n
    BY <1>2, <2>1 DEF Publish, memory, Moved, Later
  <2>2. CASE i # n
    BY <1>2, <2>2 DEF Publish, memory, Moved, Later
  <2> QED
    BY <2>1, <2>2
<1>3. ASSUME NEW n \in Node, PassOn(n) PROVE Moved(i)
  <2>1. Later(i)' \subseteq Later(i)
    BY <1>3 DEF PassOn, Later
  <2> QED
    BY <1>3, <2>1 DEF PassOn, streams, Moved
<1>4. ASSUME NEW n \in Node, Delete(n) PROVE Moved(i)
  <2>1. Later(i)' \subseteq Later(i)
    BY <1>4 DEF Delete, Later
  <2>2. redis[i] \ redis'[i] \subseteq Later(i) /\ redis'[i] \subseteq redis[i]
    BY <1>4 DEF Delete, Later
  <2> QED
    BY <1>4, <2>1, <2>2 DEF Delete, Moved
<1>5. ASSUME NEW n \in Node, Resets(n) PROVE Moved(i)
  <2>1. CASE i = n
    <3>1. Later(n)' = {}
      BY <1>5 DEF Resets, Reset, Later
    <3> QED
      BY <1>0, <1>5, <2>1, <3>1 DEF Resets, Reset, StartPosition, streams, Moved
  <2>2. CASE i # n
    <3>1. Later(i)' = Later(i)
      BY <1>5, <2>2 DEF Resets, Reset, Later
    <3> QED
      BY <1>5, <2>2, <3>1 DEF Resets, Reset, streams, Moved
  <2> QED
    BY <2>1, <2>2
<1>6. ASSUME NEW n \in Node, NEW m \in Id, Read(n, m) PROVE Moved(i)
  <2>1. Later(i)' = Later(i)
    BY <1>6 DEF Read, Later
  <2>2. CASE i = n
    BY <1>6, <2>1, <2>2 DEF Read, PositionAfter, streams, Moved
  <2>3. CASE i # n
    BY <1>6, <2>1, <2>3 DEF Read, streams, Moved
  <2> QED
    BY <2>2, <2>3
<1>7. ASSUME NEW n \in Node, NEW m \in Id, Take(n, m) PROVE Moved(i)
  <2>1. \A k \in Stage : k > 1 => busy'[i][k] = busy[i][k]
    BY <1>0, <1>7 DEF Take
  <2>2. Later(i)' = Later(i)
    BY <1>7, <2>1 DEF Take, Later
  <2>3. CASE i = n
    BY <1>0, <1>7, <2>2, <2>3 DEF Take, streams, Moved
  <2>4. CASE i # n
    BY <1>0, <1>7, <2>2, <2>4 DEF Take, streams, Moved
  <2> QED
    BY <2>3, <2>4
<1>8. ASSUME NEW n \in Node, NEW m \in Id, Count(n, m) PROVE Moved(i)
  <2>1. Later(i)' \subseteq Later(i)
    BY <1>0, <1>8 DEF Count, Leave, Finished, Later
  <2> QED
    BY <1>8, <2>1 DEF Count, streams, Moved
<1>9. ASSUME NEW n \in Node, NEW m \in Id, NEW k \in Stage, Forward(n, k, m)
      PROVE  Moved(i)
  <2>1. Later(i)' \subseteq Later(i)
    BY <1>0, <1>9 DEF Forward, Leave, Finished, Later
  <2>2. busy'[i][1] = busy[i][1]
    BY <1>0, <1>9 DEF Forward
  <2> QED
    BY <1>9, <2>1, <2>2 DEF Forward, streams, Moved
<1>10. ASSUME NEW n \in Node, NEW m \in Id, NEW k \in Stage, Write(n, k, m)
       PROVE  Moved(i)
  <2>1. CASE i # n
    <3>1. busy'[i] = busy[i] /\ ready'[i] = ready[i]
      BY <1>10, <2>1 DEF Write
    <3>2. Later(i)' = Later(i)
      BY <1>10, <3>1 DEF Write, Later
    <3> QED
      BY <1>10, <3>1, <3>2 DEF Write, streams, Moved
  <2>2. CASE i = n /\ k > 1
    <3>1. Later(i)' \subseteq Later(i)
      BY <1>0, <1>10, <2>2 DEF Write, Later
    <3>2. busy'[i][1] = busy[i][1]
      BY <1>0, <1>10, <2>2 DEF Write
    <3> QED
      BY <1>10, <3>1, <3>2 DEF Write, streams, Moved
  <2>3. CASE i = n /\ k = 1
    <3>1. /\ \A j \in Stage : j > 1 => busy'[i][j] = busy[i][j]
          /\ \A j \in Stage : j > 1 => ready'[i][j] = ready[i][j]
          /\ ready'[i][1] = ready[i][1] \cup {m}
          /\ busy'[i][1] = busy[i][1] \ {m} /\ m \in busy[i][1]
      BY <1>0, <1>10, <2>3 DEF Write
    <3>2. Later(i)' = Later(i) \cup {m}
      BY <1>0, <1>10, <3>1 DEF Write, Later
    <3> QED
      BY <1>10, <2>3, <3>1, <3>2 DEF Write, streams, Moved
  <2> QED
    BY <1>0, <2>1, <2>2, <2>3
<1> QED
  BY <1>1, <1>2, <1>3, <1>4, <1>5, <1>6, <1>7, <1>8, <1>9, <1>10, StepCases

\* No event that the first stage has not written can be lost from Redis.
LEMMA PlacesStep ==
  ASSUME TypeOK, PlacesInv, Step
  PROVE  PlacesInv'
<1> SUFFICES ASSUME NEW n \in Node PROVE Places(n)'
  BY DEF PlacesInv
<1>1. Places(n) /\ Moved(n)
  BY MovedStep DEF PlacesInv
<1>2. /\ published[n] \in Nat /\ position[n] \in Nat /\ redis[n] \subseteq Nat
      /\ 1 \in Stage /\ busy[n][1] \subseteq Nat /\ channel[n] \subseteq Nat
      /\ Later(n) \subseteq Nat
  BY PipelineAssumption DEF TypeOK, Id, Stage, Later
<1> QED
  BY <1>1, <1>2 DEF Places, Moved, Early

\* An event stays pending until the first stage writes it.
LEMMA PendingStep ==
  ASSUME TypeOK, PlacesInv, Step, NEW n \in Node, NEW e \in Id, Pending(n, e)
  PROVE  Pending(n, e)' \/ Write(n, 1, e)
<1>1. Places(n) /\ Moved(n)
  BY MovedStep DEF PlacesInv
<1>2. /\ published[n] \in Nat /\ position[n] \in Nat /\ redis[n] \subseteq Nat
      /\ e \in Nat /\ e > 0
  BY PipelineAssumption DEF TypeOK, Id
<1> QED
  BY <1>1, <1>2 DEF Places, Moved, Early, Pending

\* An open row that no node has overtaken was opened by a node that has yet to
\* write every end of its object.
EndPending ==
  \A o \in Object \ overtaken :
    row[o] = "open" =>
      \E n \in Node : \A e \in Ending : ObjectOf[e] = o => Pending(n, e)

\* What has been written is there unless retention has deleted it.
RowsInv == \A k \in Children : table[k] \subseteq child[k] \cup taken[k]

TablesInv ==
  IInv /\ TablesTypeOK /\ PlacesInv /\ EndPending /\ RowsInv

\* Nothing else writes for the first stage.
LEMMA OtherSteps ==
  ASSUME TypeOK,
         \/ \E n \in Node : Publish(n) \/ Resets(n) \/ Elsewhere(n)
         \/ \E n \in Node, m \in Id, k \in Children : Write(n, k, m)
         \/ UNCHANGED busy
  PROVE  ~ \E i \in Node, e \in Id : Write(i, 1, e)
<1> SUFFICES ASSUME NEW i \in Node, NEW e \in Id, Write(i, 1, e)
             PROVE  FALSE
  OBVIOUS
<1> USE DEF TypeOK
<1>0. 1 \in Stage /\ \A k \in Stage : k + 1 # 1
  BY PipelineAssumption DEF Stage
<1>1. /\ ~(busy[i][1] \subseteq busy'[i][1])
      /\ ready'[i][1] # {}
  BY <1>0 DEF Write
<1>2. ASSUME NEW n \in Node, Publish(n) \/ PassOn(n) \/ Delete(n)
      PROVE  FALSE
  BY <1>1, <1>2 DEF Publish, PassOn, Delete, memory
<1>3. ASSUME NEW n \in Node, Resets(n) PROVE FALSE
  BY <1>0, <1>1, <1>3 DEF Resets, Reset
<1>4. ASSUME NEW n \in Node, NEW m \in Id, Read(n, m) \/ Take(n, m) \/ Count(n, m)
      PROVE  FALSE
  BY <1>0, <1>1, <1>4 DEF Read, Take, Count
<1>5. ASSUME NEW n \in Node, NEW m \in Id, NEW k \in Stage, Forward(n, k, m)
      PROVE  FALSE
  BY <1>0, <1>1, <1>5 DEF Forward
<1>6. ASSUME NEW n \in Node, NEW m \in Id, NEW k \in Children, Write(n, k, m)
      PROVE  FALSE
  BY <1>0, <1>1, <1>6, SMTT(30) DEF Write, Children
<1> QED
  BY <1>1, <1>2, <1>3, <1>4, <1>5, <1>6 DEF Elsewhere

\* Only the first stage opens and ends rows, and a row that is open stays as
\* pending as it was until an end is written.
LEMMA EndPendingStep ==
  ASSUME TablesInv, [TablesNext]_allVars
  PROVE  EndPending'
<1> USE TablesAssumption DEF TablesInv, IInv
<1>0. Step
  BY TablesStep
<1>1. ASSUME \A o \in Object : row'[o] = "open" => row[o] = "open",
             overtaken' = overtaken,
             ~ \E n \in Node, e \in Id : Write(n, 1, e)
      PROVE  EndPending'
  <2> SUFFICES ASSUME NEW o \in Object \ overtaken, row'[o] = "open"
               PROVE  \E n \in Node : \A e \in Ending :
                        ObjectOf[e] = o => Pending(n, e)'
    BY <1>1 DEF EndPending
  <2>1. PICK n \in Node : \A e \in Ending : ObjectOf[e] = o => Pending(n, e)
    BY <1>1 DEF EndPending
  <2> QED
    BY <1>0, <1>1, <2>1, PendingStep
<1>2. ASSUME NEW n \in Node, NEW m \in Id, WriteParent(n, m) PROVE EndPending'
  <2>0. /\ Write(n, 1, m) /\ ObjectOf[m] \in Object
        /\ row' = [row EXCEPT ![ObjectOf[m]] = Upserted(@, m)]
        /\ overtaken' = overtaken \cup Overtaken(n, m)
        /\ 1 \in Stage
    BY <1>2, PipelineAssumption DEF WriteParent, Stage
  <2> SUFFICES ASSUME NEW o \in Object \ overtaken', row'[o] = "open"
               PROVE  \E i \in Node : \A e \in Ending :
                        ObjectOf[e] = o => Pending(i, e)'
    BY DEF EndPending
  <2>1. \A i \in Node, e \in Id : Write(i, 1, e) => e = m
    <3> SUFFICES ASSUME NEW i \in Node, NEW e \in Id, Write(i, 1, e), e # m
                 PROVE  FALSE
      OBVIOUS
    <3>1. e \in busy[i][1] /\ e \notin busy'[i][1]
      BY <2>0 DEF TypeOK, Write
    <3>2. busy'[i][1] = busy[i][1] \/ busy'[i][1] = busy[i][1] \ {m}
      BY <2>0, SMTT(30) DEF TypeOK, Write
    <3> QED
      BY <3>1, <3>2
  <2>2. CASE o # ObjectOf[m]
    <3>1. row[o] = "open" /\ o \notin overtaken
      BY <2>0, <2>2 DEF TablesTypeOK
    <3>2. PICK i \in Node : \A e \in Ending : ObjectOf[e] = o => Pending(i, e)
      BY <3>1 DEF EndPending
    <3>3. \A e \in Ending : ObjectOf[e] = o => ~Write(i, 1, e)
      BY <2>1, <2>2
    <3> QED
      BY <1>0, <3>2, <3>3, PendingStep
  <2>3. CASE o = ObjectOf[m]
    <3>1. m \notin Ending
      BY <2>0, <2>3 DEF TablesTypeOK, Upserted
    <3>2. Overtaken(n, m) = {}
      BY <2>0, <2>3 DEF Overtaken
    <3>3. \A e \in Ending : ObjectOf[e] = o => Pending(n, e)
      <4> SUFFICES ASSUME NEW e \in Ending, ObjectOf[e] = o PROVE Pending(n, e)
        OBVIOUS
      <4>1. \/ ~(e <= published[n])
            \/ e \in redis[n] /\ e > position[n]
            \/ e \in Early(n)
        BY <2>3, <3>1, <3>2 DEF Overtaken, Early
      <4>2. Early(n) \subseteq redis[n]
        BY DEF PlacesInv, Places
      <4>3. published[n] \in Nat /\ e \in Nat
        BY PipelineAssumption DEF TypeOK, Id
      <4> QED
        BY <4>1, <4>2, <4>3 DEF Pending
    <3>4. \A e \in Ending : ~Write(n, 1, e)
      BY <2>1, <3>1
    <3> QED
      BY <1>0, <3>3, <3>4, PendingStep
  <2> QED
    BY <2>2, <2>3
<1>3. CASE UNCHANGED allVars
  <2>1. UNCHANGED <<busy, row, overtaken>>
    BY <1>3 DEF allVars, vars, tableVars, ghosts
  <2> QED
    BY <1>1, <2>1, OtherSteps
<1>4. ASSUME NEW n \in Node, Publish(n) \/ Resets(n) \/ Elsewhere(n),
             UNCHANGED <<category, tableVars>>
      PROVE  EndPending'
  <2>1. UNCHANGED <<row, overtaken>>
    BY <1>4 DEF tableVars, ghosts
  <2> QED
    BY <1>1, <1>4, <2>1, OtherSteps
<1>5. ASSUME NEW n \in Node, NEW m \in Id, NEW k \in Children, WriteChild(n, k, m)
      PROVE  EndPending'
  <2>1. UNCHANGED <<row, overtaken>> /\ Write(n, k, m)
    BY <1>5 DEF WriteChild, ghosts
  <2> QED
    BY <1>1, <2>1, OtherSteps
<1>6. CASE Retention
  <2>1. UNCHANGED <<busy, overtaken>>
    BY <1>6 DEF Retention, StartCleanup, DeleteRows, CancelCleanup, vars
  <2>2. \A o \in Object : row'[o] = "open" => row[o] = "open"
    BY <1>6 DEF Retention, StartCleanup, DeleteRows, CancelCleanup
  <2> QED
    BY <1>1, <2>1, <2>2, OtherSteps
<1>7. ASSUME NEW n \in Node, Restart(n) PROVE Resets(n)
  BY <1>7, PipelineAssumption DEF TypeOK, Restart, Resets
<1>8. ASSUME NEW n \in Node, NEW m \in Id, NEW k \in Children, Refused(n, k, m)
      PROVE  Resets(n) /\ UNCHANGED <<category, tableVars>>
  BY <1>8 DEF TypeOK, Refused, Resets
<1> QED
  <2>1. CASE UNCHANGED allVars
    BY <1>3, <2>1
  <2>2. CASE TablesNext
    BY <1>2, <1>4, <1>5, <1>6, <1>7, <1>8, <2>2 DEF TablesNext, TablesWork
  <2> QED
    BY <2>1, <2>2

\* Rows only go missing by a DELETE, which is remembered.
LEMMA RowsStep ==
  ASSUME TablesInv, [TablesNext]_allVars
  PROVE  RowsInv'
<1> USE TablesAssumption DEF TablesInv, IInv, RowsInv
<1>0. 1 \in Stage /\ Children \subseteq Stage /\ 1 \notin Children
  BY PipelineAssumption DEF Stage, Children
<1>1. ASSUME UNCHANGED <<table, child, taken>> PROVE RowsInv'
  BY <1>1
<1>2. ASSUME NEW n \in Node, NEW m \in Id, WriteParent(n, m) PROVE RowsInv'
  <2>1. table' = [table EXCEPT ![1] = @ \cup {m}] /\ UNCHANGED <<child, taken>>
    BY <1>2 DEF WriteParent, Write
  <2>2. \A k \in Children : table'[k] = table[k]
    BY <1>0, <2>1 DEF TypeOK
  <2> QED
    BY <2>1, <2>2
<1>3. ASSUME NEW n \in Node, NEW m \in Id, NEW k \in Children, WriteChild(n, k, m)
      PROVE  RowsInv'
  <2>1. /\ table' = [table EXCEPT ![k] = @ \cup {m}]
        /\ child' = [child EXCEPT ![k] = @ \cup {m}]
        /\ taken' = [taken EXCEPT ![k] = @ \ {m}]
    BY <1>3 DEF WriteChild, Write
  <2>2. /\ table'[k] = table[k] \cup {m}
        /\ \A j \in Children \ {k} : table'[j] = table[j]
    BY <1>0, <2>1 DEF TypeOK
  <2>3. /\ child'[k] = child[k] \cup {m}
        /\ \A j \in Children \ {k} : child'[j] = child[j]
        /\ taken'[k] = taken[k] \ {m}
        /\ \A j \in Children \ {k} : taken'[j] = taken[j]
    BY <2>1 DEF TablesTypeOK
  <2> QED
    BY <2>2, <2>3
<1>4. CASE StartCleanup \/ CancelCleanup
  BY <1>1, <1>4 DEF StartCleanup, CancelCleanup, vars
<1>5. CASE DeleteRows
  <2>1. PICK set \in SUBSET Matching :
          /\ child' = [k \in Children |-> child[k] \ RowsOf(k, set)]
          /\ taken' = [k \in Children |-> taken[k] \cup RowsOf(k, set)]
    BY <1>5 DEF DeleteRows
  <2>2. UNCHANGED table
    BY <1>5 DEF DeleteRows, vars
  <2> QED
    BY <2>1, <2>2
<1> QED
  <2>1. ASSUME NEW n \in Node, Publish(n) \/ Restart(n) \/ Elsewhere(n)
        PROVE  UNCHANGED table
    BY <2>1 DEF Publish, Restart, Reset, Elsewhere, PassOn, Delete, Read, Take,
       Count, Forward
  <2>2. ASSUME NEW n \in Node, NEW m \in Id, NEW k \in Children, Refused(n, k, m)
        PROVE  UNCHANGED <<table, child, taken>>
    BY <2>2 DEF Refused, Reset, tableVars, ghosts
  <2>3. CASE UNCHANGED allVars
    BY <1>1, <2>3 DEF allVars, vars, tableVars, ghosts
  <2>4. CASE TablesNext
    BY <1>1, <1>2, <1>3, <1>4, <1>5, <2>1, <2>2, <2>4
       DEF TablesNext, TablesWork, Retention, tableVars, ghosts
  <2> QED
    BY <2>3, <2>4

\* The invariant of the pipelines with their tables, in every reachable state.
LEMMA TablesInductive == TablesSpec => []TablesInv
<1>1. TablesInit => TablesInv
  <2> SUFFICES ASSUME TablesInit PROVE TablesInv
    OBVIOUS
  <2>1. IInv /\ TablesTypeOK
    BY InitInvariant, CleanupInit DEF TablesInit, CleanupInv
  <2>2. PlacesInv
    BY PipelineAssumption
       DEF TablesInit, Init, Empty, PlacesInv, Places, Early, Later, Stage
  <2>3. EndPending
    BY TablesAssumption DEF TablesInit, EndPending
  <2>4. RowsInv
    BY PipelineAssumption DEF TablesInit, Init, RowsInv, Stage, Children
  <2> QED
    BY <2>1, <2>2, <2>3, <2>4 DEF TablesInv
<1>2. TablesInv /\ [TablesNext]_allVars /\ IInv' /\ TablesTypeOK' => TablesInv'
  BY PlacesStep, TablesStep, EndPendingStep, RowsStep DEF TablesInv, IInv
<1> QED
  BY <1>1, <1>2, TablesInvariant, TablesCorrect, PTL DEF TablesSpec

\* The row of an object shows its end once all nodes have written that, unless a
\* node has written it before the beginning: no crash, no repetition and no delay
\* between the nodes opens a row for good.
THEOREM Ended == TablesSpec => []EndedUnlessOvertaken
<1>1. TablesInv => EndedUnlessOvertaken
  <2> SUFFICES ASSUME TablesInv, NEW e \in Ending,
                      \A n \in Node : /\ e <= published[n]
                                      /\ {m \in Id : ObjectOf[m] = ObjectOf[e]}
                                           \cap redis[n] = {},
                      row[ObjectOf[e]] = "open", ObjectOf[e] \notin overtaken
               PROVE  FALSE
    BY DEF EndedUnlessOvertaken
  <2>1. e \in Id /\ ObjectOf[e] \in Object
    BY TablesAssumption
  <2>2. PICK n \in Node : Pending(n, e)
    BY <2>1 DEF TablesInv, EndPending
  <2> QED
    BY <2>1, <2>2 DEF Pending, TablesInv, IInv, TypeOK, Id
<1> QED
  BY <1>1, TablesInductive, PTL

\* An event that is gone from the streams of a node has its row and all those
\* that reference it, save those that a DELETE has taken: no deletion between two
\* stages, of whatever node, loses an event that has yet to be written.
THEOREM Missing == TablesSpec => []OnlyDeletedRowsMissing
<1>1. TablesInv => OnlyDeletedRowsMissing
  <2> SUFFICES ASSUME TablesInv, NEW n \in Node, NEW m \in Id, NEW k \in Children,
                      m <= published[n], m \notin redis[n], m \notin taken[k]
               PROVE  row[ObjectOf[m]] # "absent" /\ m \in child[k]
    BY DEF OnlyDeletedRowsMissing
  <2>1. m \in 1..published[n]
    BY PipelineAssumption DEF TablesInv, IInv, TypeOK, Id
  <2>2. m \in table[k]
    BY <2>1 DEF TablesInv, IInv, NothingLost, Children
  <2> QED
    BY <2>2 DEF TablesInv, RowsInv, TablesTypeOK
<1> QED
  BY <1>1, TablesInductive, PTL
===============================================================================
