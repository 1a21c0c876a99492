--------------------------- MODULE HistoryStage_proof ---------------------------
(* HistoryStage implements StageContract, for every set of events, every number *)
(* of entities per event and every size of the insert channel.  Together with   *)
(* countElementStage and deleteFromRedis, it still behaves as HistoryStage says, *)
(* and what they delete from Redis is in the database.                          *)
EXTENDS HistoryTail, FiniteSetTheorems, TLAPS

\* Everything on its way is registered in the state map, in one place only.
FlowInv ==
  /\ rest \cup insert \cup bulk \cup acks \subseteq state
  /\ acks \subseteq db
  /\ rest \cap insert = {}
  /\ bulk \cap (rest \cup insert) = {}
  /\ acks \cap (rest \cup insert \cup bulk) = {}

\* An entity that left the state map before the last one of its event did is in
\* the database.
RegisteredInv ==
  /\ \A e \in state : Owner[e] \notin in \cup outgoing \cup out
  /\ \A e, f \in Entity :
       Owner[e] = Owner[f] /\ e \in state /\ f \notin state => f \in db

\* What has been released is complete, taken from in and released only once.
ReleasedInv ==
  /\ \A m \in outgoing \cup out : m \notin in /\ Entities(m) \subseteq db
  /\ outgoing \cap out = {}
  /\ \A m, n \in outgoing : m = n
  /\ forwarder = "send" => outgoing # {}
  /\ forwarder # "send" => outgoing = {}

\* The event without entities that waits for the forwarder.
SkipInv ==
  reader = "skip" =>
    \E m \in Msg : /\ current = {m} /\ Entities(m) = {}
                   /\ m \notin in \cup outgoing \cup out

IInv ==
  /\ TypeOK /\ PendingCountsState
  /\ FlowInv /\ RegisteredInv /\ ReleasedInv /\ SkipInv

\* Every step is a step of one of the goroutines, a fault or a stutter.
LEMMA StepCases ==
  ASSUME [Next]_vars
  PROVE  \/ UNCHANGED vars
         \/ \E m \in Msg : Receive(m)
         \/ \E e \in Entity : Insert(e)
         \/ Skip
         \/ ReaderReturns
         \/ \E m \in Msg : ReaderFails(m)
         \/ \E e \in Entity : CollectBulk(e)
         \/ \E S \in SUBSET Entity : ExecuteBulk(S)
         \/ \E error \in BOOLEAN : UpserterReturns(error)
         \/ \E e \in Entity : Acknowledge(e)
         \/ Forward
         \/ ForwarderReturns
         \/ Cancel
         \/ PreviousStops \/ NextStops
BY DEF Next, Reader, Upserter, Forwarder, Faults

\* Sets of entities are finite.
LEMMA EntitiesFinite ==
  ASSUME NEW m, NEW S
  PROVE  /\ IsFiniteSet(Entities(m) \cap S)
         /\ Cardinality(Entities(m) \cap S) \in Nat
BY StageAssumption, FS_Subset, FS_CardinalityType DEF Entities

\* One acknowledgement takes one entity out of a set.
LEMMA CountsOneLess ==
  ASSUME NEW S, IsFiniteSet(S), NEW e \in S
  PROVE  Cardinality(S \ {e}) = Cardinality(S) - 1
BY FS_RemoveElement

\* Every variable keeps its type; State.Pending never drops below 0 because every
\* acknowledgement finds its entry in the state map.
LEMMA TypeStep ==
  ASSUME TypeOK, FlowInv, PendingCountsState, [Next]_vars
  PROVE  TypeOK'
<1> USE StageAssumption DEF TypeOK, readerVars, upserterVars, forwarderVars, mapVars, contexts
<1>1. ASSUME NEW m \in Msg, Receive(m) PROVE TypeOK'
  <2>1. Cardinality(Entities(m)) \in Nat
    BY FS_Subset, FS_CardinalityType DEF Entities
  <2>. QED
    BY <1>1, <2>1 DEF Receive, PendingOf, Entities
<1>2. ASSUME NEW e \in Entity, Insert(e) PROVE TypeOK'
  BY <1>2 DEF Insert
<1>3. CASE Skip
  BY <1>3 DEF Skip
<1>4. CASE ReaderReturns
  BY <1>4 DEF ReaderReturns
<1>5. ASSUME NEW m \in Msg, ReaderFails(m) PROVE TypeOK'
  BY <1>5 DEF ReaderFails
<1>6. ASSUME NEW e \in Entity, CollectBulk(e) PROVE TypeOK'
  BY <1>6 DEF CollectBulk
<1>7. ASSUME NEW S \in SUBSET Entity, ExecuteBulk(S) PROVE TypeOK'
  BY <1>7 DEF ExecuteBulk
<1>8. ASSUME NEW error \in BOOLEAN, UpserterReturns(error) PROVE TypeOK'
  BY <1>8 DEF UpserterReturns
<1>9. ASSUME NEW e \in Entity, Acknowledge(e) PROVE TypeOK'
  <2>1. e \in Entities(Owner[e]) \cap state /\ Owner[e] \in Msg
    BY <1>9 DEF Acknowledge, Entities, FlowInv
  <2>2. pending[Owner[e]] # 0
    BY <2>1, EntitiesFinite, FS_EmptySet DEF PendingCountsState
  <2>. QED
    BY <1>9, <2>1, <2>2 DEF Acknowledge, Forget
<1>10. CASE Forward
  BY <1>10 DEF Forward
<1>11. CASE ForwarderReturns
  BY <1>11 DEF ForwarderReturns
<1>12. CASE Cancel
  BY <1>12 DEF Cancel
<1>13. CASE PreviousStops \/ NextStops
  BY <1>13 DEF PreviousStops, NextStops
<1>14. CASE UNCHANGED vars
  BY <1>14 DEF vars
<1>. QED
  BY StepCases, <1>1, <1>2, <1>3, <1>4, <1>5, <1>6, <1>7, <1>8, <1>9, <1>10,
     <1>11, <1>12, <1>13, <1>14

\* The flow of the entities.
LEMMA FlowStep ==
  ASSUME TypeOK, FlowInv, RegisteredInv, [Next]_vars
  PROVE  FlowInv'
<1> USE StageAssumption DEF TypeOK, FlowInv, RegisteredInv, Entities, readerVars, upserterVars, forwarderVars, mapVars, contexts
<1>1. ASSUME NEW m \in Msg, Receive(m) PROVE FlowInv'
  BY <1>1 DEF Receive, PendingOf
<1>2. ASSUME NEW e \in Entity, Insert(e) PROVE FlowInv'
  BY <1>2 DEF Insert
<1>3. CASE Skip
  BY <1>3 DEF Skip
<1>4. CASE ReaderReturns
  BY <1>4 DEF ReaderReturns
<1>5. ASSUME NEW m \in Msg, ReaderFails(m) PROVE FlowInv'
  BY <1>5 DEF ReaderFails
<1>6. ASSUME NEW e \in Entity, CollectBulk(e) PROVE FlowInv'
  BY <1>6 DEF CollectBulk
<1>7. ASSUME NEW S \in SUBSET Entity, ExecuteBulk(S) PROVE FlowInv'
  BY <1>7 DEF ExecuteBulk
<1>8. ASSUME NEW error \in BOOLEAN, UpserterReturns(error) PROVE FlowInv'
  BY <1>8 DEF UpserterReturns
<1>9. ASSUME NEW e \in Entity, Acknowledge(e) PROVE FlowInv'
  BY <1>9 DEF Acknowledge, Forget, Completes
<1>10. CASE Forward
  BY <1>10 DEF Forward
<1>11. CASE ForwarderReturns
  BY <1>11 DEF ForwarderReturns
<1>12. CASE Cancel
  BY <1>12 DEF Cancel
<1>13. CASE PreviousStops \/ NextStops
  BY <1>13 DEF PreviousStops, NextStops
<1>14. CASE UNCHANGED vars
  BY <1>14 DEF vars
<1>. QED
  BY StepCases, <1>1, <1>2, <1>3, <1>4, <1>5, <1>6, <1>7, <1>8, <1>9, <1>10,
     <1>11, <1>12, <1>13, <1>14

\* The counter follows the state map.
LEMMA PendingStep ==
  ASSUME TypeOK, FlowInv, RegisteredInv, PendingCountsState, [Next]_vars
  PROVE  PendingCountsState'
<1> USE StageAssumption DEF TypeOK, PendingCountsState, readerVars, upserterVars, forwarderVars, mapVars, contexts
<1>1. ASSUME NEW m \in Msg, Receive(m) PROVE PendingCountsState'
  <2>1. \A k \in Msg \ {m} : Entities(k) \cap (state \cup Entities(m))
                                = Entities(k) \cap state
    BY DEF Entities
  <2>2. Entities(m) \cap (state \cup Entities(m)) = Entities(m)
    OBVIOUS
  <2>3. CASE Entities(m) = {}
    BY <1>1, <2>3 DEF Receive, PendingOf, Entities
  <2>4. CASE Entities(m) # {}
    <3>1. state' = state \cup Entities(m)
      BY <1>1, <2>4 DEF Receive
    <3>2. pending' = [pending EXCEPT ![m] = Cardinality(Entities(m))]
      BY <1>1, <2>4 DEF Receive, PendingOf
    <3>. QED
      BY <2>1, <2>2, <3>1, <3>2 DEF Entities
  <2>. QED
    BY <2>3, <2>4
<1>2. ASSUME NEW e \in Entity, Insert(e) PROVE PendingCountsState'
  BY <1>2 DEF Insert
<1>3. CASE Skip
  BY <1>3 DEF Skip
<1>4. CASE ReaderReturns
  BY <1>4 DEF ReaderReturns
<1>5. ASSUME NEW m \in Msg, ReaderFails(m) PROVE PendingCountsState'
  BY <1>5 DEF ReaderFails
<1>6. ASSUME NEW e \in Entity, CollectBulk(e) PROVE PendingCountsState'
  BY <1>6 DEF CollectBulk
<1>7. ASSUME NEW S \in SUBSET Entity, ExecuteBulk(S) PROVE PendingCountsState'
  BY <1>7 DEF ExecuteBulk
<1>8. ASSUME NEW error \in BOOLEAN, UpserterReturns(error) PROVE PendingCountsState'
  BY <1>8 DEF UpserterReturns
<1>9. ASSUME NEW e \in Entity, Acknowledge(e) PROVE PendingCountsState'
  <2>1. e \in state
    BY <1>9 DEF Acknowledge, FlowInv
  <2> DEFINE m == Owner[e]
             S == Entities(m) \cap state
  <2>2. e \in S /\ IsFiniteSet(S)
    BY <2>1, EntitiesFinite DEF Entities
  <2>3. Cardinality(S \ {e}) = Cardinality(S) - 1
    BY <2>2, CountsOneLess
  <2>4. Entities(m) \cap (state \ {e}) = S \ {e}
    OBVIOUS
  <2>5. \A k \in Msg \ {m} : Entities(k) \cap (state \ {e}) = Entities(k) \cap state
    BY DEF Entities
  <2>6. /\ state' = state \ {e}
        /\ pending' = [pending EXCEPT ![m] = pending[m] - 1]
    BY <1>9 DEF Acknowledge, Forget
  <2>7. \A k \in Msg : pending'[k] = Cardinality(Entities(k) \cap (state \ {e}))
    BY <2>3, <2>4, <2>5, <2>6
  <2>. QED
    BY <2>6, <2>7 DEF Entities
<1>10. CASE Forward
  BY <1>10 DEF Forward
<1>11. CASE ForwarderReturns
  BY <1>11 DEF ForwarderReturns
<1>12. CASE Cancel
  BY <1>12 DEF Cancel
<1>13. CASE PreviousStops \/ NextStops
  BY <1>13 DEF PreviousStops, NextStops
<1>14. CASE UNCHANGED vars
  BY <1>14 DEF vars
<1>. QED
  BY StepCases, <1>1, <1>2, <1>3, <1>4, <1>5, <1>6, <1>7, <1>8, <1>9, <1>10,
     <1>11, <1>12, <1>13, <1>14

\* The acknowledgement that completes an event is the one for its last entity.
LEMMA LastAcknowledgement ==
  ASSUME TypeOK, FlowInv, PendingCountsState, RegisteredInv,
         NEW e \in Entity, Acknowledge(e), Completes(Owner[e])
  PROVE  Entities(Owner[e]) \cap state = {e} /\ Entities(Owner[e]) \subseteq db
<1> DEFINE S == Entities(Owner[e]) \cap state
<1>1. e \in S /\ IsFiniteSet(S) /\ Owner[e] \in Msg
  BY StageAssumption, EntitiesFinite DEF Acknowledge, FlowInv, Entities
<1>2. Cardinality(S) = 1
  BY <1>1 DEF Completes, PendingCountsState
<1>3. S = {e}
  BY <1>1, <1>2, FS_Singleton
<1>4. \A f \in Entities(Owner[e]) : f \in db
  BY <1>1, <1>3 DEF Entities, RegisteredInv, FlowInv, Acknowledge
<1>. QED
  BY <1>3, <1>4

\* The state map and the database complement each other.
LEMMA RegisteredStep ==
  ASSUME TypeOK, FlowInv, PendingCountsState, RegisteredInv, ReleasedInv, SkipInv, [Next]_vars
  PROVE  RegisteredInv'
<1> USE StageAssumption DEF TypeOK, FlowInv, RegisteredInv, Entities, readerVars, upserterVars, forwarderVars, mapVars, contexts
<1>1. ASSUME NEW m \in Msg, Receive(m) PROVE RegisteredInv'
  <2>1. m \notin outgoing \cup out
    BY <1>1 DEF Receive, ReleasedInv
  <2>. QED
    BY <1>1, <2>1 DEF Receive
<1>2. ASSUME NEW e \in Entity, Insert(e) PROVE RegisteredInv'
  BY <1>2 DEF Insert
<1>3. CASE Skip
  BY <1>3 DEF Skip, SkipInv
<1>4. CASE ReaderReturns
  BY <1>4 DEF ReaderReturns
<1>5. ASSUME NEW m \in Msg, ReaderFails(m) PROVE RegisteredInv'
  BY <1>5 DEF ReaderFails
<1>6. ASSUME NEW e \in Entity, CollectBulk(e) PROVE RegisteredInv'
  BY <1>6 DEF CollectBulk
<1>7. ASSUME NEW S \in SUBSET Entity, ExecuteBulk(S) PROVE RegisteredInv'
  BY <1>7 DEF ExecuteBulk
<1>8. ASSUME NEW error \in BOOLEAN, UpserterReturns(error) PROVE RegisteredInv'
  BY <1>8 DEF UpserterReturns
<1>9. ASSUME NEW e \in Entity, Acknowledge(e) PROVE RegisteredInv'
  <2>1. CASE Completes(Owner[e])
    <3>1. Entities(Owner[e]) \cap state = {e}
      BY <1>9, <2>1, LastAcknowledgement
    <3>. QED
      BY <1>9, <2>1, <3>1 DEF Acknowledge, Forget
  <2>2. CASE ~Completes(Owner[e])
    BY <1>9, <2>2 DEF Acknowledge, Forget
  <2>. QED
    BY <2>1, <2>2
<1>10. CASE Forward
  BY <1>10 DEF Forward
<1>11. CASE ForwarderReturns
  BY <1>11 DEF ForwarderReturns
<1>12. CASE Cancel
  BY <1>12 DEF Cancel
<1>13. CASE PreviousStops \/ NextStops
  BY <1>13 DEF PreviousStops, NextStops
<1>14. CASE UNCHANGED vars
  BY <1>14 DEF vars
<1>. QED
  BY StepCases, <1>1, <1>2, <1>3, <1>4, <1>5, <1>6, <1>7, <1>8, <1>9, <1>10,
     <1>11, <1>12, <1>13, <1>14

\* Only complete events are released, and only once.
LEMMA ReleasedStep ==
  ASSUME TypeOK, FlowInv, PendingCountsState, RegisteredInv, ReleasedInv, SkipInv, [Next]_vars
  PROVE  ReleasedInv'
<1> USE StageAssumption DEF TypeOK, ReleasedInv, readerVars, upserterVars, forwarderVars, mapVars, contexts
<1>1. ASSUME NEW m \in Msg, Receive(m) PROVE ReleasedInv'
  BY <1>1 DEF Receive, PendingOf
<1>2. ASSUME NEW e \in Entity, Insert(e) PROVE ReleasedInv'
  BY <1>2 DEF Insert
<1>3. CASE Skip
  BY <1>3 DEF Skip, SkipInv
<1>4. CASE ReaderReturns
  BY <1>4 DEF ReaderReturns
<1>5. ASSUME NEW m \in Msg, ReaderFails(m) PROVE ReleasedInv'
  BY <1>5 DEF ReaderFails
<1>6. ASSUME NEW e \in Entity, CollectBulk(e) PROVE ReleasedInv'
  BY <1>6 DEF CollectBulk
<1>7. ASSUME NEW S \in SUBSET Entity, ExecuteBulk(S) PROVE ReleasedInv'
  BY <1>7 DEF ExecuteBulk
<1>8. ASSUME NEW error \in BOOLEAN, UpserterReturns(error) PROVE ReleasedInv'
  BY <1>8 DEF UpserterReturns
<1>9. ASSUME NEW e \in Entity, Acknowledge(e) PROVE ReleasedInv'
  <2>1. CASE Completes(Owner[e])
    <3>1. Entities(Owner[e]) \subseteq db
      BY <1>9, <2>1, LastAcknowledgement
    <3>2. Owner[e] \notin in \cup outgoing \cup out
      BY <1>9 DEF Acknowledge, FlowInv, RegisteredInv
    <3>3. outgoing' = {Owner[e]} /\ forwarder' = "send" /\ UNCHANGED <<in, out, db>>
      BY <1>9, <2>1 DEF Acknowledge
    <3>. QED
      BY <3>1, <3>2, <3>3 DEF Entities
  <2>2. CASE ~Completes(Owner[e])
    BY <1>9, <2>2 DEF Acknowledge, Entities
  <2>. QED
    BY <2>1, <2>2
<1>10. CASE Forward
  BY <1>10 DEF Forward
<1>11. CASE ForwarderReturns
  BY <1>11 DEF ForwarderReturns
<1>12. CASE Cancel
  BY <1>12 DEF Cancel
<1>13. CASE PreviousStops \/ NextStops
  BY <1>13 DEF PreviousStops, NextStops
<1>14. CASE UNCHANGED vars
  BY <1>14 DEF vars
<1>. QED
  BY StepCases, <1>1, <1>2, <1>3, <1>4, <1>5, <1>6, <1>7, <1>8, <1>9, <1>10,
     <1>11, <1>12, <1>13, <1>14

\* The event that takes the shortcut is not released otherwise.
LEMMA SkipStep ==
  ASSUME TypeOK, FlowInv, RegisteredInv, ReleasedInv, SkipInv, [Next]_vars
  PROVE  SkipInv'
<1> USE StageAssumption DEF TypeOK, SkipInv, readerVars, upserterVars, forwarderVars, mapVars, contexts
<1>1. ASSUME NEW m \in Msg, Receive(m) PROVE SkipInv'
  BY <1>1 DEF Receive, Entities, ReleasedInv
<1>2. ASSUME NEW e \in Entity, Insert(e) PROVE SkipInv'
  BY <1>2 DEF Insert
<1>3. CASE Skip
  BY <1>3 DEF Skip
<1>4. CASE ReaderReturns
  BY <1>4 DEF ReaderReturns
<1>5. ASSUME NEW m \in Msg, ReaderFails(m) PROVE SkipInv'
  BY <1>5 DEF ReaderFails
<1>6. ASSUME NEW e \in Entity, CollectBulk(e) PROVE SkipInv'
  BY <1>6 DEF CollectBulk
<1>7. ASSUME NEW S \in SUBSET Entity, ExecuteBulk(S) PROVE SkipInv'
  BY <1>7 DEF ExecuteBulk
<1>8. ASSUME NEW error \in BOOLEAN, UpserterReturns(error) PROVE SkipInv'
  BY <1>8 DEF UpserterReturns
<1>9. ASSUME NEW e \in Entity, Acknowledge(e) PROVE SkipInv'
  <2>1. CASE reader = "skip"
    <3>1. PICK m \in Msg : /\ current = {m} /\ Entities(m) = {}
                           /\ m \notin in \cup outgoing \cup out
      BY <2>1
    <3>2. Owner[e] # m
      BY <3>1 DEF Entities
    <3>3. UNCHANGED <<current, in, out>> /\ outgoing' \subseteq outgoing \cup {Owner[e]}
      BY <1>9 DEF Acknowledge
    <3>. QED
      BY <3>1, <3>2, <3>3 DEF Entities
  <2>2. CASE reader # "skip"
    BY <1>9, <2>2 DEF Acknowledge
  <2>. QED
    BY <2>1, <2>2
<1>10. CASE Forward
  BY <1>10 DEF Forward
<1>11. CASE ForwarderReturns
  BY <1>11 DEF ForwarderReturns
<1>12. CASE Cancel
  BY <1>12 DEF Cancel
<1>13. CASE PreviousStops \/ NextStops
  BY <1>13 DEF PreviousStops, NextStops
<1>14. CASE UNCHANGED vars
  BY <1>14 DEF vars
<1>. QED
  BY StepCases, <1>1, <1>2, <1>3, <1>4, <1>5, <1>6, <1>7, <1>8, <1>9, <1>10,
     <1>11, <1>12, <1>13, <1>14

-------------------------------------------------------------------------------
\* The strengthened invariant holds in every reachable state.
LEMMA InductiveInvariant == Spec => []IInv
<1>1. ASSUME Init PROVE IInv
  <2>1. PendingCountsState
    <3>1. \A m \in Msg : Entities(m) \cap {} = {}
      OBVIOUS
    <3>2. Cardinality({}) = 0
      BY FS_EmptySet
    <3>. QED
      BY <1>1, <3>1, <3>2 DEF Init, PendingCountsState
  <2>2. TypeOK
    BY <1>1 DEF Init, TypeOK
  <2>3. FlowInv /\ RegisteredInv /\ ReleasedInv /\ SkipInv
    BY <1>1 DEF Init, FlowInv, RegisteredInv, ReleasedInv, SkipInv
  <2>. QED
    BY <2>1, <2>2, <2>3 DEF IInv
<1>2. IInv /\ [Next]_vars => IInv'
  BY TypeStep, FlowStep, PendingStep, RegisteredStep, ReleasedStep, SkipStep
     DEF IInv
<1>. QED
  BY <1>1, <1>2, PTL DEF Spec

\* State.Pending equals the number of entities of the event left in the state
\* map, for any number of events and entities per event.
THEOREM PendingCorrect == Spec => [](TypeOK /\ PendingCountsState)
BY InductiveInvariant, PTL DEF IInv

\* The three goroutines implement the contract of a stage: an event reaches the
\* next stage at most once and never before all its rows are in the database.
THEOREM Refinement == Spec => KeepsContract
<1>1. Init => Contract!Init
  BY DEF Init, Contract!Init
<1>2. ASSUME IInv, [Next]_vars PROVE [Contract!Next]_Contract!vars
  <2> USE <1>2, StageAssumption
      DEF IInv, TypeOK, readerVars, upserterVars, forwarderVars,
         mapVars, contexts,
          Contract!vars
  <2>1. ASSUME NEW m \in Msg, Receive(m)
       PROVE  [Contract!Next]_Contract!vars
    <3>1. Contract!Take(m)
      BY <2>1 DEF Receive, Contract!Take
    <3>. QED
      BY <3>1 DEF Contract!Next
  <2>2. ASSUME NEW e \in Entity, Insert(e)
       PROVE  [Contract!Next]_Contract!vars
    BY <2>2 DEF Insert
  <2>3. CASE Skip
    BY <2>3 DEF Skip
  <2>4. CASE ReaderReturns
    BY <2>4 DEF ReaderReturns
  <2>5. ASSUME NEW m \in Msg, ReaderFails(m)
       PROVE  [Contract!Next]_Contract!vars
    <3>1. Contract!Take(m)
      BY <2>5 DEF ReaderFails, Contract!Take
    <3>. QED
      BY <3>1 DEF Contract!Next
  <2>6. ASSUME NEW e \in Entity, CollectBulk(e)
       PROVE  [Contract!Next]_Contract!vars
    BY <2>6 DEF CollectBulk
  <2>7. ASSUME NEW S \in SUBSET Entity, ExecuteBulk(S)
       PROVE  [Contract!Next]_Contract!vars
    <3>1. Contract!Write(S)
      BY <2>7 DEF ExecuteBulk, FlowInv, RegisteredInv, Contract!Write
    <3>. QED
      BY <3>1 DEF Contract!Next
  <2>8. ASSUME NEW error \in BOOLEAN, UpserterReturns(error)
       PROVE  [Contract!Next]_Contract!vars
    BY <2>8 DEF UpserterReturns
  <2>9. ASSUME NEW e \in Entity, Acknowledge(e)
       PROVE  [Contract!Next]_Contract!vars
    BY <2>9 DEF Acknowledge, Forget, Completes
  <2>10. CASE Forward
    <3>1. PICK m \in Msg : outgoing = {m}
      BY <2>10 DEF Forward, ReleasedInv
    <3>2. Contract!Forward(m)
      BY <2>10, <3>1 DEF Forward, ReleasedInv, Contract!Forward,
         Contract!Entities, Entities
    <3>. QED
      BY <3>2 DEF Contract!Next
  <2>11. CASE ForwarderReturns
    BY <2>11 DEF ForwarderReturns
  <2>12. CASE Cancel
    BY <2>12 DEF Cancel
  <2>13. CASE PreviousStops \/ NextStops
    BY <2>13 DEF PreviousStops, NextStops
  <2>14. CASE UNCHANGED vars
    BY <2>14 DEF vars
  <2>. QED
    BY StepCases, <2>1, <2>2, <2>3, <2>4, <2>5, <2>6, <2>7, <2>8, <2>9,
       <2>10, <2>11, <2>12, <2>13, <2>14
<1>. QED
  BY <1>1, <1>2, InductiveInvariant, PTL DEF Spec, KeepsContract, Contract!Spec

\* The type invariant of a stage.
THEOREM TypeCorrect == Spec => []TypeOK
BY InductiveInvariant, PTL DEF IInv

\* Until an error, the state map holds exactly what is on its way: it does not grow
\* with what has been forwarded.
THEOREM StateMapCorrect == Spec => []StateMapTracksEntities
<1> DEFINE Tracked == ~cancelled => /\ state = rest \cup insert \cup bulk \cup acks
                                    /\ reader # "insert" => rest = {}
<1>1. Init => Tracked
  BY DEF Init
<1>2. ASSUME IInv, Tracked, [Next]_vars
      PROVE  Tracked'
  <2> USE <1>2 DEF IInv, TypeOK, readerVars, upserterVars, forwarderVars, mapVars, contexts
  <2>1. ASSUME NEW m \in Msg, Receive(m) PROVE Tracked'
    BY <2>1 DEF Receive
  <2>2. ASSUME NEW e \in Entity, Insert(e) PROVE Tracked'
    BY <2>2 DEF Insert
  <2>3. ASSUME NEW e \in Entity, CollectBulk(e) PROVE Tracked'
    BY <2>3 DEF CollectBulk
  <2>4. ASSUME NEW S \in SUBSET Entity, ExecuteBulk(S) PROVE Tracked'
    BY <2>4 DEF ExecuteBulk
  <2>5. ASSUME NEW e \in Entity, Acknowledge(e) PROVE Tracked'
    <3>1. e \notin rest \cup insert \cup bulk
      BY <2>5 DEF Acknowledge, FlowInv
    <3> QED
      BY <2>5, <3>1 DEF Acknowledge, Forget
  <2>6. CASE Skip \/ ReaderReturns
    BY <2>6 DEF Skip, ReaderReturns
  <2>7. ASSUME NEW error \in BOOLEAN, UpserterReturns(error) PROVE Tracked'
    BY <2>7 DEF UpserterReturns
  <2>8. CASE Forward \/ ForwarderReturns \/ Cancel \/ PreviousStops \/ NextStops
            \/ UNCHANGED vars
    BY <2>8 DEF Forward, ForwarderReturns, Cancel, PreviousStops, NextStops, vars
  <2>9. ASSUME NEW m \in Msg, ReaderFails(m) PROVE Tracked'
    BY <2>9 DEF ReaderFails
  <2> QED
    BY <2>1, <2>2, <2>3, <2>4, <2>5, <2>6, <2>7, <2>8, <2>9, StepCases
<1>3. Tracked => StateMapTracksEntities
  BY DEF StateMapTracksEntities
<1> QED
  BY <1>1, <1>2, <1>3, InductiveInvariant, PTL DEF Spec

-------------------------------------------------------------------------------
(* The end of a pipeline.                                                       *)

\* Every step is one of the stage, or leaves it alone.
LEMMA StageStep == [TailNext]_allVars => [Next]_vars
<1> SUFFICES ASSUME [TailNext]_allVars PROVE [Next]_vars
  OBVIOUS
<1> USE DEF Next, Reader, Upserter, Forwarder, Faults
<1>1. CASE Reader /\ UNCHANGED tailVars
  BY <1>1
<1>2. CASE Upserter /\ UNCHANGED tailVars
  BY <1>2
<1>3. CASE TailForwarder
  BY <1>3 DEF TailForwarder, Count
<1>4. CASE Counter
  BY <1>4 DEF Counter, Collect, CounterReturns
<1>5. CASE CollectorReturns
  BY <1>5 DEF CollectorReturns
<1>6. CASE Deleter
  BY <1>6 DEF Deleter, DeleteBulk, DeleterReturns
<1>7. CASE CancelGroup \/ PipelineStops
  BY <1>7 DEF CancelGroup, PipelineStops
<1>8. CASE StageFails
  BY <1>8 DEF StageFails
<1>9. ASSUME NEW S \in SUBSET Msg, DeleteFails(S) PROVE UNCHANGED vars
  BY <1>9 DEF DeleteFails
<1>10. CASE UNCHANGED allVars
  BY <1>10 DEF allVars
<1> QED
  BY <1>1, <1>2, <1>3, <1>4, <1>5, <1>6, <1>7, <1>8, <1>9, <1>10 DEF TailNext

\* A stage that is followed by a counter and a deletion is a stage.
THEOREM TailIsStage == TailSpec => Spec
<1>1. TailInit => Init
  BY DEF TailInit
<1> QED
  BY <1>1, StageStep, PTL DEF TailSpec, Spec

\* Only what the stage has forwarded gets further.
TailInv == TailTypeOK /\ counted \cup collected \cup deleted \subseteq out

LEMMA TailStep == TypeOK /\ TailInv /\ [TailNext]_allVars => TailInv'
<1> SUFFICES ASSUME TypeOK, TailInv, [TailNext]_allVars PROVE TailInv'
  OBVIOUS
<1> USE DEF TailInv, TailTypeOK, TypeOK
<1>0. ASSUME [Next]_vars PROVE out \subseteq out'
  BY <1>0, StepCases DEF Receive, Insert, Skip, ReaderReturns, ReaderFails, CollectBulk,
     ExecuteBulk, UpserterReturns, Acknowledge, Forward, ForwarderReturns, Cancel,
     PreviousStops, NextStops, forwarderVars, vars
<1>1. out \subseteq out'
  BY <1>0, StageStep
<1>2. CASE UNCHANGED tailVars
  BY <1>1, <1>2 DEF tailVars
<1>3. CASE Count
  BY <1>1, <1>3 DEF Count, Forward
<1>4. CASE Counter
  BY <1>1, <1>4 DEF Counter, Collect, CounterReturns
<1>5. CASE CollectorReturns
  BY <1>1, <1>5 DEF CollectorReturns
<1>6. CASE Deleter
  BY <1>1, <1>6 DEF Deleter, DeleteBulk, DeleterReturns
<1>7. ASSUME NEW S \in SUBSET Msg, DeleteFails(S) PROVE TailInv'
  BY <1>1, <1>7 DEF DeleteFails
<1> QED
  BY <1>2, <1>3, <1>4, <1>5, <1>6, <1>7
     DEF TailNext, TailForwarder, CancelGroup, PipelineStops, StageFails, allVars

LEMMA TailInvariant == TailSpec => [](IInv /\ TailInv)
<1>1. TailInit => TailInv
  BY DEF TailInit, TailInv, TailTypeOK
<1>2. IInv => TypeOK
  BY DEF IInv
<1> QED
  BY <1>1, <1>2, TailIsStage, InductiveInvariant, TailStep, PTL DEF TailSpec

\* The state is well-formed; the counter holds an event only while it sends it.
THEOREM TailTypeCorrect == TailSpec => []TailTypeOK
BY TailInvariant, PTL DEF TailInv

\* No event is deleted from Redis before all its rows are in the database, for any
\* events and rows and with errors and cancellations anywhere.
THEOREM Deletion == TailSpec => []DeletedIsWritten
<1>1. IInv /\ TailInv => DeletedIsWritten
  BY DEF IInv, TailInv, ReleasedInv, DeletedIsWritten
<1> QED
  BY <1>1, TailInvariant, PTL

\* The pipeline relies on the contract, and its end leaves it intact.
THEOREM TailKeepsContract == TailSpec => KeepsContract
BY TailIsStage, Refinement
===============================================================================
