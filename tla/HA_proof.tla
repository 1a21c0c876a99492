------------------------------- MODULE HA_proof -------------------------------
(* Proofs about HA.  Under Margin no two processes hold responsibility at the  *)
(* same time, for every number of processes and every choice of the timeouts.  *)
EXTENDS HA, TLAPS

\* The heartbeat signal: what an instance knows of the last message is no older
\* than its reception time and MaxLag allow.
BeatInv(i) ==
  /\ active[i] => /\ Up(i)
                  /\ recvAge[i] <= Timeout
                  /\ msgAge[i] <= recvAge[i] + MaxLag
  /\ event[i] = "beat" => active[i]
  /\ event[i] = "lost" => ~active[i]
  /\ ~active[i] => recvAge[i] = Cap

\* The controller loop: before the deadline of the heartbeat in the making the
\* stream cannot have been declared lost.
LoopInv(i) ==
  /\ pc[i] # "wait" => Up(i)
  /\ responsible[i] => Up(i) /\ pc[i] # "lost"
  /\ pc[i] \notin {"verify", "realize"} => curAge[i] = 0
  /\ pc[i] \in {"verify", "realize"} /\ curAge[i] < Timeout =>
       active[i] /\ recvAge[i] <= curAge[i]

\* How old the row of a holder can be, depending on where its loop is.
FreshInv(i) ==
  /\ pc[i] \in {"wait", "signal"} =>
       /\ event[i] = "none" => active[i] /\ rowAge[i] <= recvAge[i] + MaxLag
       /\ event[i] = "beat" => \/ rowAge[i] <= recvAge[i] + MaxLag
                               \/ rowAge[i] <= MaxGap + MaxLag
       /\ event[i] = "lost" => rowAge[i] <= PeerTimeout
  /\ pc[i] \in {"verify", "realize"} => rowAge[i] <= curAge[i] + MaxGap + MaxLag

\* What a holder whose loop does not hang in instanceCount may rely on.
LeaseInv(i) ==
  Holder(i) /\ ~Stalled(i) =>
    /\ row[i] = "y"
    /\ \A j \in Instance \ {i} : row[j] # "y"
    /\ FreshInv(i)

\* At most one row claims responsibility, also when nobody holds it.
OneClaim == \A i, j \in Instance : row[i] = "y" /\ row[j] = "y" => i = j

IInv ==
  /\ TypeOK /\ OneClaim
  /\ \A i \in Instance : BeatInv(i) /\ LoopInv(i) /\ LeaseInv(i)

\* Every step is a tick, a step of one instance or a stutter.
LEMMA StepCases ==
  ASSUME [Next]_vars
  PROVE  \/ Tick
         \/ UNCHANGED vars
         \/ \E n \in Instance :
              \/ ReceiveBeat(n) \/ LoseBeat(n) \/ TakePastBeat(n) \/ TakeBeat(n)
              \/ TakeLoss(n) \/ HandOverUnhealthy(n) \/ StayUnhealthy(n) \/ RealizeCommit(n)
              \/ RealizeUnseen(n) \/ RealizeDeadline(n) \/ Signal(n) \/ RealizeLostHeartbeat(n)
              \/ RemoveOldInstances(n) \/ NotificationsHealth(n) \/ Start(n) \/ Close(n)
              \/ Crash(n)
BY DEF Next, Heartbeats, Take, Verify, Realize, Lifecycle

\* Every variable keeps its type.
LEMMA TypeStep == TypeOK /\ [Next]_vars => TypeOK'
<1> SUFFICES ASSUME TypeOK, [Next]_vars PROVE TypeOK'
  OBVIOUS
<1> USE TimeAssumption DEF TypeOK, Age, Cap, mem, beats, db
<1>0. CASE Tick
  BY <1>0 DEF Tick, Older
<1>1. ASSUME NEW n \in Instance, ReceiveBeat(n) PROVE TypeOK'
  BY <1>1 DEF ReceiveBeat
<1>2. ASSUME NEW n \in Instance, LoseBeat(n) PROVE TypeOK'
  BY <1>2 DEF LoseBeat
<1>3. ASSUME NEW n \in Instance, TakePastBeat(n) PROVE TypeOK'
  BY <1>3 DEF TakePastBeat, Idle, SignalHandover
<1>4. ASSUME NEW n \in Instance, TakeBeat(n) PROVE TypeOK'
  BY <1>4 DEF TakeBeat, Idle
<1>5. ASSUME NEW n \in Instance, TakeLoss(n) PROVE TypeOK'
  BY <1>5 DEF TakeLoss, Idle, SignalHandover
<1>6. ASSUME NEW n \in Instance, HandOverUnhealthy(n) PROVE TypeOK'
  BY <1>6 DEF HandOverUnhealthy, SignalHandover
<1>7. ASSUME NEW n \in Instance, StayUnhealthy(n) PROVE TypeOK'
  BY <1>7 DEF StayUnhealthy
<1>8. ASSUME NEW n \in Instance, RealizeCommit(n) PROVE TypeOK'
  BY <1>8 DEF RealizeCommit, RowsAfter, Decisions
<1>9. ASSUME NEW n \in Instance, RealizeUnseen(n) PROVE TypeOK'
  BY <1>9 DEF RealizeUnseen, RowsAfter, Decisions
<1>10. ASSUME NEW n \in Instance, RealizeDeadline(n) PROVE TypeOK'
  BY <1>10 DEF RealizeDeadline, SignalHandover
<1>11. ASSUME NEW n \in Instance, Signal(n) PROVE TypeOK'
  BY <1>11 DEF Signal, ResponsibleAfter, OtherAfter
<1>12. ASSUME NEW n \in Instance, RealizeLostHeartbeat(n) PROVE TypeOK'
  BY <1>12 DEF RealizeLostHeartbeat
<1>13. ASSUME NEW n \in Instance, RemoveOldInstances(n) PROVE TypeOK'
  BY <1>13 DEF RemoveOldInstances
<1>14. ASSUME NEW n \in Instance, NotificationsHealth(n) PROVE TypeOK'
  BY <1>14 DEF NotificationsHealth, Idle
<1>15. ASSUME NEW n \in Instance, Start(n) PROVE TypeOK'
  BY <1>15 DEF Start
<1>16. ASSUME NEW n \in Instance, Close(n) PROVE TypeOK'
  BY <1>16 DEF Close, Vanish
<1>17. ASSUME NEW n \in Instance, Crash(n) PROVE TypeOK'
  BY <1>17 DEF Crash, Vanish
<1>18. CASE UNCHANGED vars
  BY <1>18 DEF vars
<1>. QED
  BY StepCases, <1>0, <1>1, <1>2, <1>3, <1>4, <1>5, <1>6, <1>7, <1>8, <1>9,
     <1>10, <1>11, <1>12, <1>13, <1>14, <1>15, <1>16, <1>17, <1>18

\* The heartbeat part of the invariant is inductive.
LEMMA BeatStep ==
  ASSUME TypeOK, \A i \in Instance : BeatInv(i), [Next]_vars
  PROVE  (\A i \in Instance : BeatInv(i))'
<1> SUFFICES ASSUME NEW k \in Instance PROVE BeatInv(k)'
  OBVIOUS
<1> USE TimeAssumption DEF TypeOK, Age, Cap, mem, beats, db, Up, BeatInv
<1>0. CASE Tick
  BY <1>0 DEF Tick, Older, Due
<1>1. ASSUME NEW n \in Instance, ReceiveBeat(n) PROVE BeatInv(k)'
  BY <1>1 DEF ReceiveBeat
<1>2. ASSUME NEW n \in Instance, LoseBeat(n) PROVE BeatInv(k)'
  BY <1>2 DEF LoseBeat
<1>3. ASSUME NEW n \in Instance, TakePastBeat(n) PROVE BeatInv(k)'
  BY <1>3 DEF TakePastBeat, Idle, SignalHandover
<1>4. ASSUME NEW n \in Instance, TakeBeat(n) PROVE BeatInv(k)'
  BY <1>4 DEF TakeBeat, Idle
<1>5. ASSUME NEW n \in Instance, TakeLoss(n) PROVE BeatInv(k)'
  BY <1>5 DEF TakeLoss, Idle, SignalHandover
<1>6. ASSUME NEW n \in Instance, HandOverUnhealthy(n) PROVE BeatInv(k)'
  BY <1>6 DEF HandOverUnhealthy, SignalHandover
<1>7. ASSUME NEW n \in Instance, StayUnhealthy(n) PROVE BeatInv(k)'
  BY <1>7 DEF StayUnhealthy
<1>8. ASSUME NEW n \in Instance, RealizeCommit(n) PROVE BeatInv(k)'
  BY <1>8 DEF RealizeCommit, RowsAfter, Decisions
<1>9. ASSUME NEW n \in Instance, RealizeUnseen(n) PROVE BeatInv(k)'
  BY <1>9 DEF RealizeUnseen, RowsAfter, Decisions
<1>10. ASSUME NEW n \in Instance, RealizeDeadline(n) PROVE BeatInv(k)'
  BY <1>10 DEF RealizeDeadline, SignalHandover
<1>11. ASSUME NEW n \in Instance, Signal(n) PROVE BeatInv(k)'
  BY <1>11 DEF Signal, ResponsibleAfter, OtherAfter
<1>12. ASSUME NEW n \in Instance, RealizeLostHeartbeat(n) PROVE BeatInv(k)'
  BY <1>12 DEF RealizeLostHeartbeat
<1>13. ASSUME NEW n \in Instance, RemoveOldInstances(n) PROVE BeatInv(k)'
  BY <1>13 DEF RemoveOldInstances
<1>14. ASSUME NEW n \in Instance, NotificationsHealth(n) PROVE BeatInv(k)'
  BY <1>14 DEF NotificationsHealth, Idle
<1>15. ASSUME NEW n \in Instance, Start(n) PROVE BeatInv(k)'
  BY <1>15 DEF Start
<1>16. ASSUME NEW n \in Instance, Close(n) PROVE BeatInv(k)'
  BY <1>16 DEF Close, Vanish
<1>17. ASSUME NEW n \in Instance, Crash(n) PROVE BeatInv(k)'
  BY <1>17 DEF Crash, Vanish
<1>18. CASE UNCHANGED vars
  BY <1>18 DEF vars
<1>. QED
  BY StepCases, <1>0, <1>1, <1>2, <1>3, <1>4, <1>5, <1>6, <1>7, <1>8, <1>9,
     <1>10, <1>11, <1>12, <1>13, <1>14, <1>15, <1>16, <1>17, <1>18

\* So is the part about the loop, given the heartbeat part.
LEMMA LoopStep ==
  ASSUME Margin, TypeOK, \A i \in Instance : BeatInv(i) /\ LoopInv(i), [Next]_vars
  PROVE  (\A i \in Instance : LoopInv(i))'
<1> SUFFICES ASSUME NEW k \in Instance PROVE LoopInv(k)'
  OBVIOUS
<1> USE TimeAssumption DEF TypeOK, Age, Cap, mem, beats, db, Up, Margin, BeatInv, LoopInv
<1>0. CASE Tick
  BY <1>0 DEF Tick, Older, Due
<1>1. ASSUME NEW n \in Instance, ReceiveBeat(n) PROVE LoopInv(k)'
  BY <1>1 DEF ReceiveBeat
<1>2. ASSUME NEW n \in Instance, LoseBeat(n) PROVE LoopInv(k)'
  BY <1>2 DEF LoseBeat
<1>3. ASSUME NEW n \in Instance, TakePastBeat(n) PROVE LoopInv(k)'
  BY <1>3 DEF TakePastBeat, Idle, SignalHandover
<1>4. ASSUME NEW n \in Instance, TakeBeat(n) PROVE LoopInv(k)'
  BY <1>4 DEF TakeBeat, Idle
<1>5. ASSUME NEW n \in Instance, TakeLoss(n) PROVE LoopInv(k)'
  BY <1>5 DEF TakeLoss, Idle, SignalHandover
<1>6. ASSUME NEW n \in Instance, HandOverUnhealthy(n) PROVE LoopInv(k)'
  BY <1>6 DEF HandOverUnhealthy, SignalHandover
<1>7. ASSUME NEW n \in Instance, StayUnhealthy(n) PROVE LoopInv(k)'
  BY <1>7 DEF StayUnhealthy
<1>8. ASSUME NEW n \in Instance, RealizeCommit(n) PROVE LoopInv(k)'
  BY <1>8 DEF RealizeCommit, RowsAfter, Decisions
<1>9. ASSUME NEW n \in Instance, RealizeUnseen(n) PROVE LoopInv(k)'
  BY <1>9 DEF RealizeUnseen, RowsAfter, Decisions
<1>10. ASSUME NEW n \in Instance, RealizeDeadline(n) PROVE LoopInv(k)'
  BY <1>10 DEF RealizeDeadline, SignalHandover
<1>11. ASSUME NEW n \in Instance, Signal(n) PROVE LoopInv(k)'
  BY <1>11 DEF Signal, ResponsibleAfter, OtherAfter
<1>12. ASSUME NEW n \in Instance, RealizeLostHeartbeat(n) PROVE LoopInv(k)'
  BY <1>12 DEF RealizeLostHeartbeat
<1>13. ASSUME NEW n \in Instance, RemoveOldInstances(n) PROVE LoopInv(k)'
  BY <1>13 DEF RemoveOldInstances
<1>14. ASSUME NEW n \in Instance, NotificationsHealth(n) PROVE LoopInv(k)'
  BY <1>14 DEF NotificationsHealth, Idle
<1>15. ASSUME NEW n \in Instance, Start(n) PROVE LoopInv(k)'
  BY <1>15 DEF Start
<1>16. ASSUME NEW n \in Instance, Close(n) PROVE LoopInv(k)'
  BY <1>16 DEF Close, Vanish
<1>17. ASSUME NEW n \in Instance, Crash(n) PROVE LoopInv(k)'
  BY <1>17 DEF Crash, Vanish
<1>18. CASE UNCHANGED vars
  BY <1>18 DEF vars
<1>. QED
  BY StepCases, <1>0, <1>1, <1>2, <1>3, <1>4, <1>5, <1>6, <1>7, <1>8, <1>9,
     <1>10, <1>11, <1>12, <1>13, <1>14, <1>15, <1>16, <1>17, <1>18

\* A holder's row has not expired in the eyes of its peers.
LEMMA HolderIsFresh ==
  ASSUME Margin, TypeOK, NEW i \in Instance,
         BeatInv(i), LoopInv(i), LeaseInv(i), Holder(i), ~Stalled(i)
  PROVE  ~Expired(i)
BY TimeAssumption DEF Margin, TypeOK, Age, Cap, BeatInv, LoopInv, LeaseInv,
                      FreshInv, Holder, Stalled, Expired

\* A takeover is only decided where no process holds responsibility, those aside
\* that hang, and the holder itself never sees another claim.
LEMMA DecisionsRespectHolder ==
  ASSUME Margin, TypeOK, NEW n \in Instance, NEW k \in Instance, n # k,
         BeatInv(k), LoopInv(k), LeaseInv(k), Holder(k), ~Stalled(k)
  PROVE  /\ Decisions(n) = {"other"}
         /\ ~responsible[n] \/ Stalled(n) \/ ~LeaseInv(n)
<1>1. ~Expired(k)
  BY HolderIsFresh
<1>2. Claimants(n) = {k}
  BY DEF LeaseInv, Claimants
<1>3. Decisions(n) = {"other"}
  BY <1>1, <1>2 DEF Decisions
<1>4. ~responsible[n] \/ Stalled(n) \/ ~LeaseInv(n)
  BY DEF LeaseInv, Holder
<1>. QED
  BY <1>3, <1>4

\* A holder whose realize evaluates the rows decides to keep responsibility.
LEMMA HolderDecides ==
  ASSUME NEW k \in Instance, LeaseInv(k), responsible[k], ~Stalled(k)
  PROVE  Decisions(k) = {"keep"}
BY DEF LeaseInv, Holder, Claimants, Decisions

\* The claim of a holder that does not hang survives every step of every process:
\* one that hangs gives up responsibility before it does anything else.
LEMMA LeaseStep ==
  ASSUME Margin, TypeOK, [Next]_vars,
         \A i \in Instance : BeatInv(i) /\ LoopInv(i) /\ LeaseInv(i)
  PROVE  (\A i \in Instance : LeaseInv(i))'
<1> SUFFICES ASSUME NEW k \in Instance, Holder(k)', ~Stalled(k)'
             PROVE  /\ row'[k] = "y"
                    /\ \A j \in Instance \ {k} : row'[j] # "y"
                    /\ FreshInv(k)'
  BY DEF LeaseInv
<1> DEFINE Kept == /\ row'[k] = "y"
                   /\ \A j \in Instance \ {k} : row'[j] # "y"
                   /\ FreshInv(k)'
<1> USE TimeAssumption DEF Margin, TypeOK, Age, Cap, mem, beats, db, Up, Holder, Stalled
<1>0. CASE Tick
  BY <1>0 DEF Tick, Older, Due, BeatInv, LoopInv, LeaseInv, FreshInv
<1>1. ASSUME NEW n \in Instance, ReceiveBeat(n) PROVE Kept
  BY <1>1 DEF ReceiveBeat, BeatInv, LoopInv, LeaseInv, FreshInv
<1>2. ASSUME NEW n \in Instance, LoseBeat(n) PROVE Kept
  BY <1>2 DEF LoseBeat, BeatInv, LoopInv, LeaseInv, FreshInv
<1>3. ASSUME NEW n \in Instance, TakePastBeat(n) PROVE Kept
  BY <1>3 DEF TakePastBeat, Idle, SignalHandover, BeatInv, LoopInv,
     LeaseInv, FreshInv
<1>4. ASSUME NEW n \in Instance, TakeBeat(n) PROVE Kept
  BY <1>4 DEF TakeBeat, Idle, BeatInv, LoopInv, LeaseInv, FreshInv
<1>5. ASSUME NEW n \in Instance, TakeLoss(n) PROVE Kept
  BY <1>5 DEF TakeLoss, Idle, SignalHandover, BeatInv, LoopInv, LeaseInv,
     FreshInv
<1>6. ASSUME NEW n \in Instance, HandOverUnhealthy(n) PROVE Kept
  BY <1>6 DEF HandOverUnhealthy, SignalHandover, BeatInv, LoopInv, LeaseInv,
     FreshInv
<1>7. ASSUME NEW n \in Instance, StayUnhealthy(n) PROVE Kept
  BY <1>7 DEF StayUnhealthy, BeatInv, LoopInv, LeaseInv, FreshInv
<1>8. ASSUME NEW n \in Instance, RealizeDeadline(n) PROVE Kept
  BY <1>8 DEF RealizeDeadline, SignalHandover, BeatInv, LoopInv, LeaseInv,
     FreshInv
<1>9. ASSUME NEW n \in Instance, Signal(n) PROVE Kept
  BY <1>9 DEF Signal, ResponsibleAfter, OtherAfter, BeatInv, LoopInv,
     LeaseInv, FreshInv
<1>10. ASSUME NEW n \in Instance, RealizeLostHeartbeat(n) PROVE Kept
  BY <1>10 DEF RealizeLostHeartbeat, BeatInv, LoopInv, LeaseInv, FreshInv
<1>11. ASSUME NEW n \in Instance, NotificationsHealth(n) PROVE Kept
  BY <1>11 DEF NotificationsHealth, Idle, BeatInv, LoopInv, LeaseInv, FreshInv
<1>12. ASSUME NEW n \in Instance, Start(n) PROVE Kept
  BY <1>12 DEF Start, BeatInv, LoopInv, LeaseInv, FreshInv
<1>13. ASSUME NEW n \in Instance, Close(n) PROVE Kept
  BY <1>13 DEF Close, Vanish, BeatInv, LoopInv, LeaseInv, FreshInv
<1>14. ASSUME NEW n \in Instance, Crash(n) PROVE Kept
  BY <1>14 DEF Crash, Vanish, BeatInv, LoopInv, LeaseInv, FreshInv
<1>15. ASSUME NEW n \in Instance, RealizeCommit(n) PROVE Kept
  <2>1. CASE n = k
    BY <1>15, <2>1, HolderDecides
    DEF RealizeCommit, RowsAfter, Decisions, Claimants, BeatInv, LoopInv, LeaseInv, FreshInv
  <2>2. CASE n # k
    <3>1. Holder(k) /\ ~Stalled(k)
      BY <1>15, <2>2 DEF RealizeCommit
    <3>2. ~Stalled(n)
      BY <1>15 DEF RealizeCommit
    <3>3. Decisions(n) = {"other"} /\ ~responsible[n]
      BY <2>2, <3>1, <3>2, DecisionsRespectHolder
    <3>. QED
      BY <1>15, <2>2, <3>1, <3>3 DEF RealizeCommit, RowsAfter, LeaseInv,
         FreshInv
  <2>. QED
    BY <2>1, <2>2
<1>16. ASSUME NEW n \in Instance, RealizeUnseen(n) PROVE Kept
  <2>0. Holder(k) /\ ~Stalled(k) /\ ~Stalled(n)
    BY <1>16 DEF RealizeUnseen
  <2>1. CASE n = k
    BY <1>16, <2>0, <2>1, HolderDecides
    DEF RealizeUnseen, RowsAfter, BeatInv, LoopInv, LeaseInv, FreshInv
  <2>2. CASE n # k
    <3>. Decisions(n) = {"other"} /\ ~responsible[n]
      BY <2>0, <2>2, DecisionsRespectHolder
    <3>. QED
      BY <1>16, <2>0, <2>2 DEF RealizeUnseen, RowsAfter, LeaseInv, FreshInv
  <2>. QED
    BY <2>1, <2>2
<1>17. ASSUME NEW n \in Instance, RemoveOldInstances(n) PROVE Kept
  <2>1. Holder(k) /\ ~Stalled(k)
    BY <1>17 DEF RemoveOldInstances
  <2>2. ~Expired(k)
    BY <2>1, HolderIsFresh
  <2>. QED
    BY <1>17, <2>1, <2>2 DEF RemoveOldInstances, Outdated, LeaseInv, FreshInv
<1>18. CASE UNCHANGED vars
  BY <1>18 DEF vars, LeaseInv, FreshInv
<1>. QED
  BY StepCases, <1>0, <1>1, <1>2, <1>3, <1>4, <1>5, <1>6, <1>7, <1>8, <1>9,
     <1>10, <1>11, <1>12, <1>13, <1>14, <1>15, <1>16, <1>17, <1>18

\* At most one row claims responsibility: a continuing claim is the one there is.
LEMMA OneClaimStep ==
  ASSUME TypeOK, OneClaim, [Next]_vars, \A i \in Instance : LeaseInv(i)
  PROVE  OneClaim'
<1> USE TimeAssumption DEF Age, Cap, Stalled, TypeOK, OneClaim, mem, beats, db, Up
<1>0. CASE Tick
  BY <1>0 DEF Tick
<1>1. ASSUME NEW n \in Instance, ReceiveBeat(n) PROVE OneClaim'
  BY <1>1 DEF ReceiveBeat
<1>2. ASSUME NEW n \in Instance, LoseBeat(n) PROVE OneClaim'
  BY <1>2 DEF LoseBeat
<1>3. ASSUME NEW n \in Instance, TakePastBeat(n) PROVE OneClaim'
  BY <1>3 DEF TakePastBeat, Idle, SignalHandover
<1>4. ASSUME NEW n \in Instance, TakeBeat(n) PROVE OneClaim'
  BY <1>4 DEF TakeBeat, Idle
<1>5. ASSUME NEW n \in Instance, TakeLoss(n) PROVE OneClaim'
  BY <1>5 DEF TakeLoss, Idle, SignalHandover
<1>6. ASSUME NEW n \in Instance, HandOverUnhealthy(n) PROVE OneClaim'
  BY <1>6 DEF HandOverUnhealthy, SignalHandover
<1>7. ASSUME NEW n \in Instance, StayUnhealthy(n) PROVE OneClaim'
  BY <1>7 DEF StayUnhealthy
<1>8. ASSUME NEW n \in Instance, RealizeDeadline(n) PROVE OneClaim'
  BY <1>8 DEF RealizeDeadline, SignalHandover
<1>9. ASSUME NEW n \in Instance, Signal(n) PROVE OneClaim'
  BY <1>9 DEF Signal, ResponsibleAfter, OtherAfter
<1>10. ASSUME NEW n \in Instance, RealizeLostHeartbeat(n) PROVE OneClaim'
  BY <1>10 DEF RealizeLostHeartbeat
<1>11. ASSUME NEW n \in Instance, RemoveOldInstances(n) PROVE OneClaim'
  BY <1>11 DEF RemoveOldInstances, Outdated
<1>12. ASSUME NEW n \in Instance, NotificationsHealth(n) PROVE OneClaim'
  BY <1>12 DEF NotificationsHealth, Idle
<1>13. ASSUME NEW n \in Instance, Start(n) PROVE OneClaim'
  BY <1>13 DEF Start
<1>14. ASSUME NEW n \in Instance, Close(n) PROVE OneClaim'
  BY <1>14 DEF Close, Vanish
<1>15. ASSUME NEW n \in Instance, Crash(n) PROVE OneClaim'
  BY <1>15 DEF Crash, Vanish
<1>16. ASSUME NEW n \in Instance, RealizeCommit(n) PROVE OneClaim'
  BY <1>16 DEF RealizeCommit, RowsAfter, LeaseInv, Holder
<1>17. ASSUME NEW n \in Instance, RealizeUnseen(n) PROVE OneClaim'
  BY <1>17 DEF RealizeUnseen, RowsAfter, LeaseInv, Holder
<1>18. CASE UNCHANGED vars
  BY <1>18 DEF vars
<1>. QED
  BY StepCases, <1>0, <1>1, <1>2, <1>3, <1>4, <1>5, <1>6, <1>7, <1>8, <1>9,
     <1>10, <1>11, <1>12, <1>13, <1>14, <1>15, <1>16, <1>17, <1>18

-------------------------------------------------------------------------------
\* The inductive invariant holds in every reachable state.
LEMMA InductiveInvariant == ASSUME Margin PROVE Spec => []IInv
<1>1. Init => IInv
  BY TimeAssumption DEF Init, IInv, OneClaim, TypeOK, Age, Cap, BeatInv,
     LoopInv, LeaseInv, Holder
<1>2. IInv /\ [Next]_vars => IInv'
  BY TypeStep, OneClaimStep, BeatStep, LoopStep, LeaseStep DEF IInv
<1>. QED
  BY <1>1, <1>2, PTL DEF Spec

\* Every variable of the HA model has its type in every reachable state, without
\* any assumption on the timing.
THEOREM TypeCorrect == Spec => []TypeOK
<1>1. Init => TypeOK
  BY TimeAssumption DEF Init, TypeOK, Age, Cap
<1>. QED
  BY <1>1, TypeStep, PTL DEF Spec

\* With the margin of peerTimeout respected, at most one process is responsible,
\* whatever crashes, restarts, lost COMMIT replies and stale rows occur, processes
\* aside that hang in instanceCount past the expiry of their beat.
THEOREM Exclusive == ASSUME Margin PROVE Spec => []ExclusiveResponsibility
<1>1. IInv => ExclusiveResponsibility
  BY DEF IInv, LeaseInv, ExclusiveResponsibility
<1>. QED
  BY <1>1, InductiveInvariant, PTL

\* With the margin respected, the database agrees with the responsible process
\* and its lease has not expired, unless the process hangs in instanceCount.
THEOREM Lease == ASSUME Margin PROVE Spec => []LeaseHeld
<1>1. ASSUME Margin, IInv PROVE LeaseHeld
  BY <1>1, HolderIsFresh DEF IInv, LeaseInv, LeaseHeld
<1>. QED
  BY <1>1, InductiveInvariant, PTL

\* With the margin respected, no time passes with a process responsible after a
\* silence longer than Timeout, except where instanceCount has not been answered
\* when its beat expired.  How long queries take is not assumed.
THEOREM Release == ASSUME Margin PROVE Spec => []SilenceReleases
<1>1. ASSUME Margin, IInv PROVE SilenceReleases
  BY <1>1, TimeAssumption DEF IInv, TypeOK, Age, Cap, Margin, BeatInv, LoopInv,
     LeaseInv, FreshInv, Holder, Stalled, Due, SilentHolder, SilenceReleases
<1>. QED
  BY <1>1, InductiveInvariant, PTL

\* With the margin respected, a claim in the table is only revoked by another
\* process after it has expired.
THEOREM Revocation == ASSUME Margin PROVE Spec => NoFreshRevocation
<1> DEFINE Kept(i) == row[i] = "y" /\ row'[i] # "y" /\ pc'[i] = pc[i]
                        /\ status'[i] = status[i] => Expired(i)
<1>1. ASSUME Margin, IInv, [Next]_vars, NEW i \in Instance PROVE Kept(i)
  <2> USE <1>1, TimeAssumption DEF IInv, OneClaim, TypeOK, Age, Cap, mem, beats, db, Up
  <2>0. CASE Tick
    BY <2>0 DEF Tick
  <2>1. ASSUME NEW n \in Instance, ReceiveBeat(n) PROVE Kept(i)
    BY <2>1 DEF ReceiveBeat
  <2>2. ASSUME NEW n \in Instance, LoseBeat(n) PROVE Kept(i)
    BY <2>2 DEF LoseBeat
  <2>3. ASSUME NEW n \in Instance, TakePastBeat(n) PROVE Kept(i)
    BY <2>3 DEF TakePastBeat, Idle, SignalHandover
  <2>4. ASSUME NEW n \in Instance, TakeBeat(n) PROVE Kept(i)
    BY <2>4 DEF TakeBeat, Idle
  <2>5. ASSUME NEW n \in Instance, TakeLoss(n) PROVE Kept(i)
    BY <2>5 DEF TakeLoss, Idle, SignalHandover
  <2>6. ASSUME NEW n \in Instance, HandOverUnhealthy(n) PROVE Kept(i)
    BY <2>6 DEF HandOverUnhealthy, SignalHandover
  <2>7. ASSUME NEW n \in Instance, StayUnhealthy(n) PROVE Kept(i)
    BY <2>7 DEF StayUnhealthy
  <2>8. ASSUME NEW n \in Instance, RealizeDeadline(n) PROVE Kept(i)
    BY <2>8 DEF RealizeDeadline, SignalHandover
  <2>9. ASSUME NEW n \in Instance, Signal(n) PROVE Kept(i)
    BY <2>9 DEF Signal, ResponsibleAfter, OtherAfter
  <2>10. ASSUME NEW n \in Instance, RealizeLostHeartbeat(n) PROVE Kept(i)
    BY <2>10 DEF RealizeLostHeartbeat
  <2>11. ASSUME NEW n \in Instance, RemoveOldInstances(n) PROVE Kept(i)
    BY <2>11 DEF RemoveOldInstances, Outdated
  <2>12. ASSUME NEW n \in Instance, NotificationsHealth(n) PROVE Kept(i)
    BY <2>12 DEF NotificationsHealth, Idle
  <2>13. ASSUME NEW n \in Instance, Start(n) PROVE Kept(i)
    BY <2>13 DEF Start
  <2>14. ASSUME NEW n \in Instance, Close(n) PROVE Kept(i)
    BY <2>14 DEF Close, Vanish
  <2>15. ASSUME NEW n \in Instance, Crash(n) PROVE Kept(i)
    BY <2>15 DEF Crash, Vanish
  <2>16. ASSUME NEW n \in Instance, RealizeCommit(n) PROVE Kept(i)
    BY <2>16 DEF RealizeCommit, RowsAfter, Decisions, Claimants, Expired,
       LeaseInv, Holder, Stalled
  <2>17. ASSUME NEW n \in Instance, RealizeUnseen(n) PROVE Kept(i)
    BY <2>17 DEF RealizeUnseen, RowsAfter, Decisions, Claimants, Expired,
       LeaseInv, Holder, Stalled
  <2>18. CASE UNCHANGED vars
    BY <2>18 DEF vars
  <2>. QED
    BY StepCases, <2>0, <2>1, <2>2, <2>3, <2>4, <2>5, <2>6, <2>7, <2>8,
       <2>9, <2>10, <2>11, <2>12, <2>13, <2>14, <2>15, <2>16, <2>17, <2>18
<1>2. ASSUME Margin, IInv, [Next]_vars
      PROVE  \A i \in Instance : Kept(i)
  BY <1>1, <1>2
<1>. QED
  BY <1>2, InductiveInvariant, PTL DEF Spec, NoFreshRevocation

\* No process ever reports itself and another one as responsible, whatever the
\* timing.
THEOREM Published == Spec => []PublishedStateConsistent
<1>1. Init => PublishedStateConsistent
  BY DEF Init, PublishedStateConsistent
<1>2. ASSUME TypeOK, PublishedStateConsistent, [Next]_vars
      PROVE  PublishedStateConsistent'
  <2> USE DEF TypeOK, PublishedStateConsistent
  <2>1. CASE UNCHANGED <<responsible, other>>
    BY <1>2, <2>1
  <2>2. ASSUME NEW i \in Instance, SignalHandover(i) PROVE PublishedStateConsistent'
    BY <1>2, <2>2 DEF SignalHandover
  <2>3. ASSUME NEW i \in Instance, Signal(i) PROVE PublishedStateConsistent'
    BY <1>2, <2>3 DEF Signal, ResponsibleAfter, OtherAfter
  <2>4. ASSUME NEW i \in Instance, Close(i) \/ Crash(i) PROVE PublishedStateConsistent'
    BY <1>2, <2>4 DEF Close, Crash, Vanish
  <2> QED
    BY <1>2, <2>1, <2>2, <2>3, <2>4, StepCases
       DEF Tick, vars, mem, beats, db, ReceiveBeat, LoseBeat, TakePastBeat, TakeBeat, TakeLoss,
           HandOverUnhealthy, StayUnhealthy, RealizeCommit, RealizeUnseen,
           RealizeDeadline, RealizeLostHeartbeat, RemoveOldInstances,
           NotificationsHealth, Start
<1> QED
  BY <1>1, <1>2, TypeCorrect, PTL DEF Spec
===============================================================================
