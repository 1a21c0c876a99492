-------------------------- MODULE IdoMigration_proof ---------------------------
(* However often it is interrupted, the migration leaves the tables complete up *)
(* to its recorded progress, with the exact previous states and starts, for any *)
(* history, slices, ranges and interruptions.                                   *)
EXTENDS IdoMigration, FiniteSetTheorems, WellFoundedInduction, TLAPS

-------------------------------------------------------------------------------
(* Minimum and maximum.                                                         *)

LEMMA LeastOf ==
  ASSUME NEW S, S \subseteq Nat, S # {}
  PROVE  \E x \in S : \A y \in S : x <= y
<1>1. \E x \in S : \A y \in S : ~(<<y, x>> \in OpToRel(<, Nat))
  BY WFMin, NatLessThanWellFounded
<1>2. PICK x \in S : \A y \in S : ~(<<y, x>> \in OpToRel(<, Nat))
  BY <1>1
<1>3. ASSUME NEW y \in S PROVE x <= y
  <2>1. ~(y < x)
    BY <1>2, <1>3 DEF OpToRel
  <2> QED
    BY <2>1
<1> QED
  BY <1>3

LEMMA GreatestOf ==
  ASSUME NEW S, NEW n \in Nat, S \subseteq 0..n, S # {}
  PROVE  \E x \in S : \A y \in S : x >= y
<1> DEFINE T == {n - x : x \in S}
<1>1. T \subseteq Nat /\ T # {}
  OBVIOUS
<1>2. PICK t \in T : \A y \in T : t <= y
  BY <1>1, LeastOf
<1>3. PICK x \in S : t = n - x
  OBVIOUS
<1>4. ASSUME NEW y \in S PROVE x >= y
  <2>1. n - y \in T /\ x \in 0..n /\ y \in 0..n
    OBVIOUS
  <2>2. n - x <= n - y
    BY <1>2, <1>3, <2>1
  <2> HIDE DEF T
  <2> QED
    BY <2>1, <2>2
<1> QED
  BY <1>4

LEMMA MinFacts ==
  ASSUME NEW S, S \subseteq Nat, S # {}
  PROVE  Min(S) \in S /\ \A y \in S : Min(S) <= y
BY LeastOf DEF Min

LEMMA MaxFacts ==
  ASSUME NEW S, NEW n \in Nat, S \subseteq 0..n, S # {}
  PROVE  Max(S) \in S /\ \A y \in S : Max(S) >= y
BY GreatestOf DEF Max

-------------------------------------------------------------------------------
(* What a row becomes, one row at a time: e is an entry of stage n that the row *)
(* i of r becomes.                                                              *)

CommentEntry(r, i, n, e) ==
  LET Columns == [end |-> IF r[i].deleted THEN "deletion" ELSE None]
  IN  /\ r[i].timed
      /\ \/ n = 1 /\ r[i].entry = "user" /\ e = Entry("comment_history", i, Columns)
         \/ n = 2 /\ r[i].entry = "ack" /\ e = Entry("acknowledgement_history", i, Columns)
         \/ n = 3 /\ r[i].entry = "user"
              /\ e = Event("comment_add", "comment_history", i, "entry")
         \/ n = 3 /\ r[i].entry = "user" /\ r[i].deleted
              /\ e = Event("comment_remove", "comment_history", i, "deletion")
         \/ n = 4 /\ r[i].entry = "ack"
              /\ e = Event("ack_set", "acknowledgement_history", i, "entry")
         \/ n = 4 /\ r[i].entry = "ack" /\ r[i].deleted
              /\ e = Event("ack_clear", "acknowledgement_history", i, "deletion")

DowntimeEntry(r, i, n, e) ==
  LET End == IF r[i].ended THEN "actual" ELSE "scheduled"
      Cancel == IF r[i].cancelled THEN "actual" ELSE None
      Final == EndTime(r[i].cancelled, Cancel, End)
  IN  /\ r[i].timed /\ r[i].started
      /\ \/ n = 1 /\ e = Entry("downtime_history", i, [cancel |-> Cancel, end |-> End])
         \/ n = 2 /\ e = Event("downtime_start", "downtime_history", i, "start")
         \/ n = 2 /\ r[i].ended /\ e = Event("downtime_end", "downtime_history", i, Final)
         \/ n = 3 /\ e = Entry("sla_history_downtime", i, [end |-> Final])

FlappingEntry(r, i, c, n, e) ==
  \/ /\ r[i].start
     /\ \/ n = 1 /\ e = Entry("flapping_history", <<r[i].object, i>>,
                              [started |-> TRUE, end |-> Open])
        \/ n = 3 /\ e = Event("flapping_start", "flapping_history", <<r[i].object, i>>, i)
  \/ /\ ~r[i].start /\ i \in DOMAIN c
     /\ \/ n = 2 /\ e = Entry("flapping_history", <<r[i].object, c[i]>>,
                              [started |-> FALSE, end |-> i])
        \/ n = 3 /\ e = Event("flapping_end", "flapping_history", <<r[i].object, c[i]>>, i)

NotificationEntry(r, i, c, n, e) ==
  LET Type == NotificationType(r[i].reason, r[i].lastHard)
  IN  /\ r[i].timed /\ i \in DOMAIN c /\ Type # None
      /\ \/ n = 1 /\ e = Entry("notification_history", i,
                           [type |-> Type, hard |-> r[i].lastHard, previous |-> c[i]])
         \/ n = 2 /\ \E u \in r[i].users :
              e = Entry("user_notification_history", <<i, u>>,
                        [ref |-> <<"notification_history", i>>])
         \/ n = 3 /\ e = Event("notification", "notification_history", i, i)

StateEntry(r, i, c, n, e) ==
  LET Bound == IF r[i].object \in Host THEN 1 ELSE 3
      Capped(state) == IF state > Bound /\ state # Pending THEN Bound ELSE state
      Columns == [hard |-> Capped(IF r[i].hard THEN r[i].state ELSE r[i].lastHard),
                  previous |-> c[i]]
  IN  /\ i \in DOMAIN c
      /\ \/ n = 1 /\ e = Entry("state_history", i, Columns)
         \/ n = 2 /\ e = Event("state_change", "state_history", i, i)
         \/ n = 3 /\ r[i].hard /\ e = Entry("sla_history_state", i, Columns)

Becomes(t, r, i, c, n, e) ==
  \/ t = "ack & comment" /\ CommentEntry(r, i, n, e)
  \/ t = "downtime" /\ DowntimeEntry(r, i, n, e)
  \/ t = "flapping" /\ FlappingEntry(r, i, c, n, e)
  \/ t = "notification" /\ NotificationEntry(r, i, c, n, e)
  \/ t = "state" /\ StateEntry(r, i, c, n, e)

Count(t) == IF t = "ack & comment" THEN 4 ELSE 3

\* The stages have what the rows of the slice become, each on its own.
StagesAre(t, r, ids, c, stages) ==
  /\ Len(stages) = Count(t) /\ DOMAIN stages = 1..Count(t)
  /\ \A n \in 1..Count(t) :
       /\ stages[n].op = IF t = "flapping" /\ n = 2 THEN "upsert" ELSE "insert"
       /\ \A e : e \in stages[n].rows <=> \E i \in ids : Becomes(t, r, i, c, n, e)

LEMMA CommentFacts ==
  ASSUME NEW r, NEW ids, NEW c, NEW stages, stages = CommentStages(r, ids)
  PROVE  StagesAre("ack & comment", r, ids, c, stages)
<1>1. /\ Len(stages) = 4 /\ DOMAIN stages = 1..4
      /\ \A n \in 1..4 : stages[n].op = "insert"
  BY DEF CommentStages, Insert
<1>2. \A e : e \in stages[1].rows <=> \E i \in ids : CommentEntry(r, i, 1, e)
  BY DEF CommentStages, Insert, CommentEntry
<1>3. \A e : e \in stages[2].rows <=> \E i \in ids : CommentEntry(r, i, 2, e)
  BY DEF CommentStages, Insert, CommentEntry
<1>4. \A e : e \in stages[3].rows <=> \E i \in ids : CommentEntry(r, i, 3, e)
  BY DEF CommentStages, Insert, CommentEntry
<1>5. \A e : e \in stages[4].rows <=> \E i \in ids : CommentEntry(r, i, 4, e)
  BY DEF CommentStages, Insert, CommentEntry
<1> QED
  BY <1>1, <1>2, <1>3, <1>4, <1>5 DEF StagesAre, Becomes, Count

LEMMA DowntimeFacts ==
  ASSUME NEW r, NEW ids, NEW c, NEW stages, stages = DowntimeStages(r, ids)
  PROVE  StagesAre("downtime", r, ids, c, stages)
<1>1. /\ Len(stages) = 3 /\ DOMAIN stages = 1..3
      /\ \A n \in 1..3 : stages[n].op = "insert"
  BY DEF DowntimeStages, Insert
<1>2. \A e : e \in stages[1].rows <=> \E i \in ids : DowntimeEntry(r, i, 1, e)
  BY DEF DowntimeStages, Insert, DowntimeEntry
<1>3. \A e : e \in stages[2].rows <=> \E i \in ids : DowntimeEntry(r, i, 2, e)
  BY DEF DowntimeStages, Insert, DowntimeEntry, EndedDowntimes
<1>4. \A e : e \in stages[3].rows <=> \E i \in ids : DowntimeEntry(r, i, 3, e)
  BY DEF DowntimeStages, Insert, DowntimeEntry
<1> QED
  BY <1>1, <1>2, <1>3, <1>4 DEF StagesAre, Becomes, Count

LEMMA FlappingFacts ==
  ASSUME NEW r, NEW ids, NEW c, NEW stages, stages = FlappingStages(r, ids, c)
  PROVE  StagesAre("flapping", r, ids, c, stages)
<1> DEFINE Key(i) == <<r[i].object, IF r[i].start THEN i ELSE c[i]>>
          starts == {i \in ids : r[i].start}
          ends == {i \in ids : ~r[i].start /\ i \in DOMAIN c}
          Begun(i) == Entry("flapping_history", Key(i), [started |-> TRUE, end |-> Open])
          Ended(i) == Entry("flapping_history", Key(i), [started |-> FALSE, end |-> i])
          Start(i) == Event("flapping_start", "flapping_history", Key(i), i)
          End(i) == Event("flapping_end", "flapping_history", Key(i), i)
<1>1. stages = << Insert({Begun(i) : i \in starts}), Upsert({Ended(i) : i \in ends}),
                  Insert({Start(i) : i \in starts} \cup {End(i) : i \in ends}) >>
  BY DEF FlappingStages
<1>3. \A i, e : /\ FlappingEntry(r, i, c, 1, e) <=> r[i].start /\ e = Begun(i)
                /\ FlappingEntry(r, i, c, 2, e) <=>
                     ~r[i].start /\ i \in DOMAIN c /\ e = Ended(i)
                /\ FlappingEntry(r, i, c, 3, e) <=>
                     \/ r[i].start /\ e = Start(i)
                     \/ ~r[i].start /\ i \in DOMAIN c /\ e = End(i)
  BY DEF FlappingEntry
<1> HIDE DEF Begun, Ended, Start, End
<1>4. /\ Len(stages) = 3 /\ DOMAIN stages = 1..3
      /\ stages[1].op = "insert" /\ stages[2].op = "upsert" /\ stages[3].op = "insert"
      /\ stages[1].rows = {Begun(i) : i \in starts}
      /\ stages[2].rows = {Ended(i) : i \in ends}
      /\ stages[3].rows = {Start(i) : i \in starts} \cup {End(i) : i \in ends}
  BY <1>1 DEF Insert, Upsert
<1>5. \A e : e \in stages[1].rows <=> \E i \in ids : FlappingEntry(r, i, c, 1, e)
  BY <1>3, <1>4
<1>6. \A e : e \in stages[2].rows <=> \E i \in ids : FlappingEntry(r, i, c, 2, e)
  BY <1>3, <1>4
<1>7. \A e : e \in stages[3].rows <=> \E i \in ids : FlappingEntry(r, i, c, 3, e)
  BY <1>3, <1>4
<1> QED
  BY <1>4, <1>5, <1>6, <1>7 DEF StagesAre, Becomes, Count

LEMMA NotificationFacts ==
  ASSUME NEW r, NEW ids, NEW c, NEW stages, stages = NotificationStages(r, ids, c)
  PROVE  StagesAre("notification", r, ids, c, stages)
<1> DEFINE Type(i) == NotificationType(r[i].reason, r[i].lastHard)
          set == {i \in ids : r[i].timed /\ i \in DOMAIN c /\ Type(i) # None}
          Sent(i) == Entry("notification_history", i,
                       [type |-> Type(i), hard |-> r[i].lastHard, previous |-> c[i]])
          To(i, u) == Entry("user_notification_history", <<i, u>>,
                        [ref |-> <<"notification_history", i>>])
          History(i) == Event("notification", "notification_history", i, i)
<1>1. stages = << Insert({Sent(i) : i \in set}),
                  Insert(UNION {{To(i, u) : u \in r[i].users} : i \in set}),
                  Insert({History(i) : i \in set}) >>
  BY DEF NotificationStages
<1>2. \A i, e : LET In == r[i].timed /\ i \in DOMAIN c /\ Type(i) # None
                IN  /\ NotificationEntry(r, i, c, 1, e) <=> In /\ e = Sent(i)
                    /\ NotificationEntry(r, i, c, 2, e) <=>
                         In /\ \E u \in r[i].users : e = To(i, u)
                    /\ NotificationEntry(r, i, c, 3, e) <=> In /\ e = History(i)
  BY DEF NotificationEntry
<1> HIDE DEF Sent, To, History, Type
<1>3. /\ Len(stages) = 3 /\ DOMAIN stages = 1..3
      /\ \A n \in 1..3 : stages[n].op = "insert"
      /\ stages[1].rows = {Sent(i) : i \in set}
      /\ stages[2].rows = UNION {{To(i, u) : u \in r[i].users} : i \in set}
      /\ stages[3].rows = {History(i) : i \in set}
  BY <1>1 DEF Insert
<1>4. \A e : e \in stages[1].rows <=> \E i \in ids : NotificationEntry(r, i, c, 1, e)
  BY <1>2, <1>3
<1>5. \A e : e \in stages[2].rows <=> \E i \in ids : NotificationEntry(r, i, c, 2, e)
  <2>1. ASSUME NEW e, e \in stages[2].rows
        PROVE  \E i \in ids : NotificationEntry(r, i, c, 2, e)
    <3>1. PICK i \in set : e \in {To(i, u) : u \in r[i].users}
      BY <1>3, <2>1
    <3> QED
      BY <1>2, <3>1
  <2>2. ASSUME NEW e, NEW i \in ids, NotificationEntry(r, i, c, 2, e)
        PROVE  e \in stages[2].rows
    <3>1. i \in set /\ e \in {To(i, u) : u \in r[i].users}
      BY <1>2, <2>2
    <3> QED
      BY <1>3, <3>1
  <2> QED
    BY <2>1, <2>2
<1>6. \A e : e \in stages[3].rows <=> \E i \in ids : NotificationEntry(r, i, c, 3, e)
  BY <1>2, <1>3
<1>7. \A n \in 1..3 : \A e : e \in stages[n].rows <=> \E i \in ids : NotificationEntry(r, i, c, n, e)
  <2> SUFFICES ASSUME NEW n \in 1..3, NEW e
               PROVE  e \in stages[n].rows <=> \E i \in ids : NotificationEntry(r, i, c, n, e)
    OBVIOUS
  <2>1. n = 1 \/ n = 2 \/ n = 3
    OBVIOUS
  <2> QED
    BY <1>4, <1>5, <1>6, <2>1
<1> HIDE DEF set
<1> QED
  BY <1>3, <1>7 DEF StagesAre, Becomes, Count

LEMMA StateFacts ==
  ASSUME NEW r, NEW ids, NEW c, NEW stages, stages = StateStages(r, ids, c)
  PROVE  StagesAre("state", r, ids, c, stages)
<1> DEFINE set == ids \cap DOMAIN c
          Bound(i) == IF r[i].object \in Host THEN 1 ELSE 3
          Capped(i, state) == IF state > Bound(i) /\ state # Pending THEN Bound(i) ELSE state
          HardState(i) == Capped(i, IF r[i].hard THEN r[i].state ELSE r[i].lastHard)
          Columns(i) == [hard |-> HardState(i), previous |-> c[i]]
          Changed(i) == Entry("state_history", i, Columns(i))
          History(i) == Event("state_change", "state_history", i, i)
          Sla(i) == Entry("sla_history_state", i, Columns(i))
<1>1. stages = << Insert({Changed(i) : i \in set}), Insert({History(i) : i \in set}),
                  Insert({Sla(i) : i \in {j \in set : r[j].hard}}) >>
  BY DEF StateStages
<1>2. \A i, e : /\ StateEntry(r, i, c, 1, e) <=> i \in DOMAIN c /\ e = Changed(i)
                /\ StateEntry(r, i, c, 2, e) <=> i \in DOMAIN c /\ e = History(i)
                /\ StateEntry(r, i, c, 3, e) <=> i \in DOMAIN c /\ r[i].hard /\ e = Sla(i)
  BY DEF StateEntry
<1> HIDE DEF Changed, History, Sla
<1>3. /\ Len(stages) = 3 /\ DOMAIN stages = 1..3
      /\ \A n \in 1..3 : stages[n].op = "insert"
      /\ stages[1].rows = {Changed(i) : i \in set}
      /\ stages[2].rows = {History(i) : i \in set}
      /\ stages[3].rows = {Sla(i) : i \in {j \in set : r[j].hard}}
  BY <1>1 DEF Insert
<1>4. \A e : e \in stages[1].rows <=> \E i \in ids : StateEntry(r, i, c, 1, e)
  BY <1>2, <1>3
<1>5. \A e : e \in stages[2].rows <=> \E i \in ids : StateEntry(r, i, c, 2, e)
  BY <1>2, <1>3
<1>6. \A e : e \in stages[3].rows <=> \E i \in ids : StateEntry(r, i, c, 3, e)
  BY <1>2, <1>3
<1> QED
  BY <1>3, <1>4, <1>5, <1>6 DEF StagesAre, Becomes, Count

LEMMA StagesFacts ==
  ASSUME NEW t \in HistoryType, NEW r, NEW ids, NEW c
  PROVE  StagesAre(t, r, ids, c, Stages(t, r, ids, c))
BY CommentFacts, DowntimeFacts, FlappingFacts, NotificationFacts, StateFacts
   DEF HistoryType, Stages
-------------------------------------------------------------------------------
(* What is exact, as functions of the rows.  r stands for row, and t for type.  *)

\* PreviousHard(i)
Previous(r, i) ==
  LET j == Max({k \in 1..(i - 1) : r[k].object = r[i].object
                                   /\ r[k].lastHard # r[i].lastHard} \cup {0})
  IN  IF j = 0 THEN Pending ELSE r[j].lastHard

\* StartOf(i)
Start(r, i) ==
  LET j == Max({k \in 1..(i - 1) : r[k].object = r[i].object} \cup {0})
  IN  IF j > 0 /\ r[j].start THEN j ELSE 0

\* ExactCache
Truth(t, r) ==
  CASE t = "flapping" ->
         [i \in {j \in 1..Len(r) : ~r[j].start /\ Start(r, j) # 0} |-> Start(r, i)]
    [] t \in HardStateTypes -> [i \in 1..Len(r) |-> Previous(r, i)]
    [] OTHER -> << >>

\* What the row i becomes with the cache of this run, and with the exact one.
Converted(i, n, e) == Becomes(type, row, i, cache.final, n, e)
Exact(t, r, i, n, e) == Becomes(t, r, i, Truth(t, r), n, e)

Running == pc \notin {"off", "done"}

\* The range: fromId stays what it has been from the first row that has ended,
\* and toId only grows.
RangeInv ==
  /\ range.from # Endless =>
       /\ range.from \in From..shown /\ HasEnd(range.from)
       /\ \A i \in From..(range.from - 1) : ~HasEnd(i)
  /\ lastId # 0 => range.from \in 1..lastId
  /\ lastId <= range.to
  /\ range.to # 0 => HasStart(range.to)
  /\ type = "flapping" /\ Running => range.to = shown

\* A slice is the first part of what is left after the recorded progress.
ProgressInv ==
  /\ pc = "fill" => IsCached
  /\ pc \in {"read", "write", "cleanup"} => checkpoint = lastId
  /\ pc = "write" =>
       /\ \E k \in slice : slice = {i \in Left : i <= k}
       /\ stage \in 1..Count(type)
       /\ \A e \in todo : \E i \in slice : Converted(i, stage, e)
  /\ pc # "write" => slice = {} /\ todo = {} /\ stage = 0

\* What has been written of a slice is in the tables.
WrittenInv ==
  pc = "write" =>
    \A i \in slice : \A n \in 1..stage : \A e :
      Converted(i, n, e) /\ (n < stage \/ e \notin todo) => e.at \in DOMAIN idb

TablesOf ==
  CASE type = "ack & comment" ->
         {"comment_history", "acknowledgement_history", "history"}
    [] type = "downtime"      -> {"downtime_history", "history", "sla_history_downtime"}
    [] type = "flapping"      -> {"flapping_history", "history"}
    [] type = "notification"  ->
         {"notification_history", "user_notification_history", "history"}
    [] type = "state"         -> {"state_history", "history", "sla_history_state"}

TablesInv == \A at \in DOMAIN idb : at[1] \in TablesOf

-------------------------------------------------------------------------------
(* Caches of hard states.  r stands for row.                                    *)

Ids(c) == {w[2] : w \in c.waiting}

Blank(c) == DOMAIN c.final = {} /\ c.waiting = {} /\ DOMAIN c.last = {}

\* What the rows from top down to first have made of the cache: what is final is
\* exact, and what waits has found no other hard state yet.
HardUpTo(r, c, first, top) ==
  /\ \A i : i \in DOMAIN c.final \/ i \in Ids(c) <=> i \in first..top
  /\ \A j \in DOMAIN c.final : j \notin Ids(c) /\ c.final[j] = Previous(r, j)
  /\ \A w \in c.waiting : w[1] = r[w[2]].object
  /\ \A j \in Ids(c) : \A k \in first..(j - 1) :
       r[k].object = r[j].object => r[k].lastHard = r[j].lastHard
  /\ \A o \in DOMAIN c.last : \E m \in first..top :
       /\ r[m].object = o /\ c.last[o] = r[m].lastHard
       /\ \A k \in first..(m - 1) : r[k].object # o
  /\ \A m \in first..top : r[m].object \in DOMAIN c.last

\* to is the end of the range.
HardCache(r, c, first, to) ==
  first \in Ids(c) /\ first \in 1..to /\ \E top \in first..to : HardUpTo(r, c, first, top)

\* What it is in the end.
HardDone(r, c, to) ==
  /\ c.waiting = {}
  /\ \E top \in 1..to :
       DOMAIN c.final = 1..top /\ \A j \in 1..top : c.final[j] = Previous(r, j)

HardInv ==
  type \in HardStateTypes =>
    /\ \/ Blank(file) \/ HardDone(row, file, range.to)
       \/ \E first : HardCache(row, file, first, range.to)
    /\ pc = "fill" =>
         \/ Blank(cache) /\ checkpoint = Endless
         \/ HardDone(row, cache, range.to) /\ checkpoint = 0
         \/ HardCache(row, cache, checkpoint, range.to)
    /\ pc \in {"read", "write"} => Blank(cache) \/ HardDone(row, cache, range.to)

-------------------------------------------------------------------------------
(* Caches of start times.                                                       *)

HasStartBefore(r, i) == ~r[i].start /\ Start(r, i) # 0

\* The ends among the first p rows are there, with their starts.
EndsDone(r, c, p) ==
  /\ \A i : i \in DOMAIN c.final <=> i \in 1..p /\ HasStartBefore(r, i)
  /\ \A i \in DOMAIN c.final : c.final[i] = Start(r, i)

\* The last row of o up to p is a start if and only if it is in the cache.
Agrees(r, c, o, p) ==
  /\ o \in DOMAIN c.last =>
       /\ c.last[o] \in 1..p /\ r[c.last[o]].object = o /\ r[c.last[o]].start
       /\ \A k \in (c.last[o] + 1)..p : r[k].object # o
  /\ o \notin DOMAIN c.last =>
       \A j \in 1..p : r[j].object = o /\ r[j].start =>
         \E k \in (j + 1)..p : r[k].object = o

\* What the cache has for o is not used: the next row of o, if any, is a start.
\* s is the last row.
Unused(r, o, p, s) ==
  \/ \A k \in (p + 1)..s : r[k].object # o
  \/ \E j \in (p + 1)..s :
       /\ r[j].object = o /\ r[j].start
       /\ \A k \in (p + 1)..(j - 1) : r[k].object # o

EventCache(r, c, p, s) ==
  EndsDone(r, c, p) /\ \A o \in Object : Agrees(r, c, o, p) \/ Unused(r, o, p, s)

FlappingInv ==
  type = "flapping" =>
    /\ file.waiting = {} /\ cache.waiting = {}
    /\ crashes = 0 => ~regrown /\ (~Running => file = EmptyCache)
    /\ Orphans = {} /\ ~regrown => \E t \in 0..shown : EventCache(row, file, t, shown)
    /\ CacheTrusted =>
         /\ pc = "fill" => checkpoint \in 0..shown /\ EventCache(row, cache, checkpoint, shown)
         /\ pc \in {"read", "write"} => EndsDone(row, cache, shown)

-------------------------------------------------------------------------------
(* The tables.                                                                  *)

\* What is in the tables d became of a row in the range, and an interval has the
\* end that follows its start.
Content(t, r, from, to, d, at) ==
  /\ \E i \in from..to : \E n, e :
       /\ Exact(t, r, i, n, e) /\ e.at = at
       /\ at[1] # "flapping_history" => d[at] = e.columns
  /\ at[1] = "flapping_history" =>
       /\ d[at] \in [started : BOOLEAN, end : 0..Len(r)]
       /\ d[at].started <=> at[2][2] >= from
       /\ d[at].end # Open =>
            /\ HasStartBefore(r, d[at].end)
            /\ at[2] = <<r[d[at].end].object, Start(r, d[at].end)>>

ContentInv ==
  CacheTrusted => \A at \in DOMAIN idb : Content(type, row, range.from, range.to, idb, at)

\* What has been upserted of a slice has its end.
UpsertInv ==
  pc = "write" /\ CacheTrusted /\ type = "flapping" =>
    \A i \in slice : \A e :
      /\ Converted(i, 2, e)
      /\ 2 < stage \/ (2 = stage /\ e \notin todo)
      => idb[e.at].end = e.columns.end

\* All that becomes of the row i is in the tables d.
Migrated(t, r, from, d, i) ==
  \A n, e : Exact(t, r, i, n, e) =>
    /\ e.at \in DOMAIN d
    /\ e.at[1] # "flapping_history" => d[e.at] = e.columns
    /\ e.at[1] = "flapping_history" =>
         /\ d[e.at].started <=> e.at[2][2] >= from
         /\ r[i].start \/ d[e.at].end = i

SkippedInv ==
  CacheTrusted => \A i \in range.from..lastId : Migrated(type, row, range.from, idb, i)

IInv ==
  /\ TypeOK /\ RangeInv /\ ProgressInv /\ WrittenInv /\ TablesInv /\ ParentsFirst
  /\ HardInv /\ FlappingInv /\ ContentInv /\ UpsertInv /\ SkippedInv

-------------------------------------------------------------------------------
(* What every entry is, whatever the type.                                      *)

LEMMA EntryFields ==
  ASSUME NEW table, NEW key, NEW columns
  PROVE  /\ Entry(table, key, columns).at = <<table, key>>
         /\ Entry(table, key, columns).at[1] = table
         /\ Entry(table, key, columns).at[2] = key
         /\ Entry(table, key, columns).columns = columns
BY DEF Entry

LEMMA EventFields ==
  ASSUME NEW kind, NEW parent, NEW key, NEW time
  PROVE  /\ Event(kind, parent, key, time).at[1] = "history"
         /\ Event(kind, parent, key, time).at[2] = <<kind, key>>
         /\ Event(kind, parent, key, time).at[2][1] = kind
         /\ Event(kind, parent, key, time).at[2][2] = key
         /\ Event(kind, parent, key, time).columns.ref = <<parent, key>>
         /\ Event(kind, parent, key, time).columns.time = time
         /\ "ref" \in DOMAIN Event(kind, parent, key, time).columns
BY DEF Event, Entry

LEMMA CommentShape ==
  ASSUME NEW r, NEW i, NEW n, NEW e, CommentEntry(r, i, n, e)
  PROVE  \/ r[i].entry = "user" /\ n = 1 /\ e.at[1] = "comment_history" /\ e.at[2] = i
              /\ "ref" \notin DOMAIN e.columns
         \/ r[i].entry = "ack" /\ n = 2 /\ e.at[1] = "acknowledgement_history"
              /\ e.at[2] = i /\ "ref" \notin DOMAIN e.columns
         \/ r[i].entry = "user" /\ n = 3 /\ e.at[1] = "history" /\ e.at[2][2] = i
              /\ e.columns.ref = <<"comment_history", i>>
         \/ r[i].entry = "ack" /\ n = 4 /\ e.at[1] = "history" /\ e.at[2][2] = i
              /\ e.columns.ref = <<"acknowledgement_history", i>>
<1>1. \A x : "ref" \notin DOMAIN [end |-> x]
  OBVIOUS
<1> QED
  BY <1>1, EntryFields, EventFields DEF CommentEntry

LEMMA CommentParent ==
  ASSUME NEW r, NEW i, NEW n, NEW e, CommentEntry(r, i, n, e), "ref" \in DOMAIN e.columns
  PROVE  \E m \in 1..4 : \E f : m < n /\ CommentEntry(r, i, m, f) /\ f.at = e.columns.ref
<1> DEFINE columns == [end |-> IF r[i].deleted THEN "deletion" ELSE None]
<1>1. CASE n = 3 /\ r[i].entry = "user"
  <2>1. CommentEntry(r, i, 1, Entry("comment_history", i, columns))
    BY <1>1 DEF CommentEntry
  <2>2. e.columns.ref = <<"comment_history", i>>
    BY <1>1, EventFields DEF CommentEntry
  <2> QED
    BY <1>1, <2>1, <2>2, EntryFields
<1>2. CASE n = 4 /\ r[i].entry = "ack"
  <2>1. CommentEntry(r, i, 2, Entry("acknowledgement_history", i, columns))
    BY <1>2 DEF CommentEntry
  <2>2. e.columns.ref = <<"acknowledgement_history", i>>
    BY <1>2, EventFields DEF CommentEntry
  <2> QED
    BY <1>2, <2>1, <2>2, EntryFields
<1> QED
  BY <1>1, <1>2, CommentShape

LEMMA CommentPlace ==
  ASSUME NEW r, NEW i, NEW j, NEW m, NEW n, NEW e, NEW f,
         CommentEntry(r, i, m, e), CommentEntry(r, j, n, f), e.at = f.at
  PROVE  i = j /\ e.columns = f.columns
<1>1. i = j
  BY CommentShape
<1>2. CASE e.at[1] = "history"
  BY <1>1, <1>2, EntryFields, EventFields DEF CommentEntry
<1>3. CASE e.at[1] # "history"
  BY <1>1, <1>3, EntryFields, EventFields DEF CommentEntry
<1> QED
  BY <1>2, <1>3

LEMMA CommentTables ==
  ASSUME NEW r, NEW i, NEW n, NEW e, CommentEntry(r, i, n, e)
  PROVE  /\ e.at[1] \in {"comment_history", "acknowledgement_history", "history"}
         /\ n \in 1..4
BY CommentShape

LEMMA DowntimeShape ==
  ASSUME NEW r, NEW i, NEW n, NEW e, DowntimeEntry(r, i, n, e)
  PROVE  \/ n = 1 /\ e.at[1] = "downtime_history" /\ e.at[2] = i
              /\ "ref" \notin DOMAIN e.columns
         \/ n = 2 /\ e.at[1] = "history" /\ e.at[2][2] = i
              /\ e.columns.ref = <<"downtime_history", i>>
         \/ n = 3 /\ e.at[1] = "sla_history_downtime" /\ e.at[2] = i
              /\ "ref" \notin DOMAIN e.columns
<1>1. \A x, y : "ref" \notin DOMAIN [end |-> x] /\ "ref" \notin DOMAIN [cancel |-> y, end |-> x]
  OBVIOUS
<1> QED
  BY <1>1, EntryFields, EventFields DEF DowntimeEntry

LEMMA DowntimeParent ==
  ASSUME NEW r, NEW i, NEW n, NEW e, DowntimeEntry(r, i, n, e), "ref" \in DOMAIN e.columns
  PROVE  \E m \in 1..3 : \E f : m < n /\ DowntimeEntry(r, i, m, f) /\ f.at = e.columns.ref
<1>1. n = 2 /\ e.columns.ref = <<"downtime_history", i>>
  BY DowntimeShape
<1>2. PICK columns : DowntimeEntry(r, i, 1, Entry("downtime_history", i, columns))
  BY DEF DowntimeEntry
<1> QED
  BY <1>1, <1>2, EntryFields

LEMMA DowntimePlace ==
  ASSUME NEW r, NEW i, NEW j, NEW m, NEW n, NEW e, NEW f,
         DowntimeEntry(r, i, m, e), DowntimeEntry(r, j, n, f), e.at = f.at
  PROVE  i = j /\ e.columns = f.columns
<1>1. i = j
  BY DowntimeShape
<1> QED
  BY <1>1, EntryFields, EventFields DEF DowntimeEntry

LEMMA DowntimeTables ==
  ASSUME NEW r, NEW i, NEW n, NEW e, DowntimeEntry(r, i, n, e)
  PROVE  /\ e.at[1] \in {"downtime_history", "history", "sla_history_downtime"}
         /\ n \in 1..3
BY DowntimeShape

\* The columns of an interval that begins, and of its end.
Begun == [started |-> TRUE, end |-> Open]
Ended(i) == [started |-> FALSE, end |-> i]

LEMMA IntervalColumns ==
  /\ Begun.started = TRUE /\ Begun.end = Open /\ DOMAIN Begun = {"started", "end"}
  /\ \A i : /\ Ended(i).started = FALSE /\ Ended(i).end = i
           /\ DOMAIN Ended(i) = {"started", "end"}
BY DEF Begun, Ended

LEMMA FlappingShape ==
  ASSUME NEW r, NEW i, NEW c, NEW n, NEW e, FlappingEntry(r, i, c, n, e)
  PROVE  \/ /\ n = 1 /\ r[i].start /\ e.at = <<"flapping_history", <<r[i].object, i>> >>
            /\ e.columns = Begun /\ "ref" \notin DOMAIN e.columns
         \/ /\ n = 2 /\ ~r[i].start /\ i \in DOMAIN c
            /\ e.at = <<"flapping_history", <<r[i].object, c[i]>> >>
            /\ e.columns = Ended(i) /\ "ref" \notin DOMAIN e.columns
         \/ /\ n = 3 /\ r[i].start /\ e.at[1] = "history"
            /\ e.at[2] = <<"flapping_start", <<r[i].object, i>> >>
            /\ e.columns.ref = <<"flapping_history", <<r[i].object, i>> >>
         \/ /\ n = 3 /\ ~r[i].start /\ i \in DOMAIN c /\ e.at[1] = "history"
            /\ e.at[2] = <<"flapping_end", <<r[i].object, c[i]>> >>
            /\ e.columns.ref = <<"flapping_history", <<r[i].object, c[i]>> >>
<1>1. \A x, y : "ref" \notin DOMAIN [started |-> x, end |-> y]
  OBVIOUS
<1> QED
  BY <1>1, EntryFields, EventFields DEF FlappingEntry, Begun, Ended

LEMMA FlappingParent ==
  ASSUME NEW r, NEW i, NEW c, NEW n, NEW e, FlappingEntry(r, i, c, n, e),
         "ref" \in DOMAIN e.columns
  PROVE  \E m \in 1..3 : \E f : m < n /\ FlappingEntry(r, i, c, m, f) /\ f.at = e.columns.ref
<1>1. CASE r[i].start
  <2>1. FlappingEntry(r, i, c, 1, Entry("flapping_history", <<r[i].object, i>>,
                                        [started |-> TRUE, end |-> Open]))
    BY <1>1 DEF FlappingEntry
  <2>2. n = 3 /\ e.columns.ref = <<"flapping_history", <<r[i].object, i>> >>
    BY <1>1, FlappingShape
  <2> QED
    BY <2>1, <2>2, EntryFields
<1>2. CASE ~r[i].start
  <2>1. /\ n = 3 /\ e.columns.ref = <<"flapping_history", <<r[i].object, c[i]>> >>
        /\ i \in DOMAIN c
    BY <1>2, FlappingShape
  <2>2. FlappingEntry(r, i, c, 2, Entry("flapping_history", <<r[i].object, c[i]>>,
                                        [started |-> FALSE, end |-> i]))
    BY <1>2, <2>1 DEF FlappingEntry
  <2> QED
    BY <2>1, <2>2, EntryFields
<1> QED
  BY <1>1, <1>2

\* A start ends once.
Injective(r, c) ==
  \A i, j : /\ i \in DOMAIN c /\ j \in DOMAIN c /\ ~r[i].start /\ ~r[j].start
            /\ r[i].object = r[j].object /\ c[i] = c[j]
            => i = j

LEMMA FlappingPlace ==
  ASSUME NEW r, NEW i, NEW j, NEW c, NEW m, NEW n, NEW e, NEW f, Injective(r, c),
         FlappingEntry(r, i, c, m, e), FlappingEntry(r, j, c, n, f), e.at = f.at,
         e.at[1] # "flapping_history"
  PROVE  i = j /\ e.columns = f.columns
<1>1. \A x, y : <<x, y>>[1] = x
  OBVIOUS
<1>2. /\ m = 3
      /\ \/ r[i].start /\ e.at[2] = <<"flapping_start", <<r[i].object, i>> >>
         \/ /\ ~r[i].start /\ i \in DOMAIN c
            /\ e.at[2] = <<"flapping_end", <<r[i].object, c[i]>> >>
  BY <1>1, FlappingShape
<1>3. /\ n = 3
      /\ \/ r[j].start /\ f.at[2] = <<"flapping_start", <<r[j].object, j>> >>
         \/ /\ ~r[j].start /\ j \in DOMAIN c
            /\ f.at[2] = <<"flapping_end", <<r[j].object, c[j]>> >>
  BY <1>1, FlappingShape
<1>4. i = j
  <2>1. CASE r[i].start
    BY <1>2, <1>3, <2>1
  <2>2. CASE ~r[i].start
    <3>1. ~r[j].start /\ r[i].object = r[j].object /\ c[i] = c[j]
      BY <1>2, <1>3, <2>2
    <3> QED
      BY <1>2, <1>3, <2>2, <3>1 DEF Injective
  <2> QED
    BY <2>1, <2>2
<1> QED
  BY <1>2, <1>3, <1>4 DEF FlappingEntry

LEMMA FlappingTables ==
  ASSUME NEW r, NEW i, NEW c, NEW n, NEW e, FlappingEntry(r, i, c, n, e)
  PROVE  /\ e.at[1] \in {"flapping_history", "history"} /\ n \in 1..3
         /\ e.at[1] = "flapping_history" <=> n # 3
         /\ n # 3 => "ref" \notin DOMAIN e.columns
         /\ n = 1 => /\ r[i].start /\ e.at[2] = <<r[i].object, i>>
                    /\ e.columns = Begun
         /\ n = 2 => /\ ~r[i].start /\ i \in DOMAIN c /\ e.at[2] = <<r[i].object, c[i]>>
                    /\ e.columns = Ended(i)
<1>1. \A x, y : <<x, y>>[1] = x /\ <<x, y>>[2] = y
  OBVIOUS
<1> QED
  BY <1>1, FlappingShape

LEMMA NotificationShape ==
  ASSUME NEW r, NEW i, NEW c, NEW n, NEW e, NotificationEntry(r, i, c, n, e)
  PROVE  \/ n = 1 /\ e.at[1] = "notification_history" /\ e.at[2] = i
              /\ "ref" \notin DOMAIN e.columns
         \/ n = 2 /\ e.at[1] = "user_notification_history" /\ e.at[2][1] = i
              /\ e.columns.ref = <<"notification_history", i>>
         \/ n = 3 /\ e.at[1] = "history" /\ e.at[2][2] = i
              /\ e.columns.ref = <<"notification_history", i>>
<1>1. \A x, y, z : "ref" \notin DOMAIN [type |-> x, hard |-> y, previous |-> z]
  OBVIOUS
<1>2. \A u : LET f == Entry("user_notification_history", <<i, u>>,
                        [ref |-> <<"notification_history", i>>])
             IN  /\ f.at[1] = "user_notification_history" /\ f.at[2][1] = i
                 /\ f.columns.ref = <<"notification_history", i>>
  BY EntryFields
<1>3. CASE n = 2
  <2>1. PICK u \in r[i].users : e = Entry("user_notification_history", <<i, u>>,
                                   [ref |-> <<"notification_history", i>>])
    BY <1>3 DEF NotificationEntry
  <2> QED
    BY <1>2, <1>3, <2>1
<1>4. CASE n # 2
  BY <1>1, <1>4, EntryFields, EventFields DEF NotificationEntry
<1> QED
  BY <1>3, <1>4

LEMMA NotificationParent ==
  ASSUME NEW r, NEW i, NEW c, NEW n, NEW e, NotificationEntry(r, i, c, n, e),
         "ref" \in DOMAIN e.columns
  PROVE  \E m \in 1..3 : \E f : /\ m < n /\ NotificationEntry(r, i, c, m, f)
                            /\ f.at = e.columns.ref
<1>1. n \in {2, 3} /\ e.columns.ref = <<"notification_history", i>>
  BY NotificationShape
<1>2. PICK columns : NotificationEntry(r, i, c, 1, Entry("notification_history", i, columns))
  BY DEF NotificationEntry
<1> QED
  BY <1>1, <1>2, EntryFields

LEMMA NotificationPlace ==
  ASSUME NEW r, NEW i, NEW j, NEW c, NEW m, NEW n, NEW e, NEW f,
         NotificationEntry(r, i, c, m, e), NotificationEntry(r, j, c, n, f), e.at = f.at
  PROVE  i = j /\ e.columns = f.columns
<1>1. i = j /\ m = n
  BY NotificationShape
<1>2. CASE m = 2
  <2>1. /\ \E u \in r[i].users : e = Entry("user_notification_history", <<i, u>>,
                                   [ref |-> <<"notification_history", i>>])
        /\ \E u \in r[j].users : f = Entry("user_notification_history", <<j, u>>,
                                   [ref |-> <<"notification_history", j>>])
    BY <1>1, <1>2 DEF NotificationEntry
  <2> QED
    BY <1>1, <2>1, EntryFields
<1>3. CASE m # 2
  BY <1>1, <1>3 DEF NotificationEntry
<1> QED
  BY <1>2, <1>3

LEMMA NotificationTables ==
  ASSUME NEW r, NEW i, NEW c, NEW n, NEW e, NotificationEntry(r, i, c, n, e)
  PROVE  /\ e.at[1] \in {"notification_history", "user_notification_history", "history"}
         /\ n \in 1..3
BY NotificationShape

LEMMA StateShape ==
  ASSUME NEW r, NEW i, NEW c, NEW n, NEW e, StateEntry(r, i, c, n, e)
  PROVE  \/ n = 1 /\ e.at[1] = "state_history" /\ e.at[2] = i
              /\ "ref" \notin DOMAIN e.columns
         \/ n = 2 /\ e.at[1] = "history" /\ e.at[2][2] = i
              /\ e.columns.ref = <<"state_history", i>>
         \/ n = 3 /\ e.at[1] = "sla_history_state" /\ e.at[2] = i
              /\ "ref" \notin DOMAIN e.columns
<1>1. \A x, y : "ref" \notin DOMAIN [hard |-> x, previous |-> y]
  OBVIOUS
<1> QED
  BY <1>1, EntryFields, EventFields DEF StateEntry

LEMMA StateParent ==
  ASSUME NEW r, NEW i, NEW c, NEW n, NEW e, StateEntry(r, i, c, n, e),
         "ref" \in DOMAIN e.columns
  PROVE  \E m \in 1..3 : \E f : m < n /\ StateEntry(r, i, c, m, f) /\ f.at = e.columns.ref
<1>1. n = 2 /\ e.columns.ref = <<"state_history", i>>
  BY StateShape
<1>2. PICK columns : StateEntry(r, i, c, 1, Entry("state_history", i, columns))
  BY DEF StateEntry
<1> QED
  BY <1>1, <1>2, EntryFields

LEMMA StatePlace ==
  ASSUME NEW r, NEW i, NEW j, NEW c, NEW m, NEW n, NEW e, NEW f,
         StateEntry(r, i, c, m, e), StateEntry(r, j, c, n, f), e.at = f.at
  PROVE  i = j /\ e.columns = f.columns
<1>1. i = j
  BY StateShape
<1> QED
  BY <1>1, EntryFields, EventFields DEF StateEntry

LEMMA StateTables ==
  ASSUME NEW r, NEW i, NEW c, NEW n, NEW e, StateEntry(r, i, c, n, e)
  PROVE  e.at[1] \in {"state_history", "history", "sla_history_state"} /\ n \in 1..3
BY StateShape

\* A row that refers to another one is of a later stage than that.
LEMMA ParentEntry ==
  ASSUME NEW t, NEW r, NEW i, NEW c, NEW n, NEW e, Becomes(t, r, i, c, n, e),
         "ref" \in DOMAIN e.columns
  PROVE  \E m \in 1..Count(t) : \E f :
           m < n /\ Becomes(t, r, i, c, m, f) /\ f.at = e.columns.ref
<1>1. CASE t = "ack & comment"
  <2>1. CommentEntry(r, i, n, e)
    BY <1>1 DEF Becomes
  <2>2. PICK m, f : m \in 1..4 /\ m < n /\ CommentEntry(r, i, m, f) /\ f.at = e.columns.ref
    BY <2>1, CommentParent
  <2> QED
    BY <1>1, <2>2 DEF Becomes, Count
<1>2. CASE t = "downtime"
  BY <1>2, DowntimeParent DEF Becomes, Count
<1>3. CASE t = "flapping"
  BY <1>3, FlappingParent DEF Becomes, Count
<1>4. CASE t = "notification"
  BY <1>4, NotificationParent DEF Becomes, Count
<1>5. CASE t = "state"
  BY <1>5, StateParent DEF Becomes, Count
<1> QED
  BY <1>1, <1>2, <1>3, <1>4, <1>5 DEF Becomes

\* Rows with one place are alike, but for intervals.
LEMMA SamePlace ==
  ASSUME NEW t, NEW r, NEW i, NEW j, NEW c, NEW m, NEW n, NEW e, NEW f,
         Becomes(t, r, i, c, m, e), Becomes(t, r, j, c, n, f), e.at = f.at,
         e.at[1] # "flapping_history", t = "flapping" => Injective(r, c)
  PROVE  i = j /\ e.columns = f.columns
<1>1. CASE t = "ack & comment"
  <2>1. CommentEntry(r, i, m, e) /\ CommentEntry(r, j, n, f)
    BY <1>1 DEF Becomes
  <2> QED
    BY <2>1, CommentPlace
<1>2. CASE t = "downtime"
  BY <1>2, DowntimePlace DEF Becomes
<1>3. CASE t = "flapping"
  BY <1>3, FlappingPlace DEF Becomes
<1>4. CASE t = "notification"
  BY <1>4, NotificationPlace DEF Becomes
<1>5. CASE t = "state"
  BY <1>5, StatePlace DEF Becomes
<1> QED
  BY <1>1, <1>2, <1>3, <1>4, <1>5 DEF Becomes

\* The tables of a type, and the intervals of flapping.
LEMMA EntryTables ==
  ASSUME NEW r, NEW i, NEW c, NEW n, NEW e, Becomes(type, r, i, c, n, e)
  PROVE  /\ e.at[1] \in TablesOf /\ n \in 1..Count(type)
         /\ e.at[1] = "flapping_history" => type = "flapping"
         /\ type = "flapping" => FlappingEntry(r, i, c, n, e)
<1> USE DEF TablesOf, Count, Becomes
<1>1. CASE type = "ack & comment"
  BY <1>1, CommentTables
<1>2. CASE type = "downtime"
  BY <1>2, DowntimeTables
<1>3. CASE type = "flapping"
  BY <1>3, FlappingTables
<1>4. CASE type = "notification"
  BY <1>4, NotificationTables
<1>5. CASE type = "state"
  BY <1>5, StateTables
<1> QED
  BY <1>1, <1>2, <1>3, <1>4, <1>5

\* A conversion needs the cache for its own row only.
LEMMA OwnCache ==
  ASSUME NEW t, NEW r, NEW i, NEW c, NEW d, NEW n, NEW e,
         \/ t \notin HardStateTypes \cup {"flapping"}
         \/ t = "flapping" /\ r[i].start
         \/ (i \in DOMAIN c <=> i \in DOMAIN d) /\ (i \in DOMAIN c => c[i] = d[i])
  PROVE  Becomes(t, r, i, c, n, e) <=> Becomes(t, r, i, d, n, e)
<1>1. t = "flapping" => (FlappingEntry(r, i, c, n, e) <=> FlappingEntry(r, i, d, n, e))
  BY DEF FlappingEntry, HardStateTypes
<1>2. t = "notification" =>
        (NotificationEntry(r, i, c, n, e) <=> NotificationEntry(r, i, d, n, e))
  BY DEF NotificationEntry, HardStateTypes
<1>3. t = "state" => (StateEntry(r, i, c, n, e) <=> StateEntry(r, i, d, n, e))
  BY DEF StateEntry, HardStateTypes
<1> QED
  BY <1>1, <1>2, <1>3 DEF Becomes

-------------------------------------------------------------------------------
(* The rows of the IDO and the range.                                           *)

LEMMA RowFacts ==
  ASSUME TypeOK
  PROVE  /\ Len(row) \in Nat /\ shown \in 0..Len(row) /\ Endless = Len(row) + 1
         /\ Endless \in Nat \ {0} /\ lastId \in Nat
         /\ \A i \in 1..Len(row) : row[i] \in IdoRow(type)
<1>1. row \in Seq(IdoRow(type))
  BY MigrationAssumption DEF TypeOK
<1>2. Len(row) \in Nat /\ \A i \in 1..Len(row) : row[i] \in IdoRow(type)
  BY <1>1
<1> QED
  BY <1>2 DEF TypeOK, Endless

LEMMA ObjectFacts ==
  ASSUME TypeOK, IsCached, NEW i \in 1..Len(row)
  PROVE  row[i].object \in Object
<1>1. row[i] \in IdoRow(type)
  BY RowFacts
<1>2. CASE type = "flapping"
  BY <1>1, <1>2 DEF IdoRow
<1>3. CASE type = "notification"
  BY <1>1, <1>3 DEF IdoRow
<1>4. CASE type = "state"
  BY <1>1, <1>4 DEF IdoRow
<1> QED
  BY <1>2, <1>3, <1>4 DEF IsCached, HardStateTypes

LEMMA RangeFacts ==
  ASSUME TypeOK
  PROVE  /\ IdRange.from \in 1..Endless
         /\ IdRange.from # Endless =>
              IdRange.from \in From..shown /\ HasEnd(IdRange.from)
         /\ \A i \in From..shown : HasEnd(i) => IdRange.from <= i
         /\ IdRange.to \in 0..shown
         /\ IdRange.to # 0 => HasStart(IdRange.to)
         /\ \A i \in 1..shown : HasStart(i) => i <= IdRange.to
<1> DEFINE S == {i \in From..shown : HasEnd(i)} \cup {Endless}
          T == {i \in 1..shown : HasStart(i)} \cup {0}
<1>1. From \in Nat \ {0} /\ shown \in Nat /\ Endless \in Nat /\ shown < Endless
  BY MigrationAssumption, RowFacts DEF Endless
<1>2. S \subseteq Nat /\ S # {} /\ T \subseteq 0..shown /\ T # {}
  BY <1>1
<1>3. Min(S) \in S /\ \A y \in S : Min(S) <= y
  BY <1>2, MinFacts
<1>4. Max(T) \in T /\ \A y \in T : Max(T) >= y
  BY <1>1, <1>2, MaxFacts
<1>5. IdRange.from = Min(S) /\ IdRange.to = Max(T)
  BY DEF IdRange
<1> HIDE DEF IdRange
<1>6. /\ Min(S) \in 1..Endless
      /\ Min(S) # Endless => Min(S) \in From..shown /\ HasEnd(Min(S))
      /\ \A i \in From..shown : HasEnd(i) => Min(S) <= i
  BY <1>1, <1>3
<1>7. /\ Max(T) \in 0..shown
      /\ Max(T) # 0 => HasStart(Max(T))
      /\ \A i \in 1..shown : HasStart(i) => i <= Max(T)
  <2>1. \A i \in 1..shown : HasStart(i) => Max(T) >= i
    BY <1>1, <1>4
  <2> QED
    BY <1>1, <1>4, <2>1
<1> HIDE DEF S, T
<1> QED
  BY <1>5, <1>6, <1>7

\* What a slice is converted to.
LEMMA SliceFacts ==
  ASSUME TypeOK, NEW ids
  PROVE  /\ Len(StagesOf(ids)) = Count(type) /\ Count(type) \in 3..4
         /\ \A n \in 1..Count(type) :
              /\ StagesOf(ids)[n].op = IF type = "flapping" /\ n = 2 THEN "upsert" ELSE "insert"
              /\ \A e : e \in StagesOf(ids)[n].rows <=> \E i \in ids : Converted(i, n, e)
<1>1. StagesAre(type, row, ids, cache.final, Stages(type, row, ids, cache.final))
  BY StagesFacts DEF TypeOK
<1>2. Count(type) \in 3..4
  BY DEF Count
<1> QED
  BY <1>1, <1>2 DEF StagesAre, StagesOf, Converted

-------------------------------------------------------------------------------
(* Operators of the model.                                                      *)

LEMMA WithFacts ==
  ASSUME NEW f, NEW x, NEW y
  PROVE  /\ DOMAIN With(f, x, y) = DOMAIN f \cup {x} /\ With(f, x, y)[x] = y
         /\ \A z \in DOMAIN f : z # x => With(f, x, y)[z] = f[z]
BY DEF With

LEMMA WithoutFacts ==
  ASSUME NEW f, NEW x
  PROVE  /\ DOMAIN Without(f, x) = DOMAIN f \ {x}
         /\ \A z \in DOMAIN f : z # x => Without(f, x)[z] = f[z]
BY DEF Without

LEMMA SettingFacts ==
  ASSUME NEW f, NEW S, NEW y
  PROVE  /\ DOMAIN Setting(f, S, y) = DOMAIN f \cup S
         /\ \A z \in S : Setting(f, S, y)[z] = y
         /\ \A z \in DOMAIN f \ S : Setting(f, S, y)[z] = f[z]
BY DEF Setting

Fields == {"final", "last", "waiting"}

LEMMA EmptyFields ==
  /\ DOMAIN EmptyCache = Fields /\ DOMAIN EmptyCache.final = {}
  /\ DOMAIN EmptyCache.last = {} /\ EmptyCache.waiting = {}
BY DEF EmptyCache, Fields

LEMMA EventTimeFields ==
  ASSUME NEW c, NEW i, DOMAIN c = Fields
  PROVE  LET o == row[i].object
             d == EventTimeStep(c, i)
         IN  /\ DOMAIN d = Fields /\ d.waiting = c.waiting
             /\ row[i].start => d.final = c.final /\ d.last = With(c.last, o, i)
             /\ ~row[i].start /\ o \in DOMAIN c.last =>
                  d.final = With(c.final, i, c.last[o]) /\ d.last = Without(c.last, o)
             /\ ~row[i].start /\ o \notin DOMAIN c.last => d = c
BY DEF EventTimeStep, Fields

\* The rows of o that wait in a cache.
WaitingOf(c, o) == {w \in c.waiting : w[1] = o}
IdsOf(c, o) == {w[2] : w \in WaitingOf(c, o)}

LEMMA HardStateFields ==
  ASSUME NEW c, NEW i
  PROVE  LET o == row[i].object
             d == HardStateStep(c, i)
             done == o \in DOMAIN c.last /\ c.last[o] # row[i].lastHard
         IN  /\ DOMAIN d = Fields /\ d.last = With(c.last, o, row[i].lastHard)
             /\ done => /\ d.final = Setting(c.final, IdsOf(c, o), row[i].lastHard)
                        /\ d.waiting = (c.waiting \ WaitingOf(c, o)) \cup {<<o, i>>}
             /\ ~done => d.final = c.final /\ d.waiting = c.waiting \cup {<<o, i>>}
<1> DEFINE o == row[i].object
           done == o \in DOMAIN c.last /\ c.last[o] # row[i].lastHard
<1>1. HardStateStep(c, i) =
        [final   |-> IF done THEN Setting(c.final, IdsOf(c, o), row[i].lastHard)
                    ELSE c.final,
         last    |-> With(c.last, o, row[i].lastHard),
         waiting |-> (IF done THEN c.waiting \ WaitingOf(c, o) ELSE c.waiting)
                       \cup {<<o, i>>}]
  BY DEF HardStateStep, WaitingOf, IdsOf
<1> HIDE DEF done
<1>2. /\ DOMAIN HardStateStep(c, i) = Fields
      /\ HardStateStep(c, i).last = With(c.last, o, row[i].lastHard)
      /\ HardStateStep(c, i).final =
           IF done THEN Setting(c.final, IdsOf(c, o), row[i].lastHard)
           ELSE c.final
      /\ HardStateStep(c, i).waiting =
           (IF done THEN c.waiting \ WaitingOf(c, o) ELSE c.waiting) \cup {<<o, i>>}
  BY <1>1 DEF Fields
<1> QED
  BY <1>2 DEF done

LEMMA CompletedFields ==
  ASSUME NEW c
  PROVE  /\ DOMAIN Completed(c) = Fields /\ DOMAIN Completed(c).last = {}
         /\ Completed(c).waiting = {}
         /\ Completed(c).final = Setting(c.final, Ids(c), Pending)
BY EmptyFields DEF Completed, EmptyCache, Fields, Ids

-------------------------------------------------------------------------------
(* Types.                                                                       *)

CacheOK(c) ==
  /\ DOMAIN c = Fields
  /\ DOMAIN c.final \subseteq 1..Len(row) /\ DOMAIN c.last \subseteq Object
  /\ c.waiting \subseteq Object \X (1..Len(row))

LEMMA CachesOK == TypeOK => CacheOK(file) /\ CacheOK(cache)
BY DEF TypeOK, CacheOK, Fields

LEMMA EmptyOK == CacheOK(EmptyCache)
BY EmptyFields DEF CacheOK

LEMMA EventTimeOK ==
  ASSUME TypeOK, IsCached, NEW i \in 1..Len(row), NEW c, CacheOK(c)
  PROVE  CacheOK(EventTimeStep(c, i))
<1>1. row[i].object \in Object
  BY ObjectFacts
<1> DEFINE o == row[i].object
           d == EventTimeStep(c, i)
<1>2. CASE row[i].start
  <2>1. /\ DOMAIN d = Fields /\ d.waiting = c.waiting /\ d.final = c.final
        /\ d.last = With(c.last, o, i)
    BY <1>2, EventTimeFields DEF CacheOK
  <2>2. DOMAIN With(c.last, o, i) = DOMAIN c.last \cup {o}
    BY DEF With
  <2> QED
    BY <1>1, <2>1, <2>2 DEF CacheOK
<1>3. CASE ~row[i].start /\ o \in DOMAIN c.last
  <2>1. /\ DOMAIN d = Fields /\ d.waiting = c.waiting
        /\ d.final = With(c.final, i, c.last[o]) /\ d.last = Without(c.last, o)
    BY <1>3, EventTimeFields DEF CacheOK
  <2>2. /\ DOMAIN With(c.final, i, c.last[o]) = DOMAIN c.final \cup {i}
        /\ DOMAIN Without(c.last, o) = DOMAIN c.last \ {o}
    BY WithFacts, WithoutFacts, Zenon
  <2> QED
    BY <2>1, <2>2 DEF CacheOK
<1>4. CASE ~row[i].start /\ o \notin DOMAIN c.last
  <2>1. d = c
    BY <1>4, EventTimeFields DEF CacheOK
  <2> QED
    BY <2>1
<1> QED
  BY <1>2, <1>3, <1>4

LEMMA HardStateOK ==
  ASSUME TypeOK, IsCached, NEW i \in 1..Len(row), NEW c, CacheOK(c)
  PROVE  CacheOK(HardStateStep(c, i))
<1> DEFINE o == row[i].object
           d == HardStateStep(c, i)
<1>1. <<o, i>> \in Object \X (1..Len(row))
  BY ObjectFacts
<1>2. IdsOf(c, o) \subseteq 1..Len(row) /\ WaitingOf(c, o) \subseteq c.waiting
  BY DEF CacheOK, WaitingOf, IdsOf
<1>3. DOMAIN d = Fields /\ d.last = With(c.last, o, row[i].lastHard)
  BY HardStateFields
<1>4. DOMAIN With(c.last, o, row[i].lastHard) = DOMAIN c.last \cup {o}
  BY DEF With
<1>5. DOMAIN d.final \subseteq 1..Len(row) /\ d.waiting \subseteq c.waiting \cup {<<o, i>>}
  <2>1. CASE o \in DOMAIN c.last /\ c.last[o] # row[i].lastHard
    <3>1. /\ d.final = Setting(c.final, IdsOf(c, o), row[i].lastHard)
          /\ d.waiting = (c.waiting \ WaitingOf(c, o)) \cup {<<o, i>>}
      BY <2>1, HardStateFields
    <3>2. DOMAIN Setting(c.final, IdsOf(c, o), row[i].lastHard)
            = DOMAIN c.final \cup IdsOf(c, o)
      BY SettingFacts, Zenon
    <3> QED
      BY <1>2, <3>1, <3>2 DEF CacheOK
  <2>2. CASE ~(o \in DOMAIN c.last /\ c.last[o] # row[i].lastHard)
    BY <2>2, HardStateFields DEF CacheOK
  <2> QED
    BY <2>1, <2>2
<1> QED
  BY <1>1, <1>3, <1>4, <1>5 DEF CacheOK

LEMMA CompletedOK ==
  ASSUME NEW c, CacheOK(c)
  PROVE  CacheOK(Completed(c))
<1>1. Ids(c) \subseteq 1..Len(row)
  BY DEF CacheOK, Ids
<1>2. /\ DOMAIN Completed(c) = Fields /\ DOMAIN Completed(c).last = {}
      /\ Completed(c).waiting = {}
      /\ Completed(c).final = Setting(c.final, Ids(c), Pending)
  BY CompletedFields
<1>3. DOMAIN Setting(c.final, Ids(c), Pending) = DOMAIN c.final \cup Ids(c)
  BY SettingFacts, Zenon
<1> QED
  BY <1>1, <1>2, <1>3 DEF CacheOK

\* A slice is the first part of the rows that are left.
UpTo(S, i) == {j \in S : j <= i}
FirstOf(S, b) == {i \in S : Cardinality(UpTo(S, i)) <= b}

LEMMA SliceOf ==
  ASSUME NEW n \in Nat, NEW S, S \subseteq 1..n, S # {}, NEW b \in Nat \ {0}
  PROVE  /\ Cardinality(FirstOf(S, b)) <= b
         /\ \E k \in FirstOf(S, b) : FirstOf(S, b) = UpTo(S, k)
<1>1. IsFiniteSet(1..n)
  BY FS_Interval
<1>2. \A i : IsFiniteSet(UpTo(S, i))
  BY <1>1, FS_Subset DEF UpTo
<1>3. \A i : Cardinality(UpTo(S, i)) \in Nat
  BY <1>2, FS_CardinalityType
<1>4. FirstOf(S, b) # {}
  <2>1. S \subseteq Nat
    OBVIOUS
  <2>2. PICK i \in S : \A j \in S : i <= j
    BY <2>1, LeastOf
  <2>3. ASSUME NEW j \in UpTo(S, i) PROVE j = i
    <3>1. j \in S /\ j <= i
      BY DEF UpTo
    <3>2. i <= j /\ i \in Nat /\ j \in Nat
      BY <2>1, <2>2, <3>1
    <3> QED
      BY <3>1, <3>2
  <2>4. i \in UpTo(S, i)
    BY <2>1 DEF UpTo
  <2>5. UpTo(S, i) = {i}
    BY <2>3, <2>4
  <2>6. Cardinality(UpTo(S, i)) = 1
    BY <2>5, FS_Singleton
  <2>7. Cardinality(UpTo(S, i)) <= b
    BY <2>6
  <2> QED
    BY <2>7 DEF FirstOf
<1>5. FirstOf(S, b) \subseteq 0..n
  <2>1. FirstOf(S, b) \subseteq S
    BY DEF FirstOf
  <2>2. S \subseteq 0..n
    OBVIOUS
  <2> QED
    BY <2>1, <2>2
<1>6. PICK k \in FirstOf(S, b) : \A i \in FirstOf(S, b) : k >= i
  BY <1>4, <1>5, GreatestOf
<1>7. k \in S /\ Cardinality(UpTo(S, k)) <= b
  BY <1>6 DEF FirstOf
<1>8. ASSUME NEW i \in FirstOf(S, b) PROVE i \in UpTo(S, k)
  <2>1. i \in S /\ k >= i
    BY <1>6 DEF FirstOf
  <2> QED
    BY <1>7, <2>1 DEF UpTo
<1>9. ASSUME NEW i \in UpTo(S, k) PROVE i \in FirstOf(S, b)
  <2>1. i \in S /\ i <= k
    BY DEF UpTo
  <2>2. ASSUME NEW j \in UpTo(S, i) PROVE j \in UpTo(S, k)
    BY <1>7, <2>1, <2>2 DEF UpTo
  <2>3. Cardinality(UpTo(S, i)) <= Cardinality(UpTo(S, k))
    BY <1>2, <2>2, FS_Subset
  <2>4. Cardinality(UpTo(S, i)) <= b
    BY <1>3, <1>7, <2>3
  <2> QED
    BY <2>1, <2>4 DEF FirstOf
<1>10. FirstOf(S, b) = UpTo(S, k)
  BY <1>8, <1>9
<1> QED
  BY <1>6, <1>7, <1>10

LEMMA LeftFacts ==
  ASSUME TypeOK
  PROVE  Left \subseteq 1..Len(row) /\ Left \subseteq range.from..range.to
BY DEF Left, InRange

Scalars ==
  /\ type \in HistoryType /\ row \in Contents[type] /\ shown \in 0..Len(row)
  /\ pc \in {"off", "fill", "read", "write", "cleanup", "done"}
  /\ lastId \in 0..shown /\ regrown \in BOOLEAN /\ crashes \in 0..MaxCrash
  /\ range.from \in 1..Endless /\ range.to \in 0..shown
  /\ checkpoint \in 0..Endless /\ stage \in 0..4
  /\ slice \subseteq 1..Len(row) /\ Cardinality(slice) <= Bulk
  /\ pc \in {"off", "done"} => cache = EmptyCache /\ slice = {} /\ todo = {}

LEMMA TypeParts == TypeOK => Scalars
BY DEF TypeOK, Scalars

LEMMA TypeWhole == Scalars' /\ CacheOK(file)' /\ CacheOK(cache)' => TypeOK'
BY DEF TypeOK, Scalars, CacheOK, Fields

\* What never changes.
LEMMA Frozen ==
  ASSUME [Next]_vars
  PROVE  type' = type /\ row' = row /\ Endless' = Endless /\ IsCached' = IsCached
<1>1. type' = type /\ row' = row
  BY DEF Next, Migrate, vars, ido, work, Begin, FillEventTimes, FillHardStates, FillCache,
         CompleteCache, ReadSlice, ReadNothing, WriteRow, NextStage, SaveProgress,
         CleanupCache, Crash, Grow
<1> QED
  BY <1>1 DEF Endless, IsCached

LEMMA EmptyCards == Cardinality({}) = 0 /\ Bulk \in Nat \ {0} /\ 0 <= Bulk
BY FS_EmptySet, MigrationAssumption

LEMMA TypeStep ==
  ASSUME TypeOK, RangeInv, ProgressInv, [Next]_vars
  PROVE  TypeOK'
<1> USE DEF ido, work
<1>1. Scalars /\ CacheOK(file) /\ CacheOK(cache)
  BY TypeParts, CachesOK
<1>2. /\ Len(row) \in Nat /\ Endless \in Nat \ {0} /\ Endless = Len(row) + 1
      /\ shown \in Nat /\ lastId \in Nat /\ From \in Nat \ {0} /\ Bulk \in Nat \ {0}
      /\ MaxCrash \in Nat
  BY RowFacts, MigrationAssumption
<1>3. type' = type /\ row' = row /\ Endless' = Endless
  BY Frozen
<1>4. CacheOK(EmptyCache)
  BY EmptyOK
<1>5. /\ IdRange.from \in 1..Endless /\ IdRange.to \in 0..shown
  BY RangeFacts
<1>6. SUFFICES Scalars' /\ CacheOK(file)' /\ CacheOK(cache)'
  BY TypeWhole
<1>7. CASE Begin
  <2>1. checkpoint' \in 0..Endless
    <3>1. CASE ~IsCached
      <4>1. checkpoint' = lastId
        BY <1>7, <3>1 DEF Begin, IsCached, HardStateTypes
      <4> QED
        BY <1>1, <1>2, <4>1 DEF Scalars
    <3>2. CASE type = "flapping"
      <4>1. EventTimeCheckpoint(file) \in 0..Len(row)
        <5>1. DOMAIN file.final \cup {0} \subseteq 0..Len(row) /\ DOMAIN file.final \cup {0} # {}
          BY <1>1, <1>2 DEF CacheOK
        <5> QED
          BY <1>2, <5>1, MaxFacts DEF EventTimeCheckpoint
      <4>2. checkpoint' = EventTimeCheckpoint(file)
        BY <1>7, <3>2 DEF Begin, IsCached, HardStateTypes
      <4> QED
        BY <1>2, <4>1, <4>2
    <3>3. CASE type \in HardStateTypes
      <4>1. HardStateCheckpoint(file) \in 0..Endless
        <5>1. CASE file.waiting # {}
          <6>1. Ids(file) \subseteq 1..Len(row) /\ Ids(file) # {}
            BY <1>1, <5>1 DEF CacheOK, Ids
          <6>2. Min(Ids(file)) \in Ids(file)
            BY <1>2, <6>1, MinFacts
          <6>3. HardStateCheckpoint(file) = Min(Ids(file))
            BY <5>1 DEF HardStateCheckpoint, Ids
          <6> QED
            BY <1>2, <6>1, <6>2, <6>3
        <5>2. CASE file.waiting = {}
          BY <1>2, <5>2 DEF HardStateCheckpoint
        <5> QED
          BY <5>1, <5>2
      <4>2. checkpoint' = HardStateCheckpoint(file)
        BY <1>7, <3>3 DEF Begin, IsCached, HardStateTypes
      <4> QED
        BY <4>1, <4>2
    <3> QED
      BY <3>1, <3>2, <3>3 DEF IsCached
  <2>2. /\ range' = IdRange /\ pc' \in {"fill", "read"} /\ slice' = {} /\ stage' = 0
        /\ UNCHANGED <<shown, lastId, crashes, regrown>>
    BY <1>7 DEF Begin
  <2> HIDE DEF IdRange
  <2>4. Scalars'
    BY <1>1, <1>2, <1>3, <1>5, <2>1, <2>2, EmptyCards DEF Scalars
  <2>3. CacheOK(file)' /\ CacheOK(cache)'
    BY <1>1, <1>3, <1>7 DEF Begin, CacheOK
  <2> QED
    BY <2>3, <2>4
<1>8. CASE FillEventTimes
  <2> DEFINE i == checkpoint + 1
  <2>1. i \in 1..Len(row) /\ IsCached
    BY <1>1, <1>2, <1>8 DEF FillEventTimes, Scalars, IsCached
  <2>2. CacheOK(EventTimeStep(cache, i))
    BY <1>1, <2>1, EventTimeOK
  <2>3. /\ cache' = EventTimeStep(cache, i) /\ file' \in {file, cache'} /\ checkpoint' = i
        /\ pc' = pc /\ pc = "fill"
        /\ UNCHANGED <<type, row, shown, idb, lastId, range, slice, stage, todo, crashes, regrown>>
    BY <1>8 DEF FillEventTimes, FillCache
  <2> HIDE DEF i
  <2>4. Scalars'
    BY <1>1, <1>2, <1>3, <2>1, <2>3 DEF Scalars
  <2>5. CacheOK(file)' /\ CacheOK(cache)'
    BY <1>1, <1>3, <2>2, <2>3 DEF CacheOK
  <2> QED
    BY <2>4, <2>5
<1>9. CASE FillHardStates
  <2> DEFINE S == {j \in 1..range.to : j < checkpoint}
             i == Max(S)
  <2>1. S \subseteq 0..Len(row) /\ S # {} /\ S \subseteq 1..Len(row) /\ IsCached
    BY <1>1, <1>2, <1>9 DEF FillHardStates, Scalars, IsCached
  <2>2. i \in 1..Len(row)
    BY <1>2, <2>1, MaxFacts
  <2>3. CacheOK(HardStateStep(cache, i))
    BY <1>1, <2>1, <2>2, HardStateOK
  <2>4. /\ cache' = HardStateStep(cache, i) /\ file' \in {file, cache'} /\ checkpoint' = i
        /\ pc' = pc /\ pc = "fill"
        /\ UNCHANGED <<type, row, shown, idb, lastId, range, slice, stage, todo, crashes, regrown>>
    BY <1>9 DEF FillHardStates, FillCache
  <2> HIDE DEF i
  <2>5. Scalars'
    BY <1>1, <1>2, <1>3, <2>2, <2>4 DEF Scalars
  <2>6. CacheOK(file)' /\ CacheOK(cache)'
    BY <1>1, <1>3, <2>3, <2>4 DEF CacheOK
  <2> QED
    BY <2>5, <2>6
<1>10. CASE CompleteCache
  <2>1. CacheOK(Completed(cache))
    BY <1>1, CompletedOK
  <2>2. Scalars'
    BY <1>1, <1>2, <1>3, <1>10 DEF CompleteCache, Scalars
  <2>3. cache' = Completed(cache) /\ file' = Completed(cache)
    BY <1>10 DEF CompleteCache
  <2>4. CacheOK(file)' /\ CacheOK(cache)'
    BY <1>3, <2>1, <2>3 DEF CacheOK
  <2> QED
    BY <2>2, <2>4
<1>11. CASE ReadSlice
  <2>1. slice' = FirstOf(Left, Bulk) /\ Left # {}
    BY <1>11 DEF ReadSlice, FirstOf, UpTo
  <2>2. Cardinality(FirstOf(Left, Bulk)) <= Bulk /\ FirstOf(Left, Bulk) \subseteq 1..Len(row)
    <3>1. Left \subseteq 1..Len(row)
      BY LeftFacts
    <3>2. FirstOf(Left, Bulk) \subseteq Left
      BY DEF FirstOf
    <3> QED
      BY <1>2, <2>1, <3>1, <3>2, SliceOf
  <2>5. /\ stage' = 1 /\ pc' = "write"
        /\ UNCHANGED <<shown, lastId, range, checkpoint, crashes, regrown>>
    BY <1>11 DEF ReadSlice
  <2>3. Scalars'
    BY <1>1, <1>2, <1>3, <2>1, <2>2, <2>5 DEF Scalars
  <2>4. CacheOK(file)' /\ CacheOK(cache)'
    BY <1>1, <1>3, <1>11 DEF ReadSlice, CacheOK
  <2> QED
    BY <2>3, <2>4
<1>12. CASE ReadNothing
  BY <1>1, <1>3, <1>12 DEF ReadNothing, Scalars, CacheOK
<1>13. ASSUME NEW e \in todo, WriteRow(e) PROVE Scalars' /\ CacheOK(file)' /\ CacheOK(cache)'
  BY <1>1, <1>3, <1>13 DEF WriteRow, Scalars, CacheOK
<1>14. CASE NextStage
  <2>1. stage + 1 \in 0..4
    BY <1>1, <1>14, SliceFacts DEF NextStage, Scalars
  <2>2. Scalars'
    BY <1>1, <1>3, <1>14, <2>1 DEF NextStage, Scalars
  <2>3. CacheOK(file)' /\ CacheOK(cache)'
    BY <1>1, <1>3, <1>14 DEF NextStage, CacheOK
  <2> QED
    BY <2>2, <2>3
<1>15. CASE SaveProgress
  <2>1. pc = "write" /\ todo = {}
    BY <1>15 DEF SaveProgress
  <2>2. slice \subseteq Left /\ slice # {}
    BY <2>1 DEF ProgressInv
  <2>3. slice \subseteq 1..Len(row) /\ slice \subseteq 0..Len(row)
    BY <1>1, <1>2 DEF Scalars
  <2>4. Max(slice) \in slice
    BY <1>2, <2>2, <2>3, MaxFacts
  <2>8. Max(slice) \in 1..Len(row) /\ Max(slice) \in range.from..range.to
    BY <2>2, <2>4, LeftFacts
  <2>9. range.to \in 0..shown /\ shown \in 0..Len(row) /\ range.from \in 1..Endless
    BY <1>1 DEF Scalars
  <2>5. Max(slice) \in 0..shown /\ Max(slice) \in 0..Endless
    BY <1>2, <2>8, <2>9
  <2>6. Scalars'
    BY <1>1, <1>2, <1>3, <1>15, <2>5, EmptyCards DEF SaveProgress, Scalars
  <2>7. CacheOK(file)' /\ CacheOK(cache)'
    BY <1>1, <1>3, <1>15 DEF SaveProgress, CacheOK
  <2> QED
    BY <2>6, <2>7
<1>16. CASE CleanupCache
  <2>1. Scalars'
    BY <1>1, <1>2, <1>3, <1>16, EmptyCards DEF CleanupCache, Idle, Scalars
  <2>2. CacheOK(file)' /\ CacheOK(cache)'
    BY <1>3, <1>4, <1>16 DEF CleanupCache, CacheAfterwards, CacheOK
  <2> QED
    BY <2>1, <2>2
<1>17. CASE Crash
  <2>1. Scalars'
    BY <1>1, <1>2, <1>3, <1>17, EmptyCards DEF Crash, Idle, Scalars
  <2>2. CacheOK(file)' /\ CacheOK(cache)'
    BY <1>1, <1>3, <1>4, <1>17 DEF Crash, CacheOK
  <2> QED
    BY <2>1, <2>2
<1>18. CASE Grow
  <2>1. /\ shown' = shown + 1 /\ shown < Len(row) /\ regrown' \in BOOLEAN
        /\ UNCHANGED <<type, row, file, idb, lastId, pc, range, cache, checkpoint, slice,
                       stage, todo, crashes>>
    BY <1>1, <1>18 DEF Grow, Scalars
  <2>2. Scalars'
    BY <1>1, <1>2, <1>3, <2>1 DEF Scalars
  <2>3. CacheOK(file)' /\ CacheOK(cache)'
    BY <1>1, <1>3, <2>1 DEF CacheOK
  <2> QED
    BY <2>2, <2>3
<1>19. CASE UNCHANGED vars
  BY <1>1, <1>3, <1>19 DEF vars, Scalars, CacheOK
<1> QED
  BY <1>7, <1>8, <1>9, <1>10, <1>11, <1>12, <1>13, <1>14, <1>15, <1>16, <1>17, <1>18, <1>19
     DEF Next, Migrate

-------------------------------------------------------------------------------
(* The range and the progress.                                                  *)

LEMMA HasFrozen ==
  ASSUME type' = type, row' = row, NEW i
  PROVE  (HasStart(i)' <=> HasStart(i)) /\ (HasEnd(i)' <=> HasEnd(i))
BY DEF HasStart, HasEnd

\* fromId stays as it is once there is a row that has ended, toId does not shrink.
LEMMA RangeGrows ==
  ASSUME TypeOK, RangeInv
  PROVE  /\ range.from # Endless => IdRange.from = range.from
         /\ range.to <= IdRange.to /\ (lastId # 0 => range.from # Endless)
<1>1. /\ shown \in Nat /\ From \in Nat \ {0} /\ Endless \in Nat /\ shown < Endless
      /\ lastId \in 0..shown /\ range.to \in 0..shown
  BY RowFacts, MigrationAssumption DEF TypeOK
<1>2. range.from # Endless => IdRange.from = range.from
  <2>1. SUFFICES ASSUME range.from # Endless PROVE IdRange.from = range.from
    OBVIOUS
  <2>2. /\ range.from \in From..shown /\ HasEnd(range.from)
        /\ \A i \in From..(range.from - 1) : ~HasEnd(i)
    BY <2>1 DEF RangeInv
  <2>3. IdRange.from <= range.from /\ IdRange.from \in 1..Endless
    BY <2>2, RangeFacts
  <2>4. IdRange.from \in From..shown /\ HasEnd(IdRange.from)
    BY <1>1, <2>2, <2>3, RangeFacts
  <2> QED
    BY <1>1, <2>2, <2>3, <2>4
<1>3. range.to <= IdRange.to
  <2>1. CASE range.to = 0
    BY <2>1, RangeFacts
  <2>2. CASE range.to # 0
    BY <1>1, <2>2, RangeFacts DEF RangeInv
  <2> QED
    BY <2>1, <2>2
<1>4. lastId # 0 => range.from # Endless
  BY <1>1 DEF RangeInv
<1> QED
  BY <1>2, <1>3, <1>4

LEMMA RangeStep ==
  ASSUME TypeOK, RangeInv, ProgressInv, [Next]_vars
  PROVE  RangeInv'
<1> USE DEF ido, work
<1>1. /\ Len(row) \in Nat /\ Endless = Len(row) + 1 /\ shown \in 0..Len(row)
      /\ From \in Nat \ {0} /\ lastId \in 0..shown /\ range.to \in 0..shown
      /\ range.from \in 1..Endless
  BY RowFacts, MigrationAssumption DEF TypeOK
<1>2. type' = type /\ row' = row /\ Endless' = Endless
  BY Frozen
<1>3. \A i : (HasStart(i)' <=> HasStart(i)) /\ (HasEnd(i)' <=> HasEnd(i))
  BY <1>2, HasFrozen
<1>4. ASSUME UNCHANGED <<shown, range, lastId>>, Running' => Running PROVE RangeInv'
  BY <1>2, <1>3, <1>4 DEF RangeInv
<1>5. CASE Begin
  <2>1. range' = IdRange /\ UNCHANGED <<shown, lastId>>
    BY <1>5 DEF Begin
  <2>2. /\ IdRange.from # Endless =>
             IdRange.from \in From..shown /\ HasEnd(IdRange.from)
        /\ \A i \in From..shown : HasEnd(i) => IdRange.from <= i
        /\ IdRange.to \in 0..shown
        /\ IdRange.to # 0 => HasStart(IdRange.to)
        /\ \A i \in 1..shown : HasStart(i) => i <= IdRange.to
        /\ IdRange.from \in 1..Endless
    BY RangeFacts
  <2>3. \A i \in From..(IdRange.from - 1) : IdRange.from # Endless => ~HasEnd(i)
    BY <1>1, <2>2
  <2>4. lastId # 0 => IdRange.from \in 1..lastId
    BY RangeGrows DEF RangeInv
  <2>5. lastId <= IdRange.to
    <3>1. lastId <= range.to /\ range.to <= IdRange.to
      BY RangeGrows DEF RangeInv
    <3> QED
      BY <1>1, <2>2, <3>1
  <2>6. type = "flapping" => IdRange.to = shown
    <3>1. type = "flapping" => \A i : HasStart(i)
      BY DEF HasStart
    <3> QED
      BY <1>1, <2>2, <3>1
  <2> HIDE DEF IdRange
  <2>7. /\ range'.from = IdRange.from /\ range'.to = IdRange.to /\ shown' = shown
        /\ lastId' = lastId
    BY <2>1
  <2>8. /\ range'.from # Endless' =>
            /\ range'.from \in From..shown' /\ HasEnd(range.from)'
            /\ \A i \in From..(range'.from - 1) : ~HasEnd(i)'
        /\ range'.to # 0 => HasStart(range.to)'
    BY <1>2, <1>3, <2>2, <2>3, <2>7
  <2> QED
    BY <1>2, <2>4, <2>5, <2>6, <2>7, <2>8 DEF RangeInv
<1>6. CASE SaveProgress
  <2>1. pc = "write" /\ UNCHANGED <<shown, range>> /\ lastId' = Max(slice)
    BY <1>6 DEF SaveProgress
  <2>2. slice \subseteq Left /\ slice # {}
    BY <2>1 DEF ProgressInv
  <2>3. slice \subseteq 0..Len(row)
    BY <1>1, <2>2, LeftFacts
  <2>4. Max(slice) \in slice
    BY <1>1, <2>2, <2>3, MaxFacts
  <2>5. Max(slice) \in range.from..range.to /\ Max(slice) \in 1..Len(row)
    BY <2>2, <2>4, LeftFacts
  <2>6. lastId' # 0 /\ range.from \in 1..lastId' /\ lastId' <= range.to /\ Running
    BY <1>1, <2>1, <2>5 DEF Running
  <2> QED
    BY <1>2, <1>3, <2>1, <2>6 DEF RangeInv
<1>7. CASE Grow
  <2>1. shown' = shown + 1 /\ UNCHANGED <<range, lastId>> /\ ~Running'
    BY <1>7 DEF Grow, Running
  <2> QED
    BY <1>1, <1>2, <1>3, <2>1 DEF RangeInv
<1>8. CASE FillEventTimes
  BY <1>4, <1>8 DEF FillEventTimes, FillCache, Running
<1>9. CASE FillHardStates
  BY <1>4, <1>9 DEF FillHardStates, FillCache, Running
<1>10. CASE CompleteCache
  BY <1>4, <1>10 DEF CompleteCache, Running
<1>11. CASE ReadSlice
  BY <1>4, <1>11 DEF ReadSlice, Running
<1>12. CASE ReadNothing
  BY <1>4, <1>12 DEF ReadNothing, Running
<1>13. ASSUME NEW e \in todo, WriteRow(e) PROVE RangeInv'
  BY <1>4, <1>13 DEF WriteRow, Running
<1>14. CASE NextStage
  BY <1>4, <1>14 DEF NextStage, Running
<1>15. CASE CleanupCache
  BY <1>4, <1>15 DEF CleanupCache, Running
<1>16. CASE Crash
  BY <1>4, <1>16 DEF Crash, Running
<1>17. CASE UNCHANGED vars
  BY <1>4, <1>17 DEF vars, Running
<1> QED
  BY <1>5, <1>6, <1>7, <1>8, <1>9, <1>10, <1>11, <1>12, <1>13, <1>14, <1>15, <1>16, <1>17
     DEF Next, Migrate

LEMMA LeftFrozen ==
  ASSUME type' = type, row' = row, range' = range, cache' = cache, checkpoint' = checkpoint
  PROVE  /\ Left' = Left /\ Limit' = Limit
         /\ \A i, n, e : Converted(i, n, e)' <=> Converted(i, n, e)
         /\ Count(type)' = Count(type)
<1>1. Limit' = Limit
  BY DEF Limit, Endless
<1>2. \A i : InRange(i)' <=> InRange(i)
  BY DEF InRange
<1>3. Left' = Left
  BY <1>1, <1>2 DEF Left
<1> QED
  BY <1>1, <1>3 DEF Converted

LEMMA ProgressStep ==
  ASSUME TypeOK, RangeInv, ProgressInv, [Next]_vars
  PROVE  ProgressInv'
<1> USE DEF ido, work
<1>1. type' = type /\ row' = row /\ IsCached' = IsCached
  BY Frozen
<1>2. ASSUME pc' \notin {"read", "write"}, pc' = "fill" => IsCached,
             pc' = "cleanup" => checkpoint' = lastId', slice' = {}, todo' = {}, stage' = 0
      PROVE  ProgressInv'
  BY <1>1, <1>2 DEF ProgressInv
<1>3. ASSUME pc' = "read", checkpoint' = lastId', slice' = {}, todo' = {}, stage' = 0
      PROVE  ProgressInv'
  BY <1>3 DEF ProgressInv
<1>4. CASE Begin
  <2>1. slice' = {} /\ todo' = {} /\ stage' = 0 /\ lastId' = lastId
        /\ pc' = IF IsCached THEN "fill" ELSE "read"
    BY <1>4 DEF Begin
  <2>2. CASE IsCached
    BY <1>2, <2>1, <2>2
  <2>3. CASE ~IsCached
    <3>1. checkpoint' = lastId
      BY <1>4, <2>3 DEF Begin, IsCached, HardStateTypes
    <3> QED
      BY <1>3, <2>1, <2>3, <3>1
  <2> QED
    BY <2>2, <2>3
<1>5. CASE FillEventTimes
  BY <1>2, <1>5 DEF FillEventTimes, FillCache, ProgressInv
<1>6. CASE FillHardStates
  BY <1>2, <1>6 DEF FillHardStates, FillCache, ProgressInv
<1>7. CASE CompleteCache
  BY <1>3, <1>7 DEF CompleteCache, ProgressInv
<1>8. CASE ReadSlice
  <2>1. /\ slice' = FirstOf(Left, Bulk) /\ Left # {} /\ pc = "read" /\ pc' = "write"
        /\ stage' = 1 /\ todo' = StagesOf(slice')[1].rows
        /\ UNCHANGED <<lastId, range, cache, checkpoint>>
    BY <1>8 DEF ReadSlice, FirstOf, UpTo
  <2>2. PICK k \in FirstOf(Left, Bulk) : FirstOf(Left, Bulk) = UpTo(Left, k)
    BY <2>1, RowFacts, LeftFacts, SliceOf, MigrationAssumption
  <2>3. \E m \in slice' : slice' = {i \in Left' : i <= m}
    <3>1. Left' = Left
      BY <1>1, <2>1, LeftFrozen
    <3> QED
      BY <2>1, <2>2, <3>1 DEF UpTo
  <2>4. \A e \in todo' : \E i \in slice' : Converted(i, 1, e)'
    <3>1. \A e \in todo' : \E i \in slice' : Converted(i, 1, e)
      BY <2>1, SliceFacts
    <3> QED
      BY <1>1, <2>1, <3>1, LeftFrozen
  <2>5. stage' \in 1..Count(type)'
    BY <1>1, <2>1 DEF Count
  <2> QED
    BY <2>1, <2>3, <2>4, <2>5 DEF ProgressInv
<1>9. CASE ReadNothing
  BY <1>2, <1>9 DEF ReadNothing, ProgressInv
<1>10. ASSUME NEW e \in todo, WriteRow(e) PROVE ProgressInv'
  <2>1. /\ pc = "write" /\ todo' \subseteq todo
        /\ UNCHANGED <<lastId, pc, range, cache, checkpoint, slice, stage>>
    BY <1>10 DEF WriteRow
  <2>2. /\ \E k \in slice : slice = {i \in Left : i <= k}
        /\ stage \in 1..Count(type) /\ checkpoint = lastId
        /\ \A x \in todo : \E i \in slice : Converted(i, stage, x)
    BY <2>1 DEF ProgressInv
  <2>3. /\ Left' = Left /\ Count(type)' = Count(type)
        /\ \A i, n, x : Converted(i, n, x)' <=> Converted(i, n, x)
    BY <1>1, <2>1, LeftFrozen
  <2> QED
    BY <2>1, <2>2, <2>3 DEF ProgressInv
<1>11. CASE NextStage
  <2>1. /\ pc = "write" /\ stage < Len(StagesOf(slice)) /\ stage' = stage + 1
        /\ todo' = StagesOf(slice)[stage + 1].rows
        /\ UNCHANGED <<lastId, pc, range, cache, checkpoint, slice>>
    BY <1>11 DEF NextStage
  <2>2. /\ \E k \in slice : slice = {i \in Left : i <= k}
        /\ stage \in 1..Count(type) /\ checkpoint = lastId
    BY <2>1 DEF ProgressInv
  <2>3. /\ Left' = Left /\ Count(type)' = Count(type)
        /\ \A i, n, x : Converted(i, n, x)' <=> Converted(i, n, x)
    BY <1>1, <2>1, LeftFrozen
  <2>4. stage + 1 \in 1..Count(type)
    BY <2>1, <2>2, SliceFacts
  <2>5. \A x \in todo' : \E i \in slice : Converted(i, stage + 1, x)
    BY <2>1, <2>4, SliceFacts
  <2> QED
    BY <2>1, <2>2, <2>3, <2>4, <2>5 DEF ProgressInv
<1>12. CASE SaveProgress
  BY <1>3, <1>12 DEF SaveProgress
<1>13. CASE CleanupCache
  BY <1>2, <1>13 DEF CleanupCache, Idle
<1>14. CASE Crash
  BY <1>2, <1>14 DEF Crash, Idle
<1>15. CASE Grow
  BY <1>2, <1>15 DEF Grow, ProgressInv
<1>16. CASE UNCHANGED vars
  <2>1. /\ Left' = Left /\ Count(type)' = Count(type)
        /\ \A i, n, x : Converted(i, n, x)' <=> Converted(i, n, x)
    BY <1>1, <1>16, LeftFrozen DEF vars
  <2> QED
    BY <1>1, <1>16, <2>1 DEF vars, ProgressInv
<1> QED
  BY <1>4, <1>5, <1>6, <1>7, <1>8, <1>9, <1>10, <1>11, <1>12, <1>13, <1>14, <1>15, <1>16
     DEF Next, Migrate

-------------------------------------------------------------------------------
(* Stage by stage: what rows refer to is there.                                 *)

\* The database w after e has been written to d.
Writes(d, w, op, e) ==
  /\ DOMAIN w = DOMAIN d \cup {e.at}
  /\ \A at \in DOMAIN d : at # e.at => w[at] = d[at]
  /\ e.at \notin DOMAIN d => w[e.at] = e.columns
  /\ e.at \in DOMAIN d /\ op = "insert" => w[e.at] = d[e.at]
  /\ e.at \in DOMAIN d /\ op # "insert" =>
       w[e.at] = [d[e.at] EXCEPT !.end = e.columns.end]

LEMMA WrittenFacts ==
  ASSUME NEW d, NEW op, NEW e
  PROVE  Writes(d, Written(d, op, e), op, e)
BY DEF Writes, Written, Inserted, Upserted, With

\* What WriteRow does.
Op == IF type = "flapping" /\ stage = 2 THEN "upsert" ELSE "insert"

LEMMA WriteFacts ==
  ASSUME TypeOK, ProgressInv, NEW e \in todo, WriteRow(e)
  PROVE  /\ pc = "write" /\ stage \in 1..Count(type)
         /\ Writes(idb, idb', Op, e)
         /\ \E i \in slice : Converted(i, stage, e)
<1>1. pc = "write" /\ idb' = Written(idb, StagesOf(slice)[stage].op, e)
  BY DEF WriteRow
<1>2. stage \in 1..Count(type) /\ \E i \in slice : Converted(i, stage, e)
  BY <1>1 DEF ProgressInv
<1>3. StagesOf(slice)[stage].op = Op
  BY <1>2, SliceFacts DEF Op
<1> QED
  BY <1>1, <1>2, <1>3, WrittenFacts

\* Steps that do not write.
LEMMA NoWrite ==
  ASSUME [Next]_vars, ~\E e \in todo : WriteRow(e)
  PROVE  idb' = idb
BY DEF Next, Migrate, vars, ido, work, Begin, FillEventTimes, FillHardStates, FillCache,
       CompleteCache, ReadSlice, ReadNothing, NextStage, SaveProgress, CleanupCache, Crash,
       Grow

\* Steps that leave the process writing.
LEMMA StaysWriting ==
  ASSUME [Next]_vars, pc' = "write"
  PROVE  (\E e \in todo : WriteRow(e)) \/ ReadSlice \/ NextStage \/ UNCHANGED vars
BY DEF Next, Migrate, vars, ido, work, Begin, FillEventTimes, FillHardStates, FillCache,
       CompleteCache, ReadNothing, SaveProgress, CleanupCache, Crash, Grow

LEMMA WrittenStep ==
  ASSUME TypeOK, ProgressInv, WrittenInv, [Next]_vars
  PROVE  WrittenInv'
<1> USE DEF ido, work
<1>1. type' = type /\ row' = row
  BY Frozen
<1>2. SUFFICES ASSUME pc' = "write", NEW i \in slice', NEW n \in 1..stage', NEW f,
                      Converted(i, n, f)', n < stage' \/ f \notin todo'
               PROVE  f.at \in DOMAIN idb'
  BY DEF WrittenInv
<1>3. ASSUME NEW e \in todo, WriteRow(e) PROVE f.at \in DOMAIN idb'
  <2>1. /\ UNCHANGED <<range, cache, checkpoint, slice, stage>> /\ pc = "write"
        /\ todo' = todo \ {e}
    BY <1>3 DEF WriteRow
  <2>2. Converted(i, n, f)
    BY <1>1, <1>2, <2>1, LeftFrozen
  <2>3. DOMAIN idb' = DOMAIN idb \cup {e.at}
    BY <1>3, WriteFacts DEF Writes
  <2>4. CASE f = e
    BY <2>3, <2>4
  <2>5. CASE f # e
    <3>1. n < stage \/ f \notin todo
      BY <1>2, <2>1, <2>5
    <3>2. f.at \in DOMAIN idb
      BY <1>2, <2>1, <2>2, <3>1 DEF WrittenInv
    <3> QED
      BY <2>3, <3>2
  <2> QED
    BY <2>4, <2>5
<1>4. CASE ReadSlice
  <2>1. /\ stage' = 1 /\ todo' = StagesOf(slice')[1].rows
        /\ UNCHANGED <<range, cache, checkpoint>>
    BY <1>4 DEF ReadSlice
  <2>2. n = 1 /\ f \notin todo'
    BY <1>2, <2>1
  <2>3. Converted(i, 1, f)
    BY <1>1, <1>2, <2>1, <2>2, LeftFrozen
  <2>4. 1 \in 1..Count(type)
    BY SliceFacts
  <2>5. f \in StagesOf(slice')[1].rows
    BY <1>2, <2>3, <2>4, SliceFacts
  <2> QED
    BY <2>1, <2>2, <2>5
<1>5. CASE NextStage
  <2>1. /\ pc = "write" /\ todo = {} /\ stage' = stage + 1
        /\ todo' = StagesOf(slice)[stage + 1].rows
        /\ stage < Len(StagesOf(slice))
        /\ UNCHANGED <<idb, range, cache, checkpoint, slice>>
    BY <1>5 DEF NextStage
  <2>2. stage \in 1..Count(type) /\ stage + 1 \in 1..Count(type)
    BY <2>1, SliceFacts DEF ProgressInv
  <2>3. Converted(i, n, f)
    BY <1>1, <1>2, <2>1, LeftFrozen
  <2>4. n # stage + 1
    <3>1. SUFFICES ASSUME n = stage + 1 PROVE FALSE
      OBVIOUS
    <3>2. f \in StagesOf(slice)[stage + 1].rows
      BY <1>2, <2>1, <2>2, <2>3, <3>1, SliceFacts
    <3> QED
      BY <1>2, <2>1, <2>2, <3>1, <3>2
  <2>5. n \in 1..stage
    BY <1>2, <2>1, <2>2, <2>4
  <2>6. f.at \in DOMAIN idb
    BY <1>2, <2>1, <2>3, <2>5 DEF WrittenInv
  <2> QED
    BY <2>1, <2>6
<1>6. CASE UNCHANGED vars
  <2>1. Converted(i, n, f)
    BY <1>1, <1>2, <1>6, LeftFrozen DEF vars
  <2> QED
    BY <1>2, <1>6, <2>1 DEF vars, WrittenInv
<1> QED
  BY <1>2, <1>3, <1>4, <1>5, <1>6, StaysWriting

LEMMA TablesStep ==
  ASSUME TypeOK, ProgressInv, TablesInv, [Next]_vars
  PROVE  TablesInv'
<1>1. type' = type
  BY Frozen
<1>2. ASSUME NEW e \in todo, WriteRow(e) PROVE TablesInv'
  <2>1. PICK i \in slice : Converted(i, stage, e)
    BY <1>2, WriteFacts
  <2>2. e.at[1] \in TablesOf
    BY <2>1, EntryTables DEF Converted
  <2>3. DOMAIN idb' = DOMAIN idb \cup {e.at}
    BY <1>2, WriteFacts DEF Writes
  <2>4. TablesOf' = TablesOf
    BY <1>1 DEF TablesOf
  <2> QED
    BY <2>2, <2>3, <2>4 DEF TablesInv
<1>3. CASE ~\E e \in todo : WriteRow(e)
  <2>1. TablesOf' = TablesOf /\ idb' = idb
    BY <1>1, <1>3, NoWrite DEF TablesOf
  <2> QED
    BY <2>1 DEF TablesInv
<1> QED
  BY <1>2, <1>3

LEMMA ParentsStep ==
  ASSUME TypeOK, ProgressInv, WrittenInv, ParentsFirst, [Next]_vars
  PROVE  ParentsFirst'
<1>1. ASSUME NEW e \in todo, WriteRow(e) PROVE ParentsFirst'
  <2>1. pc = "write" /\ stage \in 1..Count(type) /\ Writes(idb, idb', Op, e)
    BY <1>1, WriteFacts
  <2>2. PICK i \in slice : Converted(i, stage, e)
    BY <1>1, WriteFacts
  <2>3. /\ DOMAIN idb' = DOMAIN idb \cup {e.at}
        /\ \A at \in DOMAIN idb : at # e.at => idb'[at] = idb[at]
        /\ e.at \notin DOMAIN idb => idb'[e.at] = e.columns
        /\ e.at \in DOMAIN idb =>
             \/ idb'[e.at] = idb[e.at]
             \/ idb'[e.at] = [idb[e.at] EXCEPT !.end = e.columns.end]
    BY <2>1 DEF Writes
  <2>4. ASSUME "ref" \in DOMAIN e.columns PROVE e.columns.ref \in DOMAIN idb
    <3>1. PICK m, f : /\ m \in 1..Count(type) /\ m < stage
                    /\ Converted(i, m, f) /\ f.at = e.columns.ref
      BY <2>2, <2>4, ParentEntry DEF Converted
    <3>2. m \in 1..stage
      BY <2>1, <3>1, SliceFacts
    <3> QED
      BY <2>1, <3>1, <3>2 DEF WrittenInv
  <2>5. ASSUME NEW at \in DOMAIN idb', "ref" \in DOMAIN idb'[at]
        PROVE  idb'[at].ref \in DOMAIN idb
    <3>1. CASE at \in DOMAIN idb /\ idb'[at] = idb[at]
      BY <2>5, <3>1 DEF ParentsFirst
    <3>2. CASE at \notin DOMAIN idb
      BY <2>3, <2>4, <2>5, <3>2
    <3>3. CASE at \in DOMAIN idb /\ idb'[at] = [idb[at] EXCEPT !.end = e.columns.end]
      <4>1. DOMAIN idb'[at] = DOMAIN idb[at]
        BY <3>3
      <4>2. "ref" \in DOMAIN idb[at]
        BY <2>5, <4>1
      <4>3. idb'[at].ref = idb[at].ref
        BY <3>3, <4>2
      <4> QED
        BY <3>3, <4>2, <4>3 DEF ParentsFirst
    <3> QED
      BY <2>3, <2>5, <3>1, <3>2, <3>3
  <2> QED
    BY <2>3, <2>5 DEF ParentsFirst
<1>2. CASE ~\E e \in todo : WriteRow(e)
  BY <1>2, NoWrite DEF ParentsFirst
<1> QED
  BY <1>1, <1>2

-------------------------------------------------------------------------------
(* Caches of hard states.                                                       *)

LEMMA PreviousIs ==
  \A i : PreviousHard(i) = Previous(row, i)
<1>1. ASSUME NEW i PROVE PreviousHard(i) = Previous(row, i)
  <2>1. {k \in Earlier(i) : row[k].lastHard # row[i].lastHard}
          = {k \in 1..(i - 1) : row[k].object = row[i].object
                                /\ row[k].lastHard # row[i].lastHard}
    BY DEF Earlier
  <2> QED
    BY <2>1, Zenon DEF PreviousHard, Previous
<1> QED
  BY <1>1

LEMMA PreviousFound ==
  ASSUME NEW r, NEW j \in Nat, NEW i \in 1..(j - 1), r[i].object = r[j].object,
         r[i].lastHard # r[j].lastHard,
         \A k \in (i + 1)..(j - 1) : r[k].object = r[j].object => r[k].lastHard = r[j].lastHard
  PROVE  Previous(r, j) = r[i].lastHard
<1> DEFINE S == {k \in 1..(j - 1) : r[k].object = r[j].object
                                    /\ r[k].lastHard # r[j].lastHard} \cup {0}
<1>1. S \subseteq 0..j /\ i \in S
  OBVIOUS
<1>2. Max(S) \in S /\ Max(S) >= i
  BY <1>1, MaxFacts
<1>3. Max(S) = i
  BY <1>1, <1>2
<1> HIDE DEF S
<1>4. Previous(r, j) = IF Max(S) = 0 THEN Pending ELSE r[Max(S)].lastHard
  BY DEF Previous, S
<1> QED
  BY <1>3, <1>4

LEMMA PreviousNone ==
  ASSUME NEW r, NEW j \in Nat,
         \A k \in 1..(j - 1) : r[k].object = r[j].object => r[k].lastHard = r[j].lastHard
  PROVE  Previous(r, j) = Pending
<1> DEFINE S == {k \in 1..(j - 1) : r[k].object = r[j].object
                                    /\ r[k].lastHard # r[j].lastHard} \cup {0}
<1>1. S = {0} /\ S \subseteq 0..j
  OBVIOUS
<1>2. Max(S) \in S
  BY <1>1, MaxFacts
<1>3. Max(S) = 0
  BY <1>1, <1>2
<1> HIDE DEF S
<1>4. Previous(r, j) = IF Max(S) = 0 THEN Pending ELSE r[Max(S)].lastHard
  BY DEF Previous, S
<1> QED
  BY <1>3, <1>4

Seconds(S) == {w[2] : w \in S}

LEMMA IdsAdd ==
  ASSUME NEW S, NEW o, NEW i
  PROVE  Seconds(S \cup {<<o, i>>}) = Seconds(S) \cup {i}
<1>1. <<o, i>>[2] = i
  OBVIOUS
<1>2. ASSUME NEW x PROVE x \in {w[2] : w \in S \cup {<<o, i>>}} <=>
                           x \in {w[2] : w \in S} \/ x = <<o, i>>[2]
  OBVIOUS
<1> QED
  BY <1>1, <1>2 DEF Seconds

LEMMA IdsOfFacts ==
  ASSUME NEW c, NEW o, \A w \in c.waiting : w[1] = row[w[2]].object
  PROVE  \A j : j \in IdsOf(c, o) <=> j \in Ids(c) /\ row[j].object = o
BY DEF IdsOf, Ids, WaitingOf

LEMMA HardStateIds ==
  ASSUME NEW c, NEW i, \A w \in c.waiting : w[1] = row[w[2]].object
  PROVE  LET o == row[i].object
             d == HardStateStep(c, i)
             done == o \in DOMAIN c.last /\ c.last[o] # row[i].lastHard
         IN  /\ done => Ids(d) = (Ids(c) \ IdsOf(c, o)) \cup {i}
             /\ ~done => Ids(d) = Ids(c) \cup {i}
             /\ \A w \in d.waiting : w[1] = row[w[2]].object
<1> DEFINE o == row[i].object
           d == HardStateStep(c, i)
<1> HIDE DEF o, d
<1>1. /\ Ids(d) = Seconds(d.waiting) /\ Ids(c) = Seconds(c.waiting)
      /\ Seconds(c.waiting \ WaitingOf(c, o)) = Ids(c) \ IdsOf(c, o)
  BY DEF IdsOf, Ids, WaitingOf, Seconds
<1>2. \A S : Seconds(S \cup {<<o, i>>}) = Seconds(S) \cup {i}
  BY IdsAdd, Zenon
<1>3. <<o, i>>[1] = o /\ <<o, i>>[2] = i /\ row[i].object = o
  BY DEF o
<1>4. CASE o \in DOMAIN c.last /\ c.last[o] # row[i].lastHard
  <2>1. d.waiting = (c.waiting \ WaitingOf(c, o)) \cup {<<o, i>>}
    BY <1>4, HardStateFields DEF o, d
  <2>2. Ids(d) = (Ids(c) \ IdsOf(c, o)) \cup {i}
    BY <1>1, <1>2, <2>1, Zenon
  <2>3. \A w \in d.waiting : w[1] = row[w[2]].object
    BY <1>3, <2>1
  <2> QED
    BY <1>4, <2>2, <2>3 DEF o, d
<1>5. CASE ~(o \in DOMAIN c.last /\ c.last[o] # row[i].lastHard)
  <2>1. d.waiting = c.waiting \cup {<<o, i>>}
    BY <1>5, HardStateFields DEF o, d
  <2>2. Ids(d) = Ids(c) \cup {i}
    BY <1>1, <1>2, <2>1, Zenon
  <2>3. \A w \in d.waiting : w[1] = row[w[2]].object
    BY <1>3, <2>1
  <2> QED
    BY <1>5, <2>2, <2>3 DEF o, d
<1> QED
  BY <1>4, <1>5

\* The row before the first one.
LEMMA HardExtend ==
  ASSUME NEW c, NEW first \in Nat, NEW top \in Nat, 1 < first, first <= top,
         HardUpTo(row, c, first, top)
  PROVE  /\ HardUpTo(row, HardStateStep(c, first - 1), first - 1, top)
         /\ first - 1 \in Ids(HardStateStep(c, first - 1))
<1> DEFINE i == first - 1
           o == row[i].object
           d == HardStateStep(c, i)
           done == o \in DOMAIN c.last /\ c.last[o] # row[i].lastHard
<1>1. /\ \A x : x \in DOMAIN c.final \/ x \in Ids(c) <=> x \in first..top
      /\ \A j \in DOMAIN c.final : j \notin Ids(c) /\ c.final[j] = Previous(row, j)
      /\ \A w \in c.waiting : w[1] = row[w[2]].object
      /\ \A j \in Ids(c) : \A k \in first..(j - 1) :
           row[k].object = row[j].object => row[k].lastHard = row[j].lastHard
      /\ \A p \in DOMAIN c.last : \E m \in first..top :
           /\ row[m].object = p /\ c.last[p] = row[m].lastHard
           /\ \A k \in first..(m - 1) : row[k].object # p
      /\ \A m \in first..top : row[m].object \in DOMAIN c.last
  BY DEF HardUpTo
<1>2. /\ DOMAIN d.last = DOMAIN c.last \cup {o} /\ d.last[o] = row[i].lastHard
      /\ \A p \in DOMAIN c.last : p # o => d.last[p] = c.last[p]
  <2>1. d.last = With(c.last, o, row[i].lastHard)
    BY HardStateFields
  <2> QED
    BY <2>1 DEF With
<1>3. i \in Nat /\ 0 < i /\ i < first /\ i + 1 = first /\ i \in i..top
  OBVIOUS
<1> HIDE DEF i
<1>4. ASSUME NEW j \in Ids(c), row[j].object = o
      PROVE  /\ j \in first..top /\ o \in DOMAIN c.last
             /\ c.last[o] = row[j].lastHard
  <2>1. j \in first..top /\ o \in DOMAIN c.last
    BY <1>1, <1>4
  <2>2. PICK m \in first..top :
               /\ row[m].object = o /\ c.last[o] = row[m].lastHard
               /\ \A k \in first..(m - 1) : row[k].object # o
    BY <1>1, <2>1
  <2>3. m <= j
    BY <1>3, <1>4, <2>1, <2>2
  <2>4. row[m].lastHard = row[j].lastHard
    <3>1. CASE m = j
      BY <3>1
    <3>2. CASE m # j
      BY <1>1, <1>4, <2>1, <2>2, <2>3, <3>2
    <3> QED
      BY <3>1, <3>2
  <2> QED
    BY <2>1, <2>2, <2>4
<1>5. IdsOf(c, o) = {j \in Ids(c) : row[j].object = o}
  BY <1>1, IdsOfFacts
<1>8. ASSUME NEW p \in DOMAIN d.last
      PROVE  \E m \in i..top : /\ row[m].object = p /\ d.last[p] = row[m].lastHard
                               /\ \A k \in i..(m - 1) : row[k].object # p
  <2>1. CASE p = o
    <3>1. \A k \in i..(i - 1) : FALSE
      BY <1>3
    <3> QED
      BY <1>2, <1>3, <2>1, <3>1
  <2>2. CASE p # o
    <3>1. PICK m \in first..top : /\ row[m].object = p /\ c.last[p] = row[m].lastHard
                                  /\ \A k \in first..(m - 1) : row[k].object # p
      BY <1>1, <1>2, <1>8, <2>2
    <3>2. \A k \in i..(m - 1) : row[k].object # p
      BY <1>3, <2>2, <3>1
    <3> QED
      BY <1>2, <1>3, <1>8, <2>2, <3>1, <3>2
  <2> QED
    BY <2>1, <2>2
<1>9. ASSUME NEW m \in i..top PROVE row[m].object \in DOMAIN d.last
  <2>1. CASE m = i
    BY <1>2, <2>1
  <2>2. CASE m # i
    BY <1>1, <1>2, <1>3, <2>2
  <2> QED
    BY <2>1, <2>2
<1>6. CASE done
  <2>1. /\ d.final = Setting(c.final, IdsOf(c, o), row[i].lastHard)
        /\ d.waiting = (c.waiting \ WaitingOf(c, o)) \cup {<<o, i>>}
    BY <1>6, HardStateFields
  <2>2. Ids(d) = (Ids(c) \ IdsOf(c, o)) \cup {i}
    BY <1>1, <1>6, HardStateIds
  <2>3. /\ DOMAIN d.final = DOMAIN c.final \cup IdsOf(c, o)
        /\ \A z \in IdsOf(c, o) : d.final[z] = row[i].lastHard
        /\ \A z \in DOMAIN c.final \ IdsOf(c, o) : d.final[z] = c.final[z]
    BY <2>1 DEF Setting
  <2>4. \A x : x \in DOMAIN d.final \/ x \in Ids(d) <=> x \in i..top
    BY <1>1, <1>3, <1>5, <2>2, <2>3
  <2>5. ASSUME NEW j \in DOMAIN d.final
        PROVE  j \notin Ids(d) /\ d.final[j] = Previous(row, j)
    <3>1. CASE j \in IdsOf(c, o)
      <4>1. j \in first..top /\ row[i].lastHard # row[j].lastHard /\ row[j].object = o
        BY <1>4, <1>5, <1>6, <3>1
      <4>2. \A k \in (i + 1)..(j - 1) : row[k].object = row[j].object =>
              row[k].lastHard = row[j].lastHard
        BY <1>1, <1>3, <1>5, <3>1
      <4>3. i \in 1..(j - 1) /\ j \in Nat
        BY <1>3, <4>1
      <4>4. Previous(row, j) = row[i].lastHard
        BY <4>1, <4>2, <4>3, PreviousFound
      <4> QED
        BY <1>3, <2>2, <2>3, <3>1, <4>1, <4>4
    <3>2. CASE j \notin IdsOf(c, o)
      <4>1. j \in DOMAIN c.final /\ j \in first..top
        BY <1>1, <2>3, <3>2
      <4> QED
        BY <1>1, <1>3, <2>2, <2>3, <3>2, <4>1
    <3> QED
      BY <3>1, <3>2
  <2>6. \A w \in d.waiting : w[1] = row[w[2]].object
    BY <1>1, <2>1
  <2>7. ASSUME NEW j \in Ids(d), NEW k \in i..(j - 1), row[k].object = row[j].object
        PROVE  row[k].lastHard = row[j].lastHard
    <3>1. j # i /\ j \in Ids(c) /\ row[j].object # o /\ j \in first..top
      BY <1>1, <1>3, <1>5, <2>2
    <3>2. k # i /\ k \in first..(j - 1)
      BY <1>3, <2>7, <3>1
    <3> QED
      BY <1>1, <2>7, <3>1, <3>2
  <2> QED
    <3>1. \A j \in Ids(d) : \A k \in i..(j - 1) :
            row[k].object = row[j].object => row[k].lastHard = row[j].lastHard
      BY <2>7
    <3>2. HardUpTo(row, d, i, top)
      BY <1>8, <1>9, <2>4, <2>5, <2>6, <3>1 DEF HardUpTo
    <3> QED
      BY <2>2, <3>2 DEF i
<1>7. CASE ~done
  <2>1. d.final = c.final /\ d.waiting = c.waiting \cup {<<o, i>>}
    BY <1>7, HardStateFields
  <2>2. Ids(d) = Ids(c) \cup {i}
    BY <1>1, <1>7, HardStateIds
  <2>3. \A x : x \in DOMAIN d.final \/ x \in Ids(d) <=> x \in i..top
    BY <1>1, <1>3, <2>1, <2>2
  <2>4. \A j \in DOMAIN d.final : j \notin Ids(d) /\ d.final[j] = Previous(row, j)
    BY <1>1, <1>3, <2>1, <2>2
  <2>5. \A w \in d.waiting : w[1] = row[w[2]].object
    BY <1>1, <2>1
  <2>6. ASSUME NEW j \in Ids(d), NEW k \in i..(j - 1), row[k].object = row[j].object
        PROVE  row[k].lastHard = row[j].lastHard
    <3>1. j # i /\ j \in Ids(c) /\ j \in first..top
      BY <1>1, <1>3, <2>2, <2>6
    <3>2. CASE k = i
      <4>1. o \in DOMAIN c.last /\ c.last[o] = row[j].lastHard
        BY <1>4, <2>6, <3>1, <3>2
      <4> QED
        BY <1>7, <3>2, <4>1
    <3>3. CASE k # i
      BY <1>1, <1>3, <2>6, <3>1, <3>3
    <3> QED
      BY <3>2, <3>3
  <2> QED
    <3>1. \A j \in Ids(d) : \A k \in i..(j - 1) :
            row[k].object = row[j].object => row[k].lastHard = row[j].lastHard
      BY <2>6
    <3>2. HardUpTo(row, d, i, top)
      BY <1>8, <1>9, <2>3, <2>4, <2>5, <3>1 DEF HardUpTo
    <3> QED
      BY <2>2, <3>2 DEF i
<1> QED
  BY <1>6, <1>7


\* The first row that is read, the last of the range.
LEMMA HardFirst ==
  ASSUME NEW c, Blank(c), NEW i \in Nat \ {0}
  PROVE  /\ HardUpTo(row, HardStateStep(c, i), i, i)
         /\ i \in Ids(HardStateStep(c, i))
<1> DEFINE o == row[i].object
           d == HardStateStep(c, i)
<1>1. DOMAIN c.final = {} /\ c.waiting = {} /\ DOMAIN c.last = {} /\ Ids(c) = {}
  BY DEF Blank, Ids
<1>2. d.final = c.final /\ d.last = With(c.last, o, row[i].lastHard)
  BY <1>1, HardStateFields
<1>3. Ids(d) = {i} /\ \A w \in d.waiting : w[1] = row[w[2]].object
  BY <1>1, HardStateIds
<1>4. DOMAIN d.last = {o} /\ d.last[o] = row[i].lastHard
  BY <1>1, <1>2 DEF With
<1>5. i..i = {i} /\ \A k \in i..(i - 1) : FALSE
  OBVIOUS
<1>6. /\ \A x : x \in DOMAIN d.final \/ x \in Ids(d) <=> x \in i..i
      /\ \A j \in DOMAIN d.final : j \notin Ids(d) /\ d.final[j] = Previous(row, j)
  BY <1>1, <1>2, <1>3, <1>5
<1>7. \A j \in Ids(d) : \A k \in i..(j - 1) :
        row[k].object = row[j].object => row[k].lastHard = row[j].lastHard
  BY <1>3, <1>5
<1>8. \A p \in DOMAIN d.last : \E m \in i..i :
        /\ row[m].object = p /\ d.last[p] = row[m].lastHard
        /\ \A k \in i..(m - 1) : row[k].object # p
  BY <1>4, <1>5
<1>9. \A m \in i..i : row[m].object \in DOMAIN d.last
  BY <1>4, <1>5
<1>10. HardUpTo(row, d, i, i)
  BY <1>3, <1>6, <1>7, <1>8, <1>9 DEF HardUpTo
<1> QED
  BY <1>3, <1>10

LEMMA HardCompleted ==
  ASSUME NEW c, NEW top \in Nat, HardUpTo(row, c, 1, top)
  PROVE  /\ Completed(c).waiting = {} /\ DOMAIN Completed(c).final = 1..top
         /\ \A j \in 1..top : Completed(c).final[j] = Previous(row, j)
<1> DEFINE d == Completed(c)
<1>1. /\ \A x : x \in DOMAIN c.final \/ x \in Ids(c) <=> x \in 1..top
      /\ \A j \in DOMAIN c.final : j \notin Ids(c) /\ c.final[j] = Previous(row, j)
      /\ \A j \in Ids(c) : \A k \in 1..(j - 1) :
           row[k].object = row[j].object => row[k].lastHard = row[j].lastHard
  BY DEF HardUpTo
<1>2. d.waiting = {} /\ d.final = Setting(c.final, Ids(c), Pending)
  BY CompletedFields
<1>3. /\ DOMAIN d.final = DOMAIN c.final \cup Ids(c)
      /\ \A z \in Ids(c) : d.final[z] = Pending
      /\ \A z \in DOMAIN c.final \ Ids(c) : d.final[z] = c.final[z]
  BY <1>2 DEF Setting
<1>4. DOMAIN d.final = 1..top
  BY <1>1, <1>3
<1>5. ASSUME NEW j \in 1..top PROVE d.final[j] = Previous(row, j)
  <2>1. CASE j \in Ids(c)
    <3>1. Previous(row, j) = Pending
      BY <1>1, <2>1, PreviousNone
    <3> QED
      BY <1>3, <2>1, <3>1
  <2>2. CASE j \notin Ids(c)
    BY <1>1, <1>3, <2>2
  <2> QED
    BY <2>1, <2>2
<1> QED
  BY <1>2, <1>4, <1>5

LEMMA NothingWaits ==
  ASSUME NEW c, c.waiting = {}
  PROVE  /\ Ids(c) = {} /\ Completed(c).waiting = {} /\ DOMAIN Completed(c).last = {}
         /\ DOMAIN Completed(c).final = DOMAIN c.final
         /\ \A j \in DOMAIN c.final : Completed(c).final[j] = c.final[j]
<1>1. Ids(c) = {}
  BY DEF Ids
<1>2. /\ Completed(c).waiting = {} /\ DOMAIN Completed(c).last = {}
      /\ Completed(c).final = Setting(c.final, Ids(c), Pending)
  BY CompletedFields
<1> QED
  BY <1>1, <1>2 DEF Setting

\* More rows do not matter.
LEMMA HardGrows ==
  ASSUME NEW to \in Nat, NEW more \in Nat, to <= more, NEW c
  PROVE  /\ HardDone(row, c, to) => HardDone(row, c, more)
         /\ \A first : HardCache(row, c, first, to) => HardCache(row, c, first, more)
<1>1. 1..to \subseteq 1..more
  OBVIOUS
<1>2. \A first \in 1..to : first..to \subseteq first..more
  OBVIOUS
<1>3. HardDone(row, c, to) => HardDone(row, c, more)
  BY <1>1 DEF HardDone
<1>4. ASSUME NEW first, HardCache(row, c, first, to) PROVE HardCache(row, c, first, more)
  BY <1>1, <1>2, <1>4 DEF HardCache
<1> QED
  BY <1>3, <1>4

\* Where a cache is taken up again.
LEMMA HardResumes ==
  ASSUME NEW to \in Nat, NEW c
  PROVE  /\ Blank(c) => HardStateCheckpoint(c) = Endless
         /\ HardDone(row, c, to) => HardStateCheckpoint(c) = 0
         /\ \A first : HardCache(row, c, first, to) => HardStateCheckpoint(c) = first
<1>1. Blank(c) => HardStateCheckpoint(c) = Endless
  BY DEF Blank, HardStateCheckpoint
<1>2. ASSUME HardDone(row, c, to) PROVE HardStateCheckpoint(c) = 0
  <2>1. c.waiting = {} /\ 1 \in DOMAIN c.final
    BY <1>2 DEF HardDone
  <2>2. DOMAIN c.final # {}
    BY <2>1
  <2> QED
    BY <2>1, <2>2 DEF HardStateCheckpoint
<1>3. ASSUME NEW first, HardCache(row, c, first, to) PROVE HardStateCheckpoint(c) = first
  <2>1. PICK top \in first..to : HardUpTo(row, c, first, top)
    BY <1>3 DEF HardCache
  <2>2. first \in Ids(c) /\ first \in 1..to
    BY <1>3 DEF HardCache
  <2>3. \A x \in Ids(c) : x \in first..top
    BY <2>1 DEF HardUpTo
  <2>4. Ids(c) \subseteq Nat /\ Ids(c) # {} /\ \A x \in Ids(c) : first <= x
    <3>1. first \in Nat /\ top \in Nat
      BY <2>2
    <3>2. ASSUME NEW x \in Ids(c) PROVE x \in Nat /\ first <= x
      BY <2>3, <3>1
    <3> QED
      BY <2>2, <3>2
  <2>5. Min(Ids(c)) \in Ids(c) /\ Min(Ids(c)) <= first
    BY <2>2, <2>4, MinFacts
  <2>6. Min(Ids(c)) = first
    BY <2>2, <2>4, <2>5
  <2>7. c.waiting # {}
    BY <2>2 DEF Ids
  <2>8. HardStateCheckpoint(c) = Min(Ids(c))
    BY <2>7 DEF HardStateCheckpoint, Ids
  <2> QED
    BY <2>6, <2>8
<1> QED
  BY <1>1, <1>2, <1>3

LEMMA HardStep ==
  ASSUME TypeOK, RangeInv, ProgressInv, HardInv, [Next]_vars
  PROVE  HardInv'
<1> USE DEF ido, work
<1>1. /\ Len(row) \in Nat /\ Endless = Len(row) + 1 /\ shown \in 0..Len(row)
      /\ range.to \in 0..shown /\ range.to \in Nat /\ range.to < Endless
  BY RowFacts DEF TypeOK
<1>2. type' = type /\ row' = row /\ Endless' = Endless
  BY Frozen
<1>3. SUFFICES ASSUME type \in HardStateTypes
               PROVE  HardInv'
  BY <1>2 DEF HardInv
<1> DEFINE FileInv == \/ Blank(file) \/ HardDone(row, file, range.to)
                      \/ \E first : HardCache(row, file, first, range.to)
<1>4. /\ FileInv
      /\ pc = "fill" =>
           \/ Blank(cache) /\ checkpoint = Endless
           \/ HardDone(row, cache, range.to) /\ checkpoint = 0
           \/ HardCache(row, cache, checkpoint, range.to)
      /\ pc \in {"read", "write"} => Blank(cache) \/ HardDone(row, cache, range.to)
  BY <1>3 DEF HardInv
<1>5. Blank(EmptyCache)
  BY EmptyFields DEF Blank
<1>6. type # "flapping" /\ IsCached
  BY <1>3 DEF HardStateTypes, IsCached
<1>7. ASSUME range' = range, file' = file, pc' \notin {"fill", "read", "write"}
      PROVE  HardInv'
  BY <1>2, <1>4, <1>7 DEF HardInv
<1>8. ASSUME UNCHANGED <<range, file, cache>>, pc \in {"read", "write"},
             pc' # "fill"
      PROVE  HardInv'
  BY <1>2, <1>4, <1>8 DEF HardInv
<1>9. CASE Begin
  <2>1. /\ range' = IdRange /\ cache' = file /\ file' = file /\ pc' = "fill"
        /\ checkpoint' = HardStateCheckpoint(file)
    BY <1>3, <1>6, <1>9 DEF Begin, HardStateTypes
  <2>2. range.to <= range'.to /\ range'.to \in Nat
    BY <1>1, <2>1, RangeGrows, RangeFacts
  <2> HIDE DEF IdRange
  <2>3. CASE Blank(file)
    BY <1>2, <2>1, <2>3, HardResumes, <1>1 DEF HardInv
  <2>4. CASE HardDone(row, file, range.to)
    <3>1. HardDone(row, file, range'.to)
      BY <1>1, <2>2, <2>4, HardGrows
    <3>2. HardStateCheckpoint(file) = 0
      BY <1>1, <2>4, HardResumes
    <3> QED
      BY <1>2, <2>1, <3>1, <3>2 DEF HardInv
  <2>5. ASSUME NEW first, HardCache(row, file, first, range.to) PROVE HardInv'
    <3>1. HardCache(row, file, first, range'.to)
      BY <1>1, <2>2, <2>5, HardGrows
    <3>2. HardStateCheckpoint(file) = first
      BY <1>1, <2>5, HardResumes
    <3> QED
      BY <1>2, <2>1, <3>1, <3>2 DEF HardInv
  <2> QED
    BY <1>4, <2>3, <2>4, <2>5
<1>10. CASE FillHardStates
  <2> DEFINE S == {j \in 1..range.to : j < checkpoint}
             i == Max(S)
             d == HardStateStep(cache, i)
  <2>1. /\ pc = "fill" /\ S # {} /\ cache' = d /\ file' \in {file, d} /\ checkpoint' = i
        /\ pc' = pc /\ range' = range
    BY <1>10 DEF FillHardStates, FillCache
  <2>2. S \subseteq 0..range.to
    BY <1>1
  <2>3. i \in S /\ \A j \in S : i >= j
    BY <1>1, <2>1, <2>2, MaxFacts
  <2> HIDE DEF i
  <2>4. i \in 1..range.to /\ i < checkpoint
    BY <2>3
  <2>5. HardCache(row, d, i, range.to)
    <3>1. CASE Blank(cache) /\ checkpoint = Endless
      <4>1. HardUpTo(row, d, i, i) /\ i \in Ids(d)
        BY <2>4, <3>1, HardFirst
      <4>2. i \in i..range.to
        BY <1>1, <2>4
      <4> QED
        BY <2>4, <4>1, <4>2 DEF HardCache
    <3>2. CASE HardDone(row, cache, range.to) /\ checkpoint = 0
      BY <1>1, <2>4, <3>2
    <3>3. CASE HardCache(row, cache, checkpoint, range.to)
      <4>1. PICK top \in checkpoint..range.to : HardUpTo(row, cache, checkpoint, top)
        BY <3>3 DEF HardCache
      <4>2. checkpoint \in 1..range.to
        BY <3>3 DEF HardCache
      <4>3. checkpoint - 1 \in S
        BY <1>1, <2>4, <4>2
      <4>4. i = checkpoint - 1
        BY <1>1, <2>3, <2>4, <4>2, <4>3
      <4>5. /\ checkpoint \in Nat /\ top \in Nat /\ 1 < checkpoint /\ checkpoint <= top
            /\ top \in i..range.to
        BY <1>1, <2>4, <4>1, <4>2, <4>4
      <4>6. HardUpTo(row, d, i, top) /\ i \in Ids(d)
        BY <4>1, <4>4, <4>5, HardExtend
      <4> QED
        BY <2>4, <4>5, <4>6 DEF HardCache
    <3> QED
      BY <1>4, <2>1, <3>1, <3>2, <3>3
  <2>6. \/ Blank(file') \/ HardDone(row, file', range.to)
        \/ \E first : HardCache(row, file', first, range.to)
    BY <1>4, <2>1, <2>5
  <2> HIDE DEF d
  <2> QED
    BY <1>2, <2>1, <2>5, <2>6 DEF HardInv
<1>11. CASE CompleteCache
  <2>1. /\ pc = "fill" /\ {i \in 1..range.to : i < checkpoint} = {}
        /\ cache' = Completed(cache) /\ file' = Completed(cache)
        /\ pc' = "read" /\ range' = range
    BY <1>6, <1>11 DEF CompleteCache
  <2>2. Blank(Completed(cache)) \/ HardDone(row, Completed(cache), range.to)
    <3>1. CASE Blank(cache)
      <4>1. cache.waiting = {} /\ DOMAIN cache.final = {}
        BY <3>1 DEF Blank
      <4> QED
        BY <4>1, NothingWaits DEF Blank
    <3>2. CASE HardDone(row, cache, range.to)
      <4>1. cache.waiting = {}
        BY <3>2 DEF HardDone
      <4>2. PICK top \in 1..range.to :
              DOMAIN cache.final = 1..top /\ \A j \in 1..top : cache.final[j] = Previous(row, j)
        BY <3>2 DEF HardDone
      <4>3. /\ Completed(cache).waiting = {} /\ DOMAIN Completed(cache).final = 1..top
            /\ \A j \in 1..top : Completed(cache).final[j] = Previous(row, j)
        BY <4>1, <4>2, NothingWaits
      <4> QED
        BY <4>3 DEF HardDone
    <3>3. CASE HardCache(row, cache, checkpoint, range.to)
      <4>1. PICK top \in checkpoint..range.to : HardUpTo(row, cache, checkpoint, top)
        BY <3>3 DEF HardCache
      <4>2. checkpoint \in 1..range.to
        BY <3>3 DEF HardCache
      <4>3. checkpoint = 1
        <5>1. ASSUME checkpoint # 1 PROVE 1 \in {i \in 1..range.to : i < checkpoint}
          BY <1>1, <4>2, <5>1
        <5> QED
          BY <2>1, <5>1
      <4>4. top \in 1..range.to /\ top \in Nat
        BY <1>1, <4>1, <4>3
      <4>5. /\ Completed(cache).waiting = {} /\ DOMAIN Completed(cache).final = 1..top
            /\ \A j \in 1..top : Completed(cache).final[j] = Previous(row, j)
        BY <4>1, <4>3, <4>4, HardCompleted
      <4> QED
        BY <4>4, <4>5 DEF HardDone
    <3> QED
      BY <1>4, <2>1, <3>1, <3>2, <3>3
  <2> QED
    BY <1>2, <2>1, <2>2 DEF HardInv
<1>12. CASE FillEventTimes
  BY <1>6, <1>12 DEF FillEventTimes
<1>13. CASE ReadSlice
  BY <1>8, <1>13 DEF ReadSlice
<1>14. CASE ReadNothing
  BY <1>7, <1>14 DEF ReadNothing
<1>15. ASSUME NEW e \in todo, WriteRow(e) PROVE HardInv'
  BY <1>8, <1>15 DEF WriteRow
<1>16. CASE NextStage
  BY <1>8, <1>16 DEF NextStage
<1>17. CASE SaveProgress
  BY <1>8, <1>17 DEF SaveProgress
<1>18. CASE CleanupCache
  BY <1>2, <1>5, <1>18 DEF CleanupCache, CacheAfterwards, HardInv
<1>19. CASE Crash
  BY <1>7, <1>19 DEF Crash
<1>20. CASE Grow
  BY <1>7, <1>20 DEF Grow
<1>21. CASE UNCHANGED vars
  BY <1>2, <1>4, <1>21 DEF vars, HardInv
<1> QED
  BY <1>9, <1>10, <1>11, <1>12, <1>13, <1>14, <1>15, <1>16, <1>17, <1>18, <1>19, <1>20, <1>21
     DEF Next, Migrate

-------------------------------------------------------------------------------
(* Caches of start times.                                                       *)

LEMMA StartIs ==
  \A i : StartOf(i) = Start(row, i)
<1>1. ASSUME NEW i PROVE StartOf(i) = Start(row, i)
  <2>1. Earlier(i) = {k \in 1..(i - 1) : row[k].object = row[i].object}
    BY DEF Earlier
  <2> QED
    BY <2>1, Zenon DEF StartOf, Start
<1> QED
  BY <1>1

\* Where a start is, if there is one.
LEMMA StartFacts ==
  ASSUME NEW r, NEW i \in Nat, Start(r, i) # 0
  PROVE  /\ Start(r, i) \in 1..(i - 1) /\ r[Start(r, i)].object = r[i].object
         /\ r[Start(r, i)].start
         /\ \A k \in (Start(r, i) + 1)..(i - 1) : r[k].object # r[i].object
<1> DEFINE S == {k \in 1..(i - 1) : r[k].object = r[i].object} \cup {0}
<1>1. S \subseteq 0..i /\ S # {}
  OBVIOUS
<1>2. Max(S) \in S /\ \A k \in S : Max(S) >= k
  BY <1>1, MaxFacts
<1>3. Start(r, i) = IF Max(S) > 0 /\ r[Max(S)].start THEN Max(S) ELSE 0
  BY DEF Start
<1>4. Start(r, i) = Max(S) /\ Max(S) > 0 /\ r[Max(S)].start
  BY <1>3
<1>5. Max(S) \in 1..(i - 1) /\ r[Max(S)].object = r[i].object
  BY <1>2, <1>4
<1>6. ASSUME NEW k \in (Max(S) + 1)..(i - 1) PROVE r[k].object # r[i].object
  <2>1. k \in 1..(i - 1) /\ ~(Max(S) >= k)
    BY <1>5
  <2> QED
    BY <1>2, <2>1
<1> HIDE DEF S
<1> QED
  BY <1>4, <1>5, <1>6

LEMMA StartFound ==
  ASSUME NEW r, NEW i \in Nat, NEW j \in 1..(i - 1), r[j].object = r[i].object,
         \A k \in (j + 1)..(i - 1) : r[k].object # r[i].object
  PROVE  Start(r, i) = IF r[j].start THEN j ELSE 0
<1> DEFINE S == {k \in 1..(i - 1) : r[k].object = r[i].object} \cup {0}
<1>1. S \subseteq 0..i /\ j \in S
  OBVIOUS
<1>2. Max(S) \in S /\ Max(S) >= j
  BY <1>1, MaxFacts
<1>3. Max(S) = j
  BY <1>1, <1>2
<1>4. Start(r, i) = IF Max(S) > 0 /\ r[Max(S)].start THEN Max(S) ELSE 0
  BY DEF Start
<1> HIDE DEF S
<1> QED
  BY <1>3, <1>4

\* An interval has one end.
LEMMA StartOnce ==
  ASSUME NEW r, NEW i \in Nat, NEW j \in Nat, Start(r, i) # 0, Start(r, i) = Start(r, j),
         ~r[i].start, ~r[j].start, r[i].object = r[j].object
  PROVE  i = j
<1>1. /\ Start(r, i) \in 1..(i - 1) /\ Start(r, j) \in 1..(j - 1)
      /\ \A k \in (Start(r, i) + 1)..(i - 1) : r[k].object # r[i].object
      /\ \A k \in (Start(r, j) + 1)..(j - 1) : r[k].object # r[j].object
  BY StartFacts
<1>2. ~(i < j)
  <2>1. ASSUME i < j PROVE i \in (Start(r, j) + 1)..(j - 1)
    BY <1>1, <2>1
  <2> QED
    BY <1>1, <2>1
<1>3. ~(j < i)
  <2>1. ASSUME j < i PROVE j \in (Start(r, i) + 1)..(i - 1)
    BY <1>1, <2>1
  <2> QED
    BY <1>1, <2>1
<1> QED
  BY <1>2, <1>3

LEMMA EventsEmpty ==
  ASSUME NEW s
  PROVE  EventCache(row, EmptyCache, 0, s)
<1>1. EndsDone(row, EmptyCache, 0)
  BY EmptyFields DEF EndsDone
<1>2. \A o : Agrees(row, EmptyCache, o, 0)
  BY EmptyFields DEF Agrees
<1> QED
  BY <1>1, <1>2 DEF EventCache

\* The next row.
LEMMA EventsExtend ==
  ASSUME NEW c, DOMAIN c = Fields, NEW p \in Nat, NEW s \in Nat, p < s,
         EventCache(row, c, p, s), row[p + 1].object \in Object
  PROVE  EventCache(row, EventTimeStep(c, p + 1), p + 1, s)
<1> DEFINE i == p + 1
           o == row[i].object
           d == EventTimeStep(c, i)
<1>1. /\ \A x : x \in DOMAIN c.final <=> x \in 1..p /\ HasStartBefore(row, x)
      /\ \A x \in DOMAIN c.final : c.final[x] = Start(row, x)
      /\ \A q \in Object : Agrees(row, c, q, p) \/ Unused(row, q, p, s)
  BY DEF EventCache, EndsDone
<1>2. i \in Nat /\ i \in 1..s /\ i - 1 = p /\ p < i
  OBVIOUS
<1>3. 1..i = 1..p \cup {i} /\ i \notin 1..p
  OBVIOUS
<1> HIDE DEF i
<1>4. o \in DOMAIN c.last /\ ~row[i].start =>
        Start(row, i) = c.last[o] /\ c.last[o] # 0
  <2>1. SUFFICES ASSUME o \in DOMAIN c.last, ~row[i].start
                 PROVE  Start(row, i) = c.last[o] /\ c.last[o] # 0
    OBVIOUS
  <2>2. ~Unused(row, o, p, s)
    BY <1>2, <2>1 DEF Unused, i
  <2>3. Agrees(row, c, o, p)
    BY <1>1, <2>2 DEF i
  <2>4. /\ c.last[o] \in 1..(i - 1) /\ row[c.last[o]].object = o /\ row[c.last[o]].start
        /\ \A k \in (c.last[o] + 1)..(i - 1) : row[k].object # o
    BY <1>2, <2>1, <2>3 DEF Agrees
  <2> QED
    BY <1>2, <2>4, StartFound
<1>5. o \notin DOMAIN c.last /\ ~row[i].start => Start(row, i) = 0
  <2>1. SUFFICES ASSUME o \notin DOMAIN c.last, ~row[i].start, Start(row, i) # 0
                 PROVE  FALSE
    OBVIOUS
  <2>2. ~Unused(row, o, p, s)
    BY <1>2, <2>1 DEF Unused, i
  <2>3. Agrees(row, c, o, p)
    BY <1>1, <2>2 DEF i
  <2>4. /\ Start(row, i) \in 1..p /\ row[Start(row, i)].object = o
        /\ row[Start(row, i)].start
        /\ \A k \in (Start(row, i) + 1)..p : row[k].object # o
    BY <1>2, <2>1, StartFacts
  <2> QED
    BY <2>1, <2>3, <2>4 DEF Agrees
<1>6. EndsDone(row, d, i)
  <2>1. CASE row[i].start
    <3>1. d.final = c.final
      BY <2>1, EventTimeFields
    <3> QED
      BY <1>1, <1>3, <2>1, <3>1 DEF EndsDone, HasStartBefore
  <2>2. CASE ~row[i].start /\ o \in DOMAIN c.last
    <3>1. d.final = With(c.final, i, c.last[o])
      BY <2>2, EventTimeFields
    <3>2. /\ DOMAIN d.final = DOMAIN c.final \cup {i} /\ d.final[i] = c.last[o]
          /\ \A x \in DOMAIN c.final : x # i => d.final[x] = c.final[x]
      BY <3>1 DEF With
    <3>3. HasStartBefore(row, i)
      BY <1>4, <2>2 DEF HasStartBefore
    <3>4. \A x : x \in DOMAIN d.final <=> x \in 1..i /\ HasStartBefore(row, x)
      BY <1>1, <1>3, <3>2, <3>3
    <3>5. \A x \in DOMAIN d.final : d.final[x] = Start(row, x)
      BY <1>1, <1>4, <2>2, <3>2
    <3> QED
      BY <3>4, <3>5 DEF EndsDone
  <2>3. CASE ~row[i].start /\ o \notin DOMAIN c.last
    <3>1. d = c
      BY <2>3, EventTimeFields
    <3>2. ~HasStartBefore(row, i)
      BY <1>5, <2>3 DEF HasStartBefore
    <3> QED
      BY <1>1, <1>3, <3>1, <3>2 DEF EndsDone
  <2> QED
    BY <2>1, <2>2, <2>3
<1>7. /\ o \in DOMAIN d.last <=> row[i].start
      /\ row[i].start => d.last[o] = i
      /\ \A q : q # o => /\ q \in DOMAIN d.last <=> q \in DOMAIN c.last
                         /\ q \in DOMAIN c.last => d.last[q] = c.last[q]
  <2>1. CASE row[i].start
    <3>1. d.last = With(c.last, o, i)
      BY <2>1, EventTimeFields
    <3> QED
      BY <2>1, <3>1 DEF With
  <2>2. CASE ~row[i].start /\ o \in DOMAIN c.last
    <3>1. d.last = Without(c.last, o)
      BY <2>2, EventTimeFields
    <3> QED
      BY <2>2, <3>1 DEF Without
  <2>3. CASE ~row[i].start /\ o \notin DOMAIN c.last
    <3>1. d = c
      BY <2>3, EventTimeFields
    <3> QED
      BY <2>3, <3>1
  <2> QED
    BY <2>1, <2>2, <2>3
<1>8. Agrees(row, d, o, i)
  <2>1. CASE row[i].start
    BY <1>2, <1>7, <2>1 DEF Agrees
  <2>2. CASE ~row[i].start
    <3>1. ASSUME NEW j \in 1..i, row[j].object = o, row[j].start
          PROVE  \E k \in (j + 1)..i : row[k].object = o
      <4>1. i \in (j + 1)..i
        BY <1>2, <1>3, <2>2, <3>1
      <4> QED
        BY <4>1
    <3> QED
      BY <1>7, <2>2, <3>1 DEF Agrees
  <2> QED
    BY <2>1, <2>2
<1>9. ASSUME NEW q \in Object, q # o
      PROVE  Agrees(row, d, q, i) \/ Unused(row, q, i, s)
  <2>1. CASE Agrees(row, c, q, p)
    <3>1. CASE q \in DOMAIN c.last
      <4>1. /\ c.last[q] \in 1..p /\ row[c.last[q]].object = q /\ row[c.last[q]].start
            /\ \A k \in (c.last[q] + 1)..p : row[k].object # q
        BY <2>1, <3>1 DEF Agrees
      <4>2. \A k \in (c.last[q] + 1)..i : row[k].object # q
        BY <1>2, <1>3, <1>9, <4>1
      <4> QED
        BY <1>3, <1>7, <1>9, <3>1, <4>1, <4>2 DEF Agrees
    <3>2. CASE q \notin DOMAIN c.last
      <4>1. \A j \in 1..p : row[j].object = q /\ row[j].start =>
              \E k \in (j + 1)..p : row[k].object = q
        BY <2>1, <3>2 DEF Agrees
      <4>2. ASSUME NEW j \in 1..i, row[j].object = q, row[j].start
            PROVE  \E k \in (j + 1)..i : row[k].object = q
        <5>1. j \in 1..p
          BY <1>3, <1>9, <4>2
        <5>2. PICK k \in (j + 1)..p : row[k].object = q
          BY <4>1, <4>2, <5>1
        <5>3. k \in (j + 1)..i
          BY <1>2, <5>1, <5>2
        <5> QED
          BY <5>2, <5>3
      <4> QED
        BY <1>7, <1>9, <3>2, <4>2 DEF Agrees
    <3> QED
      BY <3>1, <3>2
  <2>2. CASE Unused(row, q, p, s)
    <3>1. \A k \in (i + 1)..s : k \in (p + 1)..s
      BY <1>2
    <3>2. CASE \A k \in (p + 1)..s : row[k].object # q
      BY <3>1, <3>2 DEF Unused
    <3>3. ASSUME NEW j \in (p + 1)..s, row[j].object = q, row[j].start,
                 \A k \in (p + 1)..(j - 1) : row[k].object # q
          PROVE  Unused(row, q, i, s)
      <4>1. j # i
        BY <1>9, <3>3
      <4>2. j \in (i + 1)..s /\ \A k \in (i + 1)..(j - 1) : row[k].object # q
        BY <1>2, <3>3, <4>1 DEF i
      <4> QED
        BY <3>3, <4>2 DEF Unused
    <3> QED
      BY <2>2, <3>2, <3>3 DEF Unused
  <2> QED
    BY <1>1, <1>9, <2>1, <2>2
<1>10. EventCache(row, d, i, s)
  BY <1>6, <1>8, <1>9 DEF EventCache
<1> QED
  BY <1>10 DEF i

\* A cache of p rows is as good as one up to the last end in it, when all ends
\* have starts: the rows between are starts, and are cached again.
LEMMA EventsResume ==
  ASSUME NEW c, NEW p \in Nat, NEW s \in Nat, p <= s, EventCache(row, c, p, s),
         \A i \in 1..s : row[i].start \/ HasStartBefore(row, i)
  PROVE  /\ EventTimeCheckpoint(c) \in 0..p
         /\ EventCache(row, c, EventTimeCheckpoint(c), s)
<1> DEFINE q == EventTimeCheckpoint(c)
<1>1. /\ \A x : x \in DOMAIN c.final <=> x \in 1..p /\ HasStartBefore(row, x)
      /\ \A x \in DOMAIN c.final : c.final[x] = Start(row, x)
      /\ \A o \in Object : Agrees(row, c, o, p) \/ Unused(row, o, p, s)
  BY DEF EventCache, EndsDone
<1>2. DOMAIN c.final \cup {0} \subseteq 0..p
  BY <1>1
<1>3. q \in DOMAIN c.final \cup {0} /\ \A x \in DOMAIN c.final \cup {0} : q >= x
  BY <1>2, MaxFacts DEF EventTimeCheckpoint
<1> HIDE DEF q
<1>4. q \in 0..p /\ q \in Nat /\ q <= p /\ p <= s
  BY <1>2, <1>3
<1>5. ASSUME NEW k \in (q + 1)..p PROVE row[k].start
  <2>1. k \in 1..p /\ k \in 1..s /\ ~(q >= k)
    BY <1>4
  <2>2. k \notin DOMAIN c.final
    BY <1>3, <2>1
  <2> QED
    BY <1>1, <2>1, <2>2
<1>6. EndsDone(row, c, q)
  <2>1. ASSUME NEW x PROVE x \in DOMAIN c.final <=> x \in 1..q /\ HasStartBefore(row, x)
    <3>1. x \in DOMAIN c.final => x \in 1..q
      BY <1>1, <1>3, <1>4
    <3>2. x \in 1..q => x \in 1..p
      BY <1>4
    <3> QED
      BY <1>1, <3>1, <3>2
  <2> QED
    BY <1>1, <2>1 DEF EndsDone
<1>7. ASSUME NEW o \in Object PROVE Agrees(row, c, o, q) \/ Unused(row, o, q, s)
  <2> DEFINE S == {k \in (q + 1)..p : row[k].object = o}
  <2>1. CASE S # {}
    <3>1. S \subseteq Nat
      BY <1>4
    <3>2. PICK j \in S : \A k \in S : j <= k
      BY <2>1, <3>1, LeastOf
    <3>3. j \in (q + 1)..s /\ row[j].object = o /\ row[j].start
      BY <1>4, <1>5, <3>2
    <3>4. ASSUME NEW k \in (q + 1)..(j - 1) PROVE row[k].object # o
      <4>1. k \in (q + 1)..p /\ ~(j <= k)
        BY <1>4, <3>2
      <4> QED
        BY <3>2, <4>1
    <3> QED
      BY <3>3, <3>4 DEF Unused
  <2>2. CASE S = {}
    <3>1. \A k \in (q + 1)..p : row[k].object # o
      BY <2>2
    <3>2. CASE Agrees(row, c, o, p)
      <4>1. CASE o \in DOMAIN c.last
        <5>1. /\ c.last[o] \in 1..p /\ row[c.last[o]].object = o /\ row[c.last[o]].start
              /\ \A k \in (c.last[o] + 1)..p : row[k].object # o
          BY <3>2, <4>1 DEF Agrees
        <5>2. c.last[o] \in 1..q
          BY <1>4, <3>1, <5>1
        <5>3. \A k \in (c.last[o] + 1)..q : k \in (c.last[o] + 1)..p
          BY <1>4, <5>2
        <5> QED
          BY <4>1, <5>1, <5>2, <5>3 DEF Agrees
      <4>2. CASE o \notin DOMAIN c.last
        <5>1. \A j \in 1..p : row[j].object = o /\ row[j].start =>
                \E k \in (j + 1)..p : row[k].object = o
          BY <3>2, <4>2 DEF Agrees
        <5>2. ASSUME NEW j \in 1..q, row[j].object = o, row[j].start
              PROVE  \E k \in (j + 1)..q : row[k].object = o
          <6>1. j \in 1..p
            BY <1>4
          <6>2. PICK k \in (j + 1)..p : row[k].object = o
            BY <5>1, <5>2, <6>1
          <6>3. k \in (j + 1)..q
            BY <1>4, <3>1, <6>2
          <6> QED
            BY <6>2, <6>3
        <5> QED
          BY <4>2, <5>2 DEF Agrees
      <4> QED
        BY <4>1, <4>2
    <3>3. CASE Unused(row, o, p, s)
      <4>1. CASE \A k \in (p + 1)..s : row[k].object # o
        <5>1. \A k \in (q + 1)..s : row[k].object # o
          BY <1>4, <3>1, <4>1
        <5> QED
          BY <5>1 DEF Unused
      <4>2. ASSUME NEW j \in (p + 1)..s, row[j].object = o, row[j].start,
                   \A k \in (p + 1)..(j - 1) : row[k].object # o
            PROVE  Unused(row, o, q, s)
        <5>1. j \in (q + 1)..s
          BY <1>4
        <5>2. \A k \in (q + 1)..(j - 1) : row[k].object # o
          BY <1>4, <3>1, <4>2
        <5> QED
          BY <4>2, <5>1, <5>2 DEF Unused
      <4> QED
        BY <3>3, <4>1, <4>2 DEF Unused
    <3> QED
      BY <1>1, <3>2, <3>3
  <2> QED
    BY <2>1, <2>2
<1>8. EventCache(row, c, q, s)
  BY <1>6, <1>7 DEF EventCache
<1> QED
  BY <1>4, <1>8 DEF q

LEMMA EventsCompleted ==
  ASSUME NEW c, c.waiting = {}, NEW s \in Nat, EventCache(row, c, s, s)
  PROVE  /\ EndsDone(row, Completed(c), s) /\ EventCache(row, Completed(c), s, s)
         /\ Completed(c).waiting = {}
<1>1. /\ Completed(c).waiting = {} /\ DOMAIN Completed(c).final = DOMAIN c.final
      /\ \A j \in DOMAIN c.final : Completed(c).final[j] = c.final[j]
  BY NothingWaits
<1>2. EndsDone(row, Completed(c), s)
  BY <1>1 DEF EventCache, EndsDone
<1>3. \A o : Unused(row, o, s, s)
  BY DEF Unused
<1> QED
  BY <1>1, <1>2, <1>3 DEF EventCache

LEMMA OrphansFacts ==
  ASSUME TypeOK, Orphans = {}
  PROVE  \A i \in 1..shown : row[i].start \/ HasStartBefore(row, i)
<1>1. ASSUME NEW i \in 1..shown PROVE row[i].start \/ HasStartBefore(row, i)
  <2>1. i \in 1..Len(row) /\ i \notin Orphans
    BY RowFacts
  <2>2. row[i].start \/ StartOf(i) # 0
    BY <2>1 DEF Orphans
  <2> QED
    BY <2>2, StartIs DEF HasStartBefore
<1> QED
  BY <1>1

LEMMA TrustStep ==
  ASSUME TypeOK, [Next]_vars
  PROVE  /\ Orphans' = Orphans
         /\ CacheTrusted' => CacheTrusted
         /\ UNCHANGED <<crashes, regrown>> => CacheTrusted' = CacheTrusted
         /\ Crash \/ Grow \/ UNCHANGED <<crashes, regrown>>
<1> USE DEF ido, work
<1>1. type' = type /\ row' = row
  BY Frozen
<1>2. Orphans' = Orphans
  <2>1. \A i : StartOf(i)' = StartOf(i)
    BY <1>1 DEF StartOf, Earlier
  <2> QED
    BY <1>1, <2>1 DEF Orphans
<1>3. Crash \/ Grow \/ UNCHANGED <<crashes, regrown>>
  BY DEF Next, Migrate, vars, Begin, FillEventTimes, FillHardStates, FillCache,
         CompleteCache, ReadSlice, ReadNothing, WriteRow, NextStage, SaveProgress,
         CleanupCache
<1>4. UNCHANGED <<crashes, regrown>> => CacheTrusted' = CacheTrusted
  BY <1>1, <1>2 DEF CacheTrusted
<1>5. ASSUME Crash PROVE CacheTrusted' => CacheTrusted
  <2>1. crashes' # 0 /\ regrown' = regrown
    BY <1>5 DEF Crash, TypeOK
  <2> QED
    BY <1>1, <1>2, <2>1 DEF CacheTrusted
<1>6. ASSUME Grow PROVE CacheTrusted' => CacheTrusted
  <2>1. crashes' = crashes /\ (regrown => regrown')
    BY <1>6 DEF Grow
  <2> QED
    BY <1>1, <1>2, <2>1 DEF CacheTrusted
<1> QED
  BY <1>2, <1>3, <1>4, <1>5, <1>6

LEMMA FlappingStep ==
  ASSUME TypeOK, RangeInv, ProgressInv, FlappingInv, [Next]_vars
  PROVE  FlappingInv'
<1> USE DEF ido, work
<1>1. /\ Len(row) \in Nat /\ shown \in 0..Len(row) /\ shown \in Nat
      /\ DOMAIN file = Fields /\ DOMAIN cache = Fields
  BY RowFacts, CachesOK DEF CacheOK
<1>2. type' = type /\ row' = row
  BY Frozen
<1>3. SUFFICES ASSUME type = "flapping" PROVE FlappingInv'
  BY <1>2 DEF FlappingInv
<1> DEFINE FileInv == \E t \in 0..shown : EventCache(row, file, t, shown)
<1>4. /\ file.waiting = {} /\ cache.waiting = {}
      /\ crashes = 0 => ~regrown /\ (~Running => file = EmptyCache)
      /\ Orphans = {} /\ ~regrown => FileInv
      /\ CacheTrusted =>
           /\ pc = "fill" => checkpoint \in 0..shown
                             /\ EventCache(row, cache, checkpoint, shown)
           /\ pc \in {"read", "write"} => EndsDone(row, cache, shown)
  BY <1>3 DEF FlappingInv
<1>5. /\ Orphans' = Orphans
      /\ UNCHANGED <<crashes, regrown>> => CacheTrusted' = CacheTrusted
  BY TrustStep
<1>6. EmptyCache.waiting = {} /\ \A s : EventCache(row, EmptyCache, 0, s)
  BY EmptyFields, EventsEmpty
<1>7. IsCached /\ type \notin HardStateTypes
  BY <1>3 DEF IsCached, HardStateTypes
<1>8. (Orphans = {} /\ ~regrown) => CacheTrusted
  BY DEF CacheTrusted
<1>9. ASSUME UNCHANGED <<shown, file, cache, crashes, regrown>>, pc \in {"read", "write"},
             pc' \in {"read", "write", "cleanup"}
      PROVE  FlappingInv'
  BY <1>2, <1>4, <1>5, <1>9 DEF FlappingInv, Running
<1>10. CASE Begin
  <2>1. /\ UNCHANGED <<shown, file, crashes, regrown>> /\ cache' = file /\ pc' = "fill"
        /\ checkpoint' = EventTimeCheckpoint(file) /\ ~Running
    BY <1>3, <1>7, <1>10 DEF Begin, Running, HardStateTypes
  <2>2. CacheTrusted => /\ EventTimeCheckpoint(file) \in 0..shown
                        /\ EventCache(row, file, EventTimeCheckpoint(file), shown)
    <3>1. CASE crashes = 0
      <4>1. file = EmptyCache
        BY <1>4, <2>1, <3>1
      <4>2. DOMAIN file.final \cup {0} = {0} /\ {0} \subseteq 0..0
        BY <4>1, EmptyFields
      <4>3. EventTimeCheckpoint(file) = 0
        BY <4>2, MaxFacts DEF EventTimeCheckpoint
      <4> QED
        BY <1>1, <1>6, <4>1, <4>3
    <3>2. CASE Orphans = {} /\ ~regrown
      <4>1. PICK t \in 0..shown : EventCache(row, file, t, shown)
        BY <1>4, <3>2
      <4>2. \A i \in 1..shown : row[i].start \/ HasStartBefore(row, i)
        BY <3>2, OrphansFacts
      <4>3. t \in Nat /\ t <= shown
        BY <1>1
      <4>4. /\ EventTimeCheckpoint(file) \in 0..t
            /\ EventCache(row, file, EventTimeCheckpoint(file), shown)
        BY <1>1, <4>1, <4>2, <4>3, EventsResume
      <4> QED
        BY <1>1, <4>3, <4>4
    <3> QED
      BY <1>3, <3>1, <3>2 DEF CacheTrusted
  <2> QED
    BY <1>2, <1>4, <1>5, <2>1, <2>2 DEF FlappingInv, Running
<1>11. CASE FillEventTimes
  <2> DEFINE d == EventTimeStep(cache, checkpoint + 1)
  <2>1. /\ pc = "fill" /\ checkpoint < range.to /\ cache' = d /\ file' \in {file, d}
        /\ checkpoint' = checkpoint + 1
        /\ UNCHANGED <<shown, pc, crashes, regrown>>
    BY <1>11 DEF FillEventTimes, FillCache
  <2>2. range.to = shown /\ Running
    BY <1>3, <2>1 DEF RangeInv, Running
  <2>3. d.waiting = {}
    BY <1>1, <1>4, EventTimeFields
  <2>4. CacheTrusted => checkpoint + 1 \in 0..shown
                        /\ EventCache(row, d, checkpoint + 1, shown)
    <3>1. SUFFICES ASSUME CacheTrusted
                   PROVE  checkpoint + 1 \in 0..shown
                          /\ EventCache(row, d, checkpoint + 1, shown)
      OBVIOUS
    <3>2. checkpoint \in Nat /\ checkpoint < shown /\ EventCache(row, cache, checkpoint, shown)
      BY <1>1, <1>4, <2>1, <2>2, <3>1
    <3>3. checkpoint + 1 \in 1..Len(row)
      BY <1>1, <3>2
    <3>4. row[checkpoint + 1].object \in Object
      BY <1>7, <3>3, ObjectFacts
    <3>5. EventCache(row, d, checkpoint + 1, shown)
      BY <1>1, <3>2, <3>4, EventsExtend
    <3> QED
      BY <1>1, <3>2, <3>5
  <2> HIDE DEF d
  <2>5. Orphans = {} /\ ~regrown => \E t \in 0..shown : EventCache(row, file', t, shown)
    BY <1>4, <1>8, <2>1, <2>4
  <2> QED
    BY <1>2, <1>4, <1>5, <2>1, <2>2, <2>3, <2>4, <2>5 DEF FlappingInv, Running
<1>12. CASE CompleteCache
  <2> DEFINE d == Completed(cache)
  <2>1. /\ pc = "fill" /\ checkpoint >= range.to /\ cache' = d /\ file' = d
        /\ pc' = "read" /\ UNCHANGED <<shown, crashes, regrown>>
    BY <1>3, <1>12 DEF CompleteCache
  <2>2. range.to = shown /\ Running
    BY <1>3, <2>1 DEF RangeInv, Running
  <2>3. d.waiting = {}
    BY CompletedFields
  <2>4. CacheTrusted => EndsDone(row, d, shown) /\ EventCache(row, d, shown, shown)
    <3>1. SUFFICES ASSUME CacheTrusted
                   PROVE  EndsDone(row, d, shown) /\ EventCache(row, d, shown, shown)
      OBVIOUS
    <3>2. checkpoint \in 0..shown /\ EventCache(row, cache, checkpoint, shown)
      BY <1>4, <2>1, <3>1
    <3>3. checkpoint = shown
      BY <1>1, <2>1, <2>2, <3>2
    <3> QED
      BY <1>1, <1>4, <3>2, <3>3, EventsCompleted
  <2> HIDE DEF d
  <2>5. Orphans = {} /\ ~regrown => \E t \in 0..shown : EventCache(row, file', t, shown)
    BY <1>1, <1>8, <2>1, <2>4
  <2> QED
    BY <1>2, <1>4, <1>5, <2>1, <2>2, <2>3, <2>4, <2>5 DEF FlappingInv, Running
<1>13. CASE FillHardStates
  BY <1>7, <1>13 DEF FillHardStates
<1>14. CASE ReadSlice
  BY <1>9, <1>14 DEF ReadSlice
<1>15. CASE ReadNothing
  BY <1>9, <1>15 DEF ReadNothing
<1>16. ASSUME NEW e \in todo, WriteRow(e) PROVE FlappingInv'
  BY <1>9, <1>16 DEF WriteRow
<1>17. CASE NextStage
  BY <1>9, <1>17 DEF NextStage
<1>18. CASE SaveProgress
  BY <1>9, <1>18 DEF SaveProgress
<1>19. CASE CleanupCache
  <2>1. /\ file' = EmptyCache /\ cache' = EmptyCache /\ pc' = "done"
        /\ UNCHANGED <<shown, crashes, regrown>>
    BY <1>19 DEF CleanupCache, CacheAfterwards
  <2>2. \E t \in 0..shown : EventCache(row, EmptyCache, t, shown)
    BY <1>1, <1>6
  <2> QED
    BY <1>2, <1>4, <1>6, <2>1, <2>2 DEF FlappingInv
<1>20. CASE Crash
  <2>1. /\ crashes' # 0 /\ pc' = "off" /\ cache' = EmptyCache
        /\ UNCHANGED <<shown, file, regrown>>
    BY <1>20 DEF Crash, TypeOK
  <2> QED
    BY <1>2, <1>4, <1>5, <1>6, <2>1 DEF FlappingInv
<1>21. CASE Grow
  <2>1. /\ shown' = shown + 1 /\ pc' = pc /\ pc \in {"off", "done"}
        /\ regrown' = (regrown \/ file # EmptyCache)
        /\ UNCHANGED <<file, cache, crashes>>
    BY <1>21 DEF Grow
  <2>2. ~Running /\ ~Running'
    BY <2>1 DEF Running
  <2>3. ~regrown' => \E t \in 0..shown' : EventCache(row, file, t, shown')
    <3>1. SUFFICES ASSUME ~regrown' PROVE \E t \in 0..shown' : EventCache(row, file, t, shown')
      OBVIOUS
    <3>2. file = EmptyCache
      BY <2>1, <3>1
    <3>3. 0 \in 0..shown'
      BY <1>1, <2>1
    <3> QED
      BY <1>6, <3>2, <3>3
  <2>4. crashes' = 0 => ~regrown' /\ file' = EmptyCache
    BY <1>4, <2>1, <2>2
  <2> QED
    BY <1>2, <1>4, <2>1, <2>3, <2>4 DEF FlappingInv
<1>22. CASE UNCHANGED vars
  BY <1>2, <1>4, <1>5, <1>22 DEF vars, FlappingInv, Running
<1> QED
  BY <1>10, <1>11, <1>12, <1>13, <1>14, <1>15, <1>16, <1>17, <1>18, <1>19, <1>20, <1>21,
     <1>22 DEF Next, Migrate

-------------------------------------------------------------------------------
(* The cache is exact where it is used.                                         *)

LEMMA TruthIs ==
  TypeOK => ExactCache = Truth(type, row)
<1>1. \A i : StartOf(i) = Start(row, i) /\ PreviousHard(i) = Previous(row, i)
  BY StartIs, PreviousIs
<1>2. [i \in {j \in 1..Len(row) : ~row[j].start /\ StartOf(j) # 0} |-> StartOf(i)]
        = [i \in {j \in 1..Len(row) : ~row[j].start /\ Start(row, j) # 0} |-> Start(row, i)]
  BY <1>1
<1>3. [i \in 1..Len(row) |-> PreviousHard(i)] = [i \in 1..Len(row) |-> Previous(row, i)]
  BY <1>1
<1> QED
  BY <1>2, <1>3, Zenon DEF ExactCache, Truth

LEMMA TruthFacts ==
  /\ type = "flapping" =>
       /\ \A i : i \in DOMAIN Truth(type, row) <=> i \in 1..Len(row) /\ HasStartBefore(row, i)
       /\ \A i \in DOMAIN Truth(type, row) : Truth(type, row)[i] = Start(row, i)
  /\ type \in HardStateTypes =>
       /\ DOMAIN Truth(type, row) = 1..Len(row)
       /\ \A i \in 1..Len(row) : Truth(type, row)[i] = Previous(row, i)
<1>1. CASE type = "flapping"
  <2>1. Truth(type, row)
          = [i \in {j \in 1..Len(row) : ~row[j].start /\ Start(row, j) # 0} |-> Start(row, i)]
    BY <1>1 DEF Truth, HardStateTypes
  <2> QED
    BY <1>1, <2>1 DEF HasStartBefore, HardStateTypes
<1>2. CASE type \in HardStateTypes
  <2>1. Truth(type, row) = [i \in 1..Len(row) |-> Previous(row, i)]
    BY <1>2 DEF Truth, HardStateTypes
  <2> QED
    BY <1>2, <2>1 DEF HardStateTypes
<1> QED
  BY <1>1, <1>2

LEMMA TruthInjective ==
  ASSUME TypeOK, type = "flapping"
  PROVE  Injective(row, Truth(type, row))
<1>1. Len(row) \in Nat
  BY RowFacts
<1>2. ASSUME NEW i, NEW j, i \in DOMAIN Truth(type, row), j \in DOMAIN Truth(type, row),
             row[i].object = row[j].object, Truth(type, row)[i] = Truth(type, row)[j]
      PROVE  i = j
  <2>1. /\ i \in 1..Len(row) /\ HasStartBefore(row, i) /\ Truth(type, row)[i] = Start(row, i)
        /\ j \in 1..Len(row) /\ HasStartBefore(row, j) /\ Truth(type, row)[j] = Start(row, j)
    BY <1>2, TruthFacts
  <2> QED
    BY <1>1, <1>2, <2>1, StartOnce DEF HasStartBefore
<1> QED
  BY <1>2 DEF Injective

\* The conversion of the rows that are read is the exact one.
LEMMA CacheReady ==
  ASSUME TypeOK, HardInv, FlappingInv, CacheTrusted, pc \in {"read", "write"},
         NEW i \in Left
  PROVE  \A n, e : Converted(i, n, e) <=> Exact(type, row, i, n, e)
<1>1. i \in 1..Len(row) /\ i \in range.from..range.to /\ i <= Limit
  BY DEF Left, InRange
<1>2. Len(row) \in Nat /\ shown \in 0..Len(row) /\ range.to \in 0..shown
      /\ range.from \in 1..Endless /\ Endless \in Nat
  BY RowFacts DEF TypeOK
<1>3. CASE type \notin HardStateTypes \cup {"flapping"}
  BY <1>3, OwnCache DEF Converted, Exact
<1>4. CASE type = "flapping"
  <2>1. /\ \A x : x \in DOMAIN cache.final <=> x \in 1..shown /\ HasStartBefore(row, x)
        /\ \A x \in DOMAIN cache.final : cache.final[x] = Start(row, x)
    BY <1>4 DEF FlappingInv, EndsDone
  <2>2. i \in 1..shown
    BY <1>1, <1>2
  <2>3. /\ i \in DOMAIN cache.final <=> i \in DOMAIN Truth(type, row)
        /\ i \in DOMAIN cache.final => cache.final[i] = Truth(type, row)[i]
    BY <1>1, <1>4, <2>1, <2>2, TruthFacts
  <2> QED
    BY <2>3, OwnCache DEF Converted, Exact
<1>5. CASE type \in HardStateTypes
  <2>1. Limit = Max(DOMAIN cache.final \cup {0})
    BY <1>5 DEF Limit
  <2>2. CASE Blank(cache)
    <3>1. DOMAIN cache.final \cup {0} = {0} /\ {0} \subseteq 0..0
      BY <2>2 DEF Blank
    <3>2. Limit = 0
      BY <2>1, <3>1, MaxFacts
    <3> QED
      BY <1>1, <3>2
  <2>3. CASE HardDone(row, cache, range.to)
    <3>1. PICK top \in 1..range.to : /\ DOMAIN cache.final = 1..top
                                     /\ \A j \in 1..top : cache.final[j] = Previous(row, j)
      BY <2>3 DEF HardDone
    <3>2. DOMAIN cache.final \cup {0} \subseteq 0..top /\ top \in Nat
      BY <1>2, <3>1
    <3>3. Limit \in 0..top
      BY <2>1, <3>2, MaxFacts
    <3>4. i \in 1..top
      BY <1>1, <1>2, <3>2, <3>3
    <3>5. /\ i \in DOMAIN cache.final /\ i \in DOMAIN Truth(type, row)
          /\ cache.final[i] = Truth(type, row)[i]
      BY <1>1, <1>5, <3>1, <3>4, TruthFacts
    <3> QED
      BY <3>5, OwnCache DEF Converted, Exact
  <2> QED
    BY <1>5, <2>2, <2>3 DEF HardInv
<1> QED
  BY <1>3, <1>4, <1>5

\* What rows become in intervals of flapping.
LEMMA ExactFlapping ==
  ASSUME TypeOK, type = "flapping", NEW i, NEW n, NEW e, Exact(type, row, i, n, e)
  PROVE  /\ n \in 1..3 /\ (e.at[1] = "flapping_history" <=> n # 3)
         /\ n = 1 => /\ row[i].start /\ e.columns = Begun
                     /\ e.at = <<"flapping_history", <<row[i].object, i>> >>
         /\ n = 2 => /\ HasStartBefore(row, i) /\ e.columns = Ended(i)
                     /\ i \in 1..Len(row)
                     /\ e.at = <<"flapping_history", <<row[i].object, Start(row, i)>> >>
<1> DEFINE c == Truth(type, row)
<1>1. FlappingEntry(row, i, c, n, e)
  BY EntryTables DEF Exact
<1> HIDE DEF c
<1>2. n \in 1..3 /\ (e.at[1] = "flapping_history" <=> n # 3)
  BY <1>1, FlappingTables
<1>3. ASSUME n = 1 PROVE /\ row[i].start /\ e.columns = Begun
                         /\ e.at = <<"flapping_history", <<row[i].object, i>> >>
  BY <1>1, <1>3, FlappingShape
<1>4. ASSUME n = 2 PROVE /\ ~row[i].start /\ i \in DOMAIN c /\ e.columns = Ended(i)
                         /\ e.at = <<"flapping_history", <<row[i].object, c[i]>> >>
  BY <1>1, <1>4, FlappingShape
<1>5. ASSUME i \in DOMAIN c PROVE i \in 1..Len(row) /\ HasStartBefore(row, i)
                                  /\ c[i] = Start(row, i)
  BY <1>5, TruthFacts DEF c
<1> QED
  BY <1>2, <1>3, <1>4, <1>5

LEMMA FirstEntry ==
  ASSUME type = "flapping", NEW i, row[i].start
  PROVE  \E f : /\ Exact(type, row, i, 1, f)
                /\ f.at = <<"flapping_history", <<row[i].object, i>> >>
<1> DEFINE f == Entry("flapping_history", <<row[i].object, i>>, [started |-> TRUE, end |-> Open])
<1>1. FlappingEntry(row, i, Truth(type, row), 1, f)
  BY DEF FlappingEntry
<1>2. Exact(type, row, i, 1, f)
  BY <1>1 DEF Exact, Becomes
<1>3. f.at = <<"flapping_history", <<row[i].object, i>> >>
  BY EntryFields
<1> QED
  BY <1>2, <1>3

-------------------------------------------------------------------------------
(* The tables.                                                                  *)

LEMMA SliceExact ==
  ASSUME TypeOK, ProgressInv, HardInv, FlappingInv, CacheTrusted, pc = "write", NEW i \in slice
  PROVE  /\ i \in Left /\ i \in 1..Len(row) /\ i \in range.from..range.to /\ i > lastId
         /\ \A n, e : Converted(i, n, e) <=> Exact(type, row, i, n, e)
<1>1. slice \subseteq Left /\ checkpoint = lastId
  BY DEF ProgressInv
<1>2. i \in Left
  BY <1>1
<1>3. i \in 1..Len(row) /\ i \in range.from..range.to /\ i > lastId
  BY <1>1, <1>2, LeftFacts DEF Left
<1>4. \A n, e : Converted(i, n, e) <=> Exact(type, row, i, n, e)
  BY <1>2, CacheReady
<1> QED
  BY <1>2, <1>3, <1>4

LEMMA LimitFacts ==
  ASSUME TypeOK
  PROVE  Limit \in Nat
<1>1. CASE type \in HardStateTypes
  <2>1. DOMAIN cache.final \cup {0} \subseteq 0..Len(row) /\ Len(row) \in Nat
    BY CachesOK, RowFacts DEF CacheOK
  <2>2. Max(DOMAIN cache.final \cup {0}) \in 0..Len(row)
    BY <2>1, MaxFacts
  <2> QED
    BY <1>1, <2>2 DEF Limit
<1>2. CASE type \notin HardStateTypes
  BY <1>2, RowFacts DEF Limit
<1> QED
  BY <1>1, <1>2

\* A slice leaves out no row of the range.
LEMMA SliceDown ==
  ASSUME TypeOK, ProgressInv, pc = "write", NEW i \in slice, NEW j \in range.from..i,
         j > lastId
  PROVE  j \in slice
<1>1. PICK k \in slice : slice = {x \in Left : x <= k}
  BY DEF ProgressInv
<1>2. i \in Left /\ i <= k /\ k \in Left /\ checkpoint = lastId
  BY <1>1 DEF ProgressInv
<1>3. /\ i \in 1..Len(row) /\ i \in range.from..range.to /\ k \in 1..Len(row)
      /\ i <= Limit
  <2>1. i <= Limit
    BY <1>2 DEF Left
  <2> QED
    BY <1>2, <2>1, LeftFacts
<1>4. /\ Len(row) \in Nat /\ range.from \in 1..Endless /\ Endless \in Nat
      /\ range.to \in 0..shown /\ shown \in Nat /\ Limit \in Nat
  <2>1. range.from \in 1..Endless /\ range.to \in 0..shown
    BY DEF TypeOK
  <2> QED
    BY <2>1, RowFacts, LimitFacts
<1>5. j \in 1..Len(row) /\ j \in range.from..range.to /\ j <= Limit /\ j <= k
  BY <1>2, <1>3, <1>4
<1>6. j \in Left
  BY <1>2, <1>5 DEF Left, InRange
<1> QED
  BY <1>1, <1>5, <1>6

\* What is written is what a row of the range becomes that is not recorded yet.
LEMMA WriteExact ==
  ASSUME TypeOK, ProgressInv, HardInv, FlappingInv, CacheTrusted, NEW e \in todo, WriteRow(e)
  PROVE  /\ pc = "write" /\ stage \in 1..Count(type) /\ Writes(idb, idb', Op, e)
         /\ UNCHANGED <<range, lastId, slice, stage>>
         /\ \E i \in slice : Exact(type, row, i, stage, e)
<1>1. pc = "write" /\ stage \in 1..Count(type) /\ Writes(idb, idb', Op, e)
  BY WriteFacts
<1>2. PICK i \in slice : Converted(i, stage, e)
  BY WriteFacts
<1>3. Exact(type, row, i, stage, e)
  BY <1>1, <1>2, SliceExact
<1>4. UNCHANGED <<range, lastId, slice, stage>>
  BY DEF WriteRow
<1> QED
  BY <1>1, <1>3, <1>4

LEMMA ContentSame ==
  ASSUME NEW t, NEW r, NEW from, NEW to, NEW d, NEW w, NEW at, w[at] = d[at],
         Content(t, r, from, to, d, at)
  PROVE  Content(t, r, from, to, w, at)
BY DEF Content

LEMMA ContentMore ==
  ASSUME NEW t, NEW r, NEW from \in Nat, NEW to \in Nat, NEW more \in Nat, to <= more, NEW d,
         NEW at, Content(t, r, from, to, d, at)
  PROVE  Content(t, r, from, more, d, at)
<1>1. from..to \subseteq from..more
  OBVIOUS
<1> QED
  BY <1>1 DEF Content

\* The row of an interval that an end belongs to is there if its start is in the
\* range.
LEMMA StartWritten ==
  ASSUME TypeOK, ProgressInv, WrittenInv, HardInv, FlappingInv, SkippedInv, CacheTrusted,
         pc = "write", type = "flapping", stage = 2, NEW i \in slice, HasStartBefore(row, i),
         Start(row, i) >= range.from
  PROVE  <<"flapping_history", <<row[i].object, Start(row, i)>> >> \in DOMAIN idb
<1> DEFINE s == Start(row, i)
<1>1. /\ i \in 1..Len(row) /\ Len(row) \in Nat /\ range.from \in 1..Endless
      /\ Endless \in Nat /\ lastId \in Nat
  BY SliceExact, RowFacts DEF TypeOK
<1>2. s \in 1..(i - 1) /\ row[s].object = row[i].object /\ row[s].start
  BY <1>1, StartFacts DEF HasStartBefore
<1> HIDE DEF s
<1>3. PICK f : /\ Exact(type, row, s, 1, f)
               /\ f.at = <<"flapping_history", <<row[s].object, s>> >>
  BY <1>2, FirstEntry
<1>4. f.at \in DOMAIN idb
  <2>1. CASE s <= lastId
    <3>1. s \in range.from..lastId
      BY <1>1, <1>2, <2>1 DEF s
    <3>2. Migrated(type, row, range.from, idb, s)
      BY <3>1 DEF SkippedInv
    <3> QED
      BY <1>3, <3>2 DEF Migrated
  <2>2. CASE s > lastId
    <3>1. s \in range.from..i
      BY <1>1, <1>2 DEF s
    <3>2. s \in slice
      BY <2>2, <3>1, SliceDown
    <3>3. Converted(s, 1, f)
      BY <1>3, <3>2, SliceExact
    <3>4. 1 \in 1..stage /\ 1 < stage
      OBVIOUS
    <3> QED
      BY <3>2, <3>3, <3>4 DEF WrittenInv
  <2> QED
    BY <1>1, <1>2, <2>1, <2>2
<1> QED
  BY <1>2, <1>3, <1>4 DEF s

LEMMA ContentWrite ==
  ASSUME TypeOK, ProgressInv, WrittenInv, HardInv, FlappingInv, ContentInv, SkippedInv,
         CacheTrusted, NEW e \in todo, WriteRow(e), NEW at \in DOMAIN idb'
  PROVE  Content(type, row, range.from, range.to, idb', at)
<1> DEFINE Good(d) == Content(type, row, range.from, range.to, d, at)
<1>1. /\ pc = "write" /\ stage \in 1..Count(type)
      /\ DOMAIN idb' = DOMAIN idb \cup {e.at}
      /\ \A x \in DOMAIN idb : x # e.at => idb'[x] = idb[x]
      /\ e.at \notin DOMAIN idb => idb'[e.at] = e.columns
      /\ e.at \in DOMAIN idb /\ Op = "insert" => idb'[e.at] = idb[e.at]
      /\ e.at \in DOMAIN idb /\ Op # "insert" =>
           idb'[e.at] = [idb[e.at] EXCEPT !.end = e.columns.end]
  BY WriteExact DEF Writes
<1>2. PICK i \in slice : Exact(type, row, i, stage, e)
  BY WriteExact
<1>3. /\ i \in 1..Len(row) /\ i \in range.from..range.to /\ Len(row) \in Nat
      /\ range.from \in 1..Endless /\ Endless \in Nat
  BY <1>1, SliceExact, RowFacts DEF TypeOK
<1>4. at \in DOMAIN idb => Good(idb)
  BY DEF ContentInv
<1>5. CASE at \in DOMAIN idb /\ idb'[at] = idb[at]
  BY <1>4, <1>5, ContentSame
<1>6. ASSUME at = e.at, at[1] = "flapping_history" PROVE type = "flapping" /\ stage \in {1, 2}
  <2>1. type = "flapping"
    BY <1>2, <1>6, EntryTables DEF Exact
  <2> QED
    BY <1>2, <1>6, <2>1, ExactFlapping
<1>7. CASE at = e.at /\ at \notin DOMAIN idb
  <2>1. idb'[at] = e.columns
    BY <1>1, <1>7
  <2>2. \E j \in range.from..range.to : \E n, f :
          /\ Exact(type, row, j, n, f) /\ f.at = at
          /\ at[1] # "flapping_history" => idb'[at] = f.columns
    BY <1>2, <1>3, <1>7, <2>1
  <2>3. ASSUME at[1] = "flapping_history", stage = 1
        PROVE  /\ idb'[at].started = TRUE /\ idb'[at].end = Open
               /\ idb'[at] \in [started : BOOLEAN, end : 0..Len(row)]
               /\ at[2][2] >= range.from
    <3>1. idb'[at] = Begun /\ at[2] = <<row[i].object, i>>
      BY <1>2, <1>6, <1>7, <2>1, <2>3, ExactFlapping
    <3>2. Begun \in [started : BOOLEAN, end : 0..Len(row)]
      BY <1>3 DEF Begun, Open
    <3> QED
      BY <1>3, <3>1, <3>2, IntervalColumns
  <2>4. ASSUME at[1] = "flapping_history", stage = 2
        PROVE  /\ idb'[at].started = FALSE /\ idb'[at].end = i
               /\ idb'[at] \in [started : BOOLEAN, end : 0..Len(row)]
               /\ HasStartBefore(row, i) /\ at[2] = <<row[i].object, Start(row, i)>>
               /\ ~(at[2][2] >= range.from)
    <3>1. /\ idb'[at] = Ended(i) /\ HasStartBefore(row, i)
          /\ at = <<"flapping_history", <<row[i].object, Start(row, i)>> >>
      BY <1>2, <1>6, <1>7, <2>1, <2>4, ExactFlapping
    <3>2. Ended(i) \in [started : BOOLEAN, end : 0..Len(row)]
      BY <1>3 DEF Ended
    <3>3. ~(Start(row, i) >= range.from)
      BY <1>1, <1>6, <1>7, <2>4, <3>1, StartWritten
    <3> QED
      BY <3>1, <3>2, <3>3, IntervalColumns
  <2> QED
    BY <1>6, <1>7, <2>2, <2>3, <2>4 DEF Content
<1>8. CASE at = e.at /\ at \in DOMAIN idb /\ Op # "insert"
  <2>1. type = "flapping" /\ stage = 2
    BY <1>8 DEF Op
  <2>2. /\ HasStartBefore(row, i) /\ e.columns = Ended(i) /\ at[1] = "flapping_history"
        /\ at[2] = <<row[i].object, Start(row, i)>>
    BY <1>2, <1>8, <2>1, ExactFlapping
  <2>3. idb'[at] = [idb[at] EXCEPT !.end = i]
    BY <1>1, <1>8, <2>2, IntervalColumns
  <2>4. /\ \E j \in range.from..range.to : \E n, f : Exact(type, row, j, n, f) /\ f.at = at
        /\ idb[at] \in [started : BOOLEAN, end : 0..Len(row)]
        /\ idb[at].started <=> at[2][2] >= range.from
    BY <1>4, <1>8, <2>2 DEF Content
  <2>5. /\ idb'[at] \in [started : BOOLEAN, end : 0..Len(row)]
        /\ idb'[at].started = idb[at].started /\ idb'[at].end = i
    BY <1>3, <2>3, <2>4
  <2> QED
    BY <2>2, <2>4, <2>5 DEF Content
<1> QED
  BY <1>1, <1>5, <1>7, <1>8

\* What moves the range.
LEMMA RangeMoves ==
  ASSUME TypeOK, RangeInv, [Next]_vars
  PROVE  \/ range' = range
         \/ /\ range' = IdRange /\ UNCHANGED <<idb, lastId>> /\ pc' # "write"
            /\ range.from # Endless => range'.from = range.from
            /\ range.to <= range'.to /\ range'.to \in Nat /\ range'.from \in Nat \ {0}
<1> USE DEF ido, work
<1>1. CASE Begin
  <2>1. range' = IdRange /\ UNCHANGED <<idb, lastId>> /\ pc' # "write"
    BY <1>1 DEF Begin
  <2>2. /\ range.from # Endless => IdRange.from = range.from
        /\ range.to <= IdRange.to /\ IdRange.to \in 0..shown /\ IdRange.from \in 1..Endless
        /\ shown \in Nat /\ Endless \in Nat
    BY RangeGrows, RangeFacts, RowFacts
  <2> HIDE DEF IdRange
  <2> QED
    BY <2>1, <2>2
<1>2. CASE ~Begin
  BY <1>2 DEF Next, Migrate, vars, FillEventTimes, FillHardStates, FillCache, CompleteCache,
     ReadSlice, ReadNothing, WriteRow, NextStage, SaveProgress, CleanupCache, Crash, Grow
<1> QED
  BY <1>1, <1>2

LEMMA ContentStep ==
  ASSUME TypeOK, RangeInv, ProgressInv, WrittenInv, HardInv, FlappingInv, ContentInv,
         SkippedInv, [Next]_vars
  PROVE  ContentInv'
<1>1. type' = type /\ row' = row /\ (CacheTrusted' => CacheTrusted)
  BY Frozen, TrustStep
<1>2. SUFFICES ASSUME CacheTrusted, NEW at \in DOMAIN idb'
               PROVE  Content(type, row, range'.from, range'.to, idb', at)
  BY <1>1 DEF ContentInv
<1>3. ASSUME NEW e \in todo, WriteRow(e)
      PROVE  Content(type, row, range'.from, range'.to, idb', at)
  <2>1. range' = range
    BY <1>2, <1>3, WriteExact
  <2> QED
    BY <1>2, <1>3, <2>1, ContentWrite
<1>4. CASE ~\E e \in todo : WriteRow(e)
  <2>1. idb' = idb
    BY <1>4, NoWrite
  <2>2. Content(type, row, range.from, range.to, idb, at)
    BY <1>2, <2>1 DEF ContentInv
  <2>3. CASE range' = range
    BY <2>1, <2>2, <2>3
  <2>4. CASE range' # range
    <3>1. PICK i \in range.from..range.to : TRUE
      BY <2>2 DEF Content
    <3>2. /\ range.from \in 1..Endless /\ range.to \in 0..shown /\ shown \in Nat
          /\ shown < Endless /\ Endless \in Nat
      BY RowFacts DEF TypeOK
    <3>3. range.from # Endless /\ range.from \in Nat /\ range.to \in Nat
      BY <3>1, <3>2
    <3>4. range'.from = range.from /\ range.to <= range'.to /\ range'.to \in Nat
      BY <2>4, <3>3, RangeMoves
    <3> QED
      BY <2>1, <2>2, <3>3, <3>4, ContentMore
  <2> QED
    BY <2>3, <2>4
<1> QED
  BY <1>3, <1>4

\* An upsert sets the end.
LEMMA UpsertWrite ==
  ASSUME TypeOK, ProgressInv, WrittenInv, HardInv, FlappingInv, ContentInv, UpsertInv,
         CacheTrusted, type = "flapping", NEW e \in todo, WriteRow(e), NEW i \in slice, NEW f,
         Exact(type, row, i, 2, f), 2 < stage \/ (2 = stage /\ f \notin todo')
  PROVE  idb'[f.at].end = f.columns.end
<1>1. /\ pc = "write" /\ stage \in 1..Count(type) /\ todo' = todo \ {e}
      /\ DOMAIN idb' = DOMAIN idb \cup {e.at}
      /\ \A x \in DOMAIN idb : x # e.at => idb'[x] = idb[x]
      /\ e.at \notin DOMAIN idb => idb'[e.at] = e.columns
      /\ e.at \in DOMAIN idb /\ Op # "insert" =>
           idb'[e.at] = [idb[e.at] EXCEPT !.end = e.columns.end]
  BY WriteExact DEF Writes, WriteRow
<1>2. PICK j \in slice : Exact(type, row, j, stage, e)
  BY WriteExact
<1>3. /\ i \in 1..Len(row) /\ j \in 1..Len(row) /\ Len(row) \in Nat
      /\ Converted(i, 2, f)
  BY <1>1, SliceExact, RowFacts
<1>4. /\ HasStartBefore(row, i) /\ f.columns = Ended(i)
      /\ f.at = <<"flapping_history", <<row[i].object, Start(row, i)>> >>
  BY ExactFlapping
<1>5. CASE f.at = e.at
  <2>1. stage = 2
    <3>1. stage # 3
      BY <1>2, <1>4, <1>5, ExactFlapping
    <3> QED
      BY <1>1, <3>1 DEF Count
  <2>2. /\ HasStartBefore(row, j) /\ e.columns = Ended(j)
        /\ e.at = <<"flapping_history", <<row[j].object, Start(row, j)>> >>
    BY <1>2, <2>1, ExactFlapping
  <2>3. row[i].object = row[j].object /\ Start(row, i) = Start(row, j)
    BY <1>4, <1>5, <2>2
  <2>4. i = j
    BY <1>3, <1>4, <2>2, <2>3, StartOnce DEF HasStartBefore
  <2>5. CASE e.at \in DOMAIN idb
    <3>1. idb[e.at] \in [started : BOOLEAN, end : 0..Len(row)]
      BY <2>2, <2>5 DEF ContentInv, Content
    <3>2. idb'[e.at] = [idb[e.at] EXCEPT !.end = e.columns.end]
      BY <1>1, <2>1, <2>5 DEF Op
    <3>3. idb'[e.at].end = e.columns.end
      BY <3>1, <3>2
    <3> QED
      BY <1>4, <1>5, <2>2, <2>4, <3>3
  <2>6. CASE e.at \notin DOMAIN idb
    BY <1>1, <1>4, <1>5, <2>2, <2>4, <2>6
  <2> QED
    BY <2>5, <2>6
<1>6. CASE f.at # e.at
  <2>1. 2 < stage \/ (2 = stage /\ f \notin todo)
    BY <1>1, <1>6
  <2>2. 2 \in 1..stage
    BY <1>1, <2>1, SliceFacts
  <2>3. f.at \in DOMAIN idb
    BY <1>1, <1>3, <2>1, <2>2 DEF WrittenInv
  <2>4. idb[f.at].end = f.columns.end
    BY <1>1, <1>3, <2>1 DEF UpsertInv
  <2> QED
    BY <1>1, <1>6, <2>3, <2>4
<1> QED
  BY <1>5, <1>6

LEMMA UpsertStep ==
  ASSUME TypeOK, RangeInv, ProgressInv, WrittenInv, HardInv, FlappingInv, ContentInv,
         UpsertInv, [Next]_vars
  PROVE  UpsertInv'
<1> USE DEF ido, work
<1>1. type' = type /\ row' = row /\ (CacheTrusted' => CacheTrusted)
  BY Frozen, TrustStep
<1>2. SUFFICES ASSUME pc' = "write", CacheTrusted, type = "flapping", NEW i \in slice', NEW f,
                      Converted(i, 2, f)', 2 < stage' \/ (2 = stage' /\ f \notin todo')
               PROVE  idb'[f.at].end = f.columns.end
  BY <1>1 DEF UpsertInv
<1>3. ASSUME NEW e \in todo, WriteRow(e) PROVE idb'[f.at].end = f.columns.end
  <2>1. UNCHANGED <<range, cache, checkpoint, slice, stage>> /\ pc = "write"
    BY <1>3 DEF WriteRow
  <2>2. Converted(i, 2, f)
    BY <1>1, <1>2, <2>1, LeftFrozen
  <2>3. Exact(type, row, i, 2, f)
    BY <1>2, <2>1, <2>2, SliceExact
  <2> QED
    BY <1>2, <1>3, <2>1, <2>3, UpsertWrite
<1>4. CASE ReadSlice
  BY <1>2, <1>4 DEF ReadSlice
<1>5. CASE NextStage
  <2>1. /\ pc = "write" /\ todo = {} /\ stage' = stage + 1
        /\ todo' = StagesOf(slice)[stage + 1].rows /\ stage < Len(StagesOf(slice))
        /\ UNCHANGED <<idb, range, cache, checkpoint, slice>>
    BY <1>5 DEF NextStage
  <2>2. stage \in 1..Count(type) /\ stage + 1 \in 1..Count(type)
    BY <2>1, SliceFacts DEF ProgressInv
  <2>3. Converted(i, 2, f)
    BY <1>1, <1>2, <2>1, LeftFrozen
  <2>4. 2 # stage + 1
    <3>1. SUFFICES ASSUME 2 = stage + 1 PROVE FALSE
      OBVIOUS
    <3>2. f \in StagesOf(slice)[2].rows
      BY <1>2, <2>1, <2>2, <2>3, <3>1, SliceFacts
    <3> QED
      BY <1>2, <2>1, <3>1, <3>2
  <2>5. 2 < stage \/ (2 = stage /\ f \notin todo)
    BY <1>2, <2>1, <2>2, <2>4
  <2> QED
    BY <1>2, <2>1, <2>3, <2>5 DEF UpsertInv
<1>6. CASE UNCHANGED vars
  <2>1. Converted(i, 2, f)
    BY <1>1, <1>2, <1>6, LeftFrozen DEF vars
  <2> QED
    BY <1>2, <1>6, <2>1 DEF vars, UpsertInv
<1> QED
  BY <1>2, <1>3, <1>4, <1>5, <1>6, StaysWriting

\* Rows that are recorded stay as they have been migrated.
LEMMA MigratedStays ==
  ASSUME TypeOK, ProgressInv, WrittenInv, HardInv, FlappingInv, ContentInv, CacheTrusted,
         NEW e \in todo, WriteRow(e), NEW i \in range.from..lastId,
         Migrated(type, row, range.from, idb, i)
  PROVE  Migrated(type, row, range.from, idb', i)
<1>1. /\ pc = "write" /\ DOMAIN idb' = DOMAIN idb \cup {e.at}
      /\ \A x \in DOMAIN idb : x # e.at => idb'[x] = idb[x]
      /\ e.at \in DOMAIN idb /\ Op = "insert" => idb'[e.at] = idb[e.at]
      /\ e.at \in DOMAIN idb /\ Op # "insert" =>
           idb'[e.at] = [idb[e.at] EXCEPT !.end = e.columns.end]
  BY WriteExact DEF Writes
<1>2. PICK j \in slice : Exact(type, row, j, stage, e)
  BY WriteExact
<1>3. /\ j \in 1..Len(row) /\ j > lastId /\ Len(row) \in Nat /\ lastId \in Nat
      /\ range.from \in 1..Endless /\ Endless \in Nat
  BY <1>1, SliceExact, RowFacts DEF TypeOK
<1>4. i \in Nat /\ i # j
  BY <1>3
<1>5. SUFFICES ASSUME NEW n, NEW f, Exact(type, row, i, n, f)
               PROVE  /\ f.at \in DOMAIN idb'
                      /\ f.at[1] # "flapping_history" => idb'[f.at] = f.columns
                      /\ f.at[1] = "flapping_history" =>
                           /\ idb'[f.at].started <=> f.at[2][2] >= range.from
                           /\ row[i].start \/ idb'[f.at].end = i
  BY DEF Migrated
<1>6. /\ f.at \in DOMAIN idb
      /\ f.at[1] # "flapping_history" => idb[f.at] = f.columns
      /\ f.at[1] = "flapping_history" =>
           /\ idb[f.at].started <=> f.at[2][2] >= range.from
           /\ row[i].start \/ idb[f.at].end = i
  BY <1>5 DEF Migrated
<1>7. CASE idb'[f.at] = idb[f.at]
  BY <1>1, <1>6, <1>7
<1>8. CASE f.at = e.at /\ Op # "insert"
  <2>1. type = "flapping" /\ stage = 2
    BY <1>8 DEF Op
  <2>2. /\ HasStartBefore(row, j) /\ e.at[1] = "flapping_history"
        /\ e.at = <<"flapping_history", <<row[j].object, Start(row, j)>> >>
    BY <1>2, <2>1, ExactFlapping
  <2>3. idb[f.at] \in [started : BOOLEAN, end : 0..Len(row)]
    BY <1>6, <1>8, <2>2 DEF ContentInv, Content
  <2>4. idb'[f.at] = [idb[f.at] EXCEPT !.end = e.columns.end]
    BY <1>1, <1>6, <1>8
  <2>5. idb'[f.at].started = idb[f.at].started
    BY <2>3, <2>4
  <2>6. row[i].start
    <3>1. n \in {1, 2}
      BY <1>5, <1>8, <2>1, <2>2, ExactFlapping
    <3>2. n # 2
      <4>1. SUFFICES ASSUME n = 2 PROVE FALSE
        OBVIOUS
      <4>2. /\ HasStartBefore(row, i)
            /\ f.at = <<"flapping_history", <<row[i].object, Start(row, i)>> >>
        BY <1>5, <2>1, <4>1, ExactFlapping
      <4>3. row[i].object = row[j].object /\ Start(row, i) = Start(row, j)
        BY <1>8, <2>2, <4>2
      <4> QED
        BY <1>3, <1>4, <2>2, <4>2, <4>3, StartOnce DEF HasStartBefore
    <3> QED
      BY <1>5, <2>1, <3>1, <3>2, ExactFlapping
  <2> QED
    BY <1>1, <1>6, <1>8, <2>2, <2>5, <2>6
<1> QED
  BY <1>1, <1>6, <1>7, <1>8

\* All of a slice is there when its last stage has been written.
LEMMA SliceMigrated ==
  ASSUME TypeOK, ProgressInv, WrittenInv, HardInv, FlappingInv, ContentInv, UpsertInv,
         CacheTrusted, pc = "write", todo = {}, stage = Count(type), NEW i \in slice
  PROVE  Migrated(type, row, range.from, idb, i)
<1>1. SUFFICES ASSUME NEW n, NEW f, Exact(type, row, i, n, f)
               PROVE  /\ f.at \in DOMAIN idb
                      /\ f.at[1] # "flapping_history" => idb[f.at] = f.columns
                      /\ f.at[1] = "flapping_history" =>
                           /\ idb[f.at].started <=> f.at[2][2] >= range.from
                           /\ row[i].start \/ idb[f.at].end = i
  BY DEF Migrated
<1>2. Converted(i, n, f) /\ n \in 1..stage
  BY <1>1, SliceExact, EntryTables DEF Exact
<1>3. f.at \in DOMAIN idb
  BY <1>2 DEF WrittenInv
<1>4. Content(type, row, range.from, range.to, idb, f.at)
  BY <1>3 DEF ContentInv
<1>5. ASSUME f.at[1] # "flapping_history" PROVE idb[f.at] = f.columns
  <2>1. PICK j, m, g : /\ Exact(type, row, j, m, g) /\ g.at = f.at /\ idb[f.at] = g.columns
    BY <1>4, <1>5 DEF Content
  <2>2. type = "flapping" => Injective(row, Truth(type, row))
    BY TruthInjective
  <2>3. g.columns = f.columns
    BY <1>1, <1>5, <2>1, <2>2, SamePlace DEF Exact
  <2> QED
    BY <2>1, <2>3
<1>6. ASSUME f.at[1] = "flapping_history"
      PROVE  /\ idb[f.at].started <=> f.at[2][2] >= range.from
             /\ row[i].start \/ idb[f.at].end = i
  <2>1. type = "flapping" /\ Count(type) = 3
    BY <1>1, <1>6, EntryTables DEF Exact, Count
  <2>2. idb[f.at].started <=> f.at[2][2] >= range.from
    BY <1>4, <1>6 DEF Content
  <2>3. CASE n = 2
    <3>1. f.columns = Ended(i)
      BY <1>1, <2>1, <2>3, ExactFlapping
    <3>2. idb[f.at].end = f.columns.end
      BY <1>2, <2>1, <2>3 DEF UpsertInv
    <3> QED
      BY <2>2, <3>1, <3>2, IntervalColumns
  <2>4. CASE n # 2
    BY <1>1, <1>6, <2>1, <2>2, <2>4, ExactFlapping
  <2> QED
    BY <2>3, <2>4
<1> QED
  BY <1>3, <1>5, <1>6

LEMMA SkippedStep ==
  ASSUME TypeOK, RangeInv, ProgressInv, WrittenInv, HardInv, FlappingInv, ContentInv,
         UpsertInv, SkippedInv, [Next]_vars
  PROVE  SkippedInv'
<1> USE DEF ido, work
<1>1. type' = type /\ row' = row /\ (CacheTrusted' => CacheTrusted)
  BY Frozen, TrustStep
<1>2. SUFFICES ASSUME CacheTrusted, NEW i \in range'.from..lastId'
               PROVE  Migrated(type, row, range'.from, idb', i)
  BY <1>1 DEF SkippedInv
<1>3. \A j \in range.from..lastId : Migrated(type, row, range.from, idb, j)
  BY <1>2 DEF SkippedInv
<1>4. ASSUME UNCHANGED <<range, idb, lastId>>
      PROVE  Migrated(type, row, range'.from, idb', i)
  BY <1>2, <1>3, <1>4
<1>5. ASSUME NEW e \in todo, WriteRow(e) PROVE Migrated(type, row, range'.from, idb', i)
  <2>1. UNCHANGED <<range, lastId>>
    BY <1>5 DEF WriteRow
  <2> QED
    BY <1>2, <1>3, <1>5, <2>1, MigratedStays
<1>6. CASE SaveProgress
  <2>1. /\ pc = "write" /\ todo = {} /\ stage = Len(StagesOf(slice))
        /\ lastId' = Max(slice) /\ UNCHANGED <<range, idb>>
    BY <1>6 DEF SaveProgress
  <2>2. stage = Count(type)
    BY <2>1, SliceFacts
  <2>3. slice \subseteq Left /\ slice # {} /\ Len(row) \in Nat
    BY <2>1, RowFacts DEF ProgressInv
  <2>4. slice \subseteq 0..Len(row)
    BY <2>3, LeftFacts
  <2>5. Max(slice) \in slice
    BY <2>3, <2>4, MaxFacts
  <2>6. CASE i <= lastId
    <3>1. i \in range.from..lastId
      BY <1>2, <2>1, <2>6, RowFacts DEF TypeOK
    <3> QED
      BY <1>3, <2>1, <3>1
  <2>7. CASE ~(i <= lastId)
    <3>1. i \in range.from..Max(slice) /\ i > lastId
      BY <1>2, <2>1, <2>7, RowFacts DEF TypeOK
    <3>2. i \in slice
      BY <2>1, <2>5, <3>1, SliceDown
    <3> QED
      BY <1>2, <2>1, <2>2, <3>2, SliceMigrated
  <2> QED
    BY <2>6, <2>7
<1>7. CASE Begin
  <2>1. UNCHANGED <<idb, lastId>>
    BY <1>7 DEF Begin
  <2>2. CASE range' = range
    BY <1>4, <2>1, <2>2
  <2>3. CASE range' # range
    <3>1. /\ range.from # Endless => range'.from = range.from
          /\ range'.from \in Nat \ {0}
      BY <2>3, RangeMoves
    <3>2. lastId # 0
      BY <1>2, <2>1, <3>1, RowFacts
    <3>3. range.from # Endless
      BY <3>2, RangeGrows
    <3> QED
      BY <1>2, <1>3, <2>1, <3>1, <3>3
  <2> QED
    BY <2>2, <2>3
<1>8. CASE ~Begin /\ ~SaveProgress /\ ~\E e \in todo : WriteRow(e)
  <2>1. UNCHANGED <<range, idb, lastId>>
    BY <1>8 DEF Next, Migrate, vars, FillEventTimes, FillHardStates, FillCache,
       CompleteCache, ReadSlice, ReadNothing, NextStage, CleanupCache, Crash, Grow
  <2> QED
    BY <1>4, <2>1
<1> QED
  BY <1>5, <1>6, <1>7, <1>8

-------------------------------------------------------------------------------
(* What the invariants say.                                                     *)

LEMMA NothingIsSkipped ==
  ASSUME TypeOK, SkippedInv
  PROVE  NothingSkipped
<1>1. SUFFICES ASSUME CacheTrusted, NEW i \in range.from..lastId, NEW stages,
                      stages = Stages(type, row, {i}, ExactCache),
                      NEW n \in DOMAIN stages, NEW e \in stages[n].rows
               PROVE  /\ e.at \in DOMAIN idb
                      /\ e.at[1] # "flapping_history" => idb[e.at] = e.columns
                      /\ e.at[1] = "flapping_history" =>
                           /\ idb[e.at].started <=> e.at[2][2] >= range.from
                           /\ row[i].start \/ idb[e.at].end = i
  BY DEF NothingSkipped
<1>2. stages = Stages(type, row, {i}, Truth(type, row))
  BY <1>1, TruthIs
<1>3. StagesAre(type, row, {i}, Truth(type, row), stages)
  BY <1>2, StagesFacts DEF TypeOK
<1>4. Exact(type, row, i, n, e)
  BY <1>1, <1>3 DEF StagesAre, Exact
<1>5. Migrated(type, row, range.from, idb, i)
  BY <1>1 DEF SkippedInv
<1> QED
  BY <1>4, <1>5 DEF Migrated

\* What the row of a downtime is, and when it has an end event.
LEMMA DowntimeRow ==
  ASSUME NEW r, NEW i, NEW j, NEW n, NEW e, DowntimeEntry(r, j, n, e),
         e.at = <<"downtime_history", i>>
  PROVE  /\ j = i /\ r[i].timed /\ r[i].started
         /\ e.columns.cancel = IF r[i].cancelled THEN "actual" ELSE None
         /\ e.columns.end = IF r[i].ended THEN "actual" ELSE "scheduled"
<1>1. n = 1 /\ j = i
  BY DowntimeShape
<1> QED
  BY <1>1, EntryFields DEF DowntimeEntry

LEMMA DowntimeEnds ==
  ASSUME NEW r, NEW i, NEW j, NEW n, NEW e, DowntimeEntry(r, j, n, e),
         e.at = <<"history", <<"downtime_end", i>> >>
  PROVE  j = i /\ r[i].ended
<1>1. n = 2 /\ j = i
  BY DowntimeShape
<1>2. e.at[2][1] = "downtime_end"
  OBVIOUS
<1> QED
  BY <1>1, <1>2, EventFields DEF DowntimeEntry

LEMMA DowntimeOthers ==
  ASSUME NEW r, NEW i, r[i].timed, r[i].started, NEW final, NEW sla, NEW end,
         final = IF r[i].cancelled THEN "actual"
                 ELSE IF r[i].ended THEN "actual" ELSE "scheduled",
         sla = <<"sla_history_downtime", i>>, end = <<"history", <<"downtime_end", i>> >>
  PROVE  /\ \E e : DowntimeEntry(r, i, 3, e) /\ e.at = sla /\ e.columns.end = final
         /\ r[i].ended =>
              \E e : DowntimeEntry(r, i, 2, e) /\ e.at = end /\ e.columns.time = final
<1>1. DowntimeEntry(r, i, 3, Entry("sla_history_downtime", i, [end |-> final]))
  BY DEF DowntimeEntry, EndTime
<1>2. r[i].ended =>
        DowntimeEntry(r, i, 2, Event("downtime_end", "downtime_history", i, final))
  BY DEF DowntimeEntry, EndTime
<1>3. Event("downtime_end", "downtime_history", i, final).at
        = <<"history", <<"downtime_end", i>> >>
  BY EntryFields DEF Event
<1> QED
  BY <1>1, <1>2, <1>3, EntryFields, EventFields

\* The same of comments and acknowledgements; p has their table and the kind of
\* the event that ends them.
CommentEnds == { <<"comment_history", "comment_remove">>,
                 <<"acknowledgement_history", "ack_clear">> }

LEMMA CommentRow ==
  ASSUME NEW r, NEW i, NEW j, NEW n, NEW e, CommentEntry(r, j, n, e),
         NEW p \in CommentEnds, e.at = <<p[1], i>>
  PROVE  /\ j = i /\ r[i].timed
         /\ r[i].entry = IF p[1] = "comment_history" THEN "user" ELSE "ack"
         /\ e.columns.end = IF r[i].deleted THEN "deletion" ELSE None
<1>1. \/ n = 1 /\ p[1] = "comment_history" /\ j = i /\ r[i].entry = "user"
      \/ n = 2 /\ p[1] = "acknowledgement_history" /\ j = i /\ r[i].entry = "ack"
  BY CommentShape DEF CommentEnds
<1> QED
  BY <1>1, EntryFields DEF CommentEntry

LEMMA CommentRemoved ==
  ASSUME NEW r, NEW i, NEW j, NEW n, NEW e, CommentEntry(r, j, n, e),
         NEW p \in CommentEnds, e.at = <<"history", <<p[2], i>> >>
  PROVE  j = i /\ r[i].deleted
<1>1. n \in {3, 4} /\ j = i
  BY CommentShape
<1>2. e.at[2][1] \in {"comment_remove", "ack_clear"}
  BY DEF CommentEnds
<1> QED
  BY <1>1, <1>2, EventFields DEF CommentEntry

LEMMA CommentOther ==
  ASSUME NEW r, NEW i, r[i].timed, r[i].deleted, NEW p \in CommentEnds,
         r[i].entry = IF p[1] = "comment_history" THEN "user" ELSE "ack"
  PROVE  \E n, e : CommentEntry(r, i, n, e) /\ e.at = <<"history", <<p[2], i>> >>
<1> DEFINE e == Event(p[2], p[1], i, "deletion")
<1>1. e.at = <<"history", <<p[2], i>> >>
  BY EntryFields DEF Event
<1>2. CASE p[1] = "comment_history"
  <2>1. p[2] = "comment_remove"
    BY <1>2 DEF CommentEnds
  <2>2. CommentEntry(r, i, 3, e)
    BY <1>2, <2>1 DEF CommentEntry
  <2> QED
    BY <1>1, <2>2
<1>3. CASE p[1] # "comment_history"
  <2>1. p[1] = "acknowledgement_history" /\ p[2] = "ack_clear"
    BY <1>3 DEF CommentEnds
  <2>2. CommentEntry(r, i, 4, e)
    BY <1>3, <2>1 DEF CommentEntry
  <2> QED
    BY <1>1, <2>2
<1> QED
  BY <1>2, <1>3

\* What is there of another type than flapping is what a row became.
LEMMA ContentFound ==
  ASSUME ContentInv, type # "flapping", NEW at \in DOMAIN idb, at[1] # "flapping_history"
  PROVE  \E j, n, e : /\ Exact(type, row, j, n, e) /\ e.at = at /\ idb[at] = e.columns
BY DEF ContentInv, Content, CacheTrusted

LEMMA DowntimesAgree ==
  ASSUME TypeOK, TablesInv, ContentInv, SkippedInv, NEW i \in range.from..lastId,
         <<"downtime_history", i>> \in DOMAIN idb
  PROVE  LET columns == idb[<<"downtime_history", i>>]
             end == <<"history", <<"downtime_end", i>> >>
             final == IF columns.cancel # None THEN columns.cancel ELSE columns.end
         IN  /\ end \in DOMAIN idb <=> row[i].ended
             /\ end \in DOMAIN idb => idb[end].time = final
             /\ idb[<<"sla_history_downtime", i>>].end = final
             /\ row[i].ended => final = "actual"
<1> DEFINE at == <<"downtime_history", i>>
           end == <<"history", <<"downtime_end", i>> >>
           sla == <<"sla_history_downtime", i>>
           final == IF idb[at].cancel # None THEN idb[at].cancel ELSE idb[at].end
           truth == IF row[i].cancelled THEN "actual"
                    ELSE IF row[i].ended THEN "actual" ELSE "scheduled"
<1>1. /\ at[1] = "downtime_history" /\ end[1] = "history"
      /\ sla[1] = "sla_history_downtime" /\ at \in DOMAIN idb
  OBVIOUS
<1>2. type = "downtime"
  <2>1. "downtime_history" \in TablesOf
    BY <1>1 DEF TablesInv
  <2> QED
    BY <2>1 DEF TablesOf, TypeOK, HistoryType
<1> HIDE DEF at, end
<1>3. Migrated(type, row, range.from, idb, i)
  BY <1>2 DEF SkippedInv, CacheTrusted
<1>4. \A j, n, e : Exact(type, row, j, n, e) <=> DowntimeEntry(row, j, n, e)
  BY <1>2 DEF Exact, Becomes
<1>5. /\ row[i].timed /\ row[i].started
      /\ idb[at].cancel = IF row[i].cancelled THEN "actual" ELSE None
      /\ idb[at].end = IF row[i].ended THEN "actual" ELSE "scheduled"
  <2>1. PICK j, n, e : DowntimeEntry(row, j, n, e) /\ e.at = at /\ idb[at] = e.columns
    BY <1>1, <1>2, <1>4, ContentFound
  <2> QED
    BY <2>1, DowntimeRow DEF at
<1>6. final = truth /\ (row[i].ended => truth = "actual")
  BY <1>5 DEF None
<1> HIDE DEF final, truth, sla
<1>7. /\ \E e : DowntimeEntry(row, i, 3, e) /\ e.at = sla /\ e.columns.end = truth
      /\ row[i].ended =>
           \E e : DowntimeEntry(row, i, 2, e) /\ e.at = end /\ e.columns.time = truth
  <2>1. /\ sla = <<"sla_history_downtime", i>> /\ end = <<"history", <<"downtime_end", i>> >>
        /\ truth = IF row[i].cancelled THEN "actual"
                   ELSE IF row[i].ended THEN "actual" ELSE "scheduled"
    BY DEF sla, end, truth
  <2> QED
    BY <1>5, <2>1, DowntimeOthers
<1>8. idb[sla].end = truth
  <2>1. PICK e : DowntimeEntry(row, i, 3, e) /\ e.at = sla /\ e.columns.end = truth
    BY <1>7
  <2>2. idb[e.at] = e.columns
    BY <1>1, <1>3, <1>4, <2>1 DEF Migrated
  <2> QED
    BY <2>1, <2>2
<1>9. ASSUME row[i].ended PROVE end \in DOMAIN idb /\ idb[end].time = truth
  <2>1. PICK e : DowntimeEntry(row, i, 2, e) /\ e.at = end /\ e.columns.time = truth
    BY <1>7, <1>9
  <2>2. e.at \in DOMAIN idb /\ idb[e.at] = e.columns
    BY <1>1, <1>3, <1>4, <2>1 DEF Migrated
  <2> QED
    BY <2>1, <2>2
<1>10. ASSUME end \in DOMAIN idb PROVE row[i].ended
  <2>1. PICK j, n, e : DowntimeEntry(row, j, n, e) /\ e.at = end
    BY <1>1, <1>2, <1>4, <1>10, ContentFound
  <2> QED
    BY <2>1, DowntimeEnds DEF end
<1> QED
  BY <1>6, <1>8, <1>9, <1>10 DEF final, at, end, sla

LEMMA CommentsAgree ==
  ASSUME TypeOK, TablesInv, ContentInv, SkippedInv, NEW i \in range.from..lastId,
         NEW p \in CommentEnds, <<p[1], i>> \in DOMAIN idb
  PROVE  idb[<<p[1], i>>].end # None <=> <<"history", <<p[2], i>> >> \in DOMAIN idb
<1> DEFINE at == <<p[1], i>>
           end == <<"history", <<p[2], i>> >>
<1>1. /\ at[1] = p[1] /\ end[1] = "history"
      /\ p[1] \in {"comment_history", "acknowledgement_history"} /\ at \in DOMAIN idb
  BY DEF CommentEnds
<1>2. type = "ack & comment"
  <2>1. p[1] \in TablesOf
    BY <1>1 DEF TablesInv
  <2> QED
    BY <1>1, <2>1 DEF TablesOf, TypeOK, HistoryType
<1> HIDE DEF at, end
<1>3. Migrated(type, row, range.from, idb, i)
  BY <1>2 DEF SkippedInv, CacheTrusted
<1>4. \A j, n, e : Exact(type, row, j, n, e) <=> CommentEntry(row, j, n, e)
  BY <1>2 DEF Exact, Becomes
<1>5. /\ row[i].timed /\ row[i].entry = IF p[1] = "comment_history" THEN "user" ELSE "ack"
      /\ idb[at].end = IF row[i].deleted THEN "deletion" ELSE None
  <2>1. PICK j, n, e : Exact(type, row, j, n, e) /\ e.at = at /\ idb[at] = e.columns
    BY <1>1, <1>2, ContentFound
  <2> QED
    BY <1>4, <2>1, CommentRow DEF at
<1>6. ASSUME row[i].deleted PROVE end \in DOMAIN idb
  <2>1. PICK n, e : CommentEntry(row, i, n, e) /\ e.at = end
    BY <1>5, <1>6, CommentOther DEF end
  <2> QED
    BY <1>3, <1>4, <2>1 DEF Migrated
<1>7. ASSUME end \in DOMAIN idb PROVE row[i].deleted
  <2>1. PICK j, n, e : Exact(type, row, j, n, e) /\ e.at = end /\ idb[end] = e.columns
    BY <1>1, <1>2, <1>7, ContentFound
  <2>2. CommentEntry(row, j, n, e) /\ e.at = <<"history", <<p[2], i>> >>
    BY <1>4, <2>1 DEF end
  <2> QED
    BY <2>2, CommentRemoved
<1> QED
  BY <1>5, <1>6, <1>7 DEF None, at, end

LEMMA AllEndsAgree ==
  ASSUME TypeOK, TablesInv, ContentInv, SkippedInv
  PROVE  EndsAgree
BY DowntimesAgree, CommentsAgree, Zenon DEF EndsAgree, CommentEnds

\* A step that does not write leaves the tables, and one that writes changes an
\* interval at most.
Keeps(d, w) ==
  \A at \in DOMAIN d :
    /\ at \in DOMAIN w
    /\ \/ w[at] = d[at]
       \/ /\ at[1] = "flapping_history"
          /\ d[at].started => d[at].end = Open
          /\ w[at] = [d[at] EXCEPT !.end = w[at].end]

LEMMA KeepsStep ==
  ASSUME TypeOK, ProgressInv, HardInv, FlappingInv, ContentInv, CacheTrusted, [Next]_vars
  PROVE  Keeps(idb, idb')
<1>1. CASE ~\E e \in todo : WriteRow(e)
  BY <1>1, NoWrite DEF Keeps
<1>2. ASSUME NEW e \in todo, WriteRow(e), NEW at \in DOMAIN idb
      PROVE  /\ at \in DOMAIN idb'
             /\ \/ idb'[at] = idb[at]
                \/ /\ at[1] = "flapping_history"
                   /\ idb[at].started => idb[at].end = Open
                   /\ idb'[at] = [idb[at] EXCEPT !.end = idb'[at].end]
  <2>1. /\ pc = "write" /\ DOMAIN idb' = DOMAIN idb \cup {e.at}
        /\ \A x \in DOMAIN idb : x # e.at => idb'[x] = idb[x]
        /\ e.at \in DOMAIN idb /\ Op = "insert" => idb'[e.at] = idb[e.at]
        /\ e.at \in DOMAIN idb /\ Op # "insert" =>
             idb'[e.at] = [idb[e.at] EXCEPT !.end = e.columns.end]
    BY <1>2, WriteExact DEF Writes
  <2>2. CASE idb'[at] = idb[at]
    BY <2>1, <2>2
  <2>3. CASE at = e.at /\ Op # "insert"
    <3>1. PICK i \in slice : Exact(type, row, i, stage, e)
      BY <1>2, WriteExact
    <3>2. type = "flapping" /\ stage = 2
      BY <2>3 DEF Op
    <3>3. /\ HasStartBefore(row, i) /\ e.columns = Ended(i) /\ at[1] = "flapping_history"
          /\ i \in 1..Len(row) /\ at[2] = <<row[i].object, Start(row, i)>>
      BY <2>3, <3>1, <3>2, ExactFlapping
    <3>4. /\ idb[at] \in [started : BOOLEAN, end : 0..Len(row)]
          /\ idb[at].end # Open =>
               /\ HasStartBefore(row, idb[at].end)
               /\ at[2] = <<row[idb[at].end].object, Start(row, idb[at].end)>>
      BY <3>3 DEF ContentInv, Content
    <3>5. idb'[at] = [idb[at] EXCEPT !.end = i] /\ Len(row) \in Nat
      BY <1>2, <2>1, <2>3, <3>3, IntervalColumns, RowFacts
    <3>6. idb[at].end # Open => idb[at].end = i
      <4>1. SUFFICES ASSUME idb[at].end # Open PROVE idb[at].end = i
        OBVIOUS
      <4>2. idb[at].end \in Nat /\ i \in Nat
        BY <3>3, <3>4, <3>5
      <4>3. /\ row[idb[at].end].object = row[i].object
            /\ Start(row, idb[at].end) = Start(row, i)
        BY <3>3, <3>4, <4>1
      <4> QED
        BY <3>3, <3>4, <4>1, <4>2, <4>3, StartOnce DEF HasStartBefore
    <3>7. idb'[at].end = i
      BY <3>4, <3>5
    <3>8. idb[at].end = i => idb'[at] = idb[at]
      BY <3>4, <3>5
    <3> QED
      BY <2>1, <3>3, <3>5, <3>6, <3>7, <3>8
  <2> QED
    BY <2>1, <2>2, <2>3 DEF Op
<1> QED
  BY <1>1, <1>2 DEF Keeps

-------------------------------------------------------------------------------
(* The invariant is inductive.                                                  *)

LEMMA Initially ==
  Init => IInv
<1> SUFFICES ASSUME Init PROVE IInv
  OBVIOUS
<1>1. /\ type \in HistoryType /\ row \in Contents[type] /\ shown \in 0..Len(row)
      /\ file = EmptyCache /\ cache = EmptyCache /\ DOMAIN idb = {} /\ lastId = 0
      /\ pc = "off" /\ range = [from |-> Endless, to |-> 0] /\ checkpoint = 0
      /\ slice = {} /\ stage = 0 /\ todo = {} /\ crashes = 0 /\ regrown = FALSE
  BY DEF Init
<1>2. row \in Seq(IdoRow(type)) /\ Len(row) \in Nat /\ Endless \in Nat \ {0}
  BY <1>1, MigrationAssumption DEF Endless
<1>3. range.from = Endless /\ range.to = 0
  BY <1>1
<1>4. TypeOK
  <2>1. CacheOK(EmptyCache) /\ Cardinality({}) = 0
    BY EmptyOK, EmptyCards
  <2>2. /\ lastId \in 0..shown /\ crashes \in 0..MaxCrash /\ checkpoint \in 0..Endless
        /\ range.from \in 1..Endless /\ range.to \in 0..shown /\ stage \in 0..4
    BY <1>1, <1>2, <1>3, MigrationAssumption
  <2>3. slice \subseteq 1..Len(row) /\ Cardinality(slice) <= Bulk
    BY <1>1, EmptyCards
  <2>4. Scalars
    BY <1>1, <2>2, <2>3 DEF Scalars
  <2>5. CacheOK(file) /\ CacheOK(cache)
    BY <1>1, <2>1
  <2> QED
    BY <2>4, <2>5 DEF TypeOK, Scalars, CacheOK, Fields
<1>5. RangeInv /\ ProgressInv /\ WrittenInv /\ UpsertInv
  BY <1>1, <1>2, <1>3 DEF RangeInv, ProgressInv, WrittenInv, UpsertInv, Running
<1>6. TablesInv /\ ParentsFirst /\ ContentInv
  BY <1>1 DEF TablesInv, ParentsFirst, ContentInv
<1>7. HardInv
  BY <1>1, EmptyFields DEF HardInv, Blank
<1>8. FlappingInv
  <2>1. EventCache(row, EmptyCache, 0, shown) /\ 0 \in 0..shown /\ EmptyCache.waiting = {}
    BY <1>1, <1>2, EventsEmpty, EmptyFields
  <2> QED
    BY <1>1, <2>1 DEF FlappingInv, Running
<1>9. SkippedInv
  <2>1. range.from..lastId = {}
    BY <1>1, <1>2, <1>3
  <2> QED
    BY <2>1 DEF SkippedInv
<1> QED
  BY <1>4, <1>5, <1>6, <1>7, <1>8, <1>9 DEF IInv

LEMMA Inductive ==
  IInv /\ [Next]_vars => IInv'
BY TypeStep, RangeStep, ProgressStep, WrittenStep, TablesStep, ParentsStep, HardStep,
   FlappingStep, ContentStep, UpsertStep, SkippedStep DEF IInv

LEMMA Invariance ==
  Spec => []IInv
<1>1. Init => IInv
  BY Initially
<1>2. IInv /\ [Next]_vars => IInv'
  BY Inductive
<1> QED
  BY <1>1, <1>2, PTL DEF Spec

-------------------------------------------------------------------------------
(* The theorems.                                                                *)

\* The caches, the progress, the range and the slice are well-formed, whatever
\* the type of history, the rows of the IDO and the interruptions.
THEOREM TypeCorrect ==
  Spec => []TypeOK
<1>1. IInv => TypeOK
  BY DEF IInv
<1> QED
  BY <1>1, Invariance, PTL

\* A row that refers to another one is never there without it, whichever of its
\* stages migrateOneType is interrupted in.
THEOREM Parents ==
  Spec => []ParentsFirst
<1>1. IInv => ParentsFirst
  BY DEF IInv
<1> QED
  BY <1>1, Invariance, PTL

\* ido_migration_progress is never ahead of the tables: all rows up to it are
\* migrated, with the start times and previous hard states that the cache of an
\* uninterrupted run over all rows would have.
THEOREM Skipped ==
  Spec => []NothingSkipped
<1>1. IInv => NothingSkipped
  BY NothingIsSkipped DEF IInv
<1> QED
  BY <1>1, Invariance, PTL

\* The history row, the end event and the SLA row of a downtime, and the row and
\* the end event of a comment, agree on the end once the row is recorded.
THEOREM Ends ==
  Spec => []EndsAgree
<1>1. IInv => EndsAgree
  BY AllEndsAgree DEF IInv
<1> QED
  BY <1>1, Invariance, PTL

\* No bulk and no later run changes or loses a row of Icinga DB, but for the end
\* of a flapping interval, which it gets once.
THEOREM Rewrites ==
  Spec => RewritesNothing
<1>1. IInv /\ [Next]_vars => [CacheTrusted => Keeps(idb, idb')]_vars
  BY KeepsStep DEF IInv
<1>2. Keeps(idb, idb') <=>
        \A at \in DOMAIN idb :
          /\ at \in DOMAIN idb'
          /\ \/ idb'[at] = idb[at]
             \/ /\ at[1] = "flapping_history"
                /\ idb[at].started => idb[at].end = Open
                /\ idb'[at] = [idb[at] EXCEPT !.end = idb'[at].end]
  BY DEF Keeps
<1> QED
  BY <1>1, <1>2, Invariance, PTL DEF Spec, RewritesNothing
===============================================================================
