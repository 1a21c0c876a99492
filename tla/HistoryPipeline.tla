---------------------------- MODULE HistoryPipeline ----------------------------
(* One history pipeline (Sync.Sync for one key) on every Icinga DB node, from  *)
(* the node's own Redis stream to the tables they share.  Every Icinga 2 node  *)
(* writes all events into its Redis, so both nodes write the same rows; rows   *)
(* have IDs derived from the event and are upserted.                           *)
(*                                                                             *)
(*   Redis -> readFromRedis -> channel -> stage 1 .. stage Stages              *)
(*         -> countElementStage -> deleteFromRedis                             *)
(*                                                                             *)
(* A stage is what StageContract says (HistoryStage implements it): it holds a *)
(* set of events, works on them in any order and forwards the finished ones.   *)
EXTENDS Naturals, FiniteSets

CONSTANTS
  Node,      \* Icinga DB instances, each with a Redis of its own
  LastId,    \* ID of the last event in a run, they count from 1
  Stages,    \* number of writing stages; stage k writes table k
  ReadCount, \* XReadCount, capacity of the first channel
  MaxCrash   \* crashes per node in a run

ASSUME PipelineAssumption ==
  /\ LastId \in Nat /\ Stages \in Nat \ {0}
  /\ ReadCount \in Nat \ {0} /\ MaxCrash \in Nat

Id == 1..LastId
Stage == 1..Stages

VARIABLES
  published, \* last ID Icinga 2 has written to a node's stream
  redis,     \* events in the stream of a node
  position,  \* ID from which readFromRedis reads on
  channel,   \* events read but not taken by stage 1
  busy,      \* events a stage is writing
  ready,     \* events a stage has written and not forwarded
  counting,  \* the event in countElementStage, at most one
  deleting,  \* events deleteFromRedis has collected
  table,     \* rows of each table, by event
  crashes    \* crashes of a node so far

streams == <<published, redis>>
memory  == <<position, channel, busy, ready, counting, deleting>>
vars == <<published, redis, position, channel, busy, ready, counting, deleting,
          table, crashes>>

TypeOK ==
  /\ published \in [Node -> 0..LastId]
  /\ redis \in [Node -> SUBSET Id]
  /\ position \in [Node -> 0..LastId]
  /\ channel \in [Node -> SUBSET Id]
  /\ busy \in [Node -> [Stage -> SUBSET Id]]
  /\ ready \in [Node -> [Stage -> SUBSET Id]]
  /\ counting \in [Node -> SUBSET Id]
  /\ deleting \in [Node -> SUBSET Id]
  /\ table \in [Stage -> SUBSET Id]
  /\ crashes \in [Node -> 0..MaxCrash]

Empty == [n \in Node |-> [k \in Stage |-> {}]]

Init ==
  /\ published = [n \in Node |-> 0]
  /\ redis = [n \in Node |-> {}]
  /\ position = [n \in Node |-> 0]
  /\ channel = [n \in Node |-> {}]
  /\ busy = Empty /\ ready = Empty
  /\ counting = [n \in Node |-> {}]
  /\ deleting = [n \in Node |-> {}]
  /\ table = [k \in Stage |-> {}]
  /\ crashes = [n \in Node |-> 0]

-------------------------------------------------------------------------------

\* Icinga 2 appends the next event to its stream.
Publish(n) ==
  /\ published[n] < LastId
  /\ published' = [published EXCEPT ![n] = @ + 1]
  /\ redis' = [redis EXCEPT ![n] = @ \cup {published[n] + 1}]
  /\ UNCHANGED <<memory, table, crashes>>

\* xra.Streams[1] = message.ID
PositionAfter(n, m) == m

\* XREAD returns the entries after the position, in order.
Read(n, m) ==
  /\ m \in redis[n] /\ m > position[n]
  /\ \A other \in redis[n] : other > position[n] => m <= other
  /\ Cardinality(channel[n]) < ReadCount
  /\ position' = [position EXCEPT ![n] = PositionAfter(n, m)]
  /\ channel' = [channel EXCEPT ![n] = @ \cup {m}]
  /\ UNCHANGED <<streams, busy, ready, counting, deleting, table, crashes>>

\* Stage 1 receives from the buffered channel.
Take(n, m) ==
  /\ m \in channel[n]
  /\ channel' = [channel EXCEPT ![n] = @ \ {m}]
  /\ busy' = [busy EXCEPT ![n][1] = @ \cup {m}]
  /\ UNCHANGED <<streams, position, ready, counting, deleting, table, crashes>>

\* A stage upserts the rows of an event.
Write(n, k, m) ==
  /\ m \in busy[n][k]
  /\ busy' = [busy EXCEPT ![n][k] = @ \ {m}]
  /\ ready' = [ready EXCEPT ![n][k] = @ \cup {m}]
  /\ table' = [table EXCEPT ![k] = @ \cup {m}]
  /\ UNCHANGED <<streams, position, channel, counting, deleting, crashes>>

\* Mutant: a stage forwards what it has taken without waiting for the database.
Finished_Early(n, k) == busy[n][k] \cup ready[n][k]

\* Events a stage may forward.
Finished(n, k) == ready[n][k]

Leave(n, k, m) ==
  /\ m \in Finished(n, k)
  /\ ready' = [ready EXCEPT ![n][k] = @ \ {m}]

\* The next stage receives what a stage forwards, on an unbuffered channel.
Forward(n, k, m) ==
  /\ k < Stages /\ Leave(n, k, m)
  /\ busy' = [busy EXCEPT ![n][k + 1] = @ \cup {m}]
  /\ UNCHANGED <<streams, position, channel, counting, deleting, table, crashes>>

\* countElementStage receives from the last writing stage and counts.
Count(n, m) ==
  /\ Leave(n, Stages, m)
  /\ counting[n] = {}
  /\ counting' = [counting EXCEPT ![n] = {m}]
  /\ UNCHANGED <<streams, position, channel, busy, deleting, table, crashes>>

\* out <- msg: the event joins a bulk of deleteFromRedis.
PassOn(n) ==
  /\ counting[n] # {}
  /\ counting' = [counting EXCEPT ![n] = {}]
  /\ deleting' = [deleting EXCEPT ![n] = @ \cup counting[n]]
  /\ UNCHANGED <<streams, position, channel, busy, ready, table, crashes>>

\* XDEL of a bulk.
Delete(n) ==
  /\ deleting[n] # {}
  /\ redis' = [redis EXCEPT ![n] = @ \ deleting[n]]
  /\ deleting' = [deleting EXCEPT ![n] = {}]
  /\ UNCHANGED <<published, position, channel, busy, ready, counting, table,
                 crashes>>

\* Mutant: after a restart only new entries are read.
StartPosition_Newest(n) == published[n]

\* Sync starts to read at "0-0".
StartPosition(n) == 0

\* What is in memory is lost; what is in Redis is read again.
Reset(n) ==
  /\ position' = [position EXCEPT ![n] = StartPosition(n)]
  /\ channel' = [channel EXCEPT ![n] = {}]
  /\ busy' = [busy EXCEPT ![n] = [k \in Stage |-> {}]]
  /\ ready' = [ready EXCEPT ![n] = [k \in Stage |-> {}]]
  /\ counting' = [counting EXCEPT ![n] = {}]
  /\ deleting' = [deleting EXCEPT ![n] = {}]
  /\ UNCHANGED <<streams, table>>

\* The process dies, of an error of some stage (Fatal) or otherwise, and starts
\* anew.
Restart(n) ==
  /\ crashes[n] < MaxCrash
  /\ crashes' = [crashes EXCEPT ![n] = @ + 1]
  /\ Reset(n)

Work(n) ==
  \/ PassOn(n) \/ Delete(n)
  \/ \E m \in Id : \/ Read(n, m) \/ Take(n, m) \/ Count(n, m)
                   \/ \E k \in Stage : Write(n, k, m) \/ Forward(n, k, m)

Next == \E n \in Node : Publish(n) \/ Work(n) \/ Restart(n)

Spec == Init /\ [][Next]_vars

\* Redis and the database answer and the goroutines of a process are scheduled.
FairSpec == Spec /\ \A n \in Node : WF_vars(Work(n))

-------------------------------------------------------------------------------
(* Properties.                                                                 *)

\* An event is gone from Redis only when it is in all tables of its pipeline.
NothingLost ==
  \A n \in Node : \A m \in 1..published[n] :
    m \in redis[n] \/ \A k \in Stage : m \in table[k]

\* Later stages rely on earlier ones: a row never precedes the row of the table
\* before it (history has foreign keys to the tables of the first stages).
DependenciesFirst ==
  \A k \in Stage : k > 1 => table[k] \subseteq table[k - 1]

\* In the end every event is written to every table and deleted from the stream,
\* however its processing was interrupted.
EverythingSynced ==
  <>[](\A n \in Node : \A m \in 1..published[n] :
         m \notin redis[n] /\ \A k \in Stage : m \in table[k])
===============================================================================
