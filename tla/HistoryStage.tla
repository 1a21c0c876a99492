----------------------------- MODULE HistoryStage ------------------------------
(* One writeMultiEntityStage of the history sync: the three goroutines of its  *)
(* errgroup, the channels between them and the shared state map.               *)
(*                                                                             *)
(*   reader     in -> entryToEntities -> insert, or skipped                    *)
(*   upserter   UpsertStreamed: insert -> database -> inserted                 *)
(*   forwarder  inserted, skipped -> out                                       *)
(*                                                                             *)
(* Channels are sets: bulks run concurrently, so no order survives.  Entities  *)
(* are pointers, each belongs to one event.                                    *)
EXTENDS Naturals, FiniteSets

CONSTANTS Msg, Entity, Owner,
  BufSize  \* capacity of the insert channel (MaxPlaceholdersPerStatement)

ASSUME StageAssumption ==
  /\ IsFiniteSet(Entity)
  /\ Owner \in [Entity -> Msg]
  /\ BufSize \in Nat \ {0}

Entities(m) == {e \in Entity : Owner[e] = m}

VARIABLES
  in,         \* events the previous stage still has to deliver
  inClosed,   \* the previous stage closed the in channel
  cancelled,  \* the context of the stage's errgroup
  parent,     \* the context of the pipeline it is derived from
  reader,     \* "receive", "insert", "skip" or "done"
  current,    \* events the reader is working on, at most one
  rest,       \* entities of it that are still to be inserted
  insert,     \* content of the insert channel
  bulk,       \* entities the upserter has taken
  acks,       \* entities it has to announce on the inserted channel
  upserter,   \* "run" or "done"
  state,      \* keys of the state map
  pending,    \* State.Pending of every registered event
  forwarder,  \* "select", "send" or "done"
  outgoing,   \* events the forwarder is about to send, at most one
  out,        \* events sent to the next stage
  outOpen,    \* the next stage still receives
  db          \* rows in the database

readerVars    == <<in, inClosed, reader, current, rest>>
upserterVars  == <<bulk, acks, upserter, db>>
forwarderVars == <<forwarder, outgoing, out, outOpen>>
mapVars       == <<state, pending>>
contexts      == <<cancelled, parent>>
vars == <<in, inClosed, cancelled, parent, reader, current, rest, insert, bulk,
          acks, upserter, state, pending, forwarder, outgoing, out, outOpen, db>>

TypeOK ==
  /\ in \subseteq Msg /\ current \subseteq Msg /\ outgoing \subseteq Msg
  /\ out \subseteq Msg
  /\ rest \subseteq Entity /\ insert \subseteq Entity /\ bulk \subseteq Entity
  /\ acks \subseteq Entity /\ state \subseteq Entity /\ db \subseteq Entity
  /\ inClosed \in BOOLEAN /\ outOpen \in BOOLEAN
  /\ cancelled \in BOOLEAN /\ parent \in BOOLEAN
  /\ reader \in {"receive", "insert", "skip", "done"}
  /\ upserter \in {"run", "done"}
  /\ forwarder \in {"select", "send", "done"}
  /\ pending \in [Msg -> Nat]

Init ==
  /\ in = Msg /\ inClosed = FALSE /\ cancelled = FALSE /\ parent = FALSE
  /\ reader = "receive" /\ current = {} /\ rest = {}
  /\ insert = {}
  /\ bulk = {} /\ acks = {} /\ upserter = "run" /\ db = {}
  /\ state = {} /\ pending = [m \in Msg |-> 0]
  /\ forwarder = "select" /\ outgoing = {} /\ out = {} /\ outOpen = TRUE

-------------------------------------------------------------------------------
(* The reader.                                                                 *)

\* Mutant: the counter is set for one entity only.
PendingOf_One(m) == IF Entities(m) = {} THEN 0 ELSE 1

\* State.Pending at the registration of an event.
PendingOf(m) == Cardinality(Entities(m))

\* An event with entities is registered in the state map under each of them
\* before the first is sent; one without takes the shortcut.
Receive(m) ==
  /\ reader = "receive" /\ m \in in
  /\ in' = in \ {m}
  /\ current' = {m}
  /\ IF Entities(m) = {}
       THEN /\ reader' = "skip"
            /\ UNCHANGED <<rest, state, pending>>
       ELSE /\ reader' = "insert"
            /\ rest' = Entities(m)
            /\ state' = state \cup Entities(m)
            /\ pending' = [pending EXCEPT ![m] = PendingOf(m)]
  /\ UNCHANGED <<inClosed, contexts, insert, upserterVars, forwarderVars>>

\* insert <- entity, in a select with the context.
Insert(e) ==
  /\ reader = "insert" /\ e \in rest
  /\ Cardinality(insert) < BufSize
  /\ insert' = insert \cup {e}
  /\ rest' = rest \ {e}
  /\ reader' = IF rest' = {} THEN "receive" ELSE "insert"
  /\ current' = IF rest' = {} THEN {} ELSE current
  /\ UNCHANGED <<in, inClosed, contexts, upserterVars, mapVars, forwarderVars>>

\* skipped <- e, not in a select: only the forwarder can release the reader.
Skip ==
  /\ reader = "skip" /\ forwarder = "select"
  /\ reader' = "receive" /\ current' = {}
  /\ forwarder' = "send" /\ outgoing' = current
  /\ UNCHANGED <<in, inClosed, contexts, rest, insert, upserterVars, mapVars,
                 out, outOpen>>

\* Mutant: sending to insert is not in a select with the context either.
ReaderReturns_InReceiveOnly ==
  /\ reader = "receive" /\ (cancelled \/ inClosed)
  /\ reader' = "done"
  /\ UNCHANGED <<in, inClosed, contexts, current, rest, insert, upserterVars,
                 mapVars, forwarderVars>>

\* The reader returns: its context is done, or the in channel closed.
ReaderReturns ==
  /\ \/ cancelled /\ reader \in {"receive", "insert"}
     \/ inClosed /\ reader = "receive"
  /\ reader' = "done" /\ current' = {} /\ rest' = {}
  /\ UNCHANGED <<in, inClosed, contexts, insert, upserterVars, mapVars,
                 forwarderVars>>

\* entryToEntities fails: the error cancels the context of the group.
ReaderFails(m) ==
  /\ reader = "receive" /\ m \in in
  /\ in' = in \ {m}
  /\ reader' = "done" /\ cancelled' = TRUE
  /\ UNCHANGED <<parent, inClosed, current, rest, insert, upserterVars,
                 mapVars, forwarderVars>>

-------------------------------------------------------------------------------
(* The upserter, as the stage relies on it.                                    *)

CollectBulk(e) ==
  /\ upserter = "run" /\ e \in insert
  /\ insert' = insert \ {e}
  /\ bulk' = bulk \cup {e}
  /\ UNCHANGED <<readerVars, contexts, acks, upserter, db, mapVars,
                 forwarderVars>>

\* A bulk is executed and then reported to OnSuccessSendTo.
ExecuteBulk(S) ==
  /\ upserter = "run" /\ S # {} /\ S \subseteq bulk
  /\ bulk' = bulk \ S
  /\ acks' = acks \cup S
  /\ db' = db \cup S
  /\ UNCHANGED <<readerVars, contexts, insert, upserter, mapVars,
                 forwarderVars>>

\* UpsertStreamed returns: an error that is not retried, a done context, or
\* everything sent until insert was closed has been reported.
UpserterReturns(error) ==
  /\ upserter = "run"
  /\ \/ error
     \/ cancelled /\ ~error
     \/ reader = "done" /\ insert \cup bulk \cup acks = {} /\ ~error
  /\ upserter' = "done" /\ bulk' = {} /\ acks' = {}
  /\ cancelled' = (cancelled \/ error)
  /\ UNCHANGED <<parent, readerVars, insert, db, mapVars, forwarderVars>>

-------------------------------------------------------------------------------
(* The forwarder.                                                              *)

\* Mutant: the counter is of no interest, the first entity releases the event.
Completes_First(m) == TRUE

\* Mutant: the counter is compared before it is decremented.
Completes_Late(m) == pending[m] = 0

\* st.Pending == 0 after the decrement.
Completes(m) == pending[m] = 1

\* delete(state, e)
Forget(e) == state \ {e}

\* e := <-inserted, a rendezvous with the upserter.
Acknowledge(e) ==
  /\ forwarder = "select" /\ e \in acks
  /\ acks' = acks \ {e}
  /\ state' = Forget(e)
  /\ pending' = [pending EXCEPT ![Owner[e]] = @ - 1]
  /\ IF Completes(Owner[e])
       THEN forwarder' = "send" /\ outgoing' = {Owner[e]}
       ELSE UNCHANGED <<forwarder, outgoing>>
  /\ UNCHANGED <<readerVars, contexts, insert, bulk, upserter, db, out, outOpen>>

\* out <- message, in a select with the context.
Forward ==
  /\ forwarder = "send" /\ outOpen
  /\ out' = out \cup outgoing
  /\ outgoing' = {}
  /\ forwarder' = "select"
  /\ UNCHANGED <<readerVars, contexts, insert, upserterVars, mapVars, outOpen>>

\* The forwarder returns: its context is done, or one of its channels is closed,
\* skipped by the reader or inserted by the upserter.
ForwarderReturns ==
  /\ \/ cancelled /\ forwarder \in {"select", "send"}
     \/ forwarder = "select" /\ (upserter = "done" \/ reader = "done")
  /\ forwarder' = "done" /\ outgoing' = {}
  /\ UNCHANGED <<readerVars, contexts, insert, upserterVars, mapVars, out, outOpen>>

-------------------------------------------------------------------------------
(* The pipeline around the stage.                                              *)

\* Some other stage fails or the process is told to stop.
Cancel ==
  /\ ~parent
  /\ parent' = TRUE /\ cancelled' = TRUE
  /\ UNCHANGED <<readerVars, insert, upserterVars, mapVars, forwarderVars>>

\* The stage before closes in as soon as its forwarder has returned, long before
\* it returns an error itself.
PreviousStops ==
  /\ inClosed' = TRUE
  /\ UNCHANGED <<in, contexts, reader, current, rest, insert, upserterVars, mapVars,
                 forwarderVars>>

\* Likewise, the next stage receives no more as soon as its reader has returned.
NextStops ==
  /\ outOpen' = FALSE
  /\ UNCHANGED <<readerVars, contexts, insert, upserterVars, mapVars, forwarder,
                 outgoing, out>>

Reader    == (\E m \in Msg : Receive(m)) \/ (\E e \in Entity : Insert(e)) \/ Skip
                \/ ReaderReturns
Upserter  == (\E e \in Entity : CollectBulk(e))
                \/ (\E S \in SUBSET Entity : ExecuteBulk(S))
                \/ UpserterReturns(FALSE)
Forwarder == (\E e \in Entity : Acknowledge(e)) \/ Forward \/ ForwarderReturns
Faults    == (\E m \in Msg : ReaderFails(m)) \/ UpserterReturns(TRUE)
                \/ Cancel \/ PreviousStops \/ NextStops

Next == Reader \/ Upserter \/ Forwarder \/ Faults

Spec == Init /\ [][Next]_vars

-------------------------------------------------------------------------------
(* Properties.                                                                 *)

\* The stage keeps its promise: StageContract with the events gone from in as
\* taken and the events received by the next stage as forwarded.
Contract == INSTANCE StageContract WITH
  taken <- Msg \ in, written <- db, forwarded <- out
KeepsContract == Contract!Spec

\* State.Pending counts the entities of an event that are still in the state
\* map, so the decrement to 0 happens exactly once and at the last one.
PendingCountsState ==
  \A m \in Msg : pending[m] = Cardinality(Entities(m) \cap state)

\* The state map holds exactly what is on its way through the stage while it
\* runs: nothing is forgotten in it and no acknowledgement misses its entry.
StateMapTracksEntities ==
  ~cancelled => state = rest \cup insert \cup bulk \cup acks

Returned == reader = "done" /\ upserter = "done" /\ forwarder = "done"

\* The stage stops once its context is cancelled: g.Wait returns, so that the
\* error which caused it reaches Sync and main (StageFunc).
StopsOnceCancelled == cancelled ~> Returned
===============================================================================
