----------------------------- MODULE RuntimeUpdates -----------------------------
(* One type of objects from Redis to its table in a term of responsibility:    *)
(* ClearStreams, the initial sync with both of its reads from Redis, and the   *)
(* runtime updates of RuntimeUpdates.Sync that follow it; interrupted by other *)
(* terms.  Configuration is serialized, states are not and are submitted to    *)
(* the notifications client by a second reader of the stream.                  *)
(*                                                                             *)
(* Icinga 2 changes a type's hashes (entities and checksums) and announces it  *)
(* in the stream in one transaction.  No content is like an earlier one: it is *)
(* named by the ID of the message that announces it.                           *)
EXTENDS Naturals, Sequences, FiniteSets, SequencesExt

CONSTANTS
  Object,     \* IDs of one type
  MaxUpdates, \* messages in a run
  Capacity,   \* XReadCount, capacity of the buffered channels
  MaxBreak,   \* handovers and crashes in a run
  None,       \* no entity, no row
  First,      \* content of an entity at the beginning
  Old,        \* content of an outdated row at the beginning
  Unread      \* not read from Redis yet

ASSUME RuntimeAssumption ==
  /\ MaxUpdates \in Nat /\ Capacity \in Nat \ {0} /\ MaxBreak \in Nat
  /\ {None, First, Old, Unread} \cap Nat = {}
  /\ Cardinality({None, First, Old, Unread}) = 4

Content == {None, First, Old} \cup 1..MaxUpdates

VARIABLES
  path,     \* "config" or "state": which stream it is
  hash,     \* icinga:<type> and icinga:checksum:<type>, by object
  sent,     \* all messages Icinga 2 has ever sent, their IDs are their indices
  stream,   \* IDs that are in the stream
  row,      \* contents of the rows
  checksum, \* checksums of the rows, by the content they belong to
  phase,    \* "clear", "compare", "apply" or "runtime"
  seen,     \* checksums read by YieldAll
  todo,     \* objects with a statement of ApplyDelta that is not executed
  fetched,  \* entities read by HMYield
  position, \* last ID each xRead has dispatched
  acked,    \* last ID it has acknowledged
  inbox,    \* dispatched to structifyStream, by reader
  waiting,  \* structifyStream waits for the serializer channel
  upserts,  \* sent to the upserting goroutine, not executed
  deletes,  \* sent to the deleting goroutine, not executed
  breaks    \* handovers and crashes so far

redis   == <<hash, sent, stream>>
table   == <<row, checksum>>
initial == <<seen, todo, fetched>>
readers == <<position, acked>>
writers == <<waiting, upserts, deletes>>
vars == <<path, hash, sent, stream, row, checksum, phase, seen, todo, fetched,
          position, acked, inbox, waiting, upserts, deletes, breaks>>

Id == 1..Len(sent)
Reader == {"db", "callback"}

\* Only states have a callback (WithRUUpsert in main.go).
Active == IF path = "state" THEN Reader ELSE {"db"}

TypeOK ==
  /\ path \in {"config", "state"}
  /\ hash \in [Object -> Content] /\ row \in [Object -> Content]
  /\ checksum \in [Object -> Content]
  /\ sent \in Seq([object : Object, op : {"upsert", "delete"}])
  /\ Len(sent) <= MaxUpdates /\ stream \subseteq Id
  /\ phase \in {"clear", "compare", "apply", "runtime"}
  /\ seen \in [Object -> Content \cup {Unread}]
  /\ fetched \in [Object -> Content \cup {Unread}]
  /\ todo \subseteq Object
  /\ position \in [Reader -> 0..Len(sent)] /\ acked \in [Reader -> 0..Len(sent)]
  /\ inbox \in [Reader -> Seq(Id)] /\ upserts \in Seq(Id) /\ deletes \subseteq Id
  /\ waiting \in BOOLEAN /\ breaks \in 0..MaxBreak
  /\ waiting => upserts # <<>> \/ deletes # {}

Nothing == [o \in Object |-> Unread]

Init ==
  /\ path \in {"config", "state"}
  /\ hash \in [Object -> {None, First}] /\ row \in [Object -> {None, First, Old}]
  /\ checksum = row
  /\ sent = <<>> /\ stream = {}
  /\ phase = "clear"
  /\ seen = Nothing /\ todo = {} /\ fetched = Nothing
  /\ position = [r \in Reader |-> 0] /\ acked = position
  /\ inbox = [r \in Reader |-> <<>>]
  /\ waiting = FALSE /\ upserts = <<>> /\ deletes = {}
  /\ breaks = 0

\* The content a message announces.
Says(id) == IF sent[id].op = "delete" THEN None ELSE id

\* Icinga 2 changes an object.
Change(o, op) ==
  /\ Len(sent) < MaxUpdates
  /\ op = "delete" => hash[o] # None
  /\ sent' = Append(sent, [object |-> o, op |-> op])
  /\ stream' = stream \cup {Len(sent')}
  /\ hash' = [hash EXCEPT ![o] = IF op = "delete" THEN None ELSE Len(sent')]
  /\ UNCHANGED <<path, table, phase, initial, readers, inbox, writers, breaks>>

-------------------------------------------------------------------------------
(* The initial sync.                                                           *)

\* Mutant: the streams are cleared once the initial sync is through.
Cleared_Late == {id \in stream : phase # "apply"}

\* ClearStreams deletes the streams before anything is read.
Cleared == {id \in stream : phase # "clear"}

ClearStreams ==
  /\ phase = "clear"
  /\ phase' = "compare" /\ stream' = Cleared
  /\ UNCHANGED <<path, hash, sent, table, initial, readers, inbox, writers, breaks>>

\* YieldAll scans the checksums while Icinga 2 goes on.
ScanChecksum(o) ==
  /\ phase = "compare" /\ seen[o] = Unread
  /\ seen' = [seen EXCEPT ![o] = hash[o]]
  /\ UNCHANGED <<path, redis, table, phase, todo, fetched, readers, inbox,
                 writers, breaks>>

\* The delta: Delta.tla shows that it is what differs, in any order of arrival.
CalculateDelta ==
  /\ phase = "compare" /\ \A o \in Object : seen[o] # Unread
  /\ phase' = "apply"
  /\ todo' = {o \in Object : seen[o] # checksum[o]}
  /\ UNCHANGED <<path, redis, table, seen, fetched, readers, inbox, writers, breaks>>

\* HMYield reads the entities to be created or updated; it skips missing ones.
FetchEntity(o) ==
  /\ phase = "apply" /\ o \in todo /\ seen[o] # None /\ fetched[o] = Unread
  /\ IF hash[o] = None
       THEN todo' = todo \ {o} /\ UNCHANGED fetched
       ELSE fetched' = [fetched EXCEPT ![o] = hash[o]] /\ UNCHANGED todo
  /\ UNCHANGED <<path, redis, table, phase, seen, readers, inbox, writers, breaks>>

\* The row that a statement of ApplyDelta leaves.
Applied(o) == IF seen[o] = None THEN None ELSE fetched[o]

\* A statement is executed: it stores the checksum of the first read with the
\* entity of the second (SetChecksums).
ApplyChange(o) ==
  /\ phase = "apply" /\ o \in todo
  /\ seen[o] # None => fetched[o] # Unread
  /\ row' = [row EXCEPT ![o] = Applied(o)]
  /\ checksum' = [checksum EXCEPT ![o] = seen[o]]
  /\ todo' = todo \ {o}
  /\ UNCHANGED <<path, redis, phase, seen, fetched, readers, inbox, writers, breaks>>

\* The wait group releases the runtime updates.
EndInitialSync ==
  /\ phase = "apply" /\ todo = {}
  /\ phase' = "runtime" /\ stream' = Cleared
  /\ UNCHANGED <<path, hash, sent, table, initial, readers, inbox, writers, breaks>>

-------------------------------------------------------------------------------
(* Runtime updates.                                                            *)

NotDispatched(r) == {id \in stream : id > position[r]}

\* Mutant: nothing is serialized.
Serialized_Never == FALSE

\* !opts.allowParallel
Serialized == path = "config"

\* Whether an xRead can send a message to structifyStream.  With a serializer
\* the channel is unbuffered, so that structifyStream has to be idle; otherwise
\* it holds one message and as many are in the channel as one XREAD returns.
Receives(r) ==
  IF Serialized \/ r = "callback"
    THEN inbox[r] = <<>> /\ (r = "db" => ~waiting)
    ELSE Len(inbox[r]) <= Capacity

\* xRead sends the next message to structifyStream.  What XREAD returned before
\* is the same as what is in the stream: only acknowledged messages leave it.
Dispatch(r) ==
  /\ phase = "runtime" /\ r \in Active
  /\ acked[r] = position[r] /\ Receives(r)
  /\ \E id \in NotDispatched(r) :
       /\ \A other \in NotDispatched(r) : id <= other
       /\ position' = [position EXCEPT ![r] = id]
       /\ inbox' = [inbox EXCEPT ![r] = Append(@, id)]
  /\ UNCHANGED <<path, redis, table, phase, initial, acked, writers, breaks>>

\* It acknowledges the message to XDelOnAllConsumersAck.
Acknowledge(r) ==
  /\ acked[r] # position[r]
  /\ acked' = [acked EXCEPT ![r] = position[r]]
  /\ UNCHANGED <<path, redis, table, phase, initial, position, inbox, writers, breaks>>

\* Mutant: one acknowledgement is enough.
AllAcked_Any(id) == \E r \in Active : acked[r] >= id

\* Acknowledged by all consumers.
AllAcked(id) == \A r \in Active : acked[r] >= id

\* XDEL
DeleteMessage(id) ==
  /\ id \in stream /\ AllAcked(id)
  /\ stream' = stream \ {id}
  /\ UNCHANGED <<path, hash, sent, table, phase, initial, readers, inbox,
                 writers, breaks>>

\* structifyStream passes a message on and waits for the serializer channel,
\* which is closed for types that are not serialized.
Structify ==
  /\ inbox["db"] # <<>> /\ ~waiting
  /\ LET id == Head(inbox["db"])
     IN  IF sent[id].op = "upsert"
           THEN /\ Len(upserts) < Capacity
                /\ upserts' = Append(upserts, id)
                /\ UNCHANGED deletes
           ELSE /\ deletes' = deletes \cup {id}
                /\ UNCHANGED upserts
  /\ waiting' = Serialized
  /\ inbox' = [inbox EXCEPT !["db"] = Tail(@)]
  /\ UNCHANGED <<path, redis, table, phase, initial, readers, breaks>>

\* A bulk of NamedBulkExec: SplitOnDupId lets no object occur twice in it, the
\* semaphore of 1 executes the bulks in order.
Upsert(n) ==
  /\ n \in 1..Len(upserts)
  /\ \A i, j \in 1..n :
       sent[upserts[i]].object = sent[upserts[j]].object => i = j
  /\ LET Bulk == {upserts[i] : i \in 1..n}
         After(map) == [o \in Object |->
           IF \E id \in Bulk : sent[id].object = o
             THEN CHOOSE id \in Bulk : sent[id].object = o ELSE map[o]]
     IN  row' = After(row) /\ checksum' = After(checksum)
  /\ upserts' = SubSeq(upserts, n + 1, Len(upserts))
  /\ waiting' = FALSE
  /\ UNCHANGED <<path, redis, phase, initial, readers, inbox, deletes, breaks>>

\* Mutant: only upserts report to the serializer channel.
WaitingAfterDelete_Still == waiting

\* OnSuccessSendTo(serializerCh)
WaitingAfterDelete == FALSE

\* BulkExec deletes concurrently, in any order.
Delete(id) ==
  /\ id \in deletes
  /\ row' = [row EXCEPT ![sent[id].object] = None]
  /\ checksum' = [checksum EXCEPT ![sent[id].object] = None]
  /\ deletes' = deletes \ {id}
  /\ waiting' = WaitingAfterDelete
  /\ UNCHANGED <<path, redis, phase, initial, readers, inbox, upserts, breaks>>

\* The callback of an upsert has returned, or a delete was only consumed.
Submit ==
  /\ inbox["callback"] # <<>>
  /\ inbox' = [inbox EXCEPT !["callback"] = Tail(@)]
  /\ UNCHANGED <<path, redis, table, phase, initial, readers, writers, breaks>>

-------------------------------------------------------------------------------

\* The term ends with a handover, a crash or a new dump, wherever it is, and
\* another one begins.
Break ==
  /\ breaks < MaxBreak
  /\ breaks' = breaks + 1
  /\ phase' = "clear"
  /\ seen' = Nothing /\ todo' = {} /\ fetched' = Nothing
  /\ position' = [r \in Reader |-> 0] /\ acked' = position'
  /\ inbox' = [r \in Reader |-> <<>>]
  /\ waiting' = FALSE /\ upserts' = <<>> /\ deletes' = {}
  /\ UNCHANGED <<path, redis, table>>

InitialSync ==
  \/ ClearStreams \/ CalculateDelta \/ EndInitialSync
  \/ \E o \in Object : ScanChecksum(o) \/ FetchEntity(o) \/ ApplyChange(o)
Read(r)  == Dispatch(r) \/ Acknowledge(r)
Upserter == \E n \in 1..Len(upserts) : Upsert(n)
Deleter  == \E id \in deletes : Delete(id)
Cleaner  == \E id \in stream : DeleteMessage(id)

Next ==
  \/ \E o \in Object, op \in {"upsert", "delete"} : Change(o, op)
  \/ InitialSync \/ Structify \/ Upserter \/ Deleter \/ Submit \/ Cleaner
  \/ \E r \in Reader : Read(r)
  \/ Break

Spec == Init /\ [][Next]_vars

\* Redis and the database answer, all goroutines are scheduled.
FairSpec ==
  /\ Spec
  /\ WF_vars(InitialSync) /\ WF_vars(Structify) /\ WF_vars(Upserter)
  /\ WF_vars(Deleter) /\ WF_vars(Submit) /\ WF_vars(Cleaner)
  /\ \A r \in Reader : WF_vars(Read(r))

-------------------------------------------------------------------------------
(* Properties.                                                                 *)

\* Messages that have been sent in this term and are not executed.
Pending ==
  NotDispatched("db") \cup ToSet(inbox["db"]) \cup ToSet(upserts) \cup deletes

\* States are upserted and deleted by goroutines that are not synchronized:
\* nothing is promised of an object that is also deleted.
Ordered(o) ==
  path = "config" \/ \A id \in Id : sent[id].object = o => sent[id].op = "upsert"

\* Once the runtime updates run, whatever the table lacks of an object is in a
\* message still to be executed: no update is lost between the two reads of the
\* initial sync, the cleared stream and the messages deleted from it.
NoUpdateMissing ==
  phase = "runtime" =>
    \A o \in Object :
      Ordered(o) /\ row[o] # hash[o] =>
        \E id \in Pending : sent[id].object = o /\ Says(id) = hash[o]

\* A message leaves the stream only when each of its readers has got it; one
\* that was sent before the term began is not in the stream at all.
DeletedIsDispatched ==
  [][\A id \in stream \ stream' :
       phase # "clear" => \A r \in Active : position[r] >= id]_vars

\* Every message is dispatched, executed and deleted in the end: no goroutine
\* waits for another one forever.
StreamDrains ==
  \A id \in 1..MaxUpdates :
    id \in stream ~> id \notin stream \cup Pending \cup ToSet(inbox["callback"])

\* The table ends up with what Redis holds, whatever changed during the initial
\* sync and wherever terms were interrupted.
TableFollowsRedis ==
  <>[](\A o \in Object : Ordered(o) => row[o] = hash[o])
=================================================================================
