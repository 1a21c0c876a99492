# Icinga DB in TLA+

TLA+ specifications of the concurrent core of Icinga DB, written from its Go
sources: which process of a high-availability pair is responsible, how history
gets from Redis into the database, how the database is made equal to Redis after
a configuration dump and kept so by runtime updates, how overdue objects are
flagged, how old history is deleted, how Icinga Notifications is kept in line with
the states, and how the history of an IDO is migrated. TLC checks the
specifications on small instances, TLAPS proves the most important properties for
instances of every size. `PROJECT.json` maps every definition to the lines of
source it stands for, every run to its properties, every hazard to the properties
that would catch it, and every property to a mutant of the code it detects.

All paths below are relative to the root of the repository.

## The system

Icinga 2 monitors and writes what it finds into a Redis of its own. Icinga DB
(`cmd/icingadb`) reads that Redis and writes a relational database, which two
Icinga DB processes of an HA setup share. Its parts:

| Component | Source | State | Operations | Talks to |
|---|---|---|---|---|
| High availability | `pkg/icingadb/ha.go` | `responsible`, `environmentId`, published state; its row in `icingadb_instance` | controller loop: realize a heartbeat, hand over, take over, clean up old rows, Close | heartbeat (events), main (takeover/handover channels), the other process (table), notifications client (health) |
| Heartbeat | `pkg/icingaredis/heartbeat.go` | `active`, `lastReceivedMs`, `lastMessageMs`, one-slot `events` | receive, expire, replace an undelivered event | Redis stream `icinga:stats`, HA |
| Main loop | `cmd/icingadb/main.go` | `hactx`, `synctx`, wait groups | take over, start all syncs, start over on a new dump, hand over, exit | everything |
| Dump signals | `pkg/icingadb/dump_signals.go` | `doneCh`, `allDoneCh`, `inProgressCh` | Listen, Done, InProgress | Redis stream `icinga:dump`, initial sync, main |
| Initial sync | `pkg/icingadb/sync.go` | none beyond goroutines | SyncAfterDump, Sync, ApplyDelta, SyncCustomvars | dump signals, delta, database |
| Delta | `pkg/icingadb/delta.go` | `Create`, `Update`, `Delete`, snapshot | run, Wait | two channels of entities |
| Runtime updates | `pkg/icingadb/runtime_updates.go` | read position, serializer channels | ClearStreams, Sync, xRead, structifyStream | Redis streams `icinga:runtime*`, database, notifications client |
| Overdue sync | `pkg/icingadb/overdue/` | Redis set `icingadb:overdue:*` | initSync, sync every 2 s, updateOverdue | `icinga:nextupdate:*`, state tables |
| History sync | `pkg/icingadb/history/sync.go` | read position, state map of each stage | six pipelines of stages: read, upsert, count, delete | Redis streams `icinga:history:stream:*`, history tables |
| History retention | `pkg/icingadb/cleanup.go`, `history/retention.go` | none | periodic bounded DELETEs | history tables |
| Notifications client | `pkg/notifications/notifications.go`, `fetch.go` | open incidents, rules, submission state | Submit, ApplyDelta, SyncCheckOutputs, heartbeat to HA | Icinga Notifications, runtime updates, initial sync, history sync |
| Stream sorter | `pkg/notifications/sorter.go` | heap of submissions, output queues | submit, verify order, emit after a delay | history pipelines |
| Telemetry | `pkg/icingaredis/telemetry/` | counters, last error | periodic writes of HA state and statistics | Redis |
| Data model | `pkg/icingadb/v1/`, `pkg/common`, `pkg/contracts` | none | structures, conversion, upsert clauses | all syncs |
| Schema, config, start-up | `pkg/icingadb/schema.go`, `internal/` | none | run once, fail or not | database |
| IDO migration | `cmd/icingadb-migrate/` | SQLite progress cache | convert the history of the IDO, resume | two databases |

### What is hard about it, and what makes each part correct

* **High availability.** Two processes agree only through a table. A claim is
  revoked by time (`peerTimeout`), not by its holder, and a holder learns late
  that it has lost: it may be inside a transaction, a query, or waiting for a
  reply that got lost. Correct means: never two responsible processes while the
  environment is healthy, the table never contradicts a responsible process,
  silence releases responsibility, and somebody takes it up again.
* **Heartbeat.** One slot between two goroutines: a loss may overwrite a beat and
  the reverse, while the consumer is busy with an older one. Its properties are
  those of HA.
* **History sync.** Three goroutines and four channels per stage, in which an
  event becomes any number of rows written in concurrent bulks. The event leaves
  Redis at the end, so any premature forwarding loses history; any blocked
  goroutine hides an error from `main`. After a crash everything still in Redis
  is processed again, and the other process writes the same rows.
* **Delta.** Two channels deliver in any interleaving. Correct means: applying
  the delta yields Redis, and concurrent statements never meet in a row.
* **Dump signals and initial sync.** Icinga 2 may start to rewrite Redis at any
  moment; the signal arrives late. Done signals may be handled before anybody
  waits for them. Correct means that no mixture of two dumps survives.
* **Overdue sync.** Two stores (a column, a Redis set) are updated one after the
  other by two goroutines, with interruptions between them and a set on the other
  node that knows nothing of it. Correct means: what is late is flagged, what is
  not is not, and no flag is forgotten.
* **Main loop.** A handover cancels and does not wait; a term of responsibility
  may begin while statements of the last one are still being executed.
* **Runtime updates.** Two goroutines per type and two readers of one stream; an
  update must not be overtaken by an older one of the same object, and a message
  is deleted from the stream when every reader has dispatched it.
* **History retention.** Deletes rows, and with them by cascade what refers to
  them, while pipelines of two nodes write rows that refer to the same ones. Correct
  means: batches leave no rest, and a pipeline that meets a missing parent starts
  over without losing anything but what was to be deleted.
* **Notifications client.** A hook compares incidents, read once and shared by the
  workers of several types and terms, with states fetched after the delta was
  calculated. Correct means: no incident of an existing problem is closed, and
  undisturbed the incidents follow the states.
* **Stream sorter.** One worker orders what several pipelines submit, waits for
  a callback that may fail for long, and owns outputs that others close. Correct
  means: order up to the delay, forwarding after the callback, each output closed
  once and last.
* **IDO migration.** May be interrupted anywhere and run again on a database that
  has grown, with caches and progress that are saved at other times than rows.
  Correct means: nothing is skipped or written over, caches tell what all the rows
  would, and it finishes.

## Modules

| Module | Models | Checked with | Proved in |
|---|---|---|---|
| `HA` | controller loop, realize, heartbeat and instance table of every process | `MC_HA` | `HA_proof` |
| `StageContract` | what a history stage promises its neighbours (abstract) | as a property of `HistoryStage` | `HistoryStage_proof` |
| `HistoryStage` | one stage: reader, upserter, forwarder, channels, state map | `MC_HistoryStage` | `HistoryStage_proof` |
| `HistoryTail` | on top of it: `countElementStage`, `deleteFromRedis` and the errgroup of `Sync` | `MC_HistoryStage` | `HistoryStage_proof` |
| `HistoryPipeline` | a whole pipeline on every node, tables shared, crashes | `MC_HistoryPipeline` | `HistoryPipeline_proof` |
| `HistoryTables` | on top of it: rows shared by events, foreign keys, retention | `MC_HistoryPipeline` | `HistoryPipeline_proof` |
| `Delta` | the calculation of the delta of one type | `MC_Notifications` | `Notifications_proof` |
| `Notifications` | on top of it: the hook ApplyDelta, Submit of states, the shared incidents | `MC_Notifications` | `Notifications_proof` |
| `DumpSync` | Icinga 2's dumps, DumpSignals, SyncAfterDump, main's restart loop | `MC_Syncs` | `Syncs_proof` |
| `RuntimeUpdates` | one type from Redis to its table: both reads of the initial sync, the streams, both paths of runtime updates | `MC_RuntimeUpdates` | `RuntimeUpdates_proof` |
| `Overdue` | overdue sync, the set and the column, rows inserted by other syncs | `MC_Syncs`, `MC_Overdue` | `Syncs_proof` |
| `StreamSorter` | worker, callback and every PipelineFunc of a sorter | `MC_StreamSorter` | `StreamSorter_proof` |
| `IdoConvert` | what rows of the IDO become in each type's tables | with `IdoMigration` | `IdoMigration_proof` |
| `IdoMigration` | ID ranges, caches, slices and progress of a migration, interrupted and resumed | `MC_IdoMigration` | `IdoMigration_proof` |

Definitions whose names have a suffix (`Expired_AtTimeout`) are mutants: a
plausible bug in the code that the definition after it translates. No
specification uses them; each is what some property is able to detect.

### HA

An `Instance` is one process *incarnation*: `NewHA` draws a new UUID, so a
restart is another element of `Instance` with the same `Endpoint`. Go's state
maps to the variables directly (`responsible`, `other` = `haState.otherResponsible`,
`active`, `event` = the `events` channel, `row`/`rowAge` = `icingadb_instance`).
Times are *ages* that saturate just above `PeerTimeout`, because nothing in the
code distinguishes older ones; `Tick` is only possible when no timer is due and
no process is in the middle of a step that takes no time (`Due`). Database
operations do take time: `Tick` may interleave with them up to their deadline.

A transaction of `realize` is one step. It runs serializable and locks what it
reads (`FOR UPDATE`); what follows the commit is a step of its own (`Signal`), so
other processes act on the row before `h.responsible` changes. A commit of which
the process does not learn is `RealizeUnseen`: it is followed by a retry or by the
deadline. When two rows claim responsibility the SELECT, which has no ORDER BY,
returns either (`Decisions`).

The environment is restricted by two constants: how old a message can be on
arrival (`MaxLag`) and how long the stream may pause without being lost
(`MaxGap`). `Margin` relates them to the timeouts: it is the assumption under
which the code's "short grace period" (`ha.go:29-33`) suffices, and the "healthy
environment" `doc/05-Distributed-Setups.md` refers to. Without it, split brain is
possible by design, so `ha_live` checks that it is resolved.

No bound is set on how long the database takes. The COUNT in
`verifyNotificationsState` has no deadline (`ha.go:541-549`): at `pc` = "verify"
any time may pass. A process whose beat expires meanwhile (`Stalled`) is still
responsible in its own eyes, and the other one may take over. The safety
properties except such a process by name, and only it: `SilenceReleases` says
that a process that outlasts a silence is in this query, with an expired beat.

### StageContract, HistoryStage, HistoryTail, HistoryPipeline

`HistoryStage` is one `writeMultiEntityStage` with the goroutines of its errgroup.
Channels are sets, as concurrent bulks preserve no order. `Skip` is the
synchronous send on `skipped` which has no alternative; every other send is in a
select with the context. `UpsertStreamed`, from icinga-go-library, is modelled as
the stage relies on it: it collects bulks, executes them in any order, reports
each row after its execution and returns on an error, on a done context, or when
everything has been reported. `writeOneEntityStage` is the instance in which each
event has one row or none.

`HistoryTail` puts a stage at the end of its pipeline. The counter's sends to
com.Bulk have no alternative either (`Collect`), com.Bulk gives up only with the
context that all pipelines share, and that is cancelled only by what has returned
an error (`HasError`): a stage when all its goroutines have, the stage before,
which has closed its output by then, or a failing XDEL. What goes wrong elsewhere
cancels it as well (`PipelineStops`). `Stuck` are the two states that are left
for ever.

`HistoryPipeline` composes stages by their contract: a stage holds events,
writes them in any order and forwards what it has written. Two nodes with a Redis
each upsert the same rows (their IDs are derived from the event). A crash loses
what is in memory and reading restarts at `0-0` (`Reset`).

### HistoryTables

Extends `HistoryPipeline` by what its tables hold. The event that begins and the
one that ends a comment, downtime, flapping interval or acknowledgement share the
row of an object in the first table (`row`) and have a row each in those that refer
to it (`child`). `Upserted` is the effect of the `Upserter` of each type in
`v1/history`: the columns of the event that is written now win. A row whose parent
is missing is `Refused`: the error is not retryable, the stage and the process end,
and what is in Redis is read again. `StartCleanup`, `DeleteRows` and
`CancelCleanup` are `Retention.Start` and the loop of `CleanupOlderThan`, one
DELETE with its cascade per step. `Category` and `Options` decide whether retention
applies at all and whether an open row has a time already (a downtime's `end_time`).
`overtaken` records objects whose end some node wrote before their beginning,
`taken` the rows that a DELETE really took and no node has written again: a row of
a written event may be missing for no other reason.

### Delta

One action per case of the select in `Delta.run`. An entity is what
`entitiesEqual` compares. `comparable` is `update # nil`, chosen at the beginning,
as it depends on the type. `Applied` is the effect of `ApplyDelta`.

### Notifications

Extends `Delta` by the hook a state type's sync runs with its delta. `incident` is
what Icinga Notifications has, `cache` is `incidentsByObjId`, which the worker of
the other state type may have filled (`OtherFetches`) and the last worker of an
older term may clear at any moment (`OldTermClears`), as `main.go` does not wait
for it; then the other worker may fetch again, until the hook has ended. A fetch
may fail after any part of the incidents. Entities are fetched again from Redis
and may by then have any state of `State` or be gone (`Vanish`). `Submit` is
`buildStateEvent` with its reasons to ignore a state and the effect of the event;
its request and the one that closes incidents may fail. `undisturbed` is FALSE
once a request has failed or the cache was cleared. The return without any
incident (`NoIncidents`) is neither: no state is looked at there, so
`IncidentsFollowStates` demands nothing of them, and `ChangesSubmitted` is what the comment of ApplyDelta
promises there. `seen` is what the hook found of each object, Nil if it was gone.

### DumpSync

A dump has a number; `data[k]` is the dump that Redis holds completely of a type,
or 0 while it is being rewritten. Icinga 2 is not part of the repository and is
modelled as the comments and code of `dump_signals.go` need it. Each worker of
`SyncAfterDump` is a state machine: ask for the channel, wait, read, and execute
its statements in two steps, between which it may die. `StartOver` is the loop in
`main.go`, after all goroutines of the cancelled sync have returned. A `Handover`
cancels the term as well; that the next one need not wait for its goroutines is
left to the plan. The stream, and what an XREAD has returned (`batch`), are sets of
signals, of which Listen takes the one with the least ID: a Redis stream is ordered
by its IDs.

### RuntimeUpdates

Icinga 2 changes a type's hashes and announces it in the stream in one
transaction, at any time (`Change`). A content is named by the ID of the message
that announces it, so `Says` and `hash` can be compared. The term of
responsibility goes through `phase`: the streams are cleared, the checksums are
scanned object by object while changes go on, the delta is taken (`Delta` shows
that it is what differs), entities are fetched a second time, and each statement
stores the fetched entity with the scanned checksum. Then `xRead` (one per
reader), `structifyStream` and the two executing goroutines run concurrently.
`path` distinguishes the two calls of `RuntimeUpdates.Sync` in `main.go`:
configuration is serialized by `serializerCh` (`waiting`), states are not and have
a second reader for the notifications client. What XREAD has returned and `xRead`
not yet dispatched is not kept apart from the stream: entries never change and
leave it only by the acknowledgements of the same reader. `Break` ends a term
anywhere.

### Overdue

The get_overdues.lua script is atomic. Flagging and clearing of one tick are
concurrent, each executes its UPDATEs in bulks of any size and then changes the
set. A `Restart` is a new term of responsibility, on this node or the other, whose
set may hold anything. `InsertRow` is the initial state sync or a runtime update.
The specification is `OverdueSpec`, its initial state `OverdueInit` and so on, so
that one module can prove theorems about it and about `DumpSync`.

### StreamSorter

One action per case of the worker's select, per step of `PipelineFunc` and for the
goroutine of `startCallback`. Unbuffered sends to the worker are rendezvous in
which the worker is in its select. A submission ages up to `MinAge`, its sender
gives up after `Patience`. The context of the sync is a child of the sorter's.
`main.go` has the sorter disabled at present (lines 191-195); the module models
the package as it is called by its tests and by the pipelines otherwise.

### IdoConvert, IdoMigration

`IdoConvert` holds the conversions as operators from a slice of IDO rows to stages
of rows with their primary keys, references and the columns that properties are
about. `IdoMigration` runs them: `IdRange` in a snapshot, the cache filled row by
row with commits anywhere (`file` is what is committed), slices of `Bulk` rows,
rows of a stage written in any order, the progress saved by a statement of its
own, and the clean-up of the cache file. `Crash` loses all but files and tables,
`Grow` gives the IDO more rows. The types share no data and are an initial choice.

## Runs

| Run | Bounds | Shows |
|---|---|---|
| `ha_safety` | 2 incarnations at one endpoint, `Timeout` 1, `PeerTimeout` 3, `MaxLag` = `MaxGap` = 1 (Margin holds with equality) | exclusive responsibility, valid lease and release on silence except in a hanging instanceCount, no revocation of a fresh claim |
| `ha_live` | 2 nodes, no grace period, lags and gaps beyond it, one node that may crash | again and again exactly one is responsible, although claims expire under their holders and split brain occurs |
| `stage_faults` | 3 events with 2, 1 and 0 rows, buffer of 1, failures anywhere | contract, pending counter, deleted only when written, every event deleted, any failure ends everything unless a send is stuck |
| `stage_hang` | the same | violation: a stage that skips may never return after a cancellation |
| `pipeline_ha` | 2 nodes, the 2 events of an object and an older row, 2 tables, buffer of 1, one crash each, batches of 1, one deletion | nothing lost, foreign keys, an end stays an end unless overtaken, clean-up complete, only deleted rows missing, everything synced |
| `delta` | 2 IDs and one of the other type, 2 checksums, all contents, all incidents, 8 states, symmetry | delta correct and minimal; no wrong incident closed, incidents follow states if there are any |
| `no_incidents` | the same | violation: without any incident nothing is submitted, whatever has changed |
| `syncs` | 2 types, 2 dumps, one handover or crash; or 3 objects, one without a row, one takeover | complete dumps only, finished means current, last dump wins; flags known, set mirrors column, existing objects settle |
| `runtime` | 2 objects in all initial states, 2 updates, buffers of 2, both paths, one interruption | no update missing, both readers served, stream drained, table follows Redis |
| `sorter` | 2 pipelines with up to 2 messages, `MinAge` 2, `Patience` 1, both contexts cancelled anywhere | order up to the delay, forwarded after the callback, closed once and last, everything forwarded, returns unless blocked |
| `migrate` | 5 types with all contents of 2 to 4 rows, slices of 2, range from the second row, one crash | foreign keys, nothing skipped or rewritten, the exact previous states and starts of what is there, ends agree, everything migrated |
| `overdue_inserted` | 3 objects, two without a row | violation: an object late before its row exists is never flagged |

`MC_Syncs` runs `DumpSync` or `Overdue`, chosen at the beginning, while the other
rests: they share no state, so their product would show nothing more.

Why the bounds are enough. Two processes are all an HA setup has; `ha_safety`
uses one endpoint for both since then each may also remove the other's row, and
every other step is the same as with two endpoints. With `Timeout` 1 there is one
tick within and one beyond each limit, and every delay allowed occurs at its
limit. A stage treats events alike but for their number of rows, so one event of
each kind covers the combinations; a buffer of 1 makes the reader block. In a
pipeline two events can overtake each other, two tables have one foreign key, and
two nodes with a crash each write the same row up to four times. One object whose
beginning and end are events of the run and one that is only there to be deleted
let retention hit between any two writes: its DELETE takes the row of the first
before, between or after the writes of its events, and a refused event that was
skipped instead of done again is found (the mutant of `OnlyDeletedRowsMissing`); the category "downtime", whose rows are
old before they have ended, was checked as well with the same result (1.9 million
states). IDs in a delta are independent of each other: two of them differ in
everything, and `Notifications_proof` holds for any number.
The states of the hook are those its branches distinguish. In the sorter, two
pipelines with equal, adjacent and reversed IDs and an age of two ticks contain
every order in which a message can be late. In a migration, four rows are two
slices with a last full one, and hold an interval that begins before the range,
two objects, and hard states that repeat; two rows suffice where rows are
independent of each other.
One new dump in the middle of another is what invalidates a sync; a third would
repeat it. Two runtime updates are an upsert and a deletion of one object in
either order, two upserts that a bulk must not contain together, or two that it
may, each of them before, between and after the reads of the initial sync; one
object with three updates and two interruptions was checked as well, with
the same result. Their buffers of two are never full with two updates, so back
pressure is only in the theorems, which hold for any capacity. A message of the
sorter is late, in `OrderedUnlessLate`, if the worker accepted it late, however
early its pipeline received it. Where theorems exist, they remove the bounds altogether.

The runs check what could be wrong in the code. Type invariants, and the
invariants `PublishedStateConsistent` of `HA`, `StateMapTracksEntities` of
`HistoryStage`, `TablesTypeOK` of `HistoryTables`, `SnapshotComplete` of `Delta`
and `HookTypeOK` of `Notifications` are theorems instead, and hold in the runs'
instances like in all others.

`CHECK_DEADLOCK FALSE` is set where a system comes to rest: all incarnations are
gone (`HA`), the bounded number of events, dumps, or crashes is used up and
everything is done, or the stage has returned.

### Fairness

* `ha_live`: time passes; a process that may start does; the loop, its timers and
  `realizeLostHeartbeat` are scheduled (weak fairness): they are goroutines
  without locks and selects with a ready case. For the process that never crashes
  beats keep coming, and a database it asks again and again answers in time again
  and again (strong fairness, since a deadline or the loss of the stream disables
  each of these steps in between): the assumption that Icinga 2, Redis and the
  database work at all. Of the other process nothing is assumed but that it does
  not commit takeovers forever without ever learning of one: it would renew its
  claim each time and nobody would ever be responsible. That instanceCount returns
  is part of the loop's fairness but not used: nobody checks notifications there. Crashes and lost replies
  need no fairness: they may happen or not.
* `HistoryTail`: each goroutine is scheduled, database and Redis answer, and a stage
  before that has closed its output returns its error. Failures are not fair.
* `HistoryPipeline`, `DumpSync`, `RuntimeUpdates`, `Overdue`: weak fairness of the process as a
  whole, or of each of its goroutines; Icinga 2 completes the dump it is doing but
  need not start another. After a handover a process takes over in the end
  (`ha_live`). `HistoryTables` keeps the fairness of each node's process; retention
  needs none.
* `StreamSorter`: the program as a whole goes on, which includes time and that a
  callback that is tried again and again succeeds at last. It cannot take
  infinitely many steps, so this is as much as fairness of each goroutine. Stops
  are not fair.
* `IdoMigration`: the process goes on, and an administrator runs it again after an
  interruption, as its documentation demands.

### Disagreements found

Three runs are expected to fail. Each shows a disagreement between what the code
does and what a comment or the documentation says; `findings` in `PROJECT.json`
quotes both sides.

1. `stage_hang`: `skipped <- e` (`history/sync.go:243`) blocks for good if the
   forwarder has returned because of a cancelled context. The stage never
   returns, so the error that cancelled it never reaches `main`, which goes on
   without a history sync. The send of `countElementStage` (`:394`) does the same
   when com.Bulk has stopped: the other half of `Stuck` in `HistoryTail`.
2. `overdue_inserted`: an UPDATE that matches no row still counts as flagged
   (`overdue/sync.go:232`). The row, inserted later by the concurrent state sync,
   stays unflagged for the rest of the term.
3. `no_incidents`: the hook returns without submitting anything if there are no
   incidents (`notifications.go:158`), although the API works. A first problem that
   arose while no process was responsible is not reported until its next change,
   against the comment in lines 133-135.

Others are visible in the modules, where a property names the case it excepts, and
have no run of their own:

* `instanceCount` (`ha.go:544`) has no deadline: while it hangs, the controller
  does not handle a lost heartbeat and the process stays responsible through the
  silence, against `doc/05-Distributed-Setups.md:53-54`. TLC finds that state, with
  the other process responsible too in the end: `Stalled`, `SilenceReleases`.
* The hook fails on a PENDING state with an incident (`notifications.go:861`), where
  the comment in lines 137-139 names other errors only: `hook = "failed"`. A soft
  state whose hard state differs from the incident's is not submitted either
  (`:502`).
* A term of responsibility that ends late clears the incidents of the next one
  (`main.go:396-409`): `OldTermClears`.
* If a node writes the end of an object before its beginning, the upsert of the
  beginning opens the row again: `overtaken`.
* The sorter's send to the next stage has no alternative (`sorter.go:312`):
  `Blocked`. While it is being stopped a message may be forwarded whose callback
  has not succeeded (`:194`). A message whose callback always fails holds up all
  pipelines (`:198`).
* In a migration, the start of an interval may be attributed to an end that was an
  orphan before an interruption (`cache.go:41`): `CacheTrusted`. The cached
  previous hard state is not capped like the row's own (`convert.go`,
  `convertStateRows`). A comment that has neither ended nor expires and precedes
  all that do is not migrated, as it does not count for `fromId`
  (`main.go:262`): `NothingSkipped` and `AllMigrated` only speak of the range.

## Proofs

`tlapm` checks every theorem to the last leaf. No fact is assumed but the named
assumptions on the constants, which TLC evaluates as well.

* **`HA_proof`**: type correctness and that published states are consistent, and
  under `Margin` exclusive responsibility, the lease, release on silence, and that
  only expired claims are revoked - for any number of processes and any timeouts.
  Nothing is assumed of the time that queries take; a process that hangs in
  instanceCount beyond the expiry of its beat is the exception each statement names.
  `ExclusiveResponsibility` follows from `LeaseHeld`, which is not inductive: it
  needs to know how old the row of a holder can be at each point of the loop
  (`FreshInv`), which depends on how old the beat being realized is (`LoopInv`) and
  on what the heartbeat signal guarantees of an active stream (`BeatInv`).
  `OneClaim` says that at most one row claims responsibility even if nobody holds
  it.
* **`HistoryStage_proof`**: the counter equals the entries in the map, the map holds
  exactly what is on its way, and the stage implements `StageContract` with all of
  its failures. The strengthening says where the rows of an event can be: those in
  the state map are unwritten or unreported, an event about to be sent has none
  there. A stage with its counter and deletion behind it is a stage (`TailIsStage`),
  so all of this holds for the end of a pipeline too, and only what is written is
  deleted from Redis (`Deletion`): what the counter, com.Bulk and deletion hold has
  left the stage complete.
* **`HistoryPipeline_proof`**: `NothingLost` and `DependenciesFirst` for any number
  of nodes, stages, events and crashes, of pipelines on their own and of those
  with tables: every step with tables is a step without or a reset (`TablesStep`).
  The strengthening says of each place in a process which tables are written for
  the events in it. For any tables, foreign keys hold (`TablesCorrect`) and a
  clean-up leaves no rest (`Cleanup`): what it still has to delete matches its
  statement (`CleanupInv`), so a batch that is not full contains it. That an end
  stays an end (`Ended`) needs more than what is in the tables: `PlacesInv` says
  that an event is read once in the life of a process and is in one place, in Redis
  until the first stage has written it, and `EndPending` that an open row which was
  not overtaken has a node that still has to write each of its ends. Rows of written
  events that are missing (`Missing`) are those a DELETE took (`RowsInv`).
* **`Notifications_proof`**: the delta is correct and minimal and its snapshot
  complete for any set of IDs and values. The strengthening determines the map an
  ID is in by what both channels have delivered so far. For any objects, states
  and incidents, the hook closes no incident of an existing problem whatever the
  cache holds (`Closing`), and one whose requests succeed and whose cache is not
  cleared leaves the incidents in line with Redis if there were any (`Follow`). It
  stands on the invariant of the delta, which the hook does not touch
  (`DeltaUnderHook`). The strengthening follows each object through the hook
  (`Progress`): its incident is as it was fetched until it is handled, and as its
  state demands afterwards; while it runs undisturbed its cache is there (`Kept`).
  That nil is neither an incident, a state nor a map is the assumption on `None`
  and `Nil`.
* **`Syncs_proof`**: of the dump signals, for any types, dumps and breaks, nobody is released on an
  incomplete dump (`ReleasedComplete`), and a finished sync has left behind what
  Redis holds (`FinishedCurrent`). Neither is inductive: what was announced of a dump
  is complete (`AnnounceInv`), the stream only speaks of the current one and begins
  with its wip (`StreamInv`), Listen skips nothing (`BatchInv`); so either a wip is
  still to be handled or every channel that is closed, and every copy made since, is
  of the current dump (`RightInv`).
  Of the overdue sync, for any objects and terms: every flag is known to the set
  (`FlagsKnown`), and the set mirrors the column of the objects with a row
  (`SetMirrorsColumn`). The strengthening says how far both goroutines of a tick are
  with the objects they were given, and for the mirror that an UPDATE of an object
  that has had a row matches it (`MirrorInv`).
* **`RuntimeUpdates_proof`**: for any objects, changes, capacities and interruptions
  and on both paths, no update is missing (`NoUpdateLost`), and no message is deleted
  before all consumers have got it (`Deletion`). The argument joins the two phases.
  During the initial sync, an object is either announced in the stream, with its last
  message saying what Redis has, or untouched since the streams were cleared, and
  then whatever was read of it is what Redis has (`SyncInv`). That a row left alone
  by the delta is right needs `ChecksumInv`: a row can only differ from its checksum
  where Redis has something else already, and no content returns. During the runtime
  updates the same holds of the messages to be executed and the row (`RowInv`), as
  they are executed in order (`OrderInv`): FIFO on one path, one at a time on the
  other.
* **`StreamSorter_proof`**: for any pipelines, messages and delays, callbacks are
  ordered up to messages that came late (`Ordered`), messages leave once each in
  the order of their callbacks (`Forwarded`), and each output is closed once and last
  (`ClosedOnce`). No message is in two places (`UniqueInv`, from the increasing IDs of
  each pipeline); what was started was due, and whatever precedes it in the heap came
  late (`OrderInv`); an output is registered until it is closed and counts exactly
  what is held for it (`OutputInv`), which is why the last submission can close it.
* **`IdoMigration_proof`**: for any content of the IDO, any size of slices, range of
  time, interruptions and rows that come between runs: type correctness, no row
  refers to a missing one (`Parents`), progress is never ahead of the tables (`Skipped`), the ends of
  downtimes and comments agree (`Ends`), and nothing written is rewritten
  (`Rewrites`). All five follow from one invariant (`IInv`), with these parts:
  * `RangeInv`: fromId stays what it was when the first row had ended, and toId only
    grows. Otherwise a later run could start before what an earlier one recorded,
    and the intervals that begin before fromId would change.
  * `ProgressInv`, `WrittenInv`: a slice is the first part of what is left, and the
    stages before the current one are written for all of it. So what a row refers
    to, being of an earlier stage, is there, and the recorded ID can move to the
    end of the slice.
  * `HardInv`: the cache of hard states holds the exact previous state of each
    row it calls final, while those that wait have found no other state back to
    where it is. A file that was committed anywhere can therefore be continued,
    also with more rows in the IDO, which `Limit` leaves for the next run.
  * `FlappingInv`: the cache of start times is exact for the ends so far, and knows
    for each object whether its last row is a start. A file that is continued may be
    ahead of the checkpoint derived from it, the largest ID of an end, by starts that
    are read again: what it has for an object is either what the rows so far have
    made of it (`Agrees`), or the next row of the object is a start and overwrites
    it (`Unused`). This needs `CacheTrusted`, on which the properties are
    conditional for the same reason.
  * `ContentInv`, `UpsertInv`, `SkippedInv`: what is in the tables is what the exact
    caches make of the rows, so writing a row again after an interruption changes
    nothing.

  The assumption is that the IDO's rows are rows of their type (`IdoRow`). "The exact
  caches" are defined by the first row, looking back, that decides (`Previous`,
  `Start`); that a cache built row by row arrives at them is an invariant of the
  steps, not an induction over data. The minima and maxima of `FiniteSetsExt` are
  defined with CHOOSE; `LeastOf` and `GreatestOf` say that they exist.

Only model-checked:

* Liveness under fairness: `SettlesOnOne`, `EveryEventDeleted`, `StopsUnlessStuck`,
  `EverythingSynced`, `LastDumpSynced`, `ExistingFlagged`, `StreamDrains`,
  `TableFollowsRedis`, `AllMigrated`, `EverythingForwarded` and
  `StopsUnlessBlocked`. The prover handles neither ENABLED nor fairness.
* The three properties that are expected to be violated.

Every other property of the runs, in particular every invariant, is a theorem. Recursion over data occurs in no
proof; induction principles with operator parameters are out of the prover's
reach.

## Not modelled

* The environment ID: a change of it is fatal (`ha.go:219-233`) and ends the
  process, like every crash. The nil dereference before the first beat is a hazard
  in the list.
* Other causes of one crash: any error a goroutine returns to `main` is `Fatal`.
* The second fetch of entities in `DumpSync`, which reads a type once; it is in
  `RuntimeUpdates`. Contents that recur there: if an object changes between the
  two reads, changes back, and the term is interrupted before the runtime
  updates, the row keeps the changed content under the original checksum.
* The order of upserts and deletions of one *state*: the code synchronizes neither,
  the properties except such objects (`Ordered`).
* Several types on one stream, which share its reader; custom variables and their
  flattening.
* Which columns of a row an upsert writes beyond whether the object has ended; the
  end time of a downtime's SLA row; pipelines whose events share no row.
* Statements of two overlapping terms on the same tables; only the incidents they
  share are modelled.
* Of the notifications client: events of other kinds, which are built and submitted
  like states, the negotiation of relations and rules (`fetch.go`), and
  `SyncCheckOutputs`, which neither read nor write the incidents of the hook.
* Of the migration: flags, progress bars, the hashing of names.
* Metrics, logging, the conversion of data, schema check, configuration.
* Telemetry, schema check and import, configuration and start-up: periodic output
  of state modelled elsewhere, and code that runs once and fails or not.

## Plan

In this order; a check has its cost, so what belongs together shares a run.

1. `MainLoop`: terms of responsibility on two nodes that overlap in time, on top of
   the interface HA offers (`Holder`), and the wait groups between the syncs.
2. `RuntimeUpdates`: recurring contents and several types that share a reader.
3. `Notifications`: `SyncCheckOutputs` next to the hook, and relations.
4. Proofs: the incidents of several state types in one term.
