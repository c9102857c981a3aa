# A formal model of zmem

zmem is a memory store for coding agents: a SQLite database of short memories,
a command-line program over it (`skills/memory/scripts/store.py` and
`storelib/`), hooks that hosts run at session events (`hooks/`), and a *fleet*
mode in which machines without a store of their own talk to one hub
(`hermes-plugin/server/`, `skills/memory/scripts/fleet/`).  Nearly every part is
a short-lived process, so nearly every hard question is about files and rows
that several processes read, change and replace while any of them may be killed.

These TLA+ modules model the parts where that matters; TLC checks them on small
instances and TLAPS proves the central claims for every instance.

## Inventory

| Part | Code | State | Operations | Interacts with |
|---|---|---|---|---|
| Operation queue | `fleet/opqueue.py` | one JSONL file per principal, a lock file | enqueue (dedup, age reap, size bound, append), pending, flush, mark_receipts | hooks enqueue, broker moments flush |
| Typed batch application | `storelib/ops.py`, `storelib/write.py` | `memory`, its expiry side table, `applied_ops` | apply_ops over add, update, supersede, invalidate, capture; per-op savepoints in one transaction | called by the hub and by `ops-flush --local` |
| Hub tools | `hermes-plugin/server/mcp_server.py`, `auth.py` | none of its own; a subprocess per call with a deadline | apply_ops, recall, snapshot, correction and log tools | the store, the fleet |
| Transport | `fleet/transport.py` | session, deadline executor | one call with a deadline; a late worker is abandoned, not stopped | brokers, hub |
| Broker moments | `fleet/broker.py`, `broker_cli.py` | none; log ring | relay a read, flush the queue, acknowledge a delivery | queue, transport, snapshot |
| Offline snapshot | `fleet/snapshot.py` | database, previous database, meta file, reconnect stamp, backoff marker | build, load, refresh | brokers |
| Delivery ledger | `storelib/delivery_ledger.py` | base file, segments, reservations, terminal marker, parked texts | record, delivered, compact, reap, reserve, commit, clear, end | recall, hooks |
| File locks | `host.py` | lock files holding a token | acquire, break a stale one, release | ledger, schema, backup |
| Writer leases and restore | `storelib/schema.py`, `backup.py` | lease files, maintenance lock, schema lock | open for writing, restore, cold-open migration | every writer |
| Store lifecycle | `storelib/write.py`, `rekey.py`, `promote.py` | memory rows and their lineage | add, update, supersede, re-key, pin, promote | all |
| Synchronisation | `storelib/sync.py` | exported files; rows, expiry records and the purge deny-list of each store | export, streaming ingest (plain, with tombstones, from a peer), strict ingest | two stores, purge, every writer |
| Purge, consolidation, hygiene | `purge.py`, `consolidate.py`, `hygiene.py` | rows and ledgers | purge transaction, scrub, merge clusters | store, ledger |
| Correction queue | `correction_queue.py`, `retain.py` | a JSON file per namespace, an advisory lock | append, clear, admit | capture hooks, closeout |
| Log rotation | `storelib/log_rotate.py` | active file, numbered segments, generation markers | rotate on append | every logger |
| Training capture | `storelib/training*.py` | artifacts, metadata, watermark | capture, export | hooks, ledger |
| Recall, ranking, evaluation, launchers | `recall.py`, `inject.py`, `tune.py`, `zmem-launch.js`, ... | none that outlives a call | read-only | - |

What is hard, and what makes each part correct:

* **Operation queue.** Hooks and brokers rewrite one file.  An accepted entry must
  not vanish, two replays of one event must not make two entries, a verdict must be
  final.  Kills leave half-written lines.
* **Batch application.** Calls are killed at a deadline, repeated, and overtake each
  other.  An op must change the store at most once, be answered alike every time,
  never be reported committed and then rolled back; dependencies, append-only
  history and the caller's scope must survive every mixture of ops.
* **Queue, network and hub together.** Two brokers send the same ops; the backlog
  must drain.
* **Locks and leases.** Locks that are broken when they look abandoned; a writer and a
  restore that look for each other in files.
* **Delivery ledger.** Files merged into one another while others read both: nothing shown
  may be forgotten before its time, nothing cleared may come back, an acknowledgement may
  come twice, late, or be retried.
* **Snapshot, correction queue, logs.** Files that are replaced piece by piece, with
  failures and kills in between: a label must not promise rows that are not there, a
  capture must not vanish, a rotation must not overwrite the segment it should keep.
* **Synchronisation.** Files arrive late, again and in any order, beside the store's own
  commands: what was purged or tombstoned must stay so, a file must be applied, and a
  peer must not change what it did not author.

`PROJECT.json` lists each hazard at its line, with the property that covers it.

## Plan

1. *(done)* `OpQueue`, `HubApplyOps`, their composition `FleetFlush`, and the abstract
   `ExactlyOnce` it implements: the most important promise of the fleet.
2. *(done)* `OpQueueProofs`.
3. *(done)* `HostLock` (acquire, stale break by rename, release) and `WriterLease` (leases,
   maintenance lock, restore), which everything else rests on, with `HostLockProofs` and
   `WriterLeaseProofs`.
4. *(done)* `DeliveryLedger` (segments, compactors, terminal marker) and `Reservations`.
5. *(done)* `Snapshot` (the renames of a refresh, stamp, backoff), `CorrectionQueue`, `LogRotate`,
   put together in `ClientFiles`.
6. *(done)* `StoreSync` (rows exchanged as files, with the adds, supersedes and purges they
   meet) and `StoreSyncProofs`.
7. *(done)* Proofs about the hub (`HubApplyOpsProofs`), of the refinement (`FleetFlushProofs`), of
   the client's files (`ClientFilesProofs`) and of the ledger (`DeliveryLedgerProofs`).
8. Re-keying and promotion of rows; the offline snapshot without the exception of
   refreshes that cross, should the code get a lock.

## Modules

### OpQueue: `fleet/opqueue.py`

One principal's queue file, shared by `Writers` (processes in `enqueue`) and
`Brokers` (processes in `flush`).  A line is named by its op_id; `seq` and `status`
are what is written on it; `torn` counts fragments no reader can parse and `tail`
says what follows the last newline, which is what the next append may be fused with.

| State / action | Code |
|---|---|
| `lines`, `seq`, `status`, `torn`, `tail` | the file as `_read_file` parses it |
| `lock` | `_queue_lock` (a kernel lock: it dies with its holder) |
| `EnqueueLock`, `EnqueueDedup` | lock, `_dedup_live`, last client_seq |
| `EnqueueReap`, `EnqueueRefuse`, `EnqueueAppend`, `EnqueueReturn` | `_reap_expired`; the projected size bound; the append with its fusion guard; return after the fsync |
| `FlushStart`, `FlushSend`, `FlushAnswer`, `FlushBreak` | `flush`: the unlocked reading, one call per chunk, its receipts or its failure |
| `MarkLock`, `MarkWrite` | `mark_receipts`: read and rewrite under the lock |
| `Crash`, `CrashInAppend` | death between two steps; death inside the append, which leaves a bare newline, a fragment, or a whole line without its newline |
| `Age` | the passing of the age bound, oldest line first |

`unminted`, `aged`, `acked`, `reaped` are observations: no action's guard reads
`acked` or `reaped`.

### HubApplyOps: `storelib/ops.py`, `storelib/write.py`, the tool in `mcp_server.py`

A batch runs op by op on `work`, the database as the open transaction sees it;
`CommitBatch` publishes it as `db`; `Abort` (the deadline's kill, an exception)
discards it.  Each op meets the gates in the code's order - replay (`ApplyReplay`),
dependency (`ApplyBlocked`), permission and scope (`ApplyDenied`), the identical-row
guard of adds (`ApplyFold`) - and then the write path (`ApplyAdd`, `ApplyUpdate`,
`ApplySupersede`) or its refusal (`ApplyRefused`).  Text is a member of a small set;
`Near` says which rows dedup-on-write folds a text into, `Refused` which texts the
capture policy refuses, `Splits` which texts hold a line boundary that JSON does not
escape.  `cmd` assigns an operation to each op_id and is chosen in `Init`, so one
run covers every assignment.  `OtherSupersede` is another client of the hub.
`effects` counts how often an op changed the memory table and is never read.

### FleetFlush: queue, calls and hub

`Queue == INSTANCE OpQueue`, `Hub == INSTANCE HubApplyOps`, and between them the
calls in flight.  A call can be lost, refused by the batch gate, killed at the hub,
answered after its broker gave up (`Orphan`: the hub does not learn that), or served
again.  `MaxFaults` bounds the failures of a behaviour, not where they happen.

### ExactlyOnce: what they promise

An accepted op takes effect at most once; the queue learns one verdict for it, a
success only of what took effect; it may be dropped by age.  `ImplementsExactlyOnce`
maps `accepted` to the ops that were ever written, `queued` to the lines, `applied`
to the rows of `applied_ops`, `verdict` to the statuses.

### HostLock: `scripts/host.py`

The lock file that every named lock of the store is.  One action is one system call on
the lock or on the break claim, which is where another process can get in between.  A lock
file is an *instance*: `path` is the one at the lock's path, `aside[p]` the one process `p`
renamed to a private name, `mine[p]` the one it created.  Instances are used again once
nothing refers to them, so a run covers behaviours of any length.

| State / action | Code |
|---|---|
| `path`, `aside`, `empty`, `old`, `dead` | the files, and what can be known of one: no token yet, over its age, its owner's pid is gone |
| `claim`, `claimOld`, `same` | the break claim, over its age, and whether it is still the one a process looked at |
| `Acquire`, `WriteToken`, `Stat`, `CreateAgain` | `acquire_lock`, `_try_create_lock` |
| `InspectPhantom` | `_inspect_lock_phantom` of `schema.py`, then `break_phantom_lock` |
| `CreateClaim`, `ClaimStat`, `ClaimRecheck`, `ClaimUnlink`, `Unclaim` | `_acquire_break_claim`, `_release_break_claim` |
| `Check`, `BreakRename`, `Confirm`, `PutBack` | `_break_stale_lock`, `_break_confirmed_instance`, `_rename_noreplace` |
| `ReleaseRead`, `ReleaseRename`, `ReleaseConfirm` | `release_lock` |
| `AcquireFails`, ..., `ReleaseFails`, `PutBackReplaces` | a failing system call, as each function handles it |
| `Crash`, `AgeLock`, `AgeClaim` | death, and files getting over-age, their owner dead or only slow |

`residual` records that one of the windows the comment at `host.py:790-812` documents has
opened: a live holder or breaker over its age, a claim unlinked by a second reclaimer, a
break without a claim, a put-back without hard links.  No guard reads it.  `old` stands for
both the stale age and the grace of an empty file.

### WriterLease: `storelib/schema.py`, `backup.py`, `purge.py`, the dispatch in `cli.py`

What commands, jobs, restore and purge do about each other.  `Writers` are commands of the
shared dispatch, which open and prepare the store and then take their lease; `EarlyWriters`
(rescan-secrets, reclassify-entities, the confirmed re-key) take the lease first; `Jobs`
(backup, consolidate) take a single-flight lock and no lease; `Maintainers` climb the ladder
of four locks and look at the leases last.

| State / action | Code |
|---|---|
| `lock`, `leases`, `oldLeases` | the named locks and who has a lease file |
| `conn` | the store a process has open: the current one, or one restore has replaced |
| `ProbeTake`, `ProbeDrop`, `ProbeTimeout` | `_wait_for_maintenance_clear`, which takes and releases the maintenance lock |
| `Open`, `Prepare`, `Prepared`, `PrepareTimeout` | `connect`, `_prepare_store` under the schema lock |
| `Lease`, `Unlease` | `_acquire_writer_lease` between its two probes, `_release_writer_lease` |
| `LeaseFails`, `LeaseStays`, `UnleaseFails` | a lease whose file cannot be made, written or removed: the command fails, or ends and leaves it |
| `EnterJob`, `EnterUnlocked`, `SkipJob` | a job takes its lock, goes on without one it could not create, or is skipped |
| `Climb`, `Refuse`, `CheckLeases`, `Descend` | the ladder of `cmd_restore` and `cmd_purge`, one rung at a time, and its `finally` |
| `ClimbFails` | a strict lock that cannot be created: `_strict_acquire_lock` raises, which purge cleans up after and restore, at the schema lock, does not |
| `ClimbUnlocked`, `CheckFails` | a single-flight lock that cannot be created; leases that cannot be listed, looked at or removed |
| `RestoreFails`, `Destroy`, `Copy`, `EndMaintenance` | `_restore_locked`, the body of purge |
| `Crash`, `Overrun`, `AgeLease` | death; a lock or a lease that gets over-age |

Acquisition of a named lock is one step here: `HostLock` shows that outside its windows the
lock has one holder, and the windows are `Overrun`.  `unguarded` records that a protection was
not there: a lock or a lease got over-age while its owner was alive, a process went on without a
lock, or leases were not seen.  No guard reads it.

### DeliveryLedger: `storelib/delivery_ledger.py`

The ledger of one session.  `Recorders` admit rows (`record_undelivered`), publish them as
segments and sometimes compact; `Clearers` run PreCompact's clear or end the session.  A file
of entries is a function from rows to the time of the newest entry, because the upsert law
of `_entry_replaces` makes a merge the pointwise maximum.

| State / action | Code |
|---|---|
| `base`, `isFile`, `seg`, `marker` | the base file, the segments, the terminal marker |
| `lock`, `lockOld` | `.delivery-state.lock`, and whether it is over its stale age |
| `Record`, `Enter`, `EnterUnlocked`, `ReadPart`, `Publish`, `PublishFails` | `record_undelivered`, with the lock, without it after a timed-out wait, and with a failed write |
| `View`, `Parts`, `ReadPart` | `delivered`: segments first, then base |
| `EnterCompaction`, `Merge`, `Revalidate`, `Write`, `Verify`, `Unlink` | the compaction: list, read, merge, look at the base again, replace, unlink what was read |
| `EnterClear`, `Mark`, `ClearBase`, `ClearSegs` | `clear`, `end_delivery_state` |
| `DropEnded`, `MarkerExpires` | `_delivery_state_ended`, and the marker's TTL |
| `Crash`, `AgeLock` | death, and a lock getting over-age |

`recorded` is what was published and neither cleared nor dropped (an ended session keeps of it
what its base has as well); `late`, `slow` and `gap`
record that an admission ran without the lock, that a lock got over-age under its holder,
and that the base changed between a compactor's last look and its write.  No guard reads
them.  `NothingLost` assumes `~ gap`: the code has no compare-and-swap there.

### Reservations: `reserve`, `commit_reservation`

Rows reserved in a sidecar and recorded as delivered when the harness acknowledges.
The ledger is the set of the rows it admitted, each of them once, which is what
`DeliveryLedger` shows of it.  An acknowledgement may come twice, for an expired or evicted
reservation, and be killed between the admission and the mark.  `record_undelivered` reads the
ledger (`Admit`) and publishes (`Publish`, `PublishFails`) under the delivery-state lock, or
without it when two seconds of waiting are over (`AdmitUnlocked`); a lock broken under its holder
counts as none.  Answers are what was said (`answers`) and how often each row was reported
committed (`commits`), so that two acknowledgements of one reservation count twice; `bare` and
`unpublished` are the rows admitted without the lock and those whose segment was not written.

### Snapshot: `fleet/snapshot.py`

The read moments of brokers: with the hub away a moment stamps the outage and serves the
pair of database and meta file; after a live answer it may refresh the pair.  A refresh is
one action per file operation (fetch, scratch store, copy, keep the previous database,
install, meta file, clear the stamp, clear the backoff marker), each of which may fail or be
the last; so may the rename that restores the previous database.  A database is the hub revision
of its rows, which is what `LabelHonest` compares with the meta file.  The code takes no lock, so
two refreshes may run at once and share the scratch store; `crossed` records that one fetched its
rows while another was between its fetch and the end of its build (`Building`), and no guard
reads it.

### CorrectionQueue, LogRotate

`CorrectionQueue` has the queue file of one namespace, the advisory lock with its 30 s age
and its waiters that go on without it, the capture hook and the writers that take no lock.
`LogRotate` has the segment family of one log and `rotate_on_append` call by call.  The stamp of
a new segment reads the markers of the others: a family that cannot be listed has none, and a
segment that cannot be opened is passed over, so that it may stamp too low a number.  `misread`
records that, and no guard reads it.

### ClientFiles: the four together

`Snapshot`, `LogRotate`, `CorrectionQueue` and `Reservations` are protocols over files of
their own: they share none, so their product would show nothing their sum does not.  `part`
chooses in `Init` which of them a behaviour is about, and its properties are the parts' own.
`ClientFiles` names what the constants of the four may be; `MCClientFiles` only gives them values.

The numbers a segment can have are bounded by `LogRotate!MaxSeg`: the segments found, one for
each line that may start another, and one for each fault.  The last is needed because a shift
that is killed, or fails, between two renames leaves a gap, and is begun again above it.

### StoreSync: `storelib/sync.py`

Stores exchanging rows as files.  `files` are exports, which stay around for ever: an
ingest may take an old one, or one it took before.  `job` is the streaming ingest, line by
line, beside other writers of the store.

| State / action | Code |
|---|---|
| `row`, `side`, `purged` | `memory` (absent, live, tombstoned), `memory_expiry`, `purged_id` of each store |
| `Export` | `export-jsonl`, one read snapshot |
| `Start` | the dedup cache, one scan before the first line |
| `Pass`, `Tombstone`, `History`, `Fold`, `Land` | the outcomes of `_ingest_row`, each in a transaction of its own; `Land` with the paired expiry record |
| `Finish`, `Kill` | the remaining expiry records at the end of the file; death between two lines |
| `Strict` | `--strict`: one transaction, no dedup |
| `Add`, `Supersede`, `Purge` | `add_memory`, `supersede_memory`, the purge transaction, which runs while no ingest has a lease |

`last`, `reworked`, and the fields `quiet` and `again` of a job are observations: which ingest
a store owes its present state to, and what a repeat of that very ingest wrote: rows (one was
added or tombstoned) or a keeper (a line was folded into it again, which counts a retrieval).

### OpQueueProofs, HubApplyOpsProofs, FleetFlushProofs, HostLockProofs, WriterLeaseProofs, DeliveryLedgerProofs, ClientFilesProofs, StoreSyncProofs

See *Proofs*.

## Runs

| Run | Shows | Bounds |
|---|---|---|
| `opqueue` | no acknowledged line is lost, replays are suppressed, verdicts final, reaped lines gone | 2 writers, 2 brokers, 3 ops of which two share a dedup key, a file of 2 lines, chunks of 2: every pair of processes meets at every step, the size bound and a torn tail are both hit |
| `hub_apply_ops` | at-most-once, durable receipts, stable verdicts, dependencies, lineage, append-only history, scope | 3 ops with 3-4 candidate operations each, batches of up to 2, one seed row, two principals: replays, split dependencies, both folds, refusals, denials and an update of a tombstoned row all occur |
| `fleet_flush` | the composition implements `ExactlyOnce` | 2 brokers, an add and an op depending on it, 2 faults: enough for a late call to be served between another broker's two calls |
| `fleet_live` | a backlog longer than one call drains | 2 ops, calls of 1, 2 faults |
| `hostlock` | one holder at a time outside the documented windows; a live holder's lock is not destroyed; a stale lock file is replaced whatever was left behind | 2 processes, 3 instances, 2 crashes or failed calls: both the holder and the breaker may die, and a third file is there for whoever takes the path in between; any number of over-age files.  More processes are the proofs' business |
| `writer_lease` | maintenance is alone; an early writer's store is current; refusals leave nothing behind but in the ends named | one process of each kind, 1 crash, over-age lock or lease, or failing file operation: every pair of kinds meets at every step, with a third party that died or failed |
| `delivery` | no delivery is lost or admitted twice, what was cleared or ended stays so, segments get folded | 2 recorders, 1 clearer, 1 row that expires at the next instant, 2 segments, and one event among a kill, a failed write, a timed-out wait, an over-age lock and the passing of an instant: two compactors and a clear meet at every step |
| `client_files` | the snapshot's label is honest, a failed refresh leaves the previous pair, the pair recovers; rotation loses no line and keeps the segments in order; a capture is not lost to a capture; a row is committed once and what an acknowledgement reports is delivered | snapshot: 2 moments that may both refresh, 2 revisions, an outage, 2 failures (a step and the rename that would mend it), a kill; log: 2 segments kept of 3 found, 5 lines, 3 failing calls or scans, one appender; queue: 2 hooks, a writer without the lock, 3 items in a queue of 2, a kill, an over-age lock; reservations: 2 acknowledging processes, 2 rows, 2 ids with room for 1, 3 acknowledgements, a fault: one that is killed, and two at once that repeat it, one of them without the lock |
| `store_sync` | purged and tombstoned rows stay so, expiry records go with their rows, a file is applied, a repeat without tombstones writes at most the keepers it folds into, a peer changes nothing it did not author | 2 stores, 3 rows of which two say the same and one is a state row, 2 exports, 2 ingests at once, 3 commands, all four modes |
| `writer_open`, `fleet_split`, `sync_replay` | the findings below | as small as the counterexample needs |

`TypeOK` of `OpQueue`, `HostLock`, `WriterLease`, `StoreSync` and of the delivery ledger, and
`SeqsDistinct`, are proved and therefore not run again.  Every invariant a proof rests on was
checked on a small instance before it was proved.  The ingests of `store_sync` are
interchangeable (symmetry; it has no liveness property).  `client_files` does not follow a behaviour
beyond a state where two refreshes have crossed (`CONSTRAINT Uncrossed`): the three properties of the
snapshot except such behaviours, and `crossed` stays true, so that what is cut off satisfies them.

`CHECK_DEADLOCK FALSE` in the queue, fleet, delivery, client-file and synchronisation runs:
op_ids, calls, lines and commands are bounded, and a machine that has used them up has
nothing left to do.  The lock and lease runs check deadlock.

## Findings

* **One U+2028 wedges the queue** (`fleet_split`).  The hub writes JSON lines without
  escaping it and `apply-ops` splits its input with `str.splitlines`.
* **A writer's store is open outside its lease** (`writer_open`).  Restore is documented to
  refuse while a writer is in flight.  The shared dispatch opens, prepares and may re-key the
  store before it takes its lease, and gives the lease back before it closes; consolidate and
  backup, which have no lease, open before they take their lock.  Restore in such a window
  replaces a store somebody has open.  `EarlyWriterIsCurrent` holds of the commands that
  keep the order.

* **A replayed file changes the store** (`sync_replay`).  `SKILL.md` calls re-ingesting the
  same file an exact no-op.  With `--allow-tombstones` a row can be folded into a keeper that a
  later line of the file tombstones: the text is then live nowhere, until the next ingest of
  the file adds the row.  `PlainReplayKeepsRows` is what holds, and is proved.

Known behaviours, met while modelling and not reported as findings:

* Verdicts of the write path (`blocked`, refusals) are not recorded in `applied_ops`, so a late
  copy of a call may still commit an op the queue has retired as blocked; and a dependency
  committed by an earlier batch blocks the op.
* The client_seq restarts at 1 once the age bound has emptied the file and the enqueue that
  emptied it was refused or killed (`docs/FLEET.md:415-416` calls it monotonic).  Within one file
  the order is total (`SeqsDistinct`).
* The engine answers a denied op with a receipt of its own (`ops.py:539-542`); the tool in front
  of it refuses the whole batch for one foreign namespace (`mcp_server.py:3674`).
* `ops-flush --local` sends the whole backlog in one call, which is refused above the batch
  limit (`cli.py:775`).
* A compactor whose lock was broken by the terminal clear looks at the base again, finds it
  changed, merges what it holds with it and writes it: the ended session has a ledger again
  (`delivery_ledger.py:745`; `OnlyRecordingShows` says it takes a lock broken under its holder).
* In any mode but a peer's and the strict one, a line that was folded is folded again when its file is
  ingested again, and the keeper is written: its retrieval count grows with each replay
  (`sync.py:1771`, `write.py:2095-2099`), although `SKILL.md` speaks of an exact no-op.
  `PlainReplayKeepsRows` says that this is all a plain replay does.
* A scan of the markers that fails counts as a family, or a segment, without any, and the stamp goes
  ahead (`log_rotate.py:125-134`): a segment may get a number that another one has, or a lower one,
  although the seq is documented to be unique (`log_rotate.py:149-154`).  `NumberedByAge` excepts
  the markers of such a family (`misread`).
* Two refreshes at once share the scratch store (`snapshot.py:387`), documented as private with a
  single writer (`snapshot.py:413-414`): one may publish an empty store, or the rows of the other, under
  its own label, and they may go on undoing each other's work.  `LabelHonest`, `FailureKeepsPair` and
  `Recovers` hold until two of them cross (`crossed`).
* A restore that cannot create the schema lock ends with the maintenance lock in place
  (`backup.py:674-677`, outside any `try`).  The lock is that of a process that is gone, so the next
  command breaks it; `NothingLeftBehind` names this end, and that of a lease that cannot be written or
  removed.
* Backup, consolidate, and the upper two rungs of restore and purge go on without a lock that
  cannot be created, and leases that cannot be listed count as none (`unguarded`).
* Two acknowledgements may each commit a row when one is admitted without the lock
  (`delivery_ledger.py:1167-1177`); `CommittedOnce` excepts the rows admitted so.
* The capture hook's comment says every queue writer takes its lock
  (`hooks/lib/zmem-capture-entry.py:116-117`), the lock's own that the others do not
  (`correction_queue.py:492-493`); the code does what the latter says, and `CapturesKept` excepts
  what such a writer overwrote (`clobbered`).

## Fairness

`hostlock` assumes that a process finishes the call it began and that callers try again
(weak fairness of `Step` and `Acquire`: hooks and commands keep running), and that a file
nobody touches gets over-age (`AgeLock`, `AgeClaim`: the clock goes on).  `InspectPhantom` and every
failure are left free, so the property does not rest on the liveness check of a pid.

`delivery` (`SegmentsDrain`) assumes that a session keeps recording and that a call goes on once
begun (weak fairness), and that a recorder which keeps finding the lock free gets it (strong
fairness of `Enter` and `EnterCompaction`).  Kills, failed writes and over-age locks are free.
`client_files` (`Recovers`) assumes that the hub comes back, that the pair and the backoff marker
get old, and that moments keep happening (weak fairness of `HubBack`, `Age`, `AgeMarker` and each
process's `Moment`).  The properties of `store_sync` are safety properties.

The other users are `fleet_live` and `fleet_split`.  A machine keeps having read
moments and each flushes (weak fairness of `FlushStart`, `Send`, `Receive`, `GiveUp`); the
kernel hands a lock that keeps being free to whoever waits for it (strong fairness of
`MarkLock`, because writers may take it in between); a process that holds the lock and the
hub's subprocess keep running.  Nothing forces an enqueue, an age-out, a crash or a loss,
and no step is fair that a deadline may prevent: a failed call costs one of `MaxFaults`.
That bound stands for the assumption that failures stop eventually; without it nothing drains.

## Proofs

`OpQueueProofs` proves, for any finite set of ops and any processes, keys and bounds:
`TypeOK`, `NoSilentLoss`, `OneLinePerKey`, `SeqsDistinct`, `VerdictsFinal`,
`ReapedStaysGone`.  None of these is inductive alone: a rewrite writes back what its
process read earlier, and an append writes a client_seq and a key it checked earlier.
`IInv` adds what makes both harmless: the processes inside a read-modify-write are exactly
the holder of the lock (`LockInv`), so what was read is still the file (`SeenInv`), and the
line to be appended has a new name, a client_seq above all others and a key nobody else has
(`CurInv`, `MintInv`).  `SeqAfterIsNext` rests on `LastLine`: a nonempty finite set of lines
has one with the largest client_seq (by well-foundedness of strict inclusion, as induction
theorems with operator parameters are beyond the provers).  Assumptions: the ones `OpQueue`
names on its constants.

`HubApplyOpsProofs` proves all that `hub_apply_ops` checks, for any ops, texts, rows, callers and
batches.  A transaction works on a copy, so the invariant speaks of both databases.  Each is
`Sound`: what it has recorded of an op agrees with the rows the op made, with how often it
changed the table (`Counted`), with its dependency (`Ordered`) and with the row it supersedes
(`Succession`).  The copy only adds to the published one (`Grows`: rows stay, die once, verdicts
stay), it changes rows only within the caller's namespaces (`Within`), and it is ahead of the
published one only while a batch is applied (`TxnInv`).
Hence a commit is a step of `Grows`, which gives the three action properties, and an abort needs
nothing.  A receipt is a statement about the copy, and becomes one about the published database
with it (`ReceiptInv`).  Assumed of the constants: what the module names, among it that there is
a text.

`FleetFlushProofs` proves `ImplementsExactlyOnce`: initial states map to initial states and each
step of queue, hub or network to a step of `ExactlyOnce` or a stutter.  The invariants of queue and
hub carry over, as each step of the composition is a step of theirs or leaves them alone.  What
the composition adds: a broker waits for one call and that call is in one place (`OneCall`); the
receipts on their way, or in a broker's hands, are borne out by the published database
(`ReceiptsInv`); what is queued, or was sent, is accepted (`AcceptedInv`).  `Listed` says that
a set of ops with different client_seqs can be listed in their order, by a minimal counterexample
where a textbook would do induction.

`HostLockProofs` proves `TypeOK`, `AtMostOneHolder` and `LiveLockKept` for any number of
processes, instances and failures.  The invariant says of every step of a break what it may
rely on: outside the windows the breaker owns the claim (`Serial`), the token of a phantom
belongs to no running process (`Judgement`), what was judged stale stays over-age while it is
there (`Evidence`), each lock file is in one place (`Locations`), and so a holder's file is at
the path (`Guarded`), where it keeps others from making one.
`LiveLockKept` does not assume `~ residual`: it follows from the confirmation after each rename.

`WriterLeaseProofs` proves `TypeOK`, `MaintenanceIsAlone` and `EarlyWriterIsCurrent` for any
number of commands, jobs and maintainers.  Whoever is in a section holds its lock (`HoldInv`)
or a lease restore would see (`LeaseInv`, with `LeftInv`: nobody else has one).  A command
probes the maintenance lock after it wrote its lease, a maintainer reads the leases after it
took that lock; `AloneInv` is the consequence that one of them sees the other.  The proof
assumes that the kinds of processes are disjoint and that a job's lock is one of its two.
`NothingLeftBehind` does not assume `~ unguarded`: a lock is that of a process at the one place
where it takes and releases it, or of one that is gone (`OwnInv`), and a lease is that of a process
between its writing and its removal, or of one that could not write or remove it.

`DeliveryLedgerProofs` proves `NothingLost`, `EndedStaysEmpty`, `AdmittedOnce` and
`OnlyRecordingShows`, for any number of recorders, clearing processes, rows, segments and failures
and any window.  `NothingLost` rests on where a row is: in the base, or in a segment that nobody
is about to unlink without having written what it has (`KeptInv`, `Safe`), also when broken locks
let compactions overlap.  That in turn needs that a compaction past its last look writes the merge
of the base it replaces (`MergeInv`): the code compares the identity of the file, and a base that
was cleared and made again has another.  A call under the lock has seen what is recorded, or
will find it in the base (`SeenInv`), which is why the segments must be read first.  What a
compaction under the lock will write is still in a segment (`SourceInv`), so its write shows
nothing new.  After the end, what entries there are belong to a call that has yet to compact
(`EndedInv`).  `LockInv` says when a lock can be trusted.  The proof corrected the model: dropping
the segments of an ended session used to make whatever the base had `recorded`, also a row that a
compaction with a broken lock had written back after the clear, and that row was then promised not
to be admitted again.  It also shows that `NothingLost` does not depend on the code's `Verify`
step while the base has not changed between a look and a write; that step is for the case `gap`.

`ClientFilesProofs` proves every safety property of `client_files`, part by part.

* *Reservations.*  `ReserveInv`: a sidecar is marked committed, and an answer given, only
  after the ledger has the rows (`DeliveredInv`).  One process at most is inside the lock (`SoleInv`),
  and what it admitted is all of its rows that were not delivered (`HoldInv`); so a row
  is owed or reported committed once in all (`AdmittedInv`), except where it was admitted without the lock (`bare`) or its segment
  could not be written (`unpublished`).
* *CorrectionQueue.*  `QueueInv` speaks of histories that are `Calm`: no kill, no lock held beyond its
  age, nothing overwritten by a writer without the lock, which is what `CapturesKept` assumes.  Then
  the lock file excludes (`LockInv`), and what a capture loaded under it has every capture that is
  still owed (`LoadedInv`), so that its write loses none.
* *Snapshot.*  `SnapInv` follows a refresh through its renames: what it has fetched, copied or set
  aside is whole and as new as the label there is and any that was read (`BuildInv`, `PairInv`), and
  one of the two databases is there, the first one unless a refresh is between its renames or was stopped
  there (`KeptInv`).  All of that (`Sound`) holds as long as no two refreshes crossed, for any number of
  refreshers, since until then one at most is at work on the pair (`AloneInv`).
* *LogRotate.*  `RotInv`: the lines of a file are older the higher its number (`LinesInv`), a shift goes from
  the top and has room above each segment it moves (`ShiftInv`), and an eviction leaves the number of
  segments to keep below each one it removes (`EvictInv`).  `BoundInv` shows that `MaxSeg` and the
  markers' range are never exceeded.  The markers agree with the numbers unless a scan failed
  (`misread`).  It assumes one appender (`OneAppender`): the code says that a
  concurrent writer in mid-shift may lose its line.  The proof corrected the bound `MaxSeg`, which
  did not count the segments that repeated shifts push up; with more faults than the run had, TLC
  finds the bounded model losing a line the code keeps.

`Without`, which removes an element from a queue, is a filter by indices: the recursive
`SelectSeq` would be induction over data.

`StoreSyncProofs` proves every property of `store_sync`, for any number of stores, rows, files
and ingests.  `PurgedStaysGone` and `ExpiryPaired` are inductive with the fact that a file has an
expiry record for exactly its live state rows (`TypeOK`).  `FileApplied` and `PlainReplayKeepsRows`
need what an ingest knows: while nobody else has changed the store (`quiet`) its cache has every
live row, so each line it is past has nothing left to do (`JobInv`), in the sense of `Applied`;
when it ends, the rows are a fixpoint of it (`LastInv`), and a repeat finds no line to land: at most
it folds again what it folded.
The disjunct of `Applied` with a later tombstone of the same file is where `own` differs, and why
`ReplayKeepsRows` fails there.

Model-checked only: the four liveness properties, `Drains`, `StaleLockReplaced`, `SegmentsDrain` and
`Recovers` (fairness and `ENABLED` are out of the provers' reach), and the three
violations behind the findings, which are counterexamples.  Every other property of the runs is a theorem.

## Not modelled

* Of the locks: the rename retries Windows needs, creation of the lock directory apart from
  its failure, a pid that is used again (a dead holder then looks alive, and the age decides).
* Of the leases: passive recalls, which open the store without one by decision
  (`cli.py:5371-5384`); export-training, which leases before it opens and, like the dispatch,
  gives the lease back before it closes; the rows a restore or purge changes.
* Of the delivery ledger: the cap on entries, the parked pending, compact, task-text and
  feedback sidecars.  Of the snapshot: namespaces, scope, the 72 h expiry and rendering.  Of the
  correction queue: mining and `retain`.  Of the logs: their readers.
* Of synchronisation: links, episodes, evidence, merged fields, trust clamps, the capture policy
  and malformed lines; semantic near-duplicates are what `Text` makes them.
* Of the store: re-keying, promotion, pins; consolidation and hygiene (similarity of embeddings
  and rewriting rules); training capture.
* Ranking, embeddings, full-text search, evaluation and tuning: floating point and real
  text, without shared state.
* Launchers and host adapters: what they do to the rest, killing a process at a deadline,
  is an action of the modules.
* The command-line front end, `doctor`, `host_canary`, the schema's migrations and the host
  plugin's formatting make up most of the lines outside the map.  They are sequential: one
  process parses, prints, reads or runs a script of SQL under a lock that is modelled, and an
  interleaving of theirs has nothing to find.
* Legacy single-token mode of the hub: `Accepts` is the gate of map mode.
