# OnyxDB in TLA+

This directory specifies the parts of OnyxDB whose correctness depends on the
order in which things happen: group commit, the binlog and its snapshots on
disk, the scheduling of storage maintenance, and replication. TLC checks the
modules on small instances, and TLAPS proves the safety properties of the commit
coordinator for instances of any size. Paths below are relative to the
repository (`src/main.rs` is the server's main file).

## The system and its parts

| Part | Code | State it changes | Here |
|---|---|---|---|
| Group commit coordinator | `commit_coordinator.rs`, callers in `main.rs` | queue, live store, binlog, backlog, gates | `CommitCoordinator`; its proofs: `CommitProofs`, `CommitLine`, `CommitAnswers`, `CommitOrder` |
| Binlog worker, managed files | `persistence/runtime.rs` | active file, segments, fsync state | `BinlogHistory`, `MCBinlog` |
| Snapshot compaction, rollover, catalog cleanup | `persistence/runtime.rs`, `persistence/recovery.rs` | snapshot files, segments, counters | `BinlogHistory` (files), `Maintenance` (scheduling) |
| Commit admission, fail-stop | `persistence/runtime.rs`, `main.rs` | write budget, gates, flags | `Maintenance`, `CommitCoordinator` |
| Recovery | `persistence/recovery.rs`, `persistence/mod.rs` | the recovered dataset | `RecoveryRules`, `BinlogHistory` |
| Replication, both sides, promotion | `main.rs`, `persistence/replica_state.rs` | replica's dataset, durable replica state, role | `Replication` |
| Store, mutation admission, eviction | `store.rs` | entries, memory accounting | partly, in `CommitCoordinator` |
| Engine | `engine.rs` | shards, copy-on-write snapshots, expiration | planned |
| Client sessions, transactions | `main.rs`, `client.rs`, `command.rs`, `execution.rs` | per-connection state | planned |
| Publish/subscribe | `main.rs` | subscription table, broadcast | planned |
| JSON paths | `store/json_path.rs` | none (pure) | planned |
| Codec, RESP, OBP | `persistence/codec.rs`, `resp.rs`, `protocol.rs` | none (bytes to values) | not modelled |
| Runtime lock, configuration, metrics, clock, tools | the rest | | not modelled |

A write goes through all of it: a session queues a request; the coordinator
takes a group, waits for admission (`Maintenance`), executes it tentatively,
appends it (`CommitCoordinator`; the device is `BinlogHistory`), answers and
publishes it to the backlog and the broadcast channel, from which a replica
receives it (`Replication`). Compaction and rollover run beside that, take the
same commit boundary at two points, and leave files that startup has to make
sense of (`RecoveryRules`).

The modules meet at named points instead of being one state machine, which TLC
could not explore. `CommitCoordinator` sees admission as a flag that opens and
closes at any time (`Maintenance` says when), and the binlog as a sequence of records
that an append extends, leaves alone, or extends with an unknown outcome;
`BinlogHistory` shows that the files provide exactly that. `Maintenance` sees
the files as byte and segment counts; `BinlogHistory` has the same tasks with
the contents and lets them start at any time. `Replication` sees a commit as one
step. `RecoveryRules` is shared by the actions and the properties of
`BinlogHistory`: startup and "what startup would recover" are the same operator.

## Modules

### RecoveryRules

What `load_data_from_paths` accepts and returns, as a function of a directory
image and file contents: the choice between primary and backup snapshot, the
order of segments, the continuity of sequences, names against contents, the
segment limit, and a record cut short at the end of the active file.

### BinlogHistory

One process and its data directory. The disk has two layers. `dir` and `data`
are what the process sees; `synced` counts each file's durable records and
`oldDirs` holds the directory images since the last directory synchronization. A
process crash keeps the first layer. A power loss falls back to some old
directory image, and keeps of each file its synchronized records and possibly
more, with a torn record at the end.

| Actions | Code |
|---|---|
| `CommitBegin`, `AppendWrite`, `AppendSync`, `CommitAck` | the binlog worker's append of a group and its synchronization under `always` |
| `AppendFails`, `RollbackTail`, `RollbackFails` | a failed append and `rollback_binlog_tail` |
| `PeriodicSync`, `PeriodicSyncFails` | the `everysec` timer |
| `TaskStart`, `TaskRefreshed`, `Preflush`, `TaskGate` | the common front of `compact_owned` and `rollover_generation_owned` |
| `SealRename`, `SealSyncParent`, `SealSuccessor`, `SealFails` | `ManagedBinlogFile::seal_active` and its undo |
| `Capture`, `SnapshotBackup` ... `SnapshotInstallSync`, `AdoptSnapshot` | the capture, `write_snapshot_file` call by call, and the final boundary |
| `CleanupStart`, `SweepRemove`, `CatalogFails` | `cleanup_binlog_segments_through`, one removal per step |
| `Crash`, `PowerLoss`, `Recover`, `Serve`, `Refuse` | process death, machine death, and startup |

`config` is chosen once, from the constant `Configs`: the synchronization policy,
the segment limit, which tasks run, what may fail, and the bounds. `MCBinlog`
defines the configurations TLC explores, so that one run covers several of them.

Ghosts: `history` (acknowledged batches), `doubt` (batches whose outcome a crash
left open), `durable` (how much of `history` a power loss must keep).

### Maintenance

The counters, pending flags, write budget and gates of `CommitRuntime`. Six
processes: the commit path, scheduled compaction, `SAVE`, rollover, the
installation of a full synchronization, and fail-stop entered without a boundary.
A gate is a queue whose head holds it, as tokio's mutexes serve waiters in order.
A step is the code between two awaits, or less where another thread sees the
middle of it (the release of the rotation gate before the budget, for example).
Bytes are counted in units of a group.

### CommitCoordinator

The queue, the worker and the group in its hands, the live store, the binlog
records, the two gates, answers, publications and captures. A command is what it
does to the store: a partial function from keys to new values, which covers the
keys it writes and the victims it evicts. `disk` is the store the file replays to
and `kept` the one its accepted records replay to. Actions follow the worker:
take and defer requests, await admission, acquire the gates, execute and derive
effects, append record by record, accept and publish, undo in reverse, or
fail-stop; beside it run submissions, captures by compaction and by full synchronization, failing
periodic synchronizations, panics and restarts.

A request that does not fit the limits of its group has left the channel already;
`deferred` holds it and the next group begins with it (`First`). What fits is not
determined, as sizes are not modelled. Admission (`open`) is awaited before the
gates and checked again behind them, as in `acquire_commit_boundary`. A capture
takes the write gate in one step and copies in another, so the worker does wait
for it. `WorkerPanics` is a build that unwinds; with `panic = "abort"`, the release
profile, a panic is a process death (`Restart`).

### Replication

A master with one history per run (each start has a new replication ID, an empty
backlog and, after a power loss, possibly a shorter history) and a replica with
its loop, memory, disk and role.

| Actions | Code |
|---|---|
| `Subscribe`, `Negotiate`, `SendFull`, `Stream`, `Heartbeat` | the `SYNC3` branch of `handle_client`, one action per await that lets commits in between |
| `Connect`, `Receive...`, `Cut`, `StopLoop` | `run_replica` |
| `ApplyEffect`, `SyncBinlog` | `persist_and_apply_replica_effect` once an effect has been read, which no stop request interrupts, and the periodic synchronization; both may fail |
| `BeginFull`, `StartInstall`, `InstallTruncate`, `InstallSnapshot`, `InstallIdentity` | `begin_full_sync_reception` (which may fail before or after its write), and `install_full_sync` with a step per durable write |
| `PreparePromotion`, `CommitPromotion`, `AutoPromote` | `REPLICAOF NO ONE` and automatic failover |
| `StartCompaction`, `WriteSnapshot`, `AdoptIdentity` | `compact_owned` on a replica, which rewrites the identity after the snapshot |
| `MasterRestart`, `Crash`, `Start` | process starts; `prepare_replication_startup` in either role |

A dataset is the sequence of batches applied, so "the same data" is equality of
sequences, and two histories that diverge under the same sequences differ.

## Runs

Each passing run explores its instance completely. The counts are distinct states.

| Run | Expected | What it asks |
|---|---|---|
| `BinlogCrash` (680k) | pass | five configurations (below) of commits, failing appends, compaction and rollover, seals, snapshots, removals and catalog passes failing, crashes or power losses between any two I/O calls: `CrashSafe`, `PowerSafe` (startup accepts and loses nothing acknowledged), `FailsClosed` (it recovers what it must or refuses), `CountersAgree`, `SegmentsRemovedWhenCovered` |
| `BinlogTruncate` | violation | finding 1 |
| `MaintSchedule` (60k) | pass | no failures: `NoSnapshotLost`, and under fairness `CommitAdmitted`, `CatalogRelieved` |
| `MaintFaults` (1.8M) | pass | all processes and all failures: `BudgetOwned`, `CapturedStillOwed`, `LastSlotReserved` |
| `MaintBudget`, `MaintInstall`, `MaintRetry` | violation | findings 2, 3 and 4 |
| `CommitGroup` (402k) | pass | three requests in groups of two, admission closing and opening, captures competing for the write gate: `VisibleIsDurable`, `AnswersAreTrue`, `PublishedIsPrefix`, `CapturesAgree`, `NoOvertaking` |
| `CommitFailStop` (94k) | pass | unknown outcomes, panics, failing synchronizations: `VisibleIsDurable`, `AnswersAreTrue`, `SnapshotsAgree`, and `EveryRequestAnswered` under fairness |
| `CommitSync` | violation | finding 5 |
| `ReplSync` (2.2M) | pass | `ReplicaIsPrefix`, `RecoveryIsPrefix`, `DiskAgrees`, `StreamExact`, `PromotionHolds`, `PromotedIsDurable` |
| `ReplCatchUp` (478k) | pass | `CatchesUp` under fairness, without compactions of the replica |

Deadlock checking is off everywhere: a stopped process, a refused directory and
an instance whose bounds are used up have no next step, and rightly so.

### Why the bounds are enough

* `BinlogCrash` explores the configurations of `MCBinlog`:
  * `Durable` (`always`): three batches and three segments give an empty, a
    covered and an uncovered generation at once, and two crashes give a crash
    during the startup that follows a crash;
  * `Appends`: appends that fail with a partial write, without generations, since
    with them finding 1 would stop every other check;
  * `Full` (`everysec`): two segments make the catalog full, and after a failed
    snapshot a compaction finds it so with records in the active file; process
    deaths only. `FullPower` is the same with power losses;
  * `Relaxed` (`everysec`): every maintenance call may fail, single removals too.

  Where `GapPossible` (failing removals, or a power loss with a full catalog) the
  code can leave a directory that startup refuses. `CrashSafe` and `PowerSafe`,
  which promise that it is accepted, do not speak of those configurations;
  `FailsClosed` does, and allows the refusal, so it says only that nothing is lost
  silently. Five files are the segments, the active file and a file that only an
  old directory image still names.
* `MaintSchedule`: the target is two groups and the budget one, so a commit can be
  before, inside and past the admission limit; the limits on segments are ordered
  as the code's constants are (unsnapshotted < pressure < limit).
* `MaintFaults` shrinks the generation to one group so that six processes and
  seven kinds of failure fit. The target, the write budget and the segment limits
  are still reached; the admission limit is reached in `MaintSchedule` only.
* `CommitGroup`: with three requests and groups of two a request is kept back
  while another waits behind it in the channel. One key suffices for a later
  request to overwrite what an earlier one wrote, which is what the order of undo
  depends on; `CommitFailStop` has requests of two mutations.
* `ReplSync`: a backlog and a feed of one batch are overrun by the three batches
  there are. Two runs of the master, with histories of which the second may have
  lost the end of the first, make equal sequences name different batches. One
  crash, one broken connection, one compaction and one promotion meet in every
  order; a promoted replica commits its own batches and may come back as a replica.

### Fairness

* `CommitCoordinator`: weak fairness of the worker and of a capture in progress,
  tasks the tokio runtime polls as long as they can run, and strong fairness of the
  worker's acquisition of the write gate, a tokio mutex that serves waiters in
  order. Clients, new captures and failures have none, and maintenance may open
  and close admission as it likes: `EveryRequestAnswered` is for behaviours in
  which admission is finally given, which `Maintenance` is about.
* `Maintenance`: weak fairness of each process's own steps once it has begun, and
  of the recheck after it. The gates need no strong fairness, as they are queues.
  Commits, `SAVE` and synchronizations start when they please.
* `Replication`: weak fairness of the handler, of the replica's loop and of a
  compaction or a promotion in progress. Nothing is assumed of clients, of the operator, of
  restarts or of heartbeats. `CatchesUp` therefore speaks of the replica that
  stays up, is neither stopped nor promoted, and can still write.

`CatchesUp` does not follow from the bounds: a synchronization that is refused and
retried can go round for ever within them.

### Mutations

Every property of every passing run has a mutation of the model, written next to
the definition it stands for, that the run detects: an append acknowledged before
its synchronization, an undo in the wrong order, a channel served before the
request kept back, a capture under one gate only, a seal without
synchronization, a missing comparison of replication IDs, and so on.
`PROJECT.json` lists them.

## Proofs

Four modules, each extending the one before, prove with TLAPS about every
instance of `CommitCoordinator` (any sets of requests, keys and values, any group
limit, any set of failures; `CoordinatorAssumption` is all that is assumed).
`CommitProofs` has the first invariant and the first two theorems; `CommitLine`
the second invariant and the lemmas on the line of waiting requests;
`CommitAnswers` the next three theorems; `CommitOrder` the last:

* `TypeCorrect`: `Spec => []TypeOK`;
* `VisibleDurable`: `Spec => []VisibleIsDurable`. While the visibility gate is
  open, the store readers see is the store a restart would recover;
* `AnswersTrue`: `Spec => []AnswersAreTrue`. Committed is in the binlog for good,
  rejected and unchanged never are;
* `PublishedExact`: `Spec => []PublishedIsPrefix`;
* `CaptureExact`: `Spec => CaptureAgrees`. At the moment of a capture for a
  snapshot, or for a replica while the visibility gate is open, the store is what
  the binlog replays to and its label the number of records;
* `LogOrder`: `Spec => NoOvertaking`. No request overtakes another on its way to
  the binlog, through groups, deferral, failures and restarts.

`VisibleIsDurable` is not inductive: it says nothing of the time the gate is
closed, and what is true when it opens depends on what happened meanwhile. The
inductive invariant `Inv` adds

* `GatesHeld`: which gates the worker holds in each phase; it holds mutations
  only behind both;
* `Chain`: the before images of the executed mutations lead, one change at a
  time, from the accepted store to the live one;
* `FileOnChain`: the file replays to a store on that chain, at the place given by
  the number of records appended; while the worker undoes, to its beginning.

Executing a mutation adds a link (`ChainGrows`); undoing the last one removes it
(`ChainShrinks`, by `UndoRestores`: restoring before images gives back the store,
since they cover the keys that were changed); appending a record moves the file
one link forward; accepting makes the last link the accepted store. Each has a
lemma, `TypeStep`, `GatesStep`, `ChainStep` and `FileStep` put them together
action by action, and `Invariance` combines them.

The answers and the order need a second strengthening, `AInv`, about who is still
waiting and what the records of the file belong to:

* `InLine`: the group in hand, the request kept back and the channel form one line
  without repetition, and nobody in it has an answer;
* `InOrder`: the mutations in hand are of the group's requests, in its order;
* `TailInHand`: the records past the accepted offset are the first of those
  mutations, one by one;
* `LogSettled`: every other record belongs to a request that was answered
  committed, lost or indeterminate;
* `CommittedKept`: a request answered committed has a record among those accepted.

Every action leaves the line alone, lets one request join its end, or takes the
group from its front (`Stays`, `Joins`, `Leaves`, `Ends`), and keeps or extends the
accepted records (`Keeps`, `Accepts`); `AnswerInvariance` puts that together.
`CapturesAgree` itself, which replays the log by a recursive function, stays with
TLC; `CaptureExact` is its step-wise form over `disk`.

Only model-checked: the liveness properties (they need fairness and `ENABLED`,
which the prover does not support), `CapturesAgree`, and everything in the other
modules.

## Where code and documentation disagree

Five runs check what a document or an assertion of the repository says, and TLC
finds a behaviour of the code that contradicts it.

1. `BinlogTruncate`. When the first append after a seal fails, the rollback
   truncates the file to length zero, and `ManagedBinlogFile::truncate` then
   removes all sealed segments, also those no snapshot covers. The README says
   segments are "removed only after a covering snapshot is durable".
2. `MaintBudget`. `compact_owned` gives the rotation gate back before the write
   budget. A rollover that takes the gate in between finds the budget taken and
   fails the assertion "compaction write budget ownership must be exclusive".
3. `MaintInstall`. `install_full_sync` holds the rotation gate while it waits for
   an admitted boundary. If the active file is at its limit, only a rollover can
   admit it, and the rollover waits for that gate. ADR 0004 says that baseline
   replacement wakes the waiters.
4. `MaintRetry`. After a failed rollover a snapshot that is due is requested at
   once, and after a failed snapshot a rollover that is due. When both keep failing
   (at the flush they both begin with, for example) they start each other without
   pause and without a new write. The architecture document and ADR 0003 say
   "Failures are not retried in a tight loop".
5. `CommitSync`. After an append with an unknown outcome the write gate is free
   and the store holds unaccepted mutations behind the visibility gate. A full
   synchronization takes the write gate alone and sends them. The architecture
   document says tentative state stays "fenced behind the visibility gate".

The models show these too; no run is kept for them:

* A removal of a covered segment that fails while later ones succeed leaves a gap
  that startup refuses (`Relaxed` reaches it: `Refuse`), although the
  architecture document calls the presence or absence of any covered segment safe.
* A snapshot taken in a full catalog is installed before the active file is
  synchronized. After a power loss new batches can follow a shorter prefix, and
  the startup after that refuses the gap (`FullPower` reaches it).
* Under catalog pressure no rollover is requested, so nothing bounds the active
  file while snapshots keep failing.
* With `"catalog"` in `Faults` of `MaintSchedule`, `CommitAdmitted` fails: after a
  rollover whose catalog refresh failed nothing requests another, and a commit at
  the admission limit waits for ever.
* Fail-stop entered without a boundary asks for an admitted one and can wait
  behind the backpressure.

## Assumptions and what is not modelled

* Startup creates a missing binlog without synchronizing its directory. The disk
  model assumes ordered metadata: a power loss restores an earlier image of the
  directory, never a mixture.
* Recovery's repair of an incomplete last segment, the legacy rotation files and
  records without checksums are left out; none is produced by the current code.
* Replication has one master and one replica (the code refuses chained replicas);
  a promoted replica takes clients' writes but has no replica of its own.
* Replica acknowledgements and status (reported by `INFO` only), upstream
  authentication and the chunking of large records are left out. A replication ID
  is unique to a run, as the code takes it to be.
* The codec, RESP and OBP turn bytes into values; there is no interleaving in
  them, and their inputs are out of TLC's reach. A record cut short is a value of
  its own (`Torn`).
* Configuration, the runtime lock, metrics, the clock and the command-line tools
  have no protocol to check.

## Plan

1. `SnapshotCapture` (`engine.rs`): copy-on-write capture of the shards while
   commands mutate them, with the counters of each shard; refines an atomic copy.
2. `Eviction` (`store.rs`, `engine.rs`): admission under `maxmemory`, victims,
   accounting across rollback; the accounted size is the sum of the entries.
3. `Sessions` (`main.rs`, `execution.rs`): reads under the visibility gate, `MULTI`
   queues and transactions over the coordinator; publish/subscribe registration
   against the broadcast channel.
4. An abstract commit specification (a store and its accepted history) that
   `CommitCoordinator` implements, checked by TLC and then proved.
5. Pure algorithms as operators: JSON paths, glob patterns.
6. Proofs: `ReplicaIsPrefix` and `DiskAgrees` in a module of their own, from the
   invariant that every message in flight continues the replica's prefix;
   `BudgetOwned` in `Maintenance`.
