-------------------------- MODULE CommitCoordinator --------------------------
(***************************************************************************)
(* How a master commits: the coordinator of commit_coordinator.rs and what *)
(* it calls in main.rs and persistence/runtime.rs.                         *)
(*                                                                         *)
(* Clients queue requests.  One worker takes them in groups, executes each *)
(* against the live store (tentatively, behind the write and visibility    *)
(* gates), appends what they changed to the binlog as one physical write,  *)
(* and only then answers and lets readers in.  A definite storage failure  *)
(* undoes the group in reverse; an unknown outcome leaves the tentative    *)
(* store fenced off and stops the process.                                 *)
(*                                                                         *)
(* A command is what it does to the store: a change, a partial function    *)
(* from keys to their new values that holds the keys it wrote and the      *)
(* victims it evicted.  Absent stands for a missing or expired key.  What  *)
(* the binlog does on the device is the subject of module BinlogHistory,   *)
(* why maintenance opens and closes admission, of module Maintenance.      *)
(***************************************************************************)
EXTENDS Integers, Sequences, FiniteSets

CONSTANTS
  Requests,       \* the requests clients may submit, each once
  Keys, Values,
  Absent,         \* the value of a missing key
  MaxGroup,       \* MAX_COMMIT_GROUP_REQUESTS
  MaxBatches,     \* bound: mutations of one pipelined request
  MaxCrashes,     \* bound: process deaths
  Faults          \* what may fail: see FaultNames

FaultNames == {"prepare", "append", "indeterminate", "panic", "sync"}

ASSUME CoordinatorAssumption ==
  /\ Absent \in Values
  /\ MaxGroup \in Nat \ {0} /\ MaxBatches \in Nat \ {0} /\ MaxCrashes \in Nat
  /\ Faults \subseteq FaultNames

VARIABLES
  queue,          \* requests sent to the worker and not yet received
  deferred,       \* the request received that did not fit the last group, if any
  answer,         \* what each client was told
  phase,          \* where the worker is
  group,          \* the requests it took
  at,             \* how many of them are executed
  entries,        \* the mutations executed, in order
  written,        \* how many of them are in the file
  store,          \* the live store
  log,            \* the records of the binlog
  disk,           \* the store a restart would recover from it
  kept,           \* the store its accepted records alone recover
  offset,         \* repl_offset: the records accepted
  published,      \* the batches given to the backlog and the replicas
  open,           \* compaction_write_budget_allows_progress
  captor,         \* the capture that holds the write gate, if any
  writer,         \* whether the write gate is held
  fence,          \* whether the visibility gate is held exclusively
  accepting, stopping,   \* accepting_writes, fail_stop_started
  captured,       \* the last capture, if any: what kind, of which offset and store
  crashes         \* bound

worker == <<phase, group, at, entries, written>>
files == <<log, disk, kept>>
others == <<open, captor, captured, crashes>>
vars == <<queue, deferred, answer, phase, group, at, entries, written, store, log, disk, kept,
          offset, published, open, captor, writer, fence, accepting, stopping, captured,
          crashes>>

EmptyStore == [k \in Keys |-> Absent]

Init ==
  /\ queue = <<>> /\ deferred = <<>> /\ answer = [r \in Requests |-> "none"]
  /\ phase = "idle" /\ group = <<>> /\ at = 0 /\ entries = <<>> /\ written = 0
  /\ store = EmptyStore /\ log = <<>> /\ disk = EmptyStore /\ kept = EmptyStore
  /\ offset = 0 /\ published = <<>>
  /\ writer = FALSE /\ fence = FALSE /\ accepting = TRUE /\ stopping = FALSE
  /\ open = TRUE /\ captor = "none" /\ captured = {} /\ crashes = 0

-----------------------------------------------------------------------------
(* Changes *)

\* apply_committed_batch; also what restore_entries does with before images.
Apply(change, s) == [k \in Keys |-> IF k \in DOMAIN change THEN change[k] ELSE s[k]]

\* derive_committed_batch: the effects are exactly the entries that differ.
Derivable(s) ==
  {c \in UNION {[K -> Values] : K \in (SUBSET Keys) \ {{}}} : \A k \in DOMAIN c : c[k] # s[k]}

\* The before images a rollback holds: of the changed keys, and of no other.
Undo(e) == [k \in DOMAIN e.change |-> e.before[k]]

\* The end of a sequence.
Last(s) == s[Len(s)]
Front(s) == SubSeq(s, 1, Len(s) - 1)

\* One binlog record, and one replicated batch.
Record(e) == [request |-> e.request, change |-> e.change]
Records(es) == [i \in DOMAIN es |-> Record(es[i])]

Answered(rs, a) ==
  [r \in Requests |-> IF r \in rs /\ answer[r] = "none" THEN a ELSE answer[r]]
Elements(s) == {s[i] : i \in DOMAIN s}
Grouped == Elements(group)

\* The requests that wait for their group, in order: the one the worker has
\* kept back, and the channel.
Coming == deferred \o queue
Queued == Elements(Coming)

-----------------------------------------------------------------------------
(* The queue *)

\* submit: from here on the request no longer depends on its client.
Submit(r) ==
  /\ answer[r] = "none" /\ r \notin Queued /\ r \notin Grouped
  /\ IF phase = "dead"
     THEN answer' = [answer EXCEPT ![r] = "rejected"] /\ UNCHANGED queue
     ELSE queue' = Append(queue, r) /\ UNCHANGED answer
  /\ UNCHANGED <<deferred, worker, store, files, offset, published, writer, fence, accepting,
                 stopping, others>>

\* Mutation: the channel is served before the request that was kept back.
FirstFromChannel ==
  \/ /\ queue # <<>>
     /\ group' = <<Head(queue)>> /\ queue' = Tail(queue) /\ UNCHANGED deferred
  \/ /\ queue = <<>> /\ deferred # <<>>
     /\ group' = deferred /\ deferred' = <<>> /\ UNCHANGED queue

\* The next group begins with the request the last one left over, and only
\* without one with the next of the channel.
First ==
  \/ /\ deferred # <<>>
     /\ group' = deferred /\ deferred' = <<>> /\ UNCHANGED queue
  \/ /\ deferred = <<>> /\ queue # <<>>
     /\ group' = <<Head(queue)>> /\ queue' = Tail(queue) /\ UNCHANGED deferred

\* run_master_commit_coordinator: wait for a first request.
TakeFirst ==
  /\ phase = "idle" /\ First
  /\ phase' = "collect"
  /\ UNCHANGED <<answer, at, entries, written, store, files, offset, published, writer, fence,
                 accepting, stopping, others>>

\* Then drain what is there.  A request that does not fit the limits of the
\* group (of mutations and bytes) has been received all the same: it is kept
\* for the next one, and this one is closed.
TakeMore ==
  /\ phase = "collect" /\ deferred = <<>> /\ queue # <<>> /\ Len(group) < MaxGroup
  /\ \/ group' = Append(group, Head(queue)) /\ UNCHANGED deferred
     \/ deferred' = <<Head(queue)>> /\ UNCHANGED group
  /\ queue' = Tail(queue)
  /\ UNCHANGED <<answer, phase, at, entries, written, store, files, offset, published, writer,
                 fence, accepting, stopping, others>>

-----------------------------------------------------------------------------
(* process_commit_group *)

\* Mutation: the write gate is not given back.
FinishHolding(a) ==
  /\ phase' = "idle" /\ group' = <<>> /\ at' = 0 /\ entries' = <<>> /\ written' = 0
  /\ answer' = a
  /\ UNCHANGED writer

\* The group is over: the worker gives up what it holds and answers.
Finish(a) ==
  /\ phase' = "idle" /\ group' = <<>> /\ at' = 0 /\ entries' = <<>> /\ written' = 0
  /\ answer' = a
  /\ writer' = FALSE

\* The first check, before any gate.
Start ==
  /\ phase = "collect"
  /\ IF stopping \/ ~accepting
     THEN /\ phase' = "idle" /\ group' = <<>> /\ answer' = Answered(Grouped, "rejected")
          /\ UNCHANGED <<at, entries, written>>
     ELSE phase' = "admission" /\ UNCHANGED <<answer, group, at, entries, written>>
  /\ UNCHANGED <<queue, deferred, store, files, offset, published, writer, fence, accepting,
                 stopping, others>>

\* acquire_commit_boundary: wait_for_compaction_write_budget
AwaitAdmission ==
  /\ phase = "admission" /\ open
  /\ phase' = "gate"
  /\ UNCHANGED <<queue, deferred, answer, group, at, entries, written, store, files, offset,
                 published, writer, fence, accepting, stopping, others>>

\* CommitBoundary::acquire: the write gate first, the visibility gate second.
TakeWriteGate ==
  /\ phase = "gate" /\ ~writer
  /\ phase' = "fence" /\ writer' = TRUE
  /\ UNCHANGED <<queue, deferred, answer, group, at, entries, written, store, files, offset,
                 published, fence, accepting, stopping, others>>

\* With both in hand admission is checked again, and then accepting_writes.
TakeFence ==
  /\ phase = "fence" /\ ~fence
  /\ \/ /\ ~open
        /\ phase' = "admission" /\ writer' = FALSE
        /\ UNCHANGED <<answer, group, at, entries, written, fence>>
     \/ /\ open /\ accepting
        /\ phase' = "execute" /\ fence' = TRUE
        /\ UNCHANGED <<answer, group, at, entries, written, writer>>
     \/ /\ open /\ ~accepting
        /\ Finish(Answered(Grouped, "rejected")) /\ UNCHANGED fence
  /\ UNCHANGED <<queue, deferred, store, files, offset, published, accepting, stopping, others>>

\* prepare_command_operation, prepare_transaction, prepare_obp_set/delete: the
\* mutation is applied to the live store, its before images are kept.
Execute ==
  /\ phase = "execute" /\ at < Len(group)
  /\ Cardinality({i \in DOMAIN entries : entries[i].request = group[at + 1]}) < MaxBatches
  /\ \E change \in Derivable(store) :
       /\ entries' = Append(entries,
                            [request |-> group[at + 1], change |-> change, before |-> store])
       /\ store' = Apply(change, store)
  /\ UNCHANGED <<queue, deferred, answer, phase, group, at, written, files, offset, published,
                 writer, fence, accepting, stopping, others>>

\* Mutation: the end of the group is not noticed.
NextRequestUnchecked ==
  /\ phase = "execute"
  /\ at' = at + 1
  /\ UNCHANGED <<queue, deferred, answer, phase, group, entries, written, store, files, offset,
                 published, writer, fence, accepting, stopping, others>>

\* The request has no further command, or what it had was refused or changed
\* nothing.
NextRequest ==
  /\ phase = "execute" /\ at < Len(group)
  /\ at' = at + 1
  /\ UNCHANGED <<queue, deferred, answer, phase, group, entries, written, store, files, offset,
                 published, writer, fence, accepting, stopping, others>>

\* The effects could not be derived after admission.
ExecuteFails ==
  /\ phase = "execute" /\ at < Len(group) /\ "prepare" \in Faults
  /\ phase' = "undo"
  /\ UNCHANGED <<queue, deferred, answer, group, at, entries, written, store, files, offset,
                 published, writer, fence, accepting, stopping, others>>

\* complete_prepared: what changed something is reported committed.
Completed ==
  LET changed == {entries[i].request : i \in DOMAIN entries}
  IN  [r \in Requests |->
         IF r \in Grouped /\ answer[r] = "none"
         THEN (IF r \in changed THEN "committed" ELSE "unchanged")
         ELSE answer[r]]

Executed == phase = "execute" /\ at = Len(group)

\* The records of the group go to the file as one tail, which a crash may cut.
AppendRecord ==
  /\ Executed /\ written < Len(entries)
  /\ log' = Append(log, Record(entries[written + 1]))
  /\ disk' = Apply(entries[written + 1].change, disk)
  /\ written' = written + 1
  /\ UNCHANGED <<queue, deferred, answer, phase, group, at, entries, store, kept, offset,
                 published, writer, fence, accepting, stopping, others>>

\* Mutation: the clients are answered before the append has finished.
Answerable == Executed

\* Every record of the group is in the file.
Appended == Executed /\ written = Len(entries)

\* Mutation: a group counts as one batch.
OneBatch == IF entries = <<>> THEN 0 ELSE 1

Accepted == Len(entries)

\* accept_next_batches and persist_and_publish_master_batches, then the gates
\* are released and the clients answered.  A group without a batch skips the append.
AppendAccepted ==
  /\ Appended
  /\ offset' = offset + Accepted /\ kept' = disk
  /\ published' = published \o Records(entries)
  /\ Finish(Completed) /\ fence' = FALSE
  /\ UNCHANGED <<queue, deferred, store, log, disk, accepting, stopping, others>>

\* The append failed and rollback_binlog_tail removed what it had written.
AppendRejected ==
  /\ Executed /\ entries # <<>> /\ "append" \in Faults
  /\ log' = SubSeq(log, 1, offset)
  /\ disk' = kept
  /\ phase' = "undo"
  /\ UNCHANGED <<queue, deferred, answer, group, at, entries, written, store, kept, offset,
                 published, writer, fence, accepting, stopping, others>>

\* Mutation: the before images are restored oldest first.
UndoFirst ==
  /\ phase = "undo" /\ entries # <<>>
  /\ store' = Apply(Undo(Head(entries)), store)
  /\ entries' = Tail(entries)
  /\ UNCHANGED <<queue, deferred, answer, phase, group, at, written, files, offset, published,
                 writer, fence, accepting, stopping, others>>

\* rollback_prepared: the before images are restored, latest first.
UndoLast ==
  /\ phase = "undo" /\ entries # <<>>
  /\ store' = Apply(Undo(Last(entries)), store)
  /\ entries' = Front(entries)
  /\ UNCHANGED <<queue, deferred, answer, phase, group, at, written, files, offset, published,
                 writer, fence, accepting, stopping, others>>

\* mark_persistence_failed; the gates are released and the group is refused.
UndoDone ==
  /\ phase = "undo" /\ entries = <<>>
  /\ accepting' = FALSE
  /\ Finish(Answered(Grouped, "rejected")) /\ fence' = FALSE
  /\ UNCHANGED <<queue, deferred, store, files, offset, published, stopping, others>>

\* Mutation: the visibility gate is given back as well.
AppendUnfenced ==
  /\ Executed /\ entries # <<>> /\ "indeterminate" \in Faults
  /\ stopping' = TRUE /\ accepting' = FALSE
  /\ Finish(Answered(Grouped, "indeterminate")) /\ fence' = FALSE
  /\ UNCHANGED <<queue, deferred, store, files, offset, published, others>>

\* PersistenceCommitGuard::fail_stop: only the write gate is given back.
AppendIndeterminate ==
  /\ Executed /\ entries # <<>> /\ "indeterminate" \in Faults
  /\ stopping' = TRUE /\ accepting' = FALSE
  /\ Finish(Answered(Grouped, "indeterminate"))
  /\ UNCHANGED <<queue, deferred, store, files, offset, published, fence, others>>

\* Mutation: a dropped completion channel is reported as a rejection.
AbandonedRejected == "rejected"

\* MasterCommitOutcome when the completion channel is gone.
Abandoned == "indeterminate"

\* A panic of the worker drops the guard, which enters fail-stop in the same way,
\* and every completion channel with it, of the deferred request too.  This is
\* the unwinding build; with panic = "abort", as in the release profile, the
\* process ends, which is Restart.
WorkerPanics ==
  /\ phase \in {"execute", "undo"} /\ "panic" \in Faults
  /\ phase' = "dead" /\ writer' = FALSE
  /\ stopping' = TRUE /\ accepting' = FALSE
  /\ answer' = Answered(Grouped \cup Queued, Abandoned)
  /\ group' = <<>> /\ at' = 0 /\ entries' = <<>> /\ written' = 0
  /\ queue' = <<>> /\ deferred' = <<>>
  /\ UNCHANGED <<store, files, offset, published, fence, others>>

-----------------------------------------------------------------------------
(* Everyone else *)

\* Maintenance closes and opens admission as it sees fit (module Maintenance).
AdmissionChanges ==
  /\ open' = ~open
  /\ UNCHANGED <<queue, deferred, answer, worker, store, files, offset, published, writer, fence,
                 accepting, stopping, captor, captured, crashes>>

\* Mutation: a capture does not wait for the write gate.
GateIgnored == TRUE
GateFree == ~writer

\* A compaction and a full synchronization (SYNC3) wait for the write gate.
CaptureBegins(kind) ==
  /\ captor = "none" /\ GateFree
  /\ captor' = kind /\ writer' = TRUE
  /\ UNCHANGED <<queue, deferred, answer, worker, store, files, offset, published, fence,
                 accepting, stopping, open, captured, crashes>>

\* Mutation: a compaction captures under the write gate alone.
CaptureUnfenced(kind) == TRUE

\* A compaction captures the store under the whole boundary, a full
\* synchronization under the write gate alone.
MayCapture(kind) == kind = "snapshot" => ~fence

Capture ==
  /\ captor # "none" /\ MayCapture(captor)
  /\ captured' = {[kind |-> captor, offset |-> offset, store |-> store]}
  /\ captor' = "none" /\ writer' = FALSE
  /\ UNCHANGED <<queue, deferred, answer, worker, store, files, offset, published, fence,
                 accepting, stopping, open, crashes>>

\* A periodic synchronization failed: definitely, or with an unknown outcome,
\* in which case fail-stop is announced and then waits for the boundary.
SyncFails ==
  /\ "sync" \in Faults /\ ~stopping
  /\ \/ accepting /\ accepting' = FALSE /\ UNCHANGED stopping
     \/ stopping' = TRUE /\ UNCHANGED accepting
  /\ UNCHANGED <<queue, deferred, answer, worker, store, files, offset, published, writer, fence,
                 others>>

\* enter_fail_stop waits for an admitted boundary like a commit, then keeps the
\* visibility gate and gives the write gate back.
FailStop ==
  /\ stopping /\ open /\ ~writer /\ ~fence
  /\ fence' = TRUE /\ accepting' = FALSE
  /\ UNCHANGED <<queue, deferred, answer, worker, store, files, offset, published, writer,
                 stopping, others>>

\* The process dies and is started again; recovery replays the file.
Restart ==
  /\ crashes < MaxCrashes /\ crashes' = crashes + 1
  /\ store' = disk /\ kept' = disk /\ offset' = Len(log) /\ published' = log
  /\ Finish(Answered(Grouped \cup Queued, "lost")) /\ queue' = <<>> /\ deferred' = <<>>
  /\ captor' = "none" /\ fence' = FALSE /\ accepting' = TRUE /\ stopping' = FALSE
  /\ UNCHANGED <<log, disk, open, captured>>

Worker ==
  \/ TakeFirst \/ TakeMore \/ Start \/ AwaitAdmission \/ TakeWriteGate \/ TakeFence
  \/ Execute \/ NextRequest \/ ExecuteFails
  \/ AppendRecord \/ AppendAccepted \/ AppendRejected \/ AppendIndeterminate
  \/ UndoLast \/ UndoDone \/ WorkerPanics

Next ==
  \/ \E r \in Requests : Submit(r)
  \/ Worker
  \/ AdmissionChanges
  \/ (\E kind \in {"snapshot", "sync"} : CaptureBegins(kind)) \/ Capture
  \/ SyncFails \/ FailStop \/ Restart

Spec == Init /\ [][Next]_vars

\* The worker and a capture under way are tasks the runtime keeps polling, and
\* the write gate is a tokio mutex, which serves its waiters in order: captures
\* that come again and again do not keep the worker from it.
FairSpec == Spec /\ WF_vars(Worker) /\ SF_vars(TakeWriteGate) /\ WF_vars(Capture)

-----------------------------------------------------------------------------
(* Properties *)

Stores == [Keys -> Values]
Changes == UNION {[K -> Values] : K \in SUBSET Keys}
LogRecords == [request : Requests, change : Changes]
Entries == [request : Requests, change : Changes, before : Stores]
Answers == {"none", "committed", "unchanged", "rejected", "indeterminate", "lost"}
Phases == {"idle", "collect", "admission", "gate", "fence", "execute", "undo", "dead"}

\* The values the state takes.
TypeOK ==
  /\ queue \in Seq(Requests) /\ deferred \in Seq(Requests) /\ answer \in [Requests -> Answers]
  /\ phase \in Phases /\ group \in Seq(Requests) /\ at \in 0..Len(group)
  /\ entries \in Seq(Entries) /\ written \in Nat
  /\ store \in Stores /\ disk \in Stores /\ kept \in Stores
  /\ log \in Seq(LogRecords) /\ offset \in Nat /\ published \in Seq(LogRecords)
  /\ writer \in BOOLEAN /\ fence \in BOOLEAN /\ accepting \in BOOLEAN /\ stopping \in BOOLEAN
  /\ open \in BOOLEAN /\ captor \in {"none", "snapshot", "sync"}
  /\ captured \subseteq [kind : {"snapshot", "sync"}, offset : Nat, store : Stores]
  /\ crashes \in Nat

\* Whenever readers are let in, the store is exactly what a restart would
\* recover: no reader sees a mutation that is not in the binlog, and no
\* mutation in the binlog is missing from memory (execute_ordered_command reads
\* under the visibility gate).
VisibleIsDurable == ~fence => store = disk

InLog(r) == \E i \in DOMAIN log : log[i].request = r

\* What a client is told is true: a committed request is in the binlog, then
\* and after every later failure and restart, and one that was rejected or
\* changed nothing is not, then or ever (complete_prepared, fail_prepared).
AnswersAreTrue ==
  \A r \in Requests :
    /\ answer[r] = "committed" => InLog(r)
    /\ answer[r] \in {"unchanged", "rejected"} => ~InLog(r)

\* The backlog and the live stream hold the records of the binlog up to the
\* authoritative offset, in the same order (persist_and_publish_master_batches).
PublishedIsPrefix == published = SubSeq(log, 1, offset)

\* The state that the records up to an offset stand for.
Replayed(n) ==
  LET replay[i \in 0..n] == IF i = 0 THEN EmptyStore ELSE Apply(log[i].change, replay[i - 1])
  IN  replay[n]

\* A captured store is the state at the offset it is labelled with: a snapshot
\* or a replica that starts from it and applies what follows misses nothing and
\* applies nothing twice (compact_owned, the SYNC3 handler).
CapturesAgree == \A c \in captured : c.store = Replayed(c.offset)
SnapshotsAgree == \A c \in captured : c.kind = "snapshot" => c.store = Replayed(c.offset)

Behind(s, r) ==
  LET waiting == group \o Coming
  IN  \E i, j \in DOMAIN waiting : i < j /\ waiting[i] = r /\ waiting[j] = s

\* No request overtakes another on its way to the binlog, however many groups
\* the limits cut the queue into: two that wait never change places, and one
\* whose successor is already logged is never logged after it (the deferred
\* request of run_master_commit_coordinator, the order of execution and of the
\* records).
NoOvertaking ==
  [][\A r, s \in Requests :
       Behind(s, r) => ~Behind(r, s)' /\ (InLog(s) /\ ~InLog(r) => ~InLog(r)')]_vars

\* Unless maintenance withholds admission again and again, or for ever, every
\* request that was queued is answered or the process is stopping: a request
\* kept back by the group limits gets its turn, and no capture, rejected group or
\* repeated check of the budget leaves the worker waiting (process_commit_group,
\* acquire_commit_boundary).
EveryRequestAnswered ==
  <>[]open => \A r \in Requests : (r \in Queued) ~> (answer[r] # "none" \/ stopping)
==============================================================================
