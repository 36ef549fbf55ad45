----------------------------- MODULE Maintenance -----------------------------
(***************************************************************************)
(* How OnyxDB schedules its storage maintenance and holds commits back     *)
(* while it runs: the counters, ownership flags, gates and write budget of *)
(* CommitRuntime (persistence/runtime.rs) and schedule_maintenance,        *)
(* install_full_sync and the fail-stop entry (main.rs).                    *)
(*                                                                         *)
(* Processes: "commit" (the commit coordinator, or the replica's apply     *)
(* loop), "auto" (scheduled compaction), "save" (a SAVE command),          *)
(* "rollover", "install" (a replica installing a full synchronization) and *)
(* "failstop" (enter_fail_stop called without a boundary).  A step is the  *)
(* code between two awaits, or less where another thread can see the       *)
(* middle of it.  The gates are tokio mutexes, which serve waiters in      *)
(* order: each is a queue whose head holds it.                             *)
(*                                                                         *)
(* What the files contain is the subject of module BinlogHistory; here a   *)
(* generation is a number of bytes and the catalog a number of segments.   *)
(***************************************************************************)
EXTENDS Integers, Sequences, FiniteSets, SequencesExt

CONSTANTS
  Procs,          \* the processes that exist
  Faults,         \* the I/O that may fail: see FaultNames
  Target,         \* BINLOG_GENERATION_TARGET_BYTES, in units of a group
  Budget,         \* COMPACTION_PREFLUSH_WRITE_BUDGET_BYTES
  MaxGroup,       \* the largest physical group (MAX_COMMIT_GROUP_INPUT_BYTES)
  Threshold,      \* COMPACTION_THRESHOLD
  MaxUnsnapshotted, \* MAX_UNSNAPSHOTTED_BINLOG_SEGMENTS
  Pressure,       \* BINLOG_SEGMENT_SNAPSHOT_PRESSURE
  MaxSegments,    \* MAX_BINLOG_SEGMENTS
  MaxActive,      \* bound: bytes in the active generation
  MaxWrites,      \* bound: batches since the last snapshot
  MaxSaves        \* bound: SAVE commands and full synchronizations

ProcNames == {"commit", "auto", "save", "rollover", "install", "failstop"}
FaultNames == {"catalog", "unlink", "preflush", "seal", "snapshot", "checkpoint", "sync"}

ASSUME MaintenanceAssumption ==
  /\ Procs \subseteq ProcNames /\ {"commit", "auto", "rollover", "failstop"} \subseteq Procs
  /\ Faults \subseteq FaultNames
  /\ Target \in Nat \ {0} /\ Budget \in Nat \ {0} /\ MaxGroup \in Nat \ {0}
  /\ Threshold \in Nat \ {0} /\ MaxUnsnapshotted \in Nat \ {0} /\ Pressure \in Nat \ {0}
  /\ MaxSegments \in Nat \ {0} /\ MaxActive \in Nat
  /\ MaxWrites \in Nat /\ MaxSaves \in Nat

RolloverLimit == MaxSegments - 1         \* BINLOG_SEGMENT_ROLLOVER_LIMIT
AdmissionLimit == Target + Budget        \* BINLOG_GENERATION_ADMISSION_LIMIT_BYTES
Open == -1                               \* WRITE_BUDGET_OPEN
Compactors == Procs \cap {"auto", "save"}
Rotators == Compactors \cup {"rollover"}

VARIABLES
  pc,             \* where each process is
  active,         \* active_binlog_bytes
  budget,         \* bytes left of compaction_write_budget_limit, or Open
  writes,         \* write_count
  physical, unsnapshotted,   \* segment counts
  blocked, unavailable,      \* segment_cleanup_blocked, segment_catalog_unavailable
  pending,        \* the set of pending flags held: "auto", "rollover"
  rearm,          \* finished tasks that still have to recheck: <<process, succeeded>>
  captured,       \* per compaction: the counts it captured
  baseline, rotation, boundary,   \* queues of compaction_gate, rotation_gate, the
                                  \* commit boundary
  stopping, stopped,         \* fail_stop_started; fail-stop in force
  saves                      \* bound

counts == <<active, writes, physical, unsnapshotted, blocked, unavailable>>
gates == <<baseline, rotation, boundary>>
vars == <<pc, active, budget, writes, physical, unsnapshotted, blocked, unavailable,
          pending, rearm, captured, baseline, rotation, boundary, stopping, stopped, saves>>

NoCounts == [writes |-> 0, segments |-> 0]

Init ==
  /\ pc = [p \in Procs |-> "idle"]
  /\ active = 0 /\ budget = Open /\ writes = 0
  /\ physical = 0 /\ unsnapshotted = 0 /\ blocked = FALSE /\ unavailable = FALSE
  /\ pending = {} /\ rearm = {} /\ captured = [p \in Compactors |-> NoCounts]
  /\ baseline = <<>> /\ rotation = <<>> /\ boundary = <<>>
  /\ stopping = FALSE /\ stopped = FALSE /\ saves = 0

-----------------------------------------------------------------------------
(* Gates *)

Holds(p, gate) == gate # <<>> /\ Head(gate) = p
Without(gate, p) == SelectSeq(gate, LAMBDA q : q # p)
AtLeast(n, m) == IF n > m THEN n ELSE m

-----------------------------------------------------------------------------
(* Requesting maintenance *)

CatalogPressure(ph, bl) == ph >= Pressure /\ ~bl

\* request_snapshot_if_needed and request_rollover_if_needed, without the CAS.
SnapshotDue(w, u, ph, bl) ==
  w >= Threshold \/ u >= MaxUnsnapshotted \/ CatalogPressure(ph, bl)
RolloverDue(a, ph, bl) ==
  a >= Target /\ ph < RolloverLimit /\ ~CatalogPressure(ph, bl)

\* The requests the counters call for whose pending flag is still clear.
Due(kinds, held, w, a) ==
  {k \in kinds \ held :
     \/ k = "auto" /\ SnapshotDue(w, unsnapshotted, physical, blocked)
     \/ k = "rollover" /\ RolloverDue(a, physical, blocked)}

\* A task is spawned for every flag won.
Spawned(due) == [p \in Procs |-> IF p \in due THEN "start" ELSE pc[p]]

-----------------------------------------------------------------------------
(* Admission: acquire_commit_boundary *)

\* rollover_backpressure_active and segment_catalog_backpressure_active
Backpressure ==
  /\ active >= AdmissionLimit
  /\ "rollover" \in pending \/ physical >= RolloverLimit \/ unavailable

\* compaction_write_budget_allows_progress
Allows == (budget = Open \/ budget > 0) /\ ~Backpressure

\* notify_waiters: every process parked on the budget looks again.
Woken(f) == [p \in Procs |-> IF f[p] = "parked" THEN "check" ELSE f[p]]

Admitted == Procs \cap {"commit", "install", "failstop"}

\* The check and the registration for the next notification are one step: the
\* future is created before the check.
CheckBudget(p) ==
  /\ pc[p] = "check"
  /\ IF Allows
     THEN pc' = [pc EXCEPT ![p] = "queued"] /\ boundary' = Append(boundary, p)
     ELSE pc' = [pc EXCEPT ![p] = "parked"] /\ UNCHANGED boundary
  /\ UNCHANGED <<counts, budget, pending, rearm, captured, baseline, rotation, stopping,
                 stopped, saves>>

\* With the boundary in hand the budget is checked once more.
Admit(p) ==
  /\ pc[p] = "queued" /\ Holds(p, boundary)
  /\ IF Allows
     THEN pc' = [pc EXCEPT ![p] = "held"] /\ UNCHANGED boundary
     ELSE pc' = [pc EXCEPT ![p] = "check"] /\ boundary' = Tail(boundary)
  /\ UNCHANGED <<counts, budget, pending, rearm, captured, baseline, rotation, stopping,
                 stopped, saves>>

-----------------------------------------------------------------------------
(* Commits *)

\* process_commit_group and persist_and_apply_replica_effect refuse to begin
\* once fail-stop has started.  A replica applies effects and installs
\* baselines from one task.
CommitStart ==
  /\ pc["commit"] = "idle" /\ ~stopping
  /\ "install" \in Procs => pc["install"] = "idle"
  /\ active + MaxGroup <= MaxActive /\ writes < MaxWrites
  /\ pc' = [pc EXCEPT !["commit"] = "check"]
  /\ UNCHANGED <<counts, budget, pending, rearm, captured, gates, stopping, stopped, saves>>

\* accept_next_batches: the bytes and the batch are counted and maintenance is
\* requested; then the boundary is released.
CommitAccept ==
  /\ pc["commit"] = "held"
  /\ \E n \in 1..MaxGroup :
       LET a == active + n
           w == writes + 1
           due == Due({"auto", "rollover"}, pending, w, a)
       IN  /\ active' = a /\ writes' = w
           /\ budget' = IF budget = Open THEN Open ELSE AtLeast(budget - n, 0)
           /\ pending' = pending \cup due
           /\ pc' = [Spawned(due) EXCEPT !["commit"] = "idle"]
  /\ boundary' = Tail(boundary)
  /\ UNCHANGED <<physical, unsnapshotted, blocked, unavailable, rearm, captured, baseline,
                 rotation, stopping, stopped, saves>>

-----------------------------------------------------------------------------
(* compact_owned and rollover_generation_owned *)

\* SAVE compacts directly; it owns no pending flag.
SaveStart ==
  /\ "save" \in Procs /\ pc["save"] = "idle" /\ saves < MaxSaves
  /\ pc' = [pc EXCEPT !["save"] = "start"]
  /\ saves' = saves + 1
  /\ UNCHANGED <<counts, budget, pending, rearm, captured, gates, stopping, stopped>>

\* Compactions and full synchronizations queue for the baseline gate first.
QueueBaseline(p) ==
  /\ p # "rollover" /\ pc[p] = "start"
  /\ baseline' = Append(baseline, p)
  /\ pc' = [pc EXCEPT ![p] = "baseline"]
  /\ UNCHANGED <<counts, budget, pending, rearm, captured, rotation, boundary, stopping,
                 stopped, saves>>

QueueRotation(p) ==
  /\ \/ p = "rollover" /\ pc[p] = "start"
     \/ pc[p] = "baseline" /\ Holds(p, baseline)
  /\ rotation' = Append(rotation, p)
  /\ pc' = [pc EXCEPT ![p] = "rotation"]
  /\ UNCHANGED <<counts, budget, pending, rearm, captured, baseline, boundary, stopping,
                 stopped, saves>>

\* The task returns: a budget it still owns is released, its guards drop.
End(p, ok, owned) ==
  /\ baseline' = Without(baseline, p) /\ rotation' = Without(rotation, p)
  /\ budget' = IF owned THEN Open ELSE budget
  /\ LET ended == [pc EXCEPT ![p] = IF p \notin pending THEN "idle"
                                    ELSE IF ok THEN "succeeded" ELSE "failed"]
     IN  pc' = IF owned THEN Woken(ended) ELSE ended

\* Mutation: a finished rollover does not notify the waiters.
FinishSilently(p) ==
  /\ pc[p] \in {"succeeded", "failed"}
  /\ pending' = pending \ {p}
  /\ rearm' = rearm \cup {<<p, pc[p] = "succeeded">>}
  /\ pc' = [pc EXCEPT ![p] = "idle"]
  /\ UNCHANGED <<counts, budget, captured, gates, stopping, stopped, saves>>

\* finish_..._schedule_and_rearm, first half: a scheduled task clears its flag,
\* a rollover also wakes the waiters.
Finish(p) ==
  /\ pc[p] \in {"succeeded", "failed"}
  /\ pending' = pending \ {p}
  /\ rearm' = rearm \cup {<<p, pc[p] = "succeeded">>}
  /\ LET ended == [pc EXCEPT ![p] = "idle"]
     IN  pc' = IF p = "rollover" THEN Woken(ended) ELSE ended
  /\ UNCHANGED <<counts, budget, captured, gates, stopping, stopped, saves>>

\* Mutation: a task rechecks only its own kind of request.
RearmOwn(r) == IF r[2] THEN {r[1]} ELSE {}

\* Everything after a success, only the other kind after a failure.
RearmKinds(r) == IF r[2] THEN {"auto", "rollover"} ELSE {"auto", "rollover"} \ {r[1]}

\* Second half: having cleared its flag the task requests again what is due.
Rearm ==
  \E r \in rearm :
    LET due == Due(RearmKinds(r), pending, writes, active)
    IN  /\ rearm' = rearm \ {r}
        /\ pending' = pending \cup due
        /\ pc' = Spawned(due)
        /\ UNCHANGED <<counts, budget, captured, gates, stopping, stopped, saves>>

\* rollover has nothing to do when the generation is already empty.
RolloverEmpty ==
  /\ pc["rollover"] = "rotation" /\ Holds("rollover", rotation) /\ active = 0
  /\ End("rollover", TRUE, FALSE)
  /\ UNCHANGED <<counts, pending, rearm, captured, boundary, stopping, stopped, saves>>

\* refresh_segment_catalog: the segments below the watermark are removed, all
\* but those whose removal fails, and the rest is counted.
Refreshed(remaining) ==
  /\ remaining \in unsnapshotted..(IF "unlink" \in Faults THEN physical ELSE unsnapshotted)
  /\ physical' = remaining
  /\ blocked' = (remaining > unsnapshotted)
  /\ unavailable' = FALSE

RefreshFailed ==
  /\ "catalog" \in Faults
  /\ blocked' = TRUE /\ unavailable' = TRUE
  /\ UNCHANGED physical

AtRefresh(p) ==
  /\ pc[p] = "rotation" /\ Holds(p, rotation)
  /\ p = "rollover" => active > 0

\* Mutations: a rollover takes the last slot; a compaction seals into a full catalog.
GivesUpWhenFull(p, n) == p = "rollover" /\ n > RolloverLimit
SlotAssumed(n) == TRUE

\* A rollover gives up at its limit; a compaction that finds the catalog full
\* goes on without sealing.
GivesUp(p, n) == p = "rollover" /\ n >= RolloverLimit
HasSlot(n) == n < MaxSegments

\* The pass in front of a seal.
Refresh(p) ==
  /\ AtRefresh(p)
  /\ \E remaining \in 0..MaxSegments : Refreshed(remaining)
  /\ IF GivesUp(p, physical')
     THEN End(p, FALSE, FALSE)
     ELSE /\ pc' = [Woken(pc) EXCEPT ![p] = IF HasSlot(physical') THEN "budget" ELSE "full"]
          /\ UNCHANGED <<baseline, rotation, budget>>
  /\ UNCHANGED <<active, writes, unsnapshotted, pending, rearm, captured, boundary, stopping,
                 stopped, saves>>

RefreshFails(p) ==
  /\ AtRefresh(p)
  /\ RefreshFailed
  /\ End(p, FALSE, FALSE)
  /\ UNCHANGED <<active, writes, unsnapshotted, pending, rearm, captured, boundary, stopping,
                 stopped, saves>>

\* activate_compaction_write_budget, with its assertion: a task that finds the
\* budget taken panics and its supervisor enters fail-stop.
TakeBudget(p) ==
  /\ pc[p] = "budget"
  /\ IF budget = Open
     THEN /\ budget' = Budget
          /\ pc' = [pc EXCEPT ![p] = "preflush"]
          /\ UNCHANGED <<baseline, rotation, stopping>>
     ELSE /\ pc' = [pc EXCEPT ![p] = "panicked", !["failstop"] =
                      IF @ = "idle" THEN "check" ELSE @]
          /\ baseline' = Without(baseline, p) /\ rotation' = Without(rotation, p)
          /\ stopping' = TRUE
          /\ UNCHANGED budget
  /\ UNCHANGED <<counts, pending, rearm, captured, boundary, stopped, saves>>

\* The generation is synchronized through a second handle; then the boundary is
\* requested without admission control.
Preflush(p) ==
  /\ pc[p] \in {"preflush", "full"}
  /\ pc' = [pc EXCEPT ![p] = IF pc[p] = "full" THEN "captureFull" ELSE "seal"]
  /\ boundary' = Append(boundary, p)
  /\ UNCHANGED <<counts, budget, pending, rearm, captured, baseline, rotation, stopping,
                 stopped, saves>>

\* Mutation: the error path forgets the budget.
PreflushLeaks(p) ==
  /\ pc[p] = "preflush" /\ "preflush" \in Faults
  /\ End(p, FALSE, FALSE)
  /\ UNCHANGED <<counts, pending, rearm, captured, boundary, stopping, stopped, saves>>

PreflushFails(p) ==
  /\ pc[p] = "preflush" /\ "preflush" \in Faults
  /\ End(p, FALSE, TRUE)
  /\ UNCHANGED <<counts, pending, rearm, captured, boundary, stopping, stopped, saves>>

\* Under the boundary: seal what there is, count it, and for a compaction
\* capture the counters and the store.
Seal(p) ==
  /\ pc[p] \in {"seal", "captureFull"} /\ Holds(p, boundary)
  /\ LET n == IF pc[p] = "seal" /\ active > 0 THEN 1 ELSE 0 IN
       /\ physical' = physical + n
       /\ unsnapshotted' = unsnapshotted + n
       /\ blocked' = (blocked /\ n = 0)
       /\ active' = IF pc[p] = "seal" THEN 0 ELSE active
       /\ captured' = IF p = "rollover" THEN captured
                      ELSE [captured EXCEPT ![p] = [writes |-> writes,
                                                    segments |-> unsnapshotted']]
  /\ pc' = [pc EXCEPT ![p] = IF pc[p] = "seal" THEN "sealed" ELSE "captured"]
  /\ boundary' = Tail(boundary)
  /\ UNCHANGED <<budget, writes, unavailable, pending, rearm, baseline, rotation, stopping,
                 stopped, saves>>

\* After a definite failure the boundary is released; after an indeterminate
\* one fail-stop keeps it for ever.
BoundaryLost ==
  \/ boundary' = Tail(boundary) /\ UNCHANGED <<stopping, stopped>>
  \/ stopping' = TRUE /\ stopped' = TRUE /\ boundary' = <<"nobody">> \o Tail(boundary)

SealFails(p) ==
  /\ pc[p] = "seal" /\ Holds(p, boundary) /\ "seal" \in Faults
  /\ End(p, FALSE, TRUE)
  /\ BoundaryLost
  /\ UNCHANGED <<counts, pending, rearm, captured, saves>>

RolloverReleases ==
  /\ pc["rollover"] = "sealed"
  /\ End("rollover", TRUE, TRUE)
  /\ UNCHANGED <<counts, pending, rearm, captured, boundary, stopping, stopped, saves>>

\* Mutation: the baseline gate is dropped together with the rotation gate.
CompactReleasesGates(p) ==
  /\ pc[p] \in {"sealed", "captured"} /\ p \in Compactors
  /\ rotation' = Without(rotation, p) /\ baseline' = Without(baseline, p)
  /\ pc' = [pc EXCEPT ![p] = IF pc[p] = "sealed" THEN "release" ELSE "snapshot"]
  /\ UNCHANGED <<counts, budget, pending, rearm, captured, boundary, stopping, stopped, saves>>

\* A compaction drops the rotation gate first and releases the budget second.
CompactReleasesRotation(p) ==
  /\ pc[p] \in {"sealed", "captured"} /\ p \in Compactors
  /\ rotation' = Without(rotation, p)
  /\ pc' = [pc EXCEPT ![p] = IF pc[p] = "sealed" THEN "release" ELSE "snapshot"]
  /\ UNCHANGED <<counts, budget, pending, rearm, captured, baseline, boundary, stopping,
                 stopped, saves>>

CompactReleasesBudget(p) ==
  /\ pc[p] = "release"
  /\ budget' = Open
  /\ pc' = [Woken(pc) EXCEPT ![p] = "snapshot"]
  /\ UNCHANGED <<counts, pending, rearm, captured, gates, stopping, stopped, saves>>

\* The snapshot is materialized and installed with no gate but the baseline.
SnapshotWritten(p) ==
  /\ pc[p] = "snapshot"
  /\ pc' = [pc EXCEPT ![p] = "final"]
  /\ boundary' = Append(boundary, p)
  /\ UNCHANGED <<counts, budget, pending, rearm, captured, baseline, rotation, stopping,
                 stopped, saves>>

SnapshotFails(p) ==
  /\ pc[p] = "snapshot" /\ "snapshot" \in Faults
  /\ End(p, FALSE, FALSE)
  /\ captured' = [captured EXCEPT ![p] = NoCounts]
  /\ UNCHANGED <<counts, pending, rearm, boundary, stopping, stopped, saves>>

\* Mutation: the segments of the snapshot are not credited.
SegmentsKept(p) == unsnapshotted

\* Only what was captured is credited.
WritesOwed(p) == AtLeast(writes - captured[p].writes, 0)
SegmentsOwed(p) == AtLeast(unsnapshotted - captured[p].segments, 0)

\* The snapshot is adopted.
Adopt(p) ==
  /\ pc[p] = "final" /\ Holds(p, boundary)
  /\ writes' = WritesOwed(p)
  /\ unsnapshotted' = SegmentsOwed(p)
  /\ boundary' = Tail(boundary)
  /\ rotation' = Append(rotation, p)
  /\ captured' = [captured EXCEPT ![p] = NoCounts]
  /\ pc' = [pc EXCEPT ![p] = "cleanup"]
  /\ UNCHANGED <<active, physical, blocked, unavailable, budget, pending, rearm, baseline,
                 stopping, stopped, saves>>

\* The checkpoint or the replica identity could not be written: nothing is
\* credited, or fail-stop begins.
AdoptFails(p) ==
  /\ pc[p] = "final" /\ Holds(p, boundary) /\ "checkpoint" \in Faults
  /\ End(p, FALSE, FALSE)
  /\ captured' = [captured EXCEPT ![p] = NoCounts]
  /\ BoundaryLost
  /\ UNCHANGED <<counts, pending, rearm, saves>>

\* The final pass; its failure is tolerated.
Cleanup(p) ==
  /\ pc[p] = "cleanup" /\ Holds(p, rotation)
  /\ baseline' = Without(baseline, p) /\ rotation' = Without(rotation, p)
  /\ LET ended == [pc EXCEPT ![p] = IF p \in pending THEN "succeeded" ELSE "idle"] IN
       \/ (\E remaining \in 0..MaxSegments : Refreshed(remaining)) /\ pc' = Woken(ended)
       \/ RefreshFailed /\ pc' = ended
  /\ UNCHANGED <<active, writes, unsnapshotted, budget, pending, rearm, captured, boundary,
                 stopping, stopped, saves>>

-----------------------------------------------------------------------------
(* Full synchronization and fail-stop *)

InstallStart ==
  /\ "install" \in Procs /\ pc["install"] = "idle" /\ pc["commit"] = "idle"
  /\ saves < MaxSaves /\ ~stopping
  /\ pc' = [pc EXCEPT !["install"] = "start"]
  /\ saves' = saves + 1
  /\ UNCHANGED <<counts, budget, pending, rearm, captured, gates, stopping, stopped>>

\* With both gates held, install_full_sync asks for an admitted boundary.
InstallGated ==
  /\ "install" \in Procs /\ pc["install"] = "rotation" /\ Holds("install", rotation)
  /\ pc' = [pc EXCEPT !["install"] = "check"]
  /\ UNCHANGED <<counts, budget, pending, rearm, captured, gates, stopping, stopped, saves>>

\* Promotion started meanwhile, or writes are refused: nothing is replaced.
InstallAborts ==
  /\ "install" \in Procs /\ pc["install"] = "held"
  /\ baseline' = Tail(baseline) /\ rotation' = Tail(rotation) /\ boundary' = Tail(boundary)
  /\ pc' = [pc EXCEPT !["install"] = "idle"]
  /\ UNCHANGED <<counts, budget, pending, rearm, captured, stopping, stopped, saves>>

\* The history is replaced: install_baseline resets every counter.
InstallBaseline ==
  /\ "install" \in Procs /\ pc["install"] = "held"
  /\ active' = 0 /\ writes' = 0 /\ physical' = 0 /\ unsnapshotted' = 0
  /\ blocked' = FALSE /\ unavailable' = FALSE
  /\ baseline' = Tail(baseline) /\ rotation' = Tail(rotation) /\ boundary' = Tail(boundary)
  /\ pc' = [Woken(pc) EXCEPT !["install"] = "idle"]
  /\ UNCHANGED <<budget, pending, rearm, captured, stopping, stopped, saves>>

\* A failed periodic synchronization calls enter_fail_stop, which announces
\* itself and then asks for an admitted boundary.
SyncFails ==
  /\ "sync" \in Faults /\ pc["failstop"] = "idle" /\ ~stopping
  /\ stopping' = TRUE
  /\ pc' = [pc EXCEPT !["failstop"] = "check"]
  /\ UNCHANGED <<counts, budget, pending, rearm, captured, gates, stopped, saves>>

\* Fail-stop is in force: the reason is published, the boundary never released.
FailStopped ==
  /\ pc["failstop"] = "held" /\ ~stopped
  /\ stopped' = TRUE
  /\ UNCHANGED <<pc, counts, budget, pending, rearm, captured, gates, stopping, saves>>

Admission == \E p \in Admitted : CheckBudget(p) \/ Admit(p)

RotatorStep(p) ==
  \/ QueueRotation(p) \/ Refresh(p) \/ RefreshFails(p) \/ TakeBudget(p)
  \/ Preflush(p) \/ PreflushFails(p) \/ Seal(p) \/ SealFails(p) \/ Finish(p)

CompactorStep(p) ==
  \/ QueueBaseline(p) \/ CompactReleasesRotation(p) \/ CompactReleasesBudget(p)
  \/ SnapshotWritten(p) \/ SnapshotFails(p) \/ Adopt(p) \/ AdoptFails(p) \/ Cleanup(p)

InstallStep == "install" \in Procs /\ (QueueBaseline("install") \/ QueueRotation("install"))

Next ==
  \/ Admission
  \/ CommitStart \/ CommitAccept
  \/ SaveStart
  \/ \E p \in Rotators : RotatorStep(p)
  \/ \E p \in Compactors : CompactorStep(p)
  \/ RolloverEmpty \/ RolloverReleases \/ Rearm
  \/ InstallStart \/ InstallStep \/ InstallGated \/ InstallAborts \/ InstallBaseline
  \/ SyncFails \/ FailStopped

\* Every spawned task keeps being polled and the gates are fair queues, so each
\* step that stays enabled is taken.  Nothing obliges a client to write, to
\* SAVE or to synchronize, or a device to fail.
Fairness ==
  /\ \A p \in Admitted : WF_vars(CheckBudget(p)) /\ WF_vars(Admit(p))
  /\ WF_vars(CommitAccept)
  /\ \A p \in Rotators : WF_vars(RotatorStep(p))
  /\ \A p \in Compactors : WF_vars(CompactorStep(p))
  /\ WF_vars(RolloverEmpty) /\ WF_vars(RolloverReleases) /\ WF_vars(Rearm)
  /\ WF_vars(InstallStep) /\ WF_vars(InstallGated) /\ WF_vars(InstallBaseline)
  /\ WF_vars(FailStopped)

Spec == Init /\ [][Next]_vars /\ Fairness

-----------------------------------------------------------------------------
(* Properties *)

Places == {"idle", "start", "baseline", "rotation", "budget", "preflush", "full", "seal",
           "captureFull", "sealed", "captured", "release", "snapshot", "final", "cleanup",
           "succeeded", "failed", "panicked", "check", "parked", "queued", "held"}

\* The values the state takes; physical never passes the catalog limit, as
\* record_sealed_segment asserts.
TypeOK ==
  /\ pc \in [Procs -> Places]
  /\ active \in 0..MaxActive /\ budget \in {Open} \cup 0..Budget
  /\ writes \in 0..MaxWrites
  /\ unsnapshotted \in 0..MaxSegments /\ physical \in unsnapshotted..MaxSegments
  /\ blocked \in BOOLEAN /\ unavailable \in BOOLEAN
  /\ pending \subseteq {"auto", "rollover"}
  /\ rearm \subseteq ({"auto", "rollover"} \X BOOLEAN)
  /\ stopping \in BOOLEAN /\ stopped \in BOOLEAN

\* One task owns the write budget: a second activation would fail the
\* assertion of activate_compaction_write_budget.
BudgetExclusive == \A p \in Rotators : pc[p] # "panicked"

\* A budget that throttles commits is always one that a running task will
\* release, on every error path too (CompactionWriteBudget and its Drop).
BudgetOwned ==
  budget # Open =>
    \E p \in Rotators : pc[p] \in {"preflush", "seal", "sealed", "release"}

\* What a compaction captured is still owed when it credits it: no other
\* compaction and no baseline replacement reset the counters while it was writing
\* its snapshot, so the saturating subtractions of compact_owned never saturate.
CapturedStillOwed ==
  \A p \in Compactors :
    captured[p].writes <= writes /\ captured[p].segments <= unsnapshotted

\* The last slot of the catalog is kept for a compaction: a rollover counted
\* the segments before it flushed and waited for the boundary, and still never
\* fills the slot when it seals.
LastSlotReserved ==
  [][(pc["rollover"] = "seal" /\ pc'["rollover"] = "sealed") => physical' <= RolloverLimit]_vars

\* Clearing a pending flag and rechecking loses no snapshot crossing: when no
\* task is owned, none is about to recheck and no commit is being accepted, no
\* snapshot is due (finish_compaction_schedule_and_rearm and
\* finish_rollover_schedule_and_rearm against record_persisted_writes).  A
\* rollover that gave up at its limit is retried only by a later commit.
NoSnapshotLost ==
  (rearm = {} /\ pending = {} /\ pc["commit"] # "held") =>
     ~SnapshotDue(writes, unsnapshotted, physical, blocked)

\* A commit that waits for admission is eventually admitted, unless the process
\* is stopping (wait_for_compaction_write_budget and everything that notifies).
CommitAdmitted == (pc["commit"] = "parked") ~> (pc["commit"] = "held" \/ stopping)

\* A catalog under pressure is eventually relieved by a snapshot and its cleanup
\* (request_snapshot_if_needed, compact_owned).
CatalogRelieved == (physical >= Pressure) ~> (physical < Pressure \/ stopping)

\* Failures are not retried in a tight loop: when no more writes are accepted,
\* maintenance comes to rest whether it succeeds or fails, unless the process is
\* stopping (finish_compaction_schedule_and_rearm and
\* finish_rollover_schedule_and_rearm, which after a failure request only the
\* other kind).
MaintenanceRests ==
  <>[](pc["commit"] = "idle") => <>[](pending = {} \/ stopping)

\* A full synchronization that was received is installed, unless the process is
\* stopping (install_full_sync).
InstallCompletes ==
  "install" \in Procs => ((pc["install"] = "start") ~> (pc["install"] = "idle" \/ stopping))
==============================================================================
