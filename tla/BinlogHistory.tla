---------------------------- MODULE BinlogHistory ----------------------------
(***************************************************************************)
(* The durable history of one OnyxDB process: the active binlog, its       *)
(* sealed segments and the snapshot files, as the commit path, snapshot    *)
(* compaction, generation rollover, covered-segment cleanup, crashes and   *)
(* startup change them (persistence/runtime.rs, persistence/recovery.rs).  *)
(*                                                                         *)
(* The disk has two layers.  Every operation changes what the running      *)
(* system sees (dir, data); only synchronization makes it survive a power  *)
(* loss: synced counts the durable records of each file and oldDirs holds  *)
(* the directory images since the last directory synchronization, any one  *)
(* of which a power loss may bring back.  A crash of the process alone     *)
(* loses nothing that reached the files.                                   *)
(*                                                                         *)
(* Compaction may be requested at any time (SAVE, shutdown, pressure) and  *)
(* a non-empty generation may always have reached the rollover size; the   *)
(* thresholds and the write budget are the subject of module Maintenance.  *)
(***************************************************************************)
EXTENDS RecoveryRules, FiniteSetsExt

CONSTANTS
  MaxFiles,     \* bound: the files that can exist at once
  Configs       \* the settings and environments to consider

\* A configuration has the fields
\*   policy    appendfsync
\*   segments  MAX_BINLOG_SEGMENTS
\*   tasks     the maintenance that runs
\*   faults    the I/O calls that may fail
\*   commits   bound: committed batches attempted
\*   group     bound: batches in one physical append group
\*   crashes   bound: crashes and power losses
ASSUME BoundsAssumption ==
  /\ MaxFiles \in Nat \ {0}
  /\ \A c \in Configs :
       /\ c.policy \in {"always", "everysec", "no"}
       /\ c.segments \in Nat \ {0}
       /\ c.tasks \subseteq {"compact", "rollover"}
       /\ c.faults \subseteq {"append", "sync", "seal", "snapshot", "unlink", "readonly",
                             "catalog", "power"}
       /\ c.commits \in Nat /\ c.group \in Nat \ {0} /\ c.crashes \in Nat

VARIABLES
  config,                            \* fixed at startup
  dir, oldDirs, data, synced,        \* the disk
  mode,                              \* "up", "starting", "down" or "refused"
  sequence,                          \* repl_offset
  commit,                            \* the append in progress
  boundary, rotation,                \* owners of the commit boundary, rotation_gate
  accepting, failStopped,            \* accepting_writes, fail_stop_started
  task, capture,                     \* compact_owned and rollover_generation_owned
  sweep,                             \* cleanup of covered segments in progress
  watermark, physical, unsnapshotted,\* the catalog counters of CommitRuntime
  history,                           \* batches acknowledged or recovered, in order
  doubt,                             \* batches whose outcome a crash left open
  durable,                           \* how much of history a power loss must keep
  attempts, crashes                  \* bounds

diskVars == <<dir, oldDirs, data, synced>>
gateVars == <<boundary, rotation, accepting, failStopped>>
countVars == <<watermark, physical, unsnapshotted>>
ghostVars == <<history, doubt, durable>>
boundVars == <<config, attempts, crashes>>
vars == <<config, dir, oldDirs, data, synced, mode, sequence, commit, boundary, rotation,
          accepting, failStopped, task, capture, sweep, watermark, physical, unsnapshotted,
          history, doubt, durable, attempts, crashes>>

Policy == config.policy
MaxSegments == config.segments
Tasks == config.tasks
Faults == config.faults
MaxCommits == config.commits
MaxGroup == config.group
MaxCrashes == config.crashes

-----------------------------------------------------------------------------
(* Names, files and the directory *)

Files == 1..MaxFiles
NoFile == 0
Idle == [pc |-> "idle", sealed |-> FALSE]
NoCommit == [stage |-> "none", ids |-> <<>>, prev |-> 0]
NoCapture == [watermark |-> 0, image |-> <<>>, segments |-> 0]
NoSweep == [todo |-> {}, removed |-> 0, failed |-> 0]
SweepOf(ends) == [todo |-> ends, removed |-> 0, failed |-> 0]

Named(d) == Range(d.segs) \cup ({d.active} \ {NoFile})
FreeFiles == Files \ UNION {Named(d) : d \in ToSet(oldDirs) \cup {dir}}
Active == dir.active
ActiveLength == IF Active = NoFile THEN 0 ELSE Len(data[Active])

ChangeDir(d) == dir' = d /\ oldDirs' = IF d = dir THEN oldDirs ELSE Append(oldDirs, dir)
SyncDir == oldDirs' = <<>> /\ UNCHANGED dir
DropSegments(ends) == [dir EXCEPT !.segs = [e \in DOMAIN @ \ ends |-> @[e]]]

\* The data of file f reaches the device.
SyncFile(f) == synced' = [synced EXCEPT ![f] = Len(data[f])]

Up == mode = "up"

Init ==
  /\ config \in Configs
  /\ dir = [primary |-> Missing, backup |-> Missing, segs |-> <<>>, active |-> Min(Files)]
  /\ oldDirs = <<>>
  /\ data = [f \in Files |-> <<>>] /\ synced = [f \in Files |-> 0]
  /\ mode = "up" /\ sequence = 0 /\ commit = NoCommit
  /\ boundary = "free" /\ rotation = "free" /\ accepting = TRUE /\ failStopped = FALSE
  /\ task = [t \in Tasks |-> Idle] /\ capture = NoCapture /\ sweep = NoSweep
  /\ watermark = 0 /\ physical = 0 /\ unsnapshotted = 0
  /\ history = <<>> /\ doubt = <<>> /\ durable = 0 /\ attempts = 0 /\ crashes = 0

\* The boundary is kept for ever: commits and maintenance both stop.
EnterFailStop == failStopped' = TRUE /\ accepting' = FALSE /\ boundary' = "failstop"

-----------------------------------------------------------------------------
(* The commit path: accept_next_batches, append_binlog_records *)

\* A group of batches takes the commit boundary and the next sequences.
CommitBegin ==
  /\ Up /\ accepting /\ ~failStopped /\ boundary = "free"
  /\ \E n \in 1..MaxGroup :
       /\ attempts + n <= MaxCommits
       /\ commit' = [stage |-> "write", ids |-> [i \in 1..n |-> attempts + i],
                     prev |-> ActiveLength]
       /\ attempts' = attempts + n
  /\ boundary' = "commit"
  /\ UNCHANGED <<diskVars, mode, sequence, rotation, accepting, failStopped, task, capture,
                 sweep, countVars, ghostVars, config, crashes>>

\* The records of the group, numbered from the next sequence.
GroupRecords == [i \in 1..Len(commit.ids) |-> [seq |-> sequence + i, id |-> commit.ids[i]]]

\* What write_all may leave when it stops early: some records and part of one.
PartialWrites ==
  {data[Active] \o SubSeq(GroupRecords, 1, k) : k \in 0..Len(commit.ids)}
    \cup {data[Active] \o SubSeq(GroupRecords, 1, k) \o <<Torn>> : k \in 0..Len(commit.ids) - 1}

\* One contiguous write and a flush; appendfsync always also synchronizes.
AppendWrite ==
  /\ Up /\ commit.stage = "write"
  /\ data' = [data EXCEPT ![Active] = @ \o GroupRecords]
  /\ commit' = [commit EXCEPT !.stage = IF Policy = "always" THEN "sync" ELSE "written"]
  /\ UNCHANGED <<dir, oldDirs, synced, mode, sequence, gateVars, task, capture, sweep,
                 countVars, ghostVars, boundVars>>

\* Mutation: the append is acknowledged without its synchronization.
AppendUnsynced ==
  /\ Up /\ commit.stage = "sync"
  /\ commit' = [commit EXCEPT !.stage = "written"]
  /\ UNCHANGED <<diskVars, mode, sequence, gateVars, task, capture, sweep, countVars, ghostVars,
                 boundVars>>

AppendSync ==
  /\ Up /\ commit.stage = "sync"
  /\ SyncFile(Active)
  /\ commit' = [commit EXCEPT !.stage = "written"]
  /\ UNCHANGED <<dir, oldDirs, data, mode, sequence, gateVars, task, capture, sweep,
                 countVars, ghostVars, boundVars>>

\* The append is acknowledged: the sequence advances, the batches are
\* authoritative and their clients are answered.
CommitAck ==
  /\ Up /\ commit.stage = "written"
  /\ sequence' = sequence + Len(commit.ids)
  /\ history' = history \o commit.ids
  /\ durable' = IF Policy = "always" THEN Len(history') ELSE durable
  /\ commit' = NoCommit
  /\ boundary' = "free"
  /\ UNCHANGED <<diskVars, mode, rotation, accepting, failStopped, task, capture, sweep,
                 countVars, doubt, boundVars>>

\* A definite failure: the store rolls back and writes stop until a restart.
Reject ==
  /\ commit' = NoCommit /\ boundary' = "free" /\ accepting' = FALSE
  /\ UNCHANGED <<failStopped, doubt>>

\* The outcome is unknown: the batches may or may not be recovered.
Indeterminate ==
  /\ EnterFailStop
  /\ doubt' = commit.ids
  /\ commit' = NoCommit

\* The write or the synchronization fails.  Nothing written yet is a definite
\* rejection; otherwise the tail has to be rolled back.
AppendFails ==
  /\ Up /\ "append" \in Faults
  /\ \/ /\ commit.stage = "write"
        /\ Reject
        /\ UNCHANGED data
     \/ /\ commit.stage = "write"
        /\ \E d \in PartialWrites : d # data[Active] /\ data' = [data EXCEPT ![Active] = d]
        /\ commit' = [commit EXCEPT !.stage = "rollback"]
        /\ UNCHANGED <<boundary, accepting, failStopped, doubt>>
     \/ /\ commit.stage = "sync"
        /\ commit' = [commit EXCEPT !.stage = "rollback"]
        /\ UNCHANGED <<data, boundary, accepting, failStopped, doubt>>
  /\ UNCHANGED <<dir, oldDirs, synced, mode, sequence, rotation, task, capture, sweep,
                 countVars, history, durable, boundVars>>

\* ManagedBinlogFile::truncate: a truncation to length zero also removes the
\* sealed segments (the first k of them when a removal fails).
Truncated(k) ==
  IF commit.prev = 0 THEN DropSegments(ToSet(SubSeq(SegmentEnds(dir), 1, k))) ELSE dir

\* rollback_binlog_tail: truncate, flush and synchronize, or give up.
RollbackTail ==
  /\ Up /\ commit.stage = "rollback"
  /\ data' = [data EXCEPT ![Active] = SubSeq(@, 1, commit.prev)]
  /\ synced' = [synced EXCEPT ![Active] = commit.prev]
  /\ dir' = Truncated(Len(SegmentEnds(dir)))
  /\ oldDirs' = IF dir' = dir THEN oldDirs ELSE <<>>
  /\ Reject
  /\ UNCHANGED <<mode, sequence, rotation, task, capture, sweep, countVars, history,
                 durable, boundVars>>

RollbackFails ==
  /\ Up /\ commit.stage = "rollback"
  /\ \/ UNCHANGED <<data, synced, dir, oldDirs>>
     \/ /\ data' = [data EXCEPT ![Active] = SubSeq(@, 1, commit.prev)]
        /\ synced' = [synced EXCEPT ![Active] = IF @ > commit.prev THEN commit.prev ELSE @]
        /\ \E k \in 0..Len(SegmentEnds(dir)) : ChangeDir(Truncated(k))
  /\ Indeterminate
  /\ UNCHANGED <<mode, sequence, rotation, task, capture, sweep, countVars, history,
                 durable, boundVars>>

\* The binlog worker serves one message at a time: it is not inside an append
\* or a seal.
WorkerFree ==
  /\ commit.stage \in {"none", "write", "written"}
  /\ \A t \in Tasks : task[t].pc \notin {"renamed", "successor"}

\* The everysec task asks the worker to synchronize the active file.
PeriodicSync ==
  /\ Up /\ Policy = "everysec" /\ WorkerFree /\ Active # NoFile
  /\ synced[Active] # Len(data[Active])
  /\ SyncFile(Active)
  /\ durable' = Len(history)
  /\ UNCHANGED <<dir, oldDirs, data, mode, sequence, commit, gateVars, task, capture, sweep,
                 countVars, history, doubt, boundVars>>

\* A failed synchronization is indeterminate: fail-stop takes the boundary.
PeriodicSyncFails ==
  /\ Up /\ Policy = "everysec" /\ "sync" \in Faults /\ boundary = "free"
  /\ EnterFailStop
  /\ UNCHANGED <<diskVars, mode, sequence, commit, rotation, task, capture, sweep,
                 countVars, ghostVars, boundVars>>

-----------------------------------------------------------------------------
(* Covered-segment cleanup: cleanup_binlog_segments_through, run under the *)
(* rotation gate by a task, or at startup by                               *)
(* cleanup_snapshot_covered_segments                                       *)

Sweeping == (mode = "starting") \/ \E t \in Tasks : task[t].pc \in {"refresh", "cleanup"}

\* Mutation: an off-by-one takes the segment after the covered ones too.
CoveredAndNext(w) == {e \in DOMAIN dir.segs : e <= w + 1}

Covered(w) == {e \in DOMAIN dir.segs : e <= w}

\* Segments go one by one in sequence order.  "unlink" lets single removals
\* fail, "readonly" lets all of them fail; the pass carries on either way.
SweepRemove ==
  /\ Sweeping /\ sweep.todo # {}
  /\ LET e == Min(sweep.todo) IN
     \/ /\ sweep.failed = 0 \/ "readonly" \notin Faults
        /\ ChangeDir(DropSegments({e}))
        /\ sweep' = [sweep EXCEPT !.todo = @ \ {e}, !.removed = @ + 1]
     \/ /\ \/ "unlink" \in Faults
           \/ "readonly" \in Faults /\ (sweep.failed > 0 \/ e = Min(DOMAIN dir.segs))
        /\ sweep' = [sweep EXCEPT !.todo = @ \ {e}, !.failed = @ + 1]
        /\ UNCHANGED <<dir, oldDirs>>
  /\ UNCHANGED <<data, synced, mode, sequence, commit, gateVars, task, capture,
                 countVars, ghostVars, boundVars>>

\* The pass synchronizes the directory and recounts the catalog.
SweepCounted ==
  /\ sweep.todo = {}
  /\ SyncDir
  /\ physical' = Cardinality(DOMAIN dir.segs)
  /\ sweep' = NoSweep

-----------------------------------------------------------------------------
(* Maintenance: compact_owned and rollover_generation_owned.  Each step is *)
(* the code between two awaits.                                            *)

Goto(t, pc) == task' = [task EXCEPT ![t].pc = pc]
Finish(t) == task' = [task EXCEPT ![t] = Idle]

\* The task takes the rotation gate (a compaction also holds compaction_gate
\* for its whole life, so there is one at a time) and starts a cleanup pass.
TaskStart(t) ==
  /\ Up /\ task[t].pc = "idle" /\ rotation = "free"
  /\ t = "rollover" => ActiveLength > 0
  /\ Cardinality(FreeFiles) > 1
  /\ rotation' = t
  /\ Goto(t, "refresh")
  /\ sweep' = SweepOf(Covered(watermark))
  /\ UNCHANGED <<diskVars, mode, sequence, commit, boundary, accepting, failStopped, capture,
                 countVars, ghostVars, boundVars>>

\* Rollover leaves the last catalog slot to compaction; a compaction that
\* finds no slot takes its snapshot without sealing.
SealsGeneration(t) ==
  IF t = "rollover" THEN physical' < MaxSegments - 1 ELSE physical' < MaxSegments

TaskRefreshed(t) ==
  /\ Up /\ task[t].pc = "refresh"
  /\ SweepCounted
  /\ \/ SealsGeneration(t) /\ Goto(t, "preflush") /\ UNCHANGED rotation
     \/ t = "compact" /\ ~SealsGeneration(t) /\ Goto(t, "gateFull") /\ UNCHANGED rotation
     \/ t = "rollover" /\ ~SealsGeneration(t) /\ Finish(t) /\ rotation' = "free"
  /\ UNCHANGED <<data, synced, mode, sequence, commit, boundary, accepting, failStopped,
                 capture, watermark, unsnapshotted, ghostVars, boundVars>>

\* preflush_active_generation synchronizes what has been written so far,
\* through its own handle, while commits continue.
Preflush(t) ==
  /\ Up /\ task[t].pc = "preflush" /\ Active # NoFile
  /\ SyncFile(Active)
  /\ durable' = Len(history)
  /\ Goto(t, "gate")
  /\ UNCHANGED <<dir, oldDirs, data, mode, sequence, commit, gateVars, capture, sweep,
                 countVars, history, doubt, boundVars>>

TaskGate(t) ==
  /\ Up /\ task[t].pc \in {"gate", "gateFull"} /\ boundary = "free"
  /\ boundary' = t
  /\ Goto(t, IF task[t].pc = "gate" THEN "seal" ELSE "capture")
  /\ UNCHANGED <<diskVars, mode, sequence, commit, rotation, accepting, failStopped, capture,
                 sweep, countVars, ghostVars, boundVars>>

\* Mutation: the rename relies on the preflush and does not synchronize again.
SealUnsynced(t) ==
  /\ Up /\ task[t].pc = "seal" /\ ActiveLength > 0 /\ sequence \notin DOMAIN dir.segs
  /\ durable' = Len(history)
  /\ ChangeDir([dir EXCEPT !.segs = (sequence :> Active) @@ @, !.active = NoFile])
  /\ Goto(t, "renamed")
  /\ UNCHANGED <<data, synced, mode, sequence, commit, gateVars, capture, sweep, countVars,
                 history, doubt, boundVars>>

\* seal_active up to the rename: an empty generation is left alone, any other
\* is synchronized and renamed to the segment of the current sequence.
SealRename(t) ==
  /\ Up /\ task[t].pc = "seal"
  /\ \/ /\ ActiveLength = 0
        /\ Goto(t, "capture")
        /\ UNCHANGED <<dir, oldDirs, synced, durable>>
     \/ /\ ActiveLength > 0 /\ sequence > 0 /\ sequence \notin DOMAIN dir.segs
        /\ SyncFile(Active)
        /\ durable' = Len(history)
        /\ ChangeDir([dir EXCEPT !.segs = (sequence :> Active) @@ @, !.active = NoFile])
        /\ Goto(t, "renamed")
  /\ UNCHANGED <<data, mode, sequence, commit, gateVars, capture, sweep, countVars, history,
                 doubt, boundVars>>

SealSyncParent(t) ==
  /\ Up /\ task[t].pc = "renamed"
  /\ SyncDir
  /\ Goto(t, "successor")
  /\ UNCHANGED <<data, synced, mode, sequence, commit, gateVars, capture, sweep, countVars,
                 ghostVars, boundVars>>

\* The new active file is created, and it and the directory are synchronized.
SealSuccessor(t) ==
  /\ Up /\ task[t].pc = "successor"
  /\ LET f == Min(FreeFiles) IN
       /\ dir' = [dir EXCEPT !.active = f]
       /\ data' = [data EXCEPT ![f] = <<>>]
       /\ synced' = [synced EXCEPT ![f] = 0]
  /\ oldDirs' = <<>>
  /\ task' = [task EXCEPT ![t] = [pc |-> "capture", sealed |-> TRUE]]
  /\ UNCHANGED <<mode, sequence, commit, gateVars, capture, sweep, countVars, ghostVars,
                 boundVars>>

\* Mutation: an empty generation is counted as a sealed segment.
CountAlways(t) == physical' = physical + 1 /\ unsnapshotted' = unsnapshotted + 1

\* record_sealed_segment, for a generation that had bytes to seal.
CountSealed(t) ==
  LET n == IF task[t].sealed THEN 1 ELSE 0
  IN  physical' = physical + n /\ unsnapshotted' = unsnapshotted + n

RolloverDone ==
  /\ Up /\ "rollover" \in Tasks /\ task["rollover"].pc = "capture"
  /\ CountSealed("rollover")
  /\ boundary' = "free" /\ rotation' = "free"
  /\ Finish("rollover")
  /\ UNCHANGED <<diskVars, mode, sequence, commit, accepting, failStopped, capture, sweep,
                 watermark, ghostVars, boundVars>>

\* Under the boundary the compaction fixes its watermark and captures the
\* store; then it lets commits and rollovers go on.
Capture ==
  /\ Up /\ "compact" \in Tasks /\ task["compact"].pc = "capture"
  /\ CountSealed("compact")
  /\ capture' = [watermark |-> sequence, image |-> history, segments |-> unsnapshotted']
  /\ boundary' = "free" /\ rotation' = "free"
  /\ Goto("compact", "backup")
  /\ UNCHANGED <<diskVars, mode, sequence, commit, accepting, failStopped, sweep, watermark,
                 ghostVars, boundVars>>

\* write_snapshot_file, after the temporary file is complete and synchronized
\* (startup never reads it): the old snapshot becomes the backup ...
SnapshotBackup ==
  /\ Up /\ "compact" \in Tasks /\ task["compact"].pc = "backup"
  /\ IF dir.primary = Missing
     THEN UNCHANGED <<dir, oldDirs>> /\ Goto("compact", "install")
     ELSE /\ ChangeDir([dir EXCEPT !.primary = Missing, !.backup = dir.primary])
          /\ Goto("compact", "backupSync")
  /\ UNCHANGED <<data, synced, mode, sequence, commit, gateVars, capture, sweep, countVars,
                 ghostVars, boundVars>>

\* ... the rename is made durable ...
SnapshotBackupSync ==
  /\ Up /\ "compact" \in Tasks /\ task["compact"].pc = "backupSync"
  /\ SyncDir
  /\ Goto("compact", "install")
  /\ UNCHANGED <<data, synced, mode, sequence, commit, gateVars, capture, sweep, countVars,
                 ghostVars, boundVars>>

\* Mutation: the snapshot is labelled with the sequence of its installation.
LateSnapshot == [watermark |-> sequence, image |-> capture.image]

NewSnapshot == [watermark |-> capture.watermark, image |-> capture.image]

\* ... the new snapshot takes its place ...
SnapshotInstall ==
  /\ Up /\ "compact" \in Tasks /\ task["compact"].pc = "install"
  /\ ChangeDir([dir EXCEPT !.primary = NewSnapshot])
  /\ Goto("compact", "installSync")
  /\ UNCHANGED <<data, synced, mode, sequence, commit, gateVars, capture, sweep, countVars,
                 ghostVars, boundVars>>

\* ... and that rename is made durable.
SnapshotInstallSync ==
  /\ Up /\ "compact" \in Tasks /\ task["compact"].pc = "installSync"
  /\ SyncDir
  /\ durable' = Max({durable, capture.watermark})
  /\ Goto("compact", "final")
  /\ UNCHANGED <<data, synced, mode, sequence, commit, gateVars, capture, sweep, countVars,
                 history, doubt, boundVars>>

\* Mutation: the segments sealed since the capture are credited too.
CreditedAll == 0

\* Only the segments that existed at the capture are credited.
Credited == Max({0, unsnapshotted - capture.segments})

\* Under the boundary again: the runtime adopts the watermark.
AdoptSnapshot ==
  /\ Up /\ "compact" \in Tasks /\ task["compact"].pc = "final" /\ boundary = "free"
  /\ watermark' = capture.watermark
  /\ unsnapshotted' = Credited
  /\ capture' = NoCapture
  /\ Goto("compact", "cleanGate")
  /\ UNCHANGED <<diskVars, mode, sequence, commit, gateVars, sweep, physical, ghostVars,
                 boundVars>>

CleanupStart ==
  /\ Up /\ "compact" \in Tasks /\ task["compact"].pc = "cleanGate" /\ rotation = "free"
  /\ rotation' = "compact"
  /\ sweep' = SweepOf(Covered(watermark))
  /\ Goto("compact", "cleanup")
  /\ UNCHANGED <<diskVars, mode, sequence, commit, boundary, accepting, failStopped, capture,
                 countVars, ghostVars, boundVars>>

CompactDone ==
  /\ Up /\ "compact" \in Tasks /\ task["compact"].pc = "cleanup"
  /\ SweepCounted
  /\ rotation' = "free"
  /\ Finish("compact")
  /\ UNCHANGED <<data, synced, mode, sequence, commit, boundary, accepting, failStopped,
                 capture, watermark, unsnapshotted, ghostVars, boundVars>>

-----------------------------------------------------------------------------
(* Failures of maintenance I/O *)

\* The task ends and releases what it holds; commits continue.
Abort(t) ==
  /\ Finish(t)
  /\ rotation' = IF rotation = t THEN "free" ELSE rotation
  /\ boundary' = IF boundary = t THEN "free" ELSE boundary
  /\ UNCHANGED <<accepting, failStopped>>

FailStopTask(t) ==
  /\ Finish(t)
  /\ rotation' = IF rotation = t THEN "free" ELSE rotation
  /\ EnterFailStop

Unseal == [dir EXCEPT !.segs = [e \in DOMAIN @ \ {sequence} |-> @[e]],
                      !.active = dir.segs[sequence]]

\* seal_active fails.  Before the rename it leaves history alone unless the
\* synchronization failed; after it, restore_segment_after_failed_seal renames
\* the segment back, and anything it cannot prove is fail-stop (with or without
\* an empty successor, which startup treats alike).
SealFails(t) ==
  /\ Up /\ task[t].pc \in {"preflush", "seal", "renamed", "successor"}
  /\ "seal" \in Faults \/ (task[t].pc = "seal" /\ ActiveLength > 0 /\ sequence \in DOMAIN dir.segs)
  /\ \/ task[t].pc \in {"preflush", "seal"} /\ Abort(t) /\ UNCHANGED diskVars
     \/ task[t].pc = "seal" /\ ActiveLength > 0 /\ FailStopTask(t) /\ UNCHANGED diskVars
     \/ /\ task[t].pc \in {"renamed", "successor"}
        /\ \/ dir' = Unseal /\ oldDirs' = <<>> /\ Abort(t)
           \/ ChangeDir(Unseal) /\ FailStopTask(t)
           \/ UNCHANGED <<dir, oldDirs>> /\ FailStopTask(t)
        /\ UNCHANGED <<data, synced>>
  /\ UNCHANGED <<mode, sequence, commit, capture, sweep, countVars, ghostVars, boundVars>>

\* write_snapshot_file fails at any of its steps; when the new snapshot cannot
\* be renamed it tries to put the backup back.
SnapshotFails ==
  /\ Up /\ "compact" \in Tasks /\ "snapshot" \in Faults
  /\ task["compact"].pc \in {"backup", "backupSync", "install", "installSync"}
  /\ \/ UNCHANGED <<dir, oldDirs>>
     \/ /\ task["compact"].pc = "install" /\ dir.primary = Missing /\ dir.backup # Missing
        /\ ChangeDir([dir EXCEPT !.primary = dir.backup, !.backup = Missing])
  /\ Abort("compact")
  /\ capture' = NoCapture
  /\ UNCHANGED <<data, synced, mode, sequence, commit, sweep, countVars, ghostVars, boundVars>>

\* The checkpoint of the retained generation fails under the final boundary.
CheckpointFails ==
  /\ Up /\ "compact" \in Tasks /\ task["compact"].pc = "final" /\ boundary = "free"
  /\ "seal" \in Faults
  /\ FailStopTask("compact")
  /\ capture' = NoCapture
  /\ UNCHANGED <<diskVars, mode, sequence, commit, sweep, countVars, ghostVars, boundVars>>

\* The catalog cannot be listed, validated or synchronized.  A pass in front of
\* a seal aborts the task; the pass after a snapshot is only reported.
CatalogFails(t) ==
  /\ Up /\ task[t].pc \in {"refresh", "cleanup"} /\ "catalog" \in Faults
  /\ Abort(t)
  /\ sweep' = NoSweep
  /\ UNCHANGED <<diskVars, mode, sequence, commit, capture, countVars, ghostVars, boundVars>>

-----------------------------------------------------------------------------
(* Crashes and startup *)

\* The process is gone: only the disk and the open outcomes remain.
Halt ==
  /\ mode' = "down"
  /\ crashes' = crashes + 1
  /\ doubt' = doubt \o commit.ids
  /\ sequence' = 0 /\ commit' = NoCommit
  /\ boundary' = "free" /\ rotation' = "free" /\ accepting' = TRUE /\ failStopped' = FALSE
  /\ task' = [t \in Tasks |-> Idle] /\ capture' = NoCapture /\ sweep' = NoSweep
  /\ watermark' = 0 /\ physical' = 0 /\ unsnapshotted' = 0
  /\ UNCHANGED <<config, history, durable, attempts>>

\* The process dies at any step, a write possibly half done; also the exit that
\* follows a fail-stop.  What it wrote stays in the files.
Crash ==
  /\ mode \in {"up", "starting"} /\ crashes < MaxCrashes
  /\ \/ UNCHANGED data
     \/ commit.stage = "write" /\ \E d \in PartialWrites : data' = [data EXCEPT ![Active] = d]
  /\ Halt
  /\ UNCHANGED <<dir, oldDirs, synced>>

\* The states of the disk after a power loss: some directory image since the
\* last synchronization, and of each file its synchronized prefix, possibly
\* more, possibly with part of a record.  The tail of one file is lost: no two
\* files ever have unsynchronized records (the active one may).
LostTails ==
  {data} \cup
  UNION {{[data EXCEPT ![f] = SubSeq(@, 1, k) \o t] :
            k \in synced[f]..Len(data[f]) - 1, t \in {<<>>, <<Torn>>}} :
         f \in UNION {Named(d) : d \in ToSet(oldDirs) \cup {dir}}}

PowerLoss ==
  /\ mode \in {"up", "starting"} /\ crashes < MaxCrashes /\ "power" \in Faults
  /\ dir' \in ToSet(oldDirs) \cup {dir}
  /\ data' \in LostTails
  /\ synced' = [f \in Files |-> Len(data'[f])]
  /\ oldDirs' = <<>>
  /\ Halt

Result == Recovered(dir, data, MaxSegments)

\* load_data_from_paths and the start of main: validate, load the snapshot,
\* replay what follows it, cut the active tail, create a missing active file,
\* and set the counters.  Neither synchronizes the directory: the directory
\* operations of the dead process, and that creation, are assumed to have
\* reached the device by then.
Recover ==
  /\ mode = "down" /\ Result.ok
  /\ mode' = "starting"
  /\ history' = Result.history /\ sequence' = Result.sequence /\ doubt' = <<>>
  /\ watermark' = Result.watermark
  /\ unsnapshotted' = Cardinality({e \in DOMAIN dir.segs : e > Result.watermark})
  /\ physical' = Cardinality(DOMAIN dir.segs)
  /\ sweep' = SweepOf(Covered(Result.watermark))
  /\ LET f == IF Active = NoFile THEN Min(FreeFiles) ELSE Active
         recs == ValidRecords(ActiveRecords(dir, data))
     IN  /\ dir' = [dir EXCEPT !.active = f]
         /\ data' = [data EXCEPT ![f] = recs]
         /\ synced' = [synced EXCEPT ![f] =
                         IF recs # ActiveRecords(dir, data) \/ Active = NoFile THEN Len(recs) ELSE @]
  /\ oldDirs' = <<>>
  /\ UNCHANGED <<commit, gateVars, task, capture, durable, boundVars>>

\* Startup has removed the segments its snapshot covers and serves clients.  It
\* synchronizes the directory if it removed any; if that fails it keeps the
\* higher count.
Serve ==
  /\ mode = "starting" /\ sweep.todo = {}
  /\ mode' = "up"
  /\ sweep' = NoSweep
  /\ \/ sweep.removed = 0 /\ UNCHANGED <<dir, oldDirs, physical>>
     \/ sweep.removed > 0 /\ SyncDir /\ physical' = Cardinality(DOMAIN dir.segs)
     \/ sweep.removed > 0 /\ "catalog" \in Faults /\ UNCHANGED <<dir, oldDirs, physical>>
  /\ UNCHANGED <<data, synced, sequence, commit, gateVars, task, capture, watermark,
                 unsnapshotted, ghostVars, boundVars>>

\* Startup fails closed.
Refuse ==
  /\ mode = "down" /\ ~Result.ok
  /\ mode' = "refused"
  /\ UNCHANGED <<diskVars, sequence, commit, gateVars, task, capture, sweep, countVars,
                 ghostVars, boundVars>>

Next ==
  \/ CommitBegin \/ AppendWrite \/ AppendSync \/ CommitAck
  \/ AppendFails \/ RollbackTail \/ RollbackFails
  \/ PeriodicSync \/ PeriodicSyncFails
  \/ SweepRemove
  \/ \E t \in Tasks :
       \/ TaskStart(t) \/ TaskRefreshed(t) \/ Preflush(t) \/ TaskGate(t)
       \/ SealRename(t) \/ SealSyncParent(t) \/ SealSuccessor(t)
       \/ SealFails(t) \/ CatalogFails(t)
  \/ RolloverDone \/ Capture
  \/ SnapshotBackup \/ SnapshotBackupSync \/ SnapshotInstall \/ SnapshotInstallSync
  \/ AdoptSnapshot \/ CleanupStart \/ CompactDone
  \/ SnapshotFails \/ CheckpointFails
  \/ Crash \/ PowerLoss \/ Recover \/ Serve \/ Refuse

Spec == Init /\ [][Next]_vars

-----------------------------------------------------------------------------
(* Properties *)

Snapshots == [watermark : 0..MaxCommits, image : Seq(1..MaxCommits)]
Records == [seq : 0..MaxCommits, id : 0..MaxCommits]

\* The values the state takes.
TypeOK ==
  /\ dir.primary \in Snapshots /\ dir.backup \in Snapshots
  /\ DOMAIN dir.segs \subseteq 1..MaxCommits /\ Range(dir.segs) \subseteq Files
  /\ dir.active \in Files \cup {NoFile}
  /\ data \in [Files -> Seq(Records)]
  /\ synced \in [Files -> 0..MaxCommits]
  /\ mode \in {"up", "starting", "down", "refused"}
  /\ sequence \in 0..MaxCommits /\ watermark \in 0..MaxCommits
  /\ commit.stage \in {"none", "write", "sync", "written", "rollback"}
  /\ boundary \in {"free", "commit", "failstop"} \cup Tasks
  /\ rotation \in {"free"} \cup Tasks
  /\ accepting \in BOOLEAN /\ failStopped \in BOOLEAN
  /\ physical \in 0..MaxSegments /\ unsnapshotted \in 0..MaxSegments
  /\ history \in Seq(1..MaxCommits) /\ durable \in 0..MaxCommits

\* What is open when a crash happens now: the append in progress and what an
\* earlier indeterminate outcome left.
Open == doubt \o commit.ids

\* Startup accepts r and gives back at least the first n acknowledged batches,
\* in order, and nothing but acknowledged batches and the open ones.
Preserves(r, n) ==
  /\ r.ok
  /\ IsPrefix(SubSeq(history, 1, n), r.history)
  /\ IsPrefix(r.history, history \o Open)
  /\ r.sequence >= Len(r.history)

\* No compaction finds the catalog full while the active file holds records.
NeverFull == "compact" \notin Tasks \/ MaxCommits <= MaxSegments

\* Two things can leave a gap in front of a later batch, for which startup then
\* refuses the directory (FailsClosed).  A cleanup whose removals fail singly goes
\* on to later segments.  And in a full catalog a compaction takes its snapshot
\* without sealing, and its checkpoint flushes the active file but does not
\* synchronize it (BinlogHandle::checkpoint): a power loss may keep the snapshot and
\* lose records it covers, and what is appended or sealed next does not join on.
GapPossible == "unlink" \in Faults \/ ("power" \in Faults /\ ~NeverFull)

\* A crash of the process at any step of an append, a seal, a snapshot
\* installation or a cleanup loses no acknowledged batch, brings back no
\* rejected one and leaves a directory startup accepts
\* (append_binlog_records, seal_active, write_snapshot_file,
\* cleanup_binlog_segments_through against load_data_from_paths).
CrashSafe ==
  (mode \in {"up", "starting"} /\ ~GapPossible) => Preserves(Result, Len(history))

\* A power loss at any step keeps every batch that was durable: all the
\* acknowledged ones under appendfsync always, and under the other policies
\* those a synchronization, a seal or an installed snapshot covered; what it
\* keeps is a prefix of history, never a later batch without an earlier one.
PowerSafe ==
  (mode \in {"up", "starting"} /\ "power" \in Faults /\ ~GapPossible) =>
    \A d \in ToSet(oldDirs) \cup {dir}, dt \in LostTails :
      Preserves(Recovered(d, dt, MaxSegments), durable)

\* Whatever maintenance I/O fails and however often the machine goes down,
\* startup refuses what it cannot account for: if it accepts the directory at
\* all, no acknowledged batch (after a power loss, no durable one) is missing and
\* no other is there (the checks of inspect_binlog_history and load_data_from_paths).
FailsClosed ==
  mode \in {"up", "starting"} =>
    /\ Result.ok => Preserves(Result, Len(history))
    /\ \A d \in ToSet(oldDirs) \cup {dir}, dt \in LostTails :
         LET r == Recovered(d, dt, MaxSegments) IN r.ok => Preserves(r, durable)

\* The catalog counters describe the directory whenever no rotation is under
\* way: no segment is missing from the physical count, which recovery's limit and
\* the rollover limit rest on, nor an uncovered one from the count that asks for a
\* snapshot (record_sealed_segment, apply_segment_catalog_cleanup, compact_owned).
\* That one is exact unless a compaction may find the catalog full: what it covers
\* without sealing counts as uncovered when it is sealed.
CountersAgree ==
  (Up /\ rotation = "free" /\ ~failStopped) =>
     LET uncovered == Cardinality({e \in DOMAIN dir.segs : e > watermark})
     IN  /\ physical >= Cardinality(DOMAIN dir.segs)
         /\ unsnapshotted >= uncovered
         /\ NeverFull => unsnapshotted = uncovered

\* A sealed segment is removed only when an installed snapshot file covers it
\* (cleanup_binlog_segments_through and every other removal of segments).
SegmentsRemovedWhenCovered ==
  [][\A e \in DOMAIN dir.segs \ DOMAIN dir'.segs :
       (mode \in {"up", "starting"} /\ mode' # "down" /\ dir'.active # dir.segs[e])
         => e <= ChosenSnapshot(dir).watermark]_vars
==============================================================================
