----------------------------- MODULE Replication -----------------------------
(***************************************************************************)
(* A master and its replica: the SYNC3 handler of handle_client, the loop  *)
(* of run_replica, full and partial synchronization, promotion, and the    *)
(* durable replica state (main.rs, persistence/replica_state.rs).          *)
(*                                                                         *)
(* Every start of the master is a run with a replication ID of its own and *)
(* a history of batches, lines[run]; a batch has its position in the       *)
(* history as its sequence.  A run starts from what the previous one left  *)
(* on its disk.  A dataset is the sequence of batches applied to it.       *)
(*                                                                         *)
(* The connection is one FIFO channel from the master to the replica.  It  *)
(* may break at any time and lose what is in it.  How each node commits    *)
(* and how its files survive is the subject of modules CommitCoordinator,  *)
(* BinlogHistory and Maintenance; here a commit is one step, and a failure *)
(* with an unknown outcome, which ends the process, is a crash.            *)
(***************************************************************************)
EXTENDS Integers, Sequences, FiniteSets, SequencesExt, FiniteSetsExt

CONSTANTS
  MaxBatches,     \* bound: batches committed by clients, on either node
  MaxRuns,        \* bound: starts of the master
  MaxCuts,        \* bound: broken connections and failed installations
  MaxCrashes,     \* bound: crashes of the replica
  MaxCompactions, \* bound: snapshots the replica takes
  BacklogCapacity,\* BACKLOG_CAPACITY
  FeedCapacity,   \* the capacity of the broadcast channel
  ChannelBound,   \* bound: messages in flight
  Faults          \* what may happen: see FaultNames

FaultNames == {"power", "append", "sync", "install", "compaction", "promotion", "auto", "manual",
               "reconfigure"}

ASSUME ReplicationAssumption ==
  /\ {MaxBatches, MaxRuns, MaxCuts, MaxCrashes, MaxCompactions} \subseteq Nat
  /\ {BacklogCapacity, FeedCapacity, ChannelBound} \subseteq Nat \ {0}
  /\ Faults \subseteq FaultNames

VARIABLES
  lines,          \* the history of every run of the master
  begun,          \* how much of it the current run recovered
  session,        \* the SYNC3 handler
  channel,        \* messages on their way to the replica
  pc,             \* where run_replica is; "master" where it never ran
  localReplid, localOffset,  \* its local_replid and local_offset
  staged,         \* the full synchronization being received
  unreachable,    \* unreachable_since
  store, sequence,           \* the replica's dataset and repl_offset
  ready, upstream,           \* replication_ready, upstream_replid
  stop,           \* the stop request of ReplicaLifecycle
  promotion,      \* whether a REPLICAOF NO ONE waits for the loop to stop
  replica,        \* IS_REPLICA
  accepting,      \* accepting_writes
  snapshot, log, state,      \* the replica's disk: snapshot, binlog, replica state
  flushed,        \* the records of log that a power loss cannot take
  capture,        \* a compaction on the replica
  batches, cuts, crashes, compactions   \* bounds

masterVars == <<lines, begun>>
linkVars == <<session, channel>>
loopVars == <<pc, localReplid, localOffset, staged, unreachable>>
memoryVars == <<store, sequence, ready, upstream>>
controlVars == <<stop, promotion, replica, accepting>>
diskVars == <<snapshot, log, state, flushed>>
boundVars == <<batches, cuts, crashes, compactions>>
vars == <<lines, begun, session, channel, pc, localReplid, localOffset, staged, unreachable,
          store, sequence, ready, upstream, stop, promotion, replica, accepting, snapshot, log,
          state, flushed, capture, batches, cuts, crashes, compactions>>

NoSession == [pc |-> "closed", replid |-> 0, offset |-> 0, fed |-> 0, sent |-> 0]
NoImage == [replid |-> 0, seq |-> 0, image |-> <<>>]
NoCapture == [pc |-> "none", seq |-> 0, image |-> <<>>]
Installing == [status |-> "INSTALLING", replid |-> 0, baseline |-> 0]
Detached == [status |-> "DETACHED", replid |-> 0, baseline |-> 0]
Ready(r, b) == [status |-> "READY", replid |-> r, baseline |-> b]

Init ==
  /\ lines = <<<<>>>> /\ begun = 0 /\ session = NoSession /\ channel = <<>>
  /\ pc = "connect" /\ localReplid = 0 /\ localOffset = 0 /\ staged = NoImage
  /\ unreachable = FALSE
  /\ store = <<>> /\ sequence = 0 /\ ready = FALSE /\ upstream = 0
  /\ stop = FALSE /\ promotion = FALSE /\ replica = TRUE /\ accepting = TRUE
  /\ snapshot = [seq |-> 0, image |-> <<>>] /\ log = <<>> /\ state = Detached
  /\ flushed = 0
  /\ capture = NoCapture
  /\ batches = 0 /\ cuts = 0 /\ crashes = 0 /\ compactions = 0

-----------------------------------------------------------------------------
(* The master *)

Run == Len(lines)
History == lines[Run]
Offset == Len(History)

\* persist_and_publish_master_batch: the batch is accepted, enters the backlog
\* and is broadcast.
MasterCommit ==
  /\ batches < MaxBatches
  /\ batches' = batches + 1
  /\ lines' = [lines EXCEPT ![Run] = Append(@, batches')]
  /\ UNCHANGED <<begun, linkVars, loopVars, memoryVars, controlVars, diskVars, capture, cuts,
                 crashes, compactions>>

\* The process is started again, from all of its history or, after a power
\* loss, from a part of it.  Its connections end after what they still carry.
MasterRestart ==
  /\ Run < MaxRuns
  /\ \E n \in (IF "power" \in Faults THEN 0..Offset ELSE {Offset}) :
       /\ lines' = Append(lines, SubSeq(History, 1, n))
       /\ begun' = n
  /\ session' = NoSession
  /\ channel' = IF session = NoSession THEN channel ELSE Append(channel, [type |-> "eof"])
  /\ UNCHANGED <<loopVars, memoryVars, controlVars, diskVars, capture, boundVars>>

\* The batches of this run still retained, as sequences.
Backlog == Max({begun, Offset - BacklogCapacity}) + 1 .. Offset

\* Mutation: the backlog may have a gap.
PartialAnyway(requested) == requested <= Offset

\* partial_resync_possible
PartialPossible(requested) ==
  /\ requested <= Offset
  /\ requested = Offset \/ (Backlog # {} /\ Min(Backlog) <= requested + 1)

\* The handler subscribes to the live stream before it looks at anything else.
Subscribe ==
  /\ session.pc = "asked"
  /\ session' = [session EXCEPT !.pc = "subscribed", !.fed = Offset + 1]
  /\ UNCHANGED <<masterVars, channel, loopVars, memoryVars, controlVars, diskVars, capture,
                 boundVars>>

Effect(n) == [type |-> "effect", seq |-> n, batch |-> History[n]]
Done(n) == [type |-> "done", replid |-> Run, seq |-> n]

\* The missing batches, in order, as CONTINUE3 sends them.
Missing(requested) ==
  LET from == {n \in Backlog : n > requested}
  IN  [i \in 1..Cardinality(from) |-> Effect(Min(from) + i - 1)]

\* Mutation: the replication ID is not compared.
NegotiateAnyRun ==
  /\ session.pc = "subscribed"
  /\ IF session.offset > 0 /\ PartialPossible(session.offset)
     THEN /\ channel' = channel
               \o <<[type |-> "continue", replid |-> session.replid, seq |-> session.offset]>>
               \o Missing(session.offset)
               \o <<[type |-> "done", replid |-> session.replid, seq |-> Offset]>>
          /\ session' = [session EXCEPT !.pc = "live", !.sent = Offset]
     ELSE /\ session' = [session EXCEPT !.pc = "full"]
          /\ UNCHANGED channel
  /\ UNCHANGED <<masterVars, loopVars, memoryVars, controlVars, diskVars, capture, boundVars>>

\* Same replication ID and a backlog without a gap: CONTINUE3, the missing
\* batches, SYNCDONE3.  Otherwise a full synchronization.
Negotiate ==
  /\ session.pc = "subscribed"
  /\ IF session.replid = Run /\ session.offset > 0 /\ PartialPossible(session.offset)
     THEN /\ channel' = channel
               \o <<[type |-> "continue", replid |-> Run, seq |-> session.offset]>>
               \o Missing(session.offset) \o <<Done(Offset)>>
          /\ session' = [session EXCEPT !.pc = "live", !.sent = Offset]
     ELSE /\ session' = [session EXCEPT !.pc = "full"]
          /\ UNCHANGED channel
  /\ UNCHANGED <<masterVars, loopVars, memoryVars, controlVars, diskVars, capture, boundVars>>

\* Under the write gate the sequence and the dataset are captured; FULLRESYNC3,
\* the entries, SYNCDONE3.
SendFull ==
  /\ session.pc = "full"
  /\ channel' = channel \o <<[type |-> "full", replid |-> Run, seq |-> Offset, image |-> History],
                             Done(Offset)>>
  /\ session' = [session EXCEPT !.pc = "live", !.sent = Offset]
  /\ UNCHANGED <<masterVars, loopVars, memoryVars, controlVars, diskVars, capture, boundVars>>

Lagged == Offset - session.fed + 1 > FeedCapacity

\* Mutation: broadcasts the boundary covers are sent again.
StreamAll ==
  /\ session.pc = "live" /\ session.fed <= Offset
  /\ IF Lagged
     THEN session' = NoSession /\ channel' = Append(channel, [type |-> "eof"])
     ELSE /\ Len(channel) < ChannelBound
          /\ channel' = Append(channel, Effect(session.fed))
          /\ session' = [session EXCEPT !.fed = @ + 1, !.sent = session.fed]
  /\ UNCHANGED <<masterVars, loopVars, memoryVars, controlVars, diskVars, capture, boundVars>>

\* The live loop takes the next broadcast: what the boundary already covers is
\* skipped; a receiver that lagged behind closes the connection.
Stream ==
  /\ session.pc = "live" /\ session.fed <= Offset
  /\ IF Lagged
     THEN session' = NoSession /\ channel' = Append(channel, [type |-> "eof"])
     ELSE IF session.fed <= session.sent
     THEN session' = [session EXCEPT !.fed = @ + 1] /\ UNCHANGED channel
     ELSE /\ Len(channel) < ChannelBound
          /\ channel' = Append(channel, Effect(session.fed))
          /\ session' = [session EXCEPT !.fed = @ + 1, !.sent = session.fed]
  /\ UNCHANGED <<masterVars, loopVars, memoryVars, controlVars, diskVars, capture, boundVars>>

\* A heartbeat names the last sequence sent.
Heartbeat ==
  /\ session.pc = "live" /\ Len(channel) < ChannelBound
  /\ ~(channel # <<>> /\ Last(channel).type = "ping")
  /\ channel' = Append(channel, [type |-> "ping", seq |-> session.sent])
  /\ UNCHANGED <<masterVars, session, loopVars, memoryVars, controlVars, diskVars, capture,
                 boundVars>>

-----------------------------------------------------------------------------
(* The replica: run_replica *)

\* The connection is given up; a lost connection starts the failover clock, a
\* refusal by either side clears it.
HangUp(lost) ==
  /\ pc' = "connect" /\ staged' = NoImage /\ unreachable' = lost
  /\ session' = NoSession /\ channel' = <<>>

\* SYNC3 with the identity and offset of the loop, on a new connection.
Connect ==
  /\ pc = "connect" /\ ~stop
  /\ session' = [NoSession EXCEPT !.pc = "asked", !.replid = localReplid, !.offset = localOffset]
  /\ channel' = <<>> /\ pc' = "asked"
  /\ UNCHANGED <<masterVars, localReplid, localOffset, staged, unreachable, memoryVars,
                 controlVars, diskVars, capture, boundVars>>

\* The connection breaks, or none can be made.
Cut ==
  /\ pc \in {"connect", "asked", "full", "partial", "live"} /\ cuts < MaxCuts
  /\ cuts' = cuts + 1
  /\ HangUp(TRUE)
  /\ UNCHANGED <<masterVars, localReplid, localOffset, memoryVars, controlVars, diskVars, capture,
                 batches, crashes, compactions>>

\* The master closed the connection.
ReceiveEof ==
  /\ pc \in {"asked", "full", "partial", "live"} /\ channel # <<>> /\ Head(channel).type = "eof"
  /\ HangUp(TRUE)
  /\ UNCHANGED <<masterVars, localReplid, localOffset, memoryVars, controlVars, diskVars, capture,
                 boundVars>>

Incoming(at, type) == pc \in at /\ channel # <<>> /\ Head(channel).type = type /\ ~stop

\* CONTINUE3 must answer the request that was sent.
ReceiveContinue ==
  /\ Incoming({"asked"}, "continue")
  /\ IF Head(channel).replid = localReplid /\ Head(channel).seq = localOffset
     THEN /\ pc' = "partial" /\ unreachable' = FALSE /\ channel' = Tail(channel)
          /\ UNCHANGED <<session, staged>>
     ELSE HangUp(FALSE)
  /\ UNCHANGED <<masterVars, localReplid, localOffset, memoryVars, controlVars, diskVars, capture,
                 boundVars>>

\* FULLRESYNC3, with the snapshot that follows it.
ReceiveFull ==
  /\ Incoming({"asked"}, "full")
  /\ staged' = [k \in {"replid", "seq", "image"} |-> Head(channel)[k]]
  /\ pc' = "begin" /\ channel' = Tail(channel)
  /\ UNCHANGED <<masterVars, session, localReplid, localOffset, unreachable, memoryVars,
                 controlVars, diskVars, capture, boundVars>>

\* Mutation: a stop request is not looked at.
MayReplaceLate == replica /\ accepting

MayReplace == replica /\ ~stop /\ accepting

\* mark_persistence_failed: writes are refused from now on, replicated ones
\* too, and the node is not promotable.
PersistenceFailed == accepting' = FALSE /\ ready' = FALSE

\* begin_full_sync_reception: the previous baseline is invalidated, on disk
\* first, unless a promotion has begun or writes are refused.  A failure to write
\* that state may come before or after the file has been replaced.
BeginFull ==
  /\ pc = "begin"
  /\ IF MayReplace
     THEN \/ /\ state' = Installing /\ ready' = FALSE /\ upstream' = 0
             /\ localReplid' = 0 /\ localOffset' = 0
             /\ pc' = "full" /\ unreachable' = FALSE
             /\ UNCHANGED <<session, channel, staged, accepting>>
          \/ /\ "install" \in Faults
             /\ state' \in {state, Installing} /\ PersistenceFailed /\ HangUp(FALSE)
             /\ UNCHANGED <<upstream, localReplid, localOffset>>
     ELSE /\ HangUp(FALSE)
          /\ UNCHANGED <<state, ready, upstream, localReplid, localOffset, accepting>>
  /\ UNCHANGED <<masterVars, store, sequence, stop, promotion, replica, snapshot, log, flushed,
                 capture, boundVars>>

\* SYNCDONE3 after the entries: it must name the snapshot that was announced.
ReceiveFullDone ==
  /\ Incoming({"full"}, "done")
  /\ IF Head(channel).replid = staged.replid /\ Head(channel).seq = staged.seq
     THEN /\ pc' = "install" /\ channel' = Tail(channel)
          /\ UNCHANGED <<session, staged, unreachable>>
     ELSE HangUp(FALSE)
  /\ UNCHANGED <<masterVars, localReplid, localOffset, memoryVars, controlVars, diskVars, capture,
                 boundVars>>

Applying == {"applyPartial", "applyLive"}

\* An effect has been read; it stays at the head of the channel until it is
\* applied.  From here on the loop waits for the commit boundary and looks
\* neither at the connection nor at a stop request.
ReceiveEffect ==
  /\ Incoming({"partial", "live"}, "effect")
  /\ pc' = IF pc = "partial" THEN "applyPartial" ELSE "applyLive"
  /\ UNCHANGED <<masterVars, linkVars, localReplid, localOffset, staged, unreachable, memoryVars,
                 controlVars, diskVars, capture, boundVars>>

\* persist_and_apply_replica_effect, behind the boundary: the next batch in
\* sequence is appended and applied, or refused, or its append fails.
ApplyEffect ==
  /\ pc \in Applying
  /\ LET m == Head(channel) IN
     IF accepting /\ ready /\ m.seq = sequence + 1
     THEN \/ /\ log' = Append(log, [seq |-> m.seq, batch |-> m.batch])
             /\ store' = Append(store, m.batch) /\ sequence' = m.seq /\ localOffset' = m.seq
             /\ pc' = (IF pc = "applyPartial" THEN "partial" ELSE "live")
             /\ channel' = Tail(channel)
             /\ UNCHANGED <<session, staged, unreachable, accepting, ready>>
          \/ /\ "append" \in Faults
             /\ PersistenceFailed /\ HangUp(FALSE)
             /\ UNCHANGED <<log, store, sequence, localOffset>>
     ELSE HangUp(FALSE) /\ UNCHANGED <<log, store, sequence, localOffset, accepting, ready>>
  /\ UNCHANGED <<masterVars, localReplid, upstream, stop, promotion, replica, snapshot, state,
                 flushed, capture, boundVars>>

\* SYNCDONE3 after the missing batches: it must name the last one applied.
ReceivePartialDone ==
  /\ Incoming({"partial"}, "done")
  /\ IF Head(channel).replid = localReplid /\ Head(channel).seq = localOffset
     THEN /\ pc' = "live" /\ channel' = Tail(channel)
          /\ UNCHANGED <<session, staged, unreachable>>
     ELSE HangUp(FALSE)
  /\ UNCHANGED <<masterVars, localReplid, localOffset, memoryVars, controlVars, diskVars, capture,
                 boundVars>>

\* A heartbeat must name the last batch applied.
ReceivePing ==
  /\ Incoming({"live"}, "ping")
  /\ IF Head(channel).seq = localOffset
     THEN channel' = Tail(channel) /\ UNCHANGED <<session, pc, staged, unreachable>>
     ELSE HangUp(FALSE)
  /\ UNCHANGED <<masterVars, localReplid, localOffset, memoryVars, controlVars, diskVars, capture,
                 boundVars>>

\* Every await of the loop ends when a stop is requested, and the loop with it.
StopLoop ==
  /\ stop /\ pc \in {"connect", "asked", "full", "partial", "live"}
  /\ pc' = "stopped" /\ staged' = NoImage /\ session' = NoSession /\ channel' = <<>>
  /\ UNCHANGED <<masterVars, localReplid, localOffset, unreachable, memoryVars, controlVars,
                 diskVars, capture, boundVars>>

-----------------------------------------------------------------------------
(* install_full_sync: under the compaction and rotation gates and the commit *)
(* boundary, so that no compaction, commit or promotion runs meanwhile.      *)

\* The checks, the flush and the second invalidation; a definite failure up to
\* the truncation leaves the node without a baseline.
StartInstall ==
  /\ pc = "install" /\ capture.pc = "none"
  /\ IF MayReplace
     THEN /\ ready' = FALSE /\ state' = Installing /\ flushed' = Len(log)
          /\ \/ pc' = "truncate" /\ UNCHANGED <<linkVars, staged, unreachable, cuts>>
             \/ /\ "install" \in Faults /\ cuts < MaxCuts
                /\ cuts' = cuts + 1 /\ HangUp(FALSE)
     ELSE HangUp(FALSE) /\ UNCHANGED <<ready, state, flushed, cuts>>
  /\ UNCHANGED <<masterVars, localReplid, localOffset, store, sequence, upstream, controlVars,
                 snapshot, log, capture, batches, crashes, compactions>>

\* Mutation: the old binlog is kept.
TruncateNothing ==
  /\ pc = "truncate"
  /\ pc' = "snapshot"
  /\ UNCHANGED <<masterVars, linkVars, localReplid, localOffset, staged, unreachable, memoryVars,
                 controlVars, diskVars, capture, boundVars>>

InstallTruncate ==
  /\ pc = "truncate"
  /\ log' = <<>> /\ flushed' = 0 /\ pc' = "snapshot"
  /\ UNCHANGED <<masterVars, linkVars, localReplid, localOffset, staged, unreachable, memoryVars,
                 controlVars, snapshot, state, capture, boundVars>>

InstallSnapshot ==
  /\ pc = "snapshot"
  /\ snapshot' = [seq |-> staged.seq, image |-> staged.image] /\ pc' = "identity"
  /\ UNCHANGED <<masterVars, linkVars, localReplid, localOffset, staged, unreachable, memoryVars,
                 controlVars, log, state, flushed, capture, boundVars>>

\* Mutation: the sequence of the baseline is not installed.
InstallKeepsSequence ==
  /\ pc = "identity"
  /\ state' = Ready(staged.replid, staged.seq)
  /\ store' = staged.image /\ UNCHANGED sequence
  /\ upstream' = staged.replid /\ ready' = TRUE
  /\ localReplid' = staged.replid /\ localOffset' = staged.seq
  /\ staged' = NoImage /\ pc' = "live"
  /\ UNCHANGED <<masterVars, linkVars, unreachable, controlVars, snapshot, log, flushed,
                 capture, boundVars>>

\* The identity is written; the dataset, the sequence and the loop follow.
InstallIdentity ==
  /\ pc = "identity"
  /\ state' = Ready(staged.replid, staged.seq)
  /\ store' = staged.image /\ sequence' = staged.seq
  /\ upstream' = staged.replid /\ ready' = TRUE
  /\ localReplid' = staged.replid /\ localOffset' = staged.seq
  /\ staged' = NoImage /\ pc' = "live"
  /\ UNCHANGED <<masterVars, linkVars, unreachable, controlVars, snapshot, log, flushed,
                 capture, boundVars>>

InInstall == pc \in {"truncate", "snapshot", "identity"}

-----------------------------------------------------------------------------
(* Promotion *)

\* Mutation: no flush.
PromoteUnflushed ==
  /\ state' = Detached /\ upstream' = 0 /\ ready' = FALSE /\ replica' = FALSE
  /\ UNCHANGED flushed

\* commit_replica_promotion: the binlog is flushed before the state is written.
Promote ==
  /\ flushed' = Len(log) /\ state' = Detached /\ upstream' = 0 /\ ready' = FALSE /\ replica' = FALSE

\* REPLICAOF NO ONE asks the loop to stop, if the baseline is installed.
PreparePromotion ==
  /\ "manual" \in Faults /\ pc # "down" /\ replica /\ ~promotion /\ ~InInstall /\ ready
  /\ stop' = TRUE /\ promotion' = TRUE
  /\ UNCHANGED <<masterVars, linkVars, loopVars, memoryVars, replica, accepting, diskVars, capture,
                 boundVars>>

\* The loop has stopped: the promotion is committed, or answered with an error
\* when the baseline is gone or the flush or the state file fails, the latter
\* perhaps after it was replaced.
CommitPromotion ==
  /\ promotion /\ pc = "stopped"
  /\ promotion' = FALSE
  /\ \/ ready /\ Promote
     \/ ~ready /\ UNCHANGED <<flushed, state, upstream, ready, replica>>
     \/ /\ ready /\ "promotion" \in Faults
        /\ \/ UNCHANGED <<flushed, state>>
           \/ flushed' = Len(log) /\ state' \in {state, Detached}
        /\ UNCHANGED <<upstream, ready, replica>>
  /\ UNCHANGED <<masterVars, linkVars, loopVars, store, sequence, stop, accepting, snapshot, log,
                 capture, boundVars>>

\* maybe_auto_promote_replica: the master has been out of reach for the
\* failover timeout; the loop ends with the promotion.
AutoPromote ==
  /\ "auto" \in Faults /\ pc = "connect" /\ unreachable /\ ready
  /\ Promote /\ pc' = "stopped"
  /\ UNCHANGED <<masterVars, linkVars, localReplid, localOffset, staged, unreachable, store,
                 sequence, stop, promotion, accepting, snapshot, log, capture, boundVars>>

\* A client's write on the promoted node.
ReplicaCommit ==
  /\ pc # "down" /\ ~replica /\ accepting /\ batches < MaxBatches
  /\ batches' = batches + 1
  /\ store' = Append(store, batches') /\ sequence' = sequence + 1
  /\ log' = Append(log, [seq |-> sequence', batch |-> batches'])
  /\ UNCHANGED <<masterVars, linkVars, loopVars, ready, upstream, controlVars, snapshot, state,
                 flushed, capture, cuts, crashes, compactions>>

-----------------------------------------------------------------------------
(* Compaction on this node, under the compaction gate *)

\* The segment is sealed and the dataset captured at one boundary.  (Module
\* BinlogHistory has the snapshot taken in a full catalog, which seals nothing.)
StartCompaction ==
  /\ capture.pc = "none" /\ pc # "down" /\ ~InInstall /\ compactions < MaxCompactions
  /\ compactions' = compactions + 1
  /\ capture' = [pc |-> "captured", seq |-> sequence, image |-> store]
  /\ flushed' = Len(log)
  /\ UNCHANGED <<masterVars, linkVars, loopVars, memoryVars, controlVars, snapshot, log, state,
                 batches, cuts, crashes>>

WriteSnapshot ==
  /\ capture.pc = "captured"
  /\ snapshot' = [seq |-> capture.seq, image |-> capture.image]
  /\ capture' = [capture EXCEPT !.pc = "written"]
  /\ UNCHANGED <<masterVars, linkVars, loopVars, memoryVars, controlVars, log, state, flushed,
                 boundVars>>

\* Mutation: the identity of the loop, which outlives a promotion.
AdoptLocalIdentity ==
  /\ capture.pc = "written"
  /\ capture' = NoCapture
  /\ state' = (IF localReplid # 0 THEN Ready(localReplid, capture.seq) ELSE state)
  /\ UNCHANGED <<masterVars, linkVars, loopVars, memoryVars, controlVars, snapshot, log, flushed,
                 boundVars>>

\* At a second boundary the identity follows the snapshot, if the node still
\* follows that master; a failed checkpoint leaves it behind.
AdoptIdentity ==
  /\ capture.pc = "written"
  /\ capture' = NoCapture
  /\ \/ state' = (IF upstream # 0 THEN Ready(upstream, capture.seq) ELSE state)
     \/ "compaction" \in Faults /\ UNCHANGED state
  /\ UNCHANGED <<masterVars, linkVars, loopVars, memoryVars, controlVars, snapshot, log, flushed,
                 boundVars>>

-----------------------------------------------------------------------------
(* The replica process ends and starts *)

\* run_periodic_sync_once: the periodic synchronization of the binlog, and that
\* it may fail.
SyncBinlog ==
  /\ "sync" \in Faults /\ pc # "down"
  /\ \/ flushed < Len(log) /\ flushed' = Len(log) /\ UNCHANGED <<accepting, ready>>
     \/ accepting /\ PersistenceFailed /\ UNCHANGED flushed
  /\ UNCHANGED <<masterVars, linkVars, loopVars, store, sequence, upstream, stop, promotion,
                 replica, snapshot, log, state, capture, boundVars>>

\* The process dies, and what it wrote stays in the file, or the power fails and
\* takes records that were not synchronized.
Crash ==
  /\ pc # "down" /\ crashes < MaxCrashes
  /\ crashes' = crashes + 1
  /\ \/ UNCHANGED <<log, flushed>>
     \/ /\ "power" \in Faults
        /\ \E n \in flushed..Len(log) : log' = SubSeq(log, 1, n) /\ flushed' = n
  /\ pc' = "down" /\ localReplid' = 0 /\ localOffset' = 0 /\ staged' = NoImage
  /\ unreachable' = FALSE
  /\ store' = <<>> /\ sequence' = 0 /\ ready' = FALSE /\ upstream' = 0
  /\ stop' = FALSE /\ promotion' = FALSE /\ accepting' = TRUE
  /\ session' = NoSession /\ channel' = <<>> /\ capture' = NoCapture
  /\ UNCHANGED <<masterVars, replica, snapshot, state, batches, cuts, compactions>>

\* What recovery makes of the snapshot and the first n records of the log.
Recovered(n) ==
  LET rest == SelectSeq(SubSeq(log, 1, n), LAMBDA r : r.seq > snapshot.seq)
  IN  [store |-> snapshot.image \o [i \in DOMAIN rest |-> rest[i].batch],
       sequence |-> snapshot.seq + Len(rest)]

\* load_durable_replica_state: an identity for another snapshot is no identity.
LoadedState ==
  IF state.status = "READY" /\ state.baseline # snapshot.seq THEN Installing ELSE state

\* main and prepare_replication_startup: as a replica, with the identity if
\* there is one; as a master, unless an installation was interrupted.
Start(asReplica) ==
  /\ pc = "down"
  /\ asReplica \/ ("reconfigure" \in Faults /\ LoadedState.status # "INSTALLING")
  /\ LET data == Recovered(Len(log))
         identity == asReplica /\ LoadedState.status = "READY"
     IN  /\ store' = data.store /\ sequence' = data.sequence
         /\ ready' = identity
         /\ upstream' = IF identity THEN state.replid ELSE 0
         /\ localReplid' = upstream'
         /\ localOffset' = IF identity THEN data.sequence ELSE 0
  /\ replica' = asReplica
  /\ pc' = IF asReplica THEN "connect" ELSE "master"
  /\ state' = IF ~asReplica /\ LoadedState.status = "READY" THEN Detached ELSE state
  /\ UNCHANGED <<masterVars, linkVars, staged, unreachable, stop, promotion, accepting, snapshot,
                 log, flushed, capture, boundVars>>

-----------------------------------------------------------------------------
Receive ==
  \/ ReceiveEof
  \/ ReceiveContinue
  \/ ReceiveFull
  \/ ReceiveFullDone
  \/ ReceiveEffect
  \/ ReceivePartialDone
  \/ ReceivePing
  \/ ApplyEffect

Install == BeginFull \/ StartInstall \/ InstallTruncate \/ InstallSnapshot \/ InstallIdentity
Serve == Subscribe \/ Negotiate \/ SendFull \/ Stream
Compact == WriteSnapshot \/ AdoptIdentity

Next ==
  \/ MasterCommit
  \/ MasterRestart
  \/ Serve
  \/ Heartbeat
  \/ Connect
  \/ Cut
  \/ Receive
  \/ StopLoop
  \/ Install
  \/ PreparePromotion
  \/ CommitPromotion
  \/ AutoPromote
  \/ ReplicaCommit
  \/ StartCompaction
  \/ Compact
  \/ SyncBinlog
  \/ Crash
  \/ \E asReplica \in BOOLEAN : Start(asReplica)

Spec == Init /\ [][Next]_vars

\* Every task that can run is run by the tokio scheduler; nothing is assumed of
\* clients, operators, failures or heartbeats.
Fairness ==
  /\ WF_vars(Serve) /\ WF_vars(Connect) /\ WF_vars(Receive) /\ WF_vars(Install)
  /\ WF_vars(Compact) /\ WF_vars(StopLoop) /\ WF_vars(CommitPromotion)

FairSpec == Spec /\ Fairness

-----------------------------------------------------------------------------
(* Properties *)

Batches == 1..MaxBatches
Datasets == UNION {[1..n -> Batches] : n \in 0..MaxBatches}

\* The type of the state; the sequence of the replica counts the batches of
\* its dataset (CommitRuntime::install_baseline, accept_next_batch).
TypeOK ==
  /\ Len(lines) \in 1..MaxRuns /\ \A run \in DOMAIN lines : lines[run] \in Datasets
  /\ begun \in 0..Offset
  /\ session.pc \in {"closed", "asked", "subscribed", "full", "live"}
  /\ session.fed \in 0..Offset + 1 /\ session.sent \in 0..Offset
  /\ \A i \in DOMAIN channel :
       channel[i].type \in {"continue", "full", "effect", "done", "ping", "eof"}
  /\ pc \in {"down", "connect", "asked", "begin", "full", "install", "truncate", "snapshot",
             "identity", "partial", "live", "stopped", "master"} \cup Applying
  /\ {localReplid, upstream, staged.replid, state.replid} \subseteq 0..Run
  /\ {unreachable, ready, stop, promotion, replica, accepting} \subseteq BOOLEAN
  /\ {store, snapshot.image, staged.image} \subseteq Datasets
  /\ sequence = Len(store)
  /\ state.status \in {"DETACHED", "INSTALLING", "READY"}
  /\ flushed \in 0..Len(log)
  /\ capture.pc \in {"none", "captured", "written"}

\* A dataset that is exactly what a run of the master had after n batches.
PrefixOf(data, n, run) == n <= Len(lines[run]) /\ data = SubSeq(lines[run], 1, n)

\* A replica that takes itself for synchronized holds exactly a prefix of the
\* history of the run whose replication ID it keeps, however connections,
\* restarts of either node and promotions interleave (run_replica,
\* persist_and_apply_replica_effect, install_full_sync).
ReplicaIsPrefix ==
  /\ ready => upstream # 0 /\ PrefixOf(store, sequence, upstream)
  /\ localReplid # 0 /\ replica => localOffset = sequence /\ PrefixOf(store, sequence, localReplid)

\* Whatever a crash leaves of the binlog, a durable READY identity names a run
\* of the master whose prefix recovery restores, so resuming there is safe
\* (load_durable_replica_state, compact_owned, commit_replica_promotion).
RecoveryIsPrefix ==
  LoadedState.status = "READY" =>
    \A n \in flushed..Len(log) : PrefixOf(Recovered(n).store, Recovered(n).sequence, state.replid)

\* At every moment of an installation, a compaction or a promotion, the disk
\* either says that the baseline is incomplete or restores the dataset that
\* clients read (the order of the writes of install_full_sync).
DiskAgrees ==
  pc # "down" /\ LoadedState.status # "INSTALLING" =>
    Recovered(Len(log)) = [store |-> store, sequence |-> sequence]

\* The master never sends what the replica would refuse: on an established
\* connection the next effect is the next in sequence, and a heartbeat or a
\* completion names the last one (the SYNC3 handler's boundary and its skip of
\* broadcasts at or below last_sent).
StreamExact ==
  channel # <<>> /\ accepting =>
    LET m == Head(channel) IN
    /\ pc \in {"partial", "live"} \cup Applying /\ m.type = "effect" =>
         ready /\ m.seq = sequence + 1
    /\ pc \in {"partial", "live"} /\ m.type \in {"done", "ping"} => m.seq = localOffset
    /\ pc = "full" /\ m.type # "eof" => m = [type |-> "done", replid |-> staged.replid,
                                            seq |-> staged.seq]

\* Between the check of REPLICAOF NO ONE and its commit no full synchronization
\* takes the baseline away, one already announced included: it goes only with the
\* persistence of the node, which a late effect or a synchronization may find
\* broken, or to a failover that has made the node a master already
\* (prepare_replica_promotion against begin_full_sync_reception).
PromotionHolds == promotion => ready \/ ~replica \/ ~accepting

FromMasters == UNION {Range(lines[run]) : run \in DOMAIN lines}

\* A promoted node never depends on the unflushed end of the binlog for a batch
\* of its former masters, and never again starts as their replica: whatever a
\* power loss leaves, recovery restores every such batch that clients could
\* read (commit_replica_promotion: the last effects, the flush, the state, and a
\* compaction that was under way).
PromotedIsDurable ==
  pc = "stopped" /\ ~replica =>
    /\ LoadedState = Detached
    /\ \A n \in flushed..Len(log) :
         Range(store) \cap FromMasters \subseteq Range(Recovered(n).store)

CaughtUp == PrefixOf(store, sequence, Run) /\ sequence = Offset

\* A replica that stays up, is not promoted and can write catches up with the
\* master for good once commits and failures have ended (run_replica's retry
\* loop and the fall back from partial to full synchronization).
CatchesUp == <>[](CaughtUp \/ pc = "down" \/ stop \/ ~replica \/ ~accepting)
==============================================================================
