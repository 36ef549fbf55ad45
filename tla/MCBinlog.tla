------------------------------- MODULE MCBinlog -------------------------------
(* The configurations in which TLC explores BinlogHistory. *)
EXTENDS BinlogHistory

\* appendfsync always, with maintenance in which everything but an append may
\* fail.  Three segments: an empty, a covered and an uncovered generation at once.
Durable ==
  [policy |-> "always", segments |-> 3, tasks |-> {"compact", "rollover"},
   faults |-> {"seal", "snapshot", "readonly", "catalog", "power"},
   commits |-> 3, group |-> 2, crashes |-> 2]

\* Appends that fail, with no generation sealed (see Truncation).
Appends ==
  [policy |-> "always", segments |-> 2, tasks |-> {}, faults |-> {"append", "power"},
   commits |-> 4, group |-> 2, crashes |-> 2]

\* A catalog that is full with two segments, so that a compaction that comes
\* after a failed one finds no slot with records in the active file, and a process
\* that dies while the machine stays up.
Full ==
  [policy |-> "everysec", segments |-> 2, tasks |-> {"compact", "rollover"},
   faults |-> {"snapshot"}, commits |-> 4, group |-> 1, crashes |-> 1]

\* The same when the power fails (see GapPossible).
FullPower == [Full EXCEPT !.faults = {"snapshot", "power"}]

\* Everything but an append may fail, single removals too.
Relaxed ==
  [policy |-> "everysec", segments |-> 2, tasks |-> {"compact", "rollover"},
   faults |-> {"unlink", "snapshot", "catalog", "sync", "seal", "power"},
   commits |-> 3, group |-> 1, crashes |-> 1]

MCConfigs == {Durable, Appends, Full, FullPower, Relaxed}

\* An append that fails after a seal.
Truncation ==
  [policy |-> "always", segments |-> 3, tasks |-> {"rollover"}, faults |-> {"append"},
   commits |-> 2, group |-> 1, crashes |-> 1]

MCTruncation == {Truncation}
==============================================================================
