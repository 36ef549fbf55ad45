SPECIFICATION FairSpec
CONSTANTS
  Requests = {r1, r2}
  Keys = {k1}
  Values = {absent, v1}
  Absent = absent
  MaxGroup = 2
  MaxBatches = 2
  MaxCrashes = 1
  Faults = {"prepare", "append", "indeterminate", "panic", "sync"}
INVARIANTS VisibleIsDurable AnswersAreTrue SnapshotsAgree
PROPERTY EveryRequestAnswered
CHECK_DEADLOCK FALSE
