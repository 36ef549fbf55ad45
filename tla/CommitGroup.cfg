SPECIFICATION Spec
CONSTANTS
  Requests = {r1, r2, r3}
  Keys = {k1}
  Values = {absent, v1}
  Absent = absent
  MaxGroup = 2
  MaxBatches = 1
  MaxCrashes = 1
  Faults = {"prepare", "append", "sync"}
INVARIANTS TypeOK VisibleIsDurable AnswersAreTrue PublishedIsPrefix CapturesAgree
PROPERTY NoOvertaking
CHECK_DEADLOCK FALSE
