SPECIFICATION Spec
CONSTANTS
  Requests = {r1}
  Keys = {k1}
  Values = {absent, v1}
  Absent = absent
  MaxGroup = 1
  MaxBatches = 1
  MaxCrashes = 0
  Faults = {"indeterminate"}
INVARIANT CapturesAgree
CHECK_DEADLOCK FALSE
