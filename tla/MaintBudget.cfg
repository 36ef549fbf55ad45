SPECIFICATION Spec
CONSTANTS
  Procs = {"commit", "auto", "rollover", "failstop"}
  Faults = {}
  Target = 2
  Budget = 1
  MaxGroup = 1
  Threshold = 6
  MaxUnsnapshotted = 2
  Pressure = 3
  MaxSegments = 4
  MaxActive = 6
  MaxWrites = 8
  MaxSaves = 1
INVARIANT BudgetExclusive
CHECK_DEADLOCK FALSE
