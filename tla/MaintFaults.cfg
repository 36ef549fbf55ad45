SPECIFICATION Spec
CONSTANTS
  Procs = {"commit", "auto", "rollover", "failstop", "save", "install"}
  Faults = {"unlink", "preflush", "seal", "catalog", "sync", "snapshot", "checkpoint"}
  Target = 1
  Budget = 1
  MaxGroup = 1
  Threshold = 2
  MaxUnsnapshotted = 1
  Pressure = 2
  MaxSegments = 3
  MaxActive = 1
  MaxWrites = 2
  MaxSaves = 1
INVARIANTS TypeOK BudgetOwned CapturedStillOwed
PROPERTY LastSlotReserved
CHECK_DEADLOCK FALSE
