SPECIFICATION Spec
CONSTANTS
  Procs = {"commit", "auto", "rollover", "failstop"}
  Faults = {"preflush"}
  Target = 1
  Budget = 1
  MaxGroup = 1
  Threshold = 2
  MaxUnsnapshotted = 2
  Pressure = 3
  MaxSegments = 4
  MaxActive = 2
  MaxWrites = 2
  MaxSaves = 0
PROPERTY MaintenanceRests
CHECK_DEADLOCK FALSE
