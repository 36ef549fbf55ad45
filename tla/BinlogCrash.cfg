SPECIFICATION Spec
CONSTANTS
  MaxFiles = 5
  Configs <- MCConfigs
INVARIANTS TypeOK CrashSafe PowerSafe FailsClosed CountersAgree
PROPERTY SegmentsRemovedWhenCovered
CHECK_DEADLOCK FALSE
