SPECIFICATION Spec
CONSTANTS
  MaxFiles = 5
  Configs <- MCTruncation
PROPERTY SegmentsRemovedWhenCovered
CHECK_DEADLOCK FALSE
