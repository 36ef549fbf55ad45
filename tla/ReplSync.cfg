SPECIFICATION Spec
CONSTANTS
  MaxBatches = 3
  MaxRuns = 2
  MaxCuts = 1
  MaxCrashes = 1
  MaxCompactions = 1
  BacklogCapacity = 1
  FeedCapacity = 1
  ChannelBound = 2
  Faults = {"power", "append", "sync", "install", "compaction", "promotion", "auto", "manual", "reconfigure"}
INVARIANTS TypeOK ReplicaIsPrefix RecoveryIsPrefix DiskAgrees StreamExact PromotionHolds PromotedIsDurable
CHECK_DEADLOCK FALSE
