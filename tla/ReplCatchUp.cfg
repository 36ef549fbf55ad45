SPECIFICATION FairSpec
CONSTANTS
  MaxBatches = 3
  MaxRuns = 2
  MaxCuts = 1
  MaxCrashes = 1
  MaxCompactions = 0
  BacklogCapacity = 1
  FeedCapacity = 1
  ChannelBound = 2
  Faults = {"power", "append", "sync", "install", "promotion", "auto", "manual", "reconfigure"}
PROPERTY CatchesUp
CHECK_DEADLOCK FALSE
