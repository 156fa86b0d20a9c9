SPECIFICATION FairSpec
CONSTANTS
  Publishers = {"market_ws"}
  Capacity <- MCCapacity
  RetainedCapacity = 1
  Keys = {"k1", "k2"}
  Emits = 1
  SinkBound = TRUE
  MaxEvents = 4
CHECK_DEADLOCK FALSE
INVARIANTS LanesSound KeyOrder MirrorFollowsQueue
PROPERTIES LowLanesDrain TradingDrains
