SPECIFICATION RecordsFairSpec
CONSTANTS
  entry = entry
  Orders = {entry}
  Side <- MCSide
  Size <- MCSize
  Named = {TRUE, FALSE}
  Texts = {TRUE, FALSE}
  Types = {"order", "fill", "position", "balance", "discovered", "filtered_out", "resolved"}
  PriorityOf <- MCPriority
  Identified = {"order", "fill", "position", "discovered", "filtered_out", "resolved"}
  MaxSize = 9
  RetainedMaxSize = 9
  BatchSize = 2
  MaxRetryCount = 1
  Mixes <- MCMixes
  MaxEvents = 4
  MaxFaults = 1
INVARIANT RecordsSound
INVARIANT RowsFollow
INVARIANT LiveOrdersRestored
PROPERTY AccountRestored
CHECK_DEADLOCK FALSE
