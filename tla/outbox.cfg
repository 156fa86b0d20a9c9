SPECIFICATION FairSpec
CONSTANTS
  Types = {"order", "market", "rejected"}
  Entrances = {"put_nowait", "enqueue"}
  DbFailures = {"transient"}
  MaxSize = 1
  RetainedMaxSize = 1
  BatchSize = 2
  PollBudget = 9
  DrainBudget = 9
  MaxRetryCount = 1
  MaxEvents = 3
  PriorityOf <- MCPriorityOf
  Identified <- MCIdentified
  KindOf <- MCKindOf
CHECK_DEADLOCK FALSE
INVARIANTS OutboxSound CriticalNeverLost RetriesCounted
PROPERTY CriticalSettled
