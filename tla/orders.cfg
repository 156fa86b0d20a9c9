SPECIFICATION FairSpec
CONSTANTS
  Callers = {c1, c2}
  Keys = {"k1", "k2"}
  Fingerprints = {"f1", "f2"}
  MaxCached = 1
  PoolSize = 1
  MaxOps = 3
CHECK_DEADLOCK FALSE
INVARIANTS IndexSound AnswersSound
PROPERTIES KeepsPromise OperationsEnd
