SPECIFICATION FairSpec
CONSTANTS
  Queries <- MCQueries
  PagesOf <- MCPagesOf
  RequestBudget = 2
  MaxFailures = 1
INVARIANTS SupervisionSound RoundsComplete
PROPERTIES NeverRevived Recovers ScanGoesRound
CHECK_DEADLOCK FALSE
