SPECIFICATION PlanningSpec
CONSTANTS
  m1 = m1
  m2 = m2
  m3 = m3
  Markets = {m1, m2, m3}
  Budget = 6
  MaxOrder = 4
  MaxMarket = 4
  MaxTotal = 5
  MinOrder <- MCMinOrder
  MinLiquidity = 1
  MaxOpen = 2
  Deposit = 6
  Allowance = 3
  Depths = {2, 5}
  MaxMoves = 2
INVARIANTS PlanSound PlanPassesReview
SYMMETRY Alike
CHECK_DEADLOCK FALSE
