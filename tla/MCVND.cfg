SPECIFICATION Spec
CONSTANTS
  N = 6
  Capacity = 6
  Profit <- MCProfit
  Weight <- MCWeight
  Graph <- MCGraph
  Limits <- MCLimits
  Configs <- MCConfigs
INVARIANTS
  Bookkeeping
  StaysFeasible
  ReturnsLocalOptimum
PROPERTIES
  KeepsItemsProfitable
  ImplementsAnytimeSearch
CHECK_DEADLOCK FALSE
