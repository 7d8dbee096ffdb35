SPECIFICATION Spec
CONSTANTS
  N = 7
  Capacity = 6
  Profit <- MCProfit
  Weight <- MCWeight
  Graph <- MCGraph
  Limits <- MCLimits
INVARIANTS
  Bookkeeping
  LeavesOutForAReason
PROPERTIES
  ImplementsAnytimeSearch
CHECK_DEADLOCK FALSE
