SPECIFICATION Spec
CONSTANTS
  N = 7
  Capacity = 6
  Profit <- MCProfit
  Weight <- MCWeight
  Graph <- MCGraph
  Limits <- MCLimits
  Configs <- MCConfigs
  Strengths <- MCStrengths
INVARIANTS
  KickKeepsBooks
  IncumbentKeepsBestProfit
  KicksLocalOptima
  OrderAgreesWithEquality
PROPERTIES
  OnlyGainsReopenTheSearch
  ImplementsAnytimeSearch
CHECK_DEADLOCK FALSE
