SPECIFICATION Spec
CONSTANTS
  N = 7
  Capacity = 9
  Profit <- MCProfit
  Weight <- MCWeight
  Graph <- MCGraph
  Limits <- MCLimits
  Configs <- MCConfigs
  KMaxes <- MCKMaxes
INVARIANT
  StopsWithoutImprovement
CHECK_DEADLOCK FALSE
