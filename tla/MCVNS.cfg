SPECIFICATION Spec
CONSTANTS
  N = 7
  Capacity = 9
  Profit <- MCProfit
  Weight <- MCWeight
  Graph <- MCGraph
  Limits <- MCLimits
  Configs <- MCConfigs
  KMaxes <- MCKMaxes
INVARIANTS
  ShakesStayFeasible
  IncumbentIsBest
  ShakesLocalOptima
PROPERTIES
  ImplementsAnytimeSearch
CHECK_DEADLOCK FALSE
