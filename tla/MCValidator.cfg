SPECIFICATION ValidatorSpec
CONSTANTS
  N = 4
  Capacity = 5
  Profit <- MCProfit
  Weight <- MCWeight
  Graph <- MCGraph
  Selections <- MCSelections
INVARIANTS
  VerdictIsFeasibility
  AccountsForEveryItem
PROPERTIES
  FlagIsFresh
CHECK_DEADLOCK FALSE
