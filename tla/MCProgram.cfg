SPECIFICATION MainSpec
CONSTANTS
  N = 7
  Capacity = 9
  Profit <- MCProfit
  Weight <- MCWeight
  Graph <- MCGraph
  RunnerConfigs <- MCRunnerConfigs
  Limits <- MCLimits
  Configs <- MCConfigs
  Strengths <- MCStrengths
  Selections = {}
  MaxTicks = 24
INVARIANTS
  TypeOK
  PrintedLineIsTrue
  LimitsMeanWhatTheConfigSays
PROPERTIES
  AlwaysExits
CHECK_DEADLOCK FALSE
