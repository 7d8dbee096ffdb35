SPECIFICATION PairedSpec
CONSTANTS
  Stems = {5, 55, 60}
  Extensions = {"", ".txt", ".dat"}
  Profits = {1}
  MaxLines = 3
  Missing = {60}
  Expected = 2
  Runs = 5
INVARIANTS
  SeedsPairTheRows
  AnalysisSeesTheProtocol
CHECK_DEADLOCK FALSE
