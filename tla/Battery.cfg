SPECIFICATION BatterySpec
CONSTANTS
  Stems = {50, 51}
  Extensions = {"", ".txt", ".dat"}
  Profits = {1, 2, 4}
  MaxInstances = 2
  RunCounts = {1, 2}
  BaseSeeds = {0, 42}
INVARIANTS
  RowsFollowTheSchedule
  StatisticsDescribeTheRows
  NamesDisagreeOnForeignFiles
