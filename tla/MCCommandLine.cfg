SPECIFICATION CliSpec
CONSTANTS
  Words <- MCWords
  Lines <- MCLines
  Dashed <- MCDashed
  IntegerOf <- MCIntegerOf
  Lower <- MCLower
  Int32Max = 20
  Int64Max = 30
  Uint64Max = 40
INVARIANTS
  RunsWhatTheLineSays
  ExitsForAReason
  ShortFormsGoByPosition
CHECK_DEADLOCK FALSE
