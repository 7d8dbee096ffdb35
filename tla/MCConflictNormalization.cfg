SPECIFICATION ConflictSpec
CONSTANT
  Files <- MCFiles
INVARIANTS
  GraphIsWellFormed
  RefusesWhatNoBaseFits
  RecoversNumbering
CHECK_DEADLOCK FALSE
