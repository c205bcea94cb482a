SPECIFICATION Spec
CONSTANTS
  Rv32 <- TwoPages
  Rv64 <- None
  Limits = {0, 1}
  MaxRuns = 2
INVARIANTS RowsTrue FullPassIsFull KeptIsOwn PassedSigned
PROPERTIES RunEnds Promise
CHECK_DEADLOCK FALSE
