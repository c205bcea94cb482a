SPECIFICATION Spec
CONSTANTS
  Cgfs <- FailingCgfs
  Filters <- AllOrNot
  Procs = {1, 2}
  MaxRuns = 2
INVARIANTS FaultsContained
PROPERTY Ends
CHECK_DEADLOCK FALSE
