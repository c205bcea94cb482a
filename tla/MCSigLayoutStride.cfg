SPECIFICATION NoValSpec
CONSTANTS
  Regs <- ERegs
  OpVars <- AllVars
  Paired <- AllVars
  Programs <- PairLists
  MaxInstrs = 5
  Stride = 1
  StrideSz = 4
  HasVal = FALSE
  ValStride = 1
  ValStrideSz = 0
  IsFext = FALSE
  OffsetLimit = 15
  Insts = {0}
  Words = 2
  WordSz = 4
  Explicit = TRUE
INVARIANT ResultsSaved
CHECK_DEADLOCK FALSE
