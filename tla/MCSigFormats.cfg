SPECIFICATION FormatSpec
CONSTANTS
  Regs <- ERegs
  OpVars <- AllVars
  Paired <- NoVars
  Programs <- PlainLists
  MaxInstrs = 5
  Stride = 2
  StrideSz = 8
  HasVal = TRUE
  ValStride = 2
  ValStrideSz = 0
  IsFext = TRUE
  OffsetLimit = 31
  Insts = {0}
  Words = 2
  WordSz = 4
  Explicit = FALSE
INVARIANTS TestregFree ValregFree  ResultsSaved LoadsOwnOperands
CHECK_DEADLOCK FALSE
