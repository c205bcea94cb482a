SPECIFICATION Spec
CONSTANTS
  Regs <- ERegs
  OpVars <- AllVars
  Paired <- RdOnly
  Programs <- WideLists
  MaxInstrs = 5
  Stride = 2
  StrideSz = 4
  HasVal = FALSE
  ValStride = 1
  ValStrideSz = 0
  IsFext = FALSE
  OffsetLimit = 15
INVARIANT TestregFree
CHECK_DEADLOCK FALSE
