SPECIFICATION NoValSpec
CONSTANTS
  Regs <- ERegs
  OpVars <- AllVars
  Paired <- RdOnly
  Programs <- WideLists
  MaxInstrs = 5
  Stride = 2
  StrideSz = 4
  HasVal = FALSE
  ValStride = 1
  ValStrideSz = 0
  IsFext = FALSE
  OffsetLimit = 15
  Insts = {0, 2}
  Words = 2
  WordSz = 4
  Explicit = TRUE
INVARIANTS SwregFree OffsetsRun SignatureExact FilesPartition
PROPERTIES Completes
CHECK_DEADLOCK FALSE
