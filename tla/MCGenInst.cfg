SPECIFICATION GenSpec
CONSTANTS
  Regs <- AllRegs
  Cgfs <- MenuCgfs
  Values = {0, 1, 2}
INVARIANTS OperandsCovered CombCovered ValuesCovered ValuesConsistent
PROPERTIES Finishes
CHECK_DEADLOCK FALSE
