SPECIFICATION Spec
CONSTANTS
  Byte = 2
  Instrs <- Formats
  Regs <- AllRegs
  Registers <- RegistersOf
  Elements <- ElementsOf
INVARIANTS LanesArrive
