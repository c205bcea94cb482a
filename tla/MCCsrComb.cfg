SPECIFICATION CombSpec
CONSTANTS
  Clause <- AllClauses
  Csrs = {"misa", "mstatus"}
  Bits = {0, 1}
  Covpt <- Menu
  CsrCombs <- MenuLists
  Reset <- AfterReset
  Regs = {"x0", "x1", "x2", "x3"}
  PtrRegs = {"x0", "x1", "x2", "x3"}
  Template <- Templates
  High <- Halves
  dntcare_instrs = {"addi", "sub"}
  Window <- Windows
  CrossCombs <- CrossLists
  Covergroups <- Groups
INVARIANTS ParsedRight ExpressionsAccepted CovptsCovered CsrsRestored ReadsSaved CrossTested
