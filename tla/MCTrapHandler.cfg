SPECIFICATION Spec
CONSTANTS
  Modes <- MCModes
  TrampWords = 2
  OrigDeleg <- MCOrigDeleg
  SigWords = 2
  SigEnd = 9
  Xlen = 64
  ClrDefined <- MCClrDefined
  Raised <- MCRaised
  Delegations <- MCDelegations
  Enables <- MCEnables
  TestRegs <- MCTestRegs
  MaxTraps = 3
INVARIANTS
  EntriesKept
  CsrsRestored
PROPERTIES
  ReturnsInside
  RegistersRestored
  Ends
CHECK_DEADLOCK FALSE
