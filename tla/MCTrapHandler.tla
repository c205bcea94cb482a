---------------------------- MODULE MCTrapHandler ----------------------------
(* Bounds for TLC: handlers in M and S mode, a trap signature of seven     *)
(* words, which one entry of three and one of four words fill.             *)
EXTENDS TrapHandler

MCModes == {"M", "S"}
MCClrDefined == {Irq.m_soft, Irq.m_ext}
MCRaised == {Cause.illegal_instruction, Cause.load_access}
MCOrigDeleg == {Cause.breakpoint}
MCDelegations == {{}, {Cause.load_access, Cause.supervisor_ecall}}
MCEnables == {{}, {Irq.m_soft, Irq.m_timer, Irq.m_ext, Irq.s_soft}}
MCTestRegs ==
  [T1 |-> 11, T2 |-> 12, T3 |-> 13, T4 |-> 14, T5 |-> 15, T6 |-> 16, sp |-> 17]
=============================================================================
