----------------------------- MODULE InstrMenus -----------------------------
(***************************************************************************)
(* Instruction lists for model-checking RegAlloc and SigLayout on the      *)
(* register file of the E base ISA, x1..x15.  A list takes its             *)
(* instructions from a small menu whose members together cover the         *)
(* register file, share registers between operands, and name x0.           *)
(***************************************************************************)
EXTENDS Naturals

CONSTANT MaxInstrs    \* bound on the length of a list

ERegs == 1..15

AllVars == {"rs1", "rs2", "rd"}
NoVars  == {}
RdOnly  == {"rd"}

Lists(menu) == UNION {[1..k -> menu] : k \in 0..MaxInstrs}

RRR(rs1, rs2, rd) == [v \in AllVars |->
  CASE v = "rs1" -> rs1 [] v = "rs2" -> rs2 [] v = "rd" -> rd]

\* padd.dh and the like: three pairs, lows from pair_regs (even registers).
PairLists == Lists({RRR(2, 4, 6), RRR(8, 10, 12), RRR(14, 2, 4), RRR(6, 6, 8)})

\* pwadd.h and the like: rd is a pair, the sources are any registers.
WideLists == Lists({RRR(1, 2, 4), RRR(1, 0, 2), RRR(10, 11, 8), RRR(15, 7, 12), RRR(5, 14, 6)})

\* add and the like, and Zfinx instructions, which load their operands.
PlainLists == Lists({RRR(1, 2, 3), RRR(4, 5, 6), RRR(7, 8, 9), RRR(10, 11, 12), RRR(13, 14, 15)})
=============================================================================
