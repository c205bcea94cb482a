------------------------------- MODULE DspData ------------------------------
(***************************************************************************)
(* Operands of SIMD and register-pair instructions, from the elements the  *)
(* generator chose to the registers of the test: concat_simd_data() and    *)
(* gen_pair_reg_data() of dsp_function.py, and the LIs of the TEST_*_OP    *)
(* macros of test_macros.h.                                                *)
(*                                                                         *)
(* The elements of an operand are variables of the instruction, named by   *)
(* operand, size letter and number (rs1_h0_val, ...), or there is a single *)
(* one (rs1_val).  The functions pack them into the value of a register,   *)
(* or of a register and the next one; the macro loads these values.        *)
(*                                                                         *)
(* An instruction is a record:                                             *)
(*   xlen    XLEN                                                          *)
(*   width   bit_width, for rs1 and rs2: <<w1, w2>>                        *)
(*   pairs   operands with "p" in p64_profile; unpaired without profile    *)
(*   paired  is there a p64_profile?                                       *)
(*   ops     its register operands                                         *)
(*   vals    the elements by operand: [of, width], simd_val_vars of so     *)
(*           many bits; width = 0 for a single one                         *)
(*   loads   the operands its macro loads, in this order                   *)
(* Widths scale with Byte, so that words fit TLC's integers.               *)
(***************************************************************************)
EXTENDS Integers, Sequences, FiniteSets

CONSTANTS
  Byte,        \* 8 in the code
  Instrs,      \* instructions
  Regs,        \* numbers of registers
  Registers(_, _),  \* registers an operand of an instruction may be in
  Elements(_)  \* sequences of values for the elements of an operand, by its vals

Operand == <<"rs1", "rs2", "rd">>        \* in the order they are packed

ASSUME InstrAssumption == /\ Byte \in Nat \ {0} /\ Regs \subseteq Nat /\ 0 \in Regs
  /\ \A m \in Instrs : /\ m.xlen \in {4 * Byte, 8 * Byte} /\ m.pairs \subseteq m.ops
                       /\ m.ops \subseteq {"rs1", "rs2", "rd"} /\ DOMAIN m.vals \subseteq m.ops
                       /\ \A i \in DOMAIN m.loads : m.loads[i] \in DOMAIN m.vals
                       /\ \A op \in m.ops : \A r \in Registers(m, op) :
                            r \in Regs /\ (op \in m.pairs => r + 1 \in Regs)

VARIABLES
  instr,   \* the instruction
  reg,     \* registers of its operands
  elm,     \* its elements, by operand
  packed,  \* number of operands packed
  val,     \* rs1_val, rs2_val, rd_val as packed
  val_hi,  \* rs1_val_hi, ...
  hi,      \* rs1_hi, rs2_hi, rd_hi
  pc,      \* "pack", "load", "execute", "done"
  loaded,  \* number of LIs executed
  x        \* the registers
vars == <<instr, reg, elm, packed, val, val_hi, hi, pc, loaded, x>>

-----------------------------------------------------------------------------
(***************************************************************************)
(* Packing                                                                 *)
(***************************************************************************)
Put(f, k, v) == [j \in DOMAIN f \cup {k} |-> IF j = k THEN v ELSE f[j]]

\* The letter in the name of an element.
get_fmt_sz(w) == CASE w = Byte     -> "b"
                   [] w = 2 * Byte -> "h"
                   [] w = 4 * Byte -> "w"
                   [] OTHER        -> "d"

Single(op) == op \in DOMAIN instr.vals /\ instr.vals[op].width = 0

\* Is there an element i with the letter of width w?
Has(op, w, i) ==
  /\ op \in DOMAIN instr.vals /\ ~Single(op)
  /\ get_fmt_sz(instr.vals[op].width) = get_fmt_sz(w)
  /\ i < instr.vals[op].of \div instr.vals[op].width

UnsignedFaulty(v, w) == v
Unsigned(v, w) == IF v < 0 THEN v + 2^w ELSE v

RECURSIVE Concat(_, _, _)
Concat(op, w, n) ==     \* of the elements 0 .. n - 1
  IF n = 0 THEN 0 ELSE Concat(op, w, n - 1) + (Unsigned(elm[op][n], w) * 2^((n - 1) * w))

\* The elements a loop finds before the first that is missing.
Found(op, w, n) ==
  CHOOSE k \in 0..n : (\A i \in 0..(k - 1) : Has(op, w, i)) /\ (k < n => ~Has(op, w, k))

Packing(op) == pc = "pack" /\ packed < Len(Operand) /\ Operand[packed + 1] = op

Skip == /\ \E op \in {"rs1", "rs2", "rd"} : /\ Packing(op)
                                           /\ \/ op \notin instr.ops
                                              \/ instr.paired /\ op = "rd" /\ op \notin DOMAIN instr.vals
                                           /\ hi' = IF op \in instr.pairs THEN Put(hi, op, reg[op] + 1) ELSE hi
        /\ packed' = packed + 1
        /\ UNCHANGED <<instr, reg, elm, val, val_hi, pc, loaded, x>>

\* concat_simd_data: rd has the width of rs1, and its elements may be missing;
\* a missing element of a source is a KeyError.
concat_simd_data ==
  /\ ~instr.paired
  /\ \E op \in instr.ops :
       LET w == IF op = "rs2" THEN instr.width[2] ELSE instr.width[1]
           n == instr.xlen \div w
       IN  /\ Packing(op)
           /\ Single(op) \/ op = "rd" \/ Found(op, w, n) = n
           /\ val' = Put(val, op, IF Single(op) THEN Unsigned(elm[op][1], w)
                                 ELSE Concat(op, w, Found(op, w, n)))
  /\ packed' = packed + 1
  /\ UNCHANGED <<instr, reg, elm, val_hi, hi, pc, loaded, x>>

\* gen_pair_reg_data: rd has the width of rs2.  Halves are of 32 bits whatever
\* XLEN is.
Half == 2^(4 * Byte)
gen_pair_reg_data ==
  /\ instr.paired
  /\ \E op \in DOMAIN instr.vals :
       LET w    == IF op = "rs1" THEN instr.width[1] ELSE instr.width[2]
           pair == op \in instr.pairs
           n    == (IF pair THEN 2 * instr.xlen ELSE instr.xlen) \div w
           v    == IF Single(op) THEN Unsigned(elm[op][1], w) ELSE Concat(op, w, n)
       IN  /\ Packing(op)
           /\ Single(op) \/ Found(op, w, n) = n
           /\ val' = Put(val, op, IF pair THEN v % Half ELSE v)
           /\ val_hi' = IF pair THEN Put(val_hi, op, (v \div Half) % Half) ELSE val_hi
           /\ hi' = IF pair THEN Put(hi, op, reg[op] + 1) ELSE hi
  /\ packed' = packed + 1
  /\ UNCHANGED <<instr, reg, elm, pc, loaded, x>>

-----------------------------------------------------------------------------
(***************************************************************************)
(* The test.  On RV64 the macros for pairs load single registers.          *)
(***************************************************************************)
LI(r, v) == [reg |-> r, val |-> v % 2^instr.xlen]
LoadsOf(op) ==
  IF op \in instr.pairs /\ instr.xlen = 4 * Byte
  THEN <<LI(reg[op], val[op]), LI(hi[op], val_hi[op])>>
  ELSE <<LI(reg[op], val[op])>>

RECURSIVE Loads(_)
Loads(k) == IF k = 0 THEN <<>> ELSE Loads(k - 1) \o LoadsOf(instr.loads[k])
LIs == Loads(Len(instr.loads))

StartTest ==
  /\ pc = "pack" /\ packed = Len(Operand)
  /\ pc' = "load"
  /\ UNCHANGED <<instr, reg, elm, packed, val, val_hi, hi, loaded, x>>

Load ==
  /\ pc = "load" /\ loaded < Len(LIs)
  /\ x' = LET li == LIs[loaded + 1] IN [r \in Regs |-> IF r = li.reg /\ r # 0 THEN li.val ELSE x[r]]
  /\ loaded' = loaded + 1
  /\ UNCHANGED <<instr, reg, elm, packed, val, val_hi, hi, pc>>

Execute ==
  /\ pc = "load" /\ loaded = Len(LIs)
  /\ pc' = "execute"
  /\ UNCHANGED <<instr, reg, elm, packed, val, val_hi, hi, loaded, x>>

Stopped == pc = "execute" /\ UNCHANGED vars

-----------------------------------------------------------------------------
Init ==
  /\ instr \in Instrs
  /\ reg \in {f \in [instr.ops -> Regs] : \A op \in instr.ops : f[op] \in Registers(instr, op)}
  /\ elm \in {f \in [DOMAIN instr.vals -> UNION {Elements(instr.vals[op]) : op \in DOMAIN instr.vals}] :
                \A op \in DOMAIN instr.vals : f[op] \in Elements(instr.vals[op])}
  /\ packed = 0 /\ pc = "pack" /\ loaded = 0
  /\ val = <<>> /\ val_hi = <<>> /\ hi = <<>>
  /\ x = [r \in Regs |-> 0]

Next == \/ Skip \/ concat_simd_data \/ gen_pair_reg_data
        \/ StartTest \/ Load \/ Execute \/ Stopped

Spec == Init /\ [][Next]_vars

-----------------------------------------------------------------------------
Wide(op)  == op \in instr.pairs /\ instr.xlen = 4 * Byte
Bits(op)  == IF Wide(op) THEN 2 * instr.xlen ELSE instr.xlen
Reads(op) == x[reg[op]] + (IF Wide(op) THEN x[reg[op] + 1] * 2^instr.xlen ELSE 0)

\* Each element that has a place in the registers of the operand is there.
Shown(op) ==
  LET v == instr.vals[op]
      w == IF Single(op) THEN (IF v.of < Bits(op) THEN v.of ELSE Bits(op)) ELSE v.width
  IN  \A i \in DOMAIN elm[op] :
        i * w <= Bits(op) => (Reads(op) \div 2^((i - 1) * w)) % 2^w = elm[op][i] % 2^w

Loaded == {instr.loads[k] : k \in DOMAIN instr.loads}

(***************************************************************************)
(* If an instruction has its operands apart (no register is loaded twice,  *)
(* none is x0), each element, of whatever sign, is in its place when the   *)
(* instruction executes (concat_simd_data, gen_pair_reg_data).  A missing  *)
(* correction of the sign, or a wrong width, changes the neighbours.       *)
(***************************************************************************)
Apart == \A i, j \in DOMAIN LIs : LIs[i].reg # 0 /\ (LIs[i].reg = LIs[j].reg => i = j)
LanesArrive == pc = "execute" /\ Apart => \A op \in Loaded : Shown(op)
=============================================================================
