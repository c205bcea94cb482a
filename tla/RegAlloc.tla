------------------------------ MODULE RegAlloc ------------------------------
(***************************************************************************)
(* Register allocation of the test generator (generator.py).               *)
(*                                                                         *)
(* gen_inst returns a list of instruction dictionaries.  Three passes then *)
(* run over the whole list, one after the other (ctg.py, gen_test):        *)
(*   swreg    gives every instruction a signature pointer and an offset,   *)
(*   testreg  gives every instruction a scratch register,                  *)
(*   valreg   gives every instruction that loads its operands a data       *)
(*            pointer, an offset and a flag register.                      *)
(* A pass keeps a pool of free registers.  It takes the registers of each  *)
(* instruction out of the pool and, when the pool gets small, hands one of *)
(* the registers left to all the instructions of the current window, then  *)
(* starts a new window with a full pool.                                   *)
(*                                                                         *)
(* A register xN is the number N.  Lists are indexed from 1 here and from  *)
(* 0 in the code; "count" and "assigned" are numbers of instructions and   *)
(* so have the values they have in the code.  A key missing from an        *)
(* instruction dictionary is an index missing from a function's domain.    *)
(***************************************************************************)
EXTENDS Integers, FiniteSets, Sequences

CONSTANTS
  Regs,         \* registers of the base ISA without x0: 1..31, or 1..15 for E
  OpVars,       \* operands of the instruction format, OPS[fmt]
  Paired,       \* operands that the p64/dcas profile marks 'p'
  Programs,     \* the lists of instructions that gen_inst may return
  Stride,       \* opnode['sig']['stride']
  StrideSz,     \* opnode['sig']['sz'], evaluated: bytes of one stride unit
  HasVal,       \* 'val' in opnode
  ValStride,    \* opnode['val']['stride']
  ValStrideSz,  \* opnode['val']['sz'], evaluated
  IsFext,       \* the instruction belongs to a floating-point extension
  OffsetLimit   \* largest byte offset, 2047 in the code

\* The instruction formats have up to three integer operands, register pairs
\* are operands, and the pool of the register file exceeds the thresholds.
ASSUME OperandAssumption ==
  /\ OpVars \subseteq {"rs1", "rs2", "rd"}
  /\ Paired \subseteq OpVars
  /\ \A p \in Programs : p \in Seq([OpVars -> Nat])

ASSUME RegsAssumption ==
  /\ IsFiniteSet(Regs)
  /\ \A r \in Regs : r \in Nat /\ r # 0
  /\ Cardinality(Regs) > 3 + Cardinality(OpVars) + Cardinality(Paired)

ASSUME StrideAssumption ==
  /\ Stride \in Nat \ {0} /\ StrideSz \in Nat
  /\ ValStride \in Nat \ {0} /\ ValStrideSz \in Nat
  /\ OffsetLimit \in Nat
  /\ HasVal \in BOOLEAN /\ IsFext \in BOOLEAN

VARIABLES
  instr,      \* the list: instr[i] maps an operand to the low register of it
  pass,       \* the pass that runs, or "done"
  count,      \* instructions scanned by the running pass
  assigned,   \* instructions the running pass has given a register
  avail,      \* available_reg
  swreg,      \* instr[i]['swreg'], for the i that have it
  offset,     \* instr[i]['offset'], in units of StrideSz
  testreg,    \* instr[i]['testreg']
  valreg,     \* instr[i]['valaddr_reg']
  valoffset,  \* instr[i]['val_offset'], in units of ValStrideSz
  flagreg     \* instr[i]['flagreg']

scanVars == <<count, assigned, avail>>
valVars  == <<valreg, valoffset, flagreg>>
vars == <<instr, pass, scanVars, swreg, offset, testreg, valVars>>

Passes == {"swreg", "testreg", "valreg", "done"}
Empty  == [i \in {} |-> 0]

-----------------------------------------------------------------------------
\* Registers named by an instruction: incr_reg_num adds the high half of a
\* pair next to its low half.
Lows(i)     == {instr[i][v] : v \in OpVars}
Highs(i)    == {instr[i][v] + 1 : v \in Paired}
Operands(i) == Lows(i) \cup Highs(i)

\* The register an earlier pass gave instruction i, if it did.
Given(f, i) == {f[j] : j \in DOMAIN f \cap {i}}

Lowest(S)  == CHOOSE r \in S : \A q \in S : r <= q       \* available_reg[0]
Second(S)  == Lowest(S \ {Lowest(S)})                    \* available_reg[1]

\* Indexing an empty list raises an IndexError in the code: a window that is
\* closed with too few registers left has no step here, and the pass hangs.

\* Faulty variants are marked so: each is a plausible mistake in the definition
\* after it, for showing that a property notices the mistake.

\* The two thresholds under which a pass closes its window.
SmallPool == 2 + Cardinality(OpVars) + Cardinality(Paired)
SmallValPoolFaulty == 3
SmallValPool == 3 + Cardinality(OpVars) + Cardinality(Paired)

\* swreg and valreg take every register of the instruction out of the pool.
SwregLeftFaulty(i) == avail \ (Lows(i) \cup Given(testreg, i))
SwregLeft(i)  == avail \ (Operands(i) \cup Given(testreg, i))
ValregLeftFaulty(i) == avail \ (Operands(i) \cup Given(swreg, i))
ValregLeft(i) == avail \ (Operands(i) \cup Given(swreg, i) \cup Given(testreg, i))

\* testreg looks at the high half only if the low half was still in the pool.
TakeOperand(S, i, v) ==
  IF v \in OpVars /\ instr[i][v] \in S
  THEN S \ ({instr[i][v]} \cup (IF v \in Paired THEN {instr[i][v] + 1} ELSE {}))
  ELSE S
TestregLeftFaulty(i) ==
  TakeOperand(TakeOperand(TakeOperand(avail, i, "rs1"), i, "rs2"), i, "rd")
TestregLeft(i) ==
  LET rs1 == TakeOperand(avail, i, "rs1")
      rs2 == TakeOperand(rs1, i, "rs2")
      rd  == TakeOperand(rs2, i, "rd")
  IN  rd \ Given(swreg, i)

\* Instructions lo..hi that do not have the key yet, the function extended to
\* them, and their offsets: the running offset grows by the stride and returns
\* to 0 once its size in bytes exceeds the limit.
Without(f, lo, hi) == {i \in lo..hi : i \notin DOMAIN f}
Extend(f, W, r)    == [i \in DOMAIN f \cup W |-> IF i \in W THEN r ELSE f[i]]
WrapFaulty(k, stride, sz) ==
  IF sz = 0 THEN k * stride
            ELSE (k % ((OffsetLimit \div (sz * stride)) + 2)) * stride
Wrap(k, stride, sz) ==
  IF sz = 0 THEN k * stride
            ELSE (k % ((OffsetLimit \div (sz * stride)) + 1)) * stride
ExtendOffsets(f, W, stride, sz) ==
  [i \in DOMAIN f \cup W |->
     IF i \in W THEN Wrap(Cardinality({j \in W : j < i}), stride, sz) ELSE f[i]]

-----------------------------------------------------------------------------
Init ==
  /\ instr \in Programs
  /\ pass = "swreg" /\ count = 0 /\ assigned = 0 /\ avail = Regs
  /\ swreg = Empty /\ offset = Empty /\ testreg = Empty
  /\ valreg = Empty /\ valoffset = Empty /\ flagreg = Empty

\* The head of a pass' loop: "for instr in instr_dict".
Scanning(p) == pass = p /\ count < Len(instr)
Scanned(p)  == pass = p /\ count = Len(instr)

\* An instruction after which the pool is still large.
Keep(left, threshold) ==
  /\ Cardinality(left) > threshold
  /\ avail' = left
  /\ count' = count + 1
  /\ UNCHANGED <<instr, pass, assigned, swreg, offset, testreg, valVars>>

\* The window, closed by the next instruction, that gets a register.
Window(f) == Without(f, assigned + 1, count + 1)

\* The pool is refilled after a window.
Refill(f) ==
  /\ assigned' = assigned + Cardinality(Window(f))
  /\ avail' = Regs
  /\ count' = count + 1

\* The next pass starts on the same list with a full pool.
NextPass(p) ==
  /\ pass' = p
  /\ count' = 0 /\ assigned' = 0 /\ avail' = Regs
  /\ UNCHANGED instr

\* After the loop, the instructions left get the first register of the pool.
HasLeftovers == assigned # Len(instr) /\ avail # {}
Leftovers(f) == IF HasLeftovers THEN Without(f, 1, Len(instr)) ELSE {}

-----------------------------------------------------------------------------
SwregKeep == Scanning("swreg") /\ Keep(SwregLeft(count + 1), SmallPool)

SwregWindow ==
  /\ Scanning("swreg")
  /\ LET left == SwregLeft(count + 1)
         W    == Window(swreg)
     IN  /\ left # {} /\ Cardinality(left) <= SmallPool
         /\ swreg'  = Extend(swreg, W, Lowest(left))
         /\ offset' = ExtendOffsets(offset, W, Stride, StrideSz)
  /\ Refill(swreg)
  /\ UNCHANGED <<instr, pass, testreg, valVars>>

SwregDone ==
  /\ Scanned("swreg")
  /\ LET W == Leftovers(swreg)
     IN  /\ swreg'  = Extend(swreg, W, Lowest(avail))
         /\ offset' = ExtendOffsets(offset, W, Stride, StrideSz)
  /\ NextPass("testreg")
  /\ UNCHANGED <<testreg, valVars>>

TestregKeep == Scanning("testreg") /\ Keep(TestregLeft(count + 1), SmallPool)

TestregWindow ==
  /\ Scanning("testreg")
  /\ LET left == TestregLeft(count + 1)
     IN  /\ left # {} /\ Cardinality(left) <= SmallPool
         /\ testreg' = Extend(testreg, Window(testreg), Lowest(left))
  /\ Refill(testreg)
  /\ UNCHANGED <<instr, pass, swreg, offset, valVars>>

TestregDoneFaulty ==
  /\ Scanned("testreg")
  /\ NextPass(IF HasVal THEN "valreg" ELSE "done")
  /\ UNCHANGED <<testreg, swreg, offset, valVars>>

TestregDone ==
  /\ Scanned("testreg")
  /\ testreg' = Extend(testreg, Leftovers(testreg), Lowest(avail))
  /\ NextPass(IF HasVal THEN "valreg" ELSE "done")
  /\ UNCHANGED <<swreg, offset, valVars>>

\* The flag register is set once per source operand of a floating-point test.
HasFlag == IsFext /\ OpVars \ {"rd"} # {}
ValNeed == IF HasFlag THEN 2 ELSE 1

AssignVal(W, pool) ==
  /\ valreg'    = Extend(valreg, W, Lowest(pool))
  /\ valoffset' = ExtendOffsets(valoffset, W, ValStride, ValStrideSz)
  /\ flagreg'   = IF HasFlag THEN Extend(flagreg, W, Second(pool)) ELSE flagreg

ValregKeep == Scanning("valreg") /\ Keep(ValregLeft(count + 1), SmallValPool)

ValregWindow ==
  /\ Scanning("valreg")
  /\ LET left == ValregLeft(count + 1)
     IN  /\ Cardinality(left) \in ValNeed..SmallValPool
         /\ AssignVal(Window(valreg), left)
  /\ Refill(valreg)
  /\ UNCHANGED <<instr, pass, swreg, offset, testreg>>

ValregDone ==
  /\ Scanned("valreg")
  /\ AssignVal(Leftovers(valreg), avail)
  /\ NextPass("done")
  /\ UNCHANGED <<swreg, offset, testreg>>

SwregPass   == SwregKeep \/ SwregWindow \/ SwregDone
TestregPass == TestregKeep \/ TestregWindow \/ TestregDone
ValregPass  == ValregKeep \/ ValregWindow \/ ValregDone

Next == SwregPass \/ TestregPass \/ ValregPass

Spec == Init /\ [][Next]_vars

-----------------------------------------------------------------------------
(***************************************************************************)
(* Properties                                                              *)
(***************************************************************************)
\* How many instructions have the keys of each pass: the running pass has
\* served the first "assigned" ones, an earlier one all of them.
SwregCount   == IF pass = "swreg" THEN assigned ELSE Len(instr)
TestregCount == CASE pass = "swreg" -> 0 [] pass = "testreg" -> assigned
                  [] OTHER -> Len(instr)
ValregCount  == CASE pass = "valreg" -> assigned
                  [] pass = "done" /\ HasVal -> Len(instr)
                  [] OTHER -> 0

\* Every pass serves the list from the front and hands out registers of the
\* register file; "assigned" is exact, so no window is skipped or served twice.
TypeOK ==
  /\ instr \in Programs
  /\ pass \in Passes
  /\ count \in 0..Len(instr)
  /\ assigned \in 0..count
  /\ avail \subseteq Regs
  /\ swreg \in [1..SwregCount -> Regs] /\ offset \in [1..SwregCount -> Nat]
  /\ testreg \in [1..TestregCount -> Regs]
  /\ valreg \in [1..ValregCount -> Regs] /\ valoffset \in [1..ValregCount -> Nat]
  /\ flagreg \in [1..(IF HasFlag THEN ValregCount ELSE 0) -> Regs]

\* The signature pointer of an instruction is none of the registers the
\* instruction reads or writes, high halves of pairs included: executing the
\* instruction never destroys the pointer its own result is stored through
\* (generator.py, docstring of swreg).
SwregFree == \A i \in DOMAIN swreg : swreg[i] \notin Operands(i)

\* The scratch register of an instruction is neither its signature pointer
\* nor the low register of an operand (docstring of testreg; that the high
\* halves are not avoided is the subject of TestregFree).
TestregAvoids ==
  \A i \in DOMAIN testreg : testreg[i] \notin Lows(i) \cup Given(swreg, i)

\* What the docstring of testreg says: the pass removes all the registers that
\* are used "as either operands or destination or signature".
TestregFree ==
  \A i \in DOMAIN testreg : testreg[i] \notin Operands(i) \cup Given(swreg, i)

\* The data pointer and the flag register differ from each other and from
\* every other register of the instruction, those of earlier passes included.
ValregFree ==
  \A i \in DOMAIN valreg :
    LET used == Operands(i) \cup Given(swreg, i) \cup Given(testreg, i)
    IN  /\ valreg[i] \notin used
        /\ Given(flagreg, i) \cap (used \cup {valreg[i]}) = {}

\* A pass that closes a window always finds the registers it indexes in the
\* pool (available_reg[0], and available_reg[1] for the flag register).
PoolSuffices ==
  count < Len(instr) =>
    /\ pass = "swreg"   => SwregLeft(count + 1) # {}
    /\ pass = "testreg" => TestregLeft(count + 1) # {}
    /\ pass = "valreg"  => Cardinality(ValregLeft(count + 1)) >= 2

\* What write_test relies on to lay out the signature: an instruction starts a
\* new region (offset 0), or it has the pointer of its predecessor and the
\* next offset; and every offset fits the immediate of a store.
OffsetsRun ==
  \A i \in DOMAIN offset :
    /\ offset[i] * StrideSz <= OffsetLimit
    /\ \/ offset[i] = 0
       \/ /\ i - 1 \in DOMAIN offset
          /\ swreg[i] = swreg[i - 1] /\ offset[i] = offset[i - 1] + Stride

\* The passes run to the end and give every instruction all its registers,
\* the ones after the last full window included.
Completes ==
  <>(/\ pass = "done"
     /\ DOMAIN swreg = 1..Len(instr) /\ DOMAIN testreg = 1..Len(instr)
     /\ HasVal => DOMAIN valreg = 1..Len(instr))

-----------------------------------------------------------------------------
\* The inductive invariant behind the properties above: the pool has no
\* register of the instructions scanned since the last window, and more
\* registers than the threshold of the pass.
PoolInv ==
  LET open == (assigned + 1)..count
  IN  /\ pass = "swreg" =>
           /\ \A i \in open : avail \cap Operands(i) = {}
           /\ Cardinality(avail) > SmallPool
      /\ pass = "testreg" =>
           /\ \A i \in open : avail \cap (Lows(i) \cup Given(swreg, i)) = {}
           /\ Cardinality(avail) > SmallPool
      /\ pass = "valreg" =>
           /\ HasVal
           /\ \A i \in open :
                avail \cap (Operands(i) \cup Given(swreg, i) \cup Given(testreg, i)) = {}
           /\ Cardinality(avail) > SmallValPool

IInv == TypeOK /\ PoolInv /\ SwregFree /\ TestregAvoids /\ ValregFree
=============================================================================
