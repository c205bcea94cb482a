------------------------------- MODULE GenInst ------------------------------
(***************************************************************************)
(* From coverpoints to instructions: valcomb() and gen_inst() of           *)
(* generator.py, behind opcomb() (module OpComb).                          *)
(*                                                                         *)
(* valcomb solves the conditions on operand values one by one.  gen_inst   *)
(* puts the combinations of operands and of values together, one by one;   *)
(* where an instruction cannot show its values, because it uses x0 or a    *)
(* register twice, they are repeated with default registers.  At last it   *)
(* drops the instructions that add nothing to the coverage.                *)
(*                                                                         *)
(* A covergroup of OpComb also has                                         *)
(*   vals     the value variables of the format (val_vars)                 *)
(*   reads    the value variable of an operand, for the operands with one  *)
(*   dataset  the values of each variable, as a sequence                   *)
(*   val      the conditions: [sat, vars, how], the values that satisfy it *)
(*            (in all, also outside the datasets), the variables it names, *)
(*            and how it is solved: "solve", "given" (#nosat),             *)
(*            "partial" (#nosat, not all variables) or "twice" (#nosat, a  *)
(*            variable has two values)                                     *)
(* Instructions are built by __instr__; the other formats differ in their  *)
(* default registers only.  Lanes and register pairs are filled later.     *)
(***************************************************************************)
EXTENDS OpComb

CONSTANT Values

ASSUME ValAssumption == \A g \in Cgfs :
  /\ DOMAIN g.reads \subseteq OpsOf(g)
  /\ \A op \in DOMAIN g.reads : g.reads[op] \in g.vals
  /\ \A op, other \in DOMAIN g.reads : g.reads[op] = g.reads[other] => op = other
  /\ g.dataset \in [g.vals -> Seq(Values) \ {<<>>}]
  /\ g.val \in Seq([sat : SUBSET [g.vals -> Values], vars : SUBSET g.vals,
                    how : {"solve", "given", "partial", "twice"}])
  /\ 0 \in Values

VARIABLES
  inds,      \* conditions on values (indices of cgf.val) not solved yet
  values,    \* the combinations of values found
  default,   \* default_regs, or <<>> if there are none
  cont,      \* combinations of values to repeat
  instrs,    \* instr_dict
  scanned,   \* number of elements the loop of gen_inst has seen
  final      \* final_instr

genVars == <<default, cont, instrs, scanned, final>>
allVars == <<vars, inds, values, genVars>>

-----------------------------------------------------------------------------
\* valcomb

Last1(S) == CHOOSE i \in S : \A j \in S : j <= i      \* inds.pop()
Cond == cgf.val[Last1(inds)]

\* A variable the condition does not name has the first value of its dataset.
FromDatasets(v, c) ==
  \A x \in cgf.vals :
    IF x \in c.vars THEN \E i \in DOMAIN cgf.dataset[x] : cgf.dataset[x][i] = v[x]
                    ELSE v[x] = cgf.dataset[x][1]
Solvable(c) == {v \in c.sat : FromDatasets(v, c)}

\* default_regs is computed by the constructor.
GenInit ==
  /\ CombInit
  /\ inds = DOMAIN cgf.val
  /\ values = <<>>
  /\ LET distinct == {s \in Domain : AllDifferent(s) /\ \A op \in Ops : s[op] # "x0"}
     IN  default \in IF distinct = {} THEN {<<>>} ELSE distinct
  /\ cont = <<>>
  /\ instrs = <<>>
  /\ scanned = 0
  /\ final = <<>>

Combine == CombNext /\ UNCHANGED <<inds, values, genVars>>

InValcomb == pc = "valcomb" /\ inds # {}

\* The conditions that the solution happens to meet are solved as well.
SolveValue ==
  /\ InValcomb /\ Cond.how = "solve"
  /\ \E v \in Solvable(Cond) :
       /\ values' = Append(values, v)
       /\ inds' = {i \in inds \ {Last1(inds)} : v \notin cgf.val[i].sat}
  /\ UNCHANGED <<vars, genVars>>

\* The values of a #nosat condition are taken as they are.
TakeGiven ==
  /\ InValcomb /\ Cond.how = "given"
  /\ \E v \in Cond.sat : values' = Append(values, v)
  /\ inds' = inds \ {Last1(inds)}
  /\ UNCHANGED <<vars, genVars>>

SkipValue ==
  /\ InValcomb
  /\ \/ Cond.how = "partial"
     \/ (Cond.how = "solve" /\ (Solvable(Cond) = {} \/ random))
  /\ inds' = inds \ {Last1(inds)}
  /\ UNCHANGED <<vars, values, genVars>>

Exit ==
  /\ InValcomb /\ Cond.how = "twice"
  /\ pc' = "exited"
  /\ UNCHANGED <<cgf, combVars, inds, values, genVars>>

ValDone ==
  /\ pc = "valcomb" /\ inds = {}
  /\ pc' = "pair"
  /\ UNCHANGED <<cgf, combVars, inds, values, genVars>>

-----------------------------------------------------------------------------
\* gen_inst

\* The shorter list is filled up with empty combinations of operands, or with
\* the first value of each dataset.
Longer == IF Len(solutions) < Len(values) THEN Len(values) ELSE Len(solutions)
ValueOf(i) == IF i <= Len(values) THEN values[i] ELSE [x \in cgf.vals |-> cgf.dataset[x][1]]

SharedFaulty(s) == \E op \in Ops : s[op] = "x0"
Shared(s) == ~AllDifferent(s) \/ \E op \in Ops : s[op] = "x0"

\* x0 is zero, and operands in one register have one value, the first one's.
Reading == {i \in DOMAIN cgf.ops : cgf.ops[i] \in DOMAIN cgf.reads}
FirstWith(s, op) ==
  cgf.ops[CHOOSE i \in Reading : s[cgf.ops[i]] = s[op]
                                 /\ \A j \in Reading : s[cgf.ops[j]] = s[op] => i <= j]
AdjustedFaulty(s, v) ==
  [x \in cgf.vals |->
     IF \E op \in DOMAIN cgf.reads : cgf.reads[op] = x
     THEN LET op == CHOOSE op \in DOMAIN cgf.reads : cgf.reads[op] = x
          IN  IF s[op] = "x0" THEN 0 ELSE v[x]
     ELSE v[x]]
Adjusted(s, v) ==
  [x \in cgf.vals |->
     IF \E op \in DOMAIN cgf.reads : cgf.reads[op] = x
     THEN LET op == CHOOSE op \in DOMAIN cgf.reads : cgf.reads[op] = x
          IN  IF s[op] = "x0" THEN 0 ELSE v[cgf.reads[FirstWith(s, op)]]
     ELSE v[x]]

Instr(s, v) == [op |-> s, val |-> v]

Pair ==
  /\ pc = "pair" /\ scanned < Longer
  /\ scanned' = scanned + 1
  /\ LET v == ValueOf(scanned + 1)
     IN  IF scanned < Len(solutions)
         THEN LET s == solutions[scanned + 1]
              IN  /\ cont' = IF Shared(s) THEN Append(cont, v) ELSE cont
                  /\ instrs' = Append(instrs, Instr(s, IF Shared(s) THEN Adjusted(s, v) ELSE v))
         ELSE /\ default # <<>>
              /\ cont' = cont
              /\ instrs' = Append(instrs, Instr(default, v))
  /\ UNCHANGED <<vars, inds, values, default, final>>

PairsDone ==
  /\ pc = "pair" /\ scanned = Longer
  /\ pc' = "repeat"
  /\ scanned' = 0
  /\ UNCHANGED <<cgf, combVars, inds, values, default, cont, instrs, final>>

Repeat ==
  /\ pc = "repeat" /\ scanned < Len(cont)
  /\ default # <<>>
  /\ scanned' = scanned + 1
  /\ instrs' = Append(instrs, Instr(default, cont[scanned + 1]))
  /\ UNCHANGED <<vars, inds, values, default, cont, final>>

\* default_regs[var] of an empty list raises a TypeError.
NoDefault ==
  /\ default = <<>>
  /\ \/ pc = "pair" /\ Len(solutions) <= scanned /\ scanned < Longer
     \/ pc = "repeat" /\ scanned < Len(cont)
  /\ pc' = "raised"
  /\ UNCHANGED <<cgf, combVars, inds, values, genVars>>

RepeatDone ==
  /\ pc = "repeat" /\ scanned = Len(cont)
  /\ pc' = "filter"
  /\ scanned' = 0
  /\ UNCHANGED <<cgf, combVars, inds, values, default, cont, instrs, final>>

\* What an instruction covers.  Values do not count with a zero register or if
\* both sources are the same.
SkipVal(ins) ==
  \/ ({"rs1", "rs2"} \subseteq Ops /\ ins.op["rs1"] = ins.op["rs2"])
  \/ \E op \in Ops \cap {"rs1", "rs2", "rd"} : ins.op[op] \in {"x0", "f0"}
Hits(ins) ==
  {<<"val", i>> : i \in {k \in DOMAIN cgf.val : ins.val \in cgf.val[k].sat /\ ~SkipVal(ins)}}
    \cup {<<"comb", i>> : i \in {k \in DOMAIN cgf.comb : ins.op \in cgf.comb[k].sat}}
    \cup {<<"op", op, ins.op[op]>> : op \in {o \in Ops : ins.op[o] \in cgf.cover[o]}}

\* hits: the coverage of the instructions kept so far.  One that is dropped
\* adds nothing to it.
Covered == UNION {Hits(final[i]) : i \in DOMAIN final}

FilterFaulty ==
  /\ pc = "filter" /\ scanned < Len(instrs)
  /\ scanned' = scanned + 1
  /\ LET ins == instrs[scanned + 1]
     IN  final' = IF Hits(ins) \cap Covered = {} THEN Append(final, ins) ELSE final
  /\ UNCHANGED <<vars, inds, values, default, cont, instrs>>
Filter ==
  /\ pc = "filter" /\ scanned < Len(instrs)
  /\ scanned' = scanned + 1
  /\ LET ins == instrs[scanned + 1]
     IN  final' = IF Hits(ins) \subseteq Covered THEN final ELSE Append(final, ins)
  /\ UNCHANGED <<vars, inds, values, default, cont, instrs>>

FilterDone ==
  /\ pc = "filter" /\ scanned = Len(instrs)
  /\ pc' = "done"
  /\ UNCHANGED <<cgf, combVars, inds, values, genVars>>

GenNext ==
  \/ Combine
  \/ SolveValue \/ TakeGiven \/ SkipValue \/ Exit \/ ValDone
  \/ Pair \/ PairsDone \/ Repeat \/ NoDefault \/ RepeatDone
  \/ Filter \/ FilterDone

\* The generator is a sequential program that goes on while it can.
GenSpec == GenInit /\ [][GenNext]_allVars /\ WF_allVars(GenNext)

-----------------------------------------------------------------------------
\* All variables hold what the code can store in them.
Instrs == [op : Operations(cgf), val : [cgf.vals -> Values]]
TypeOK ==
  /\ CombTypeOK
  /\ pc \in {"opcomb", "valcomb", "pair", "repeat", "filter", "done", "raised", "exited"}
  /\ inds \subseteq DOMAIN cgf.val
  /\ values \in Seq([cgf.vals -> Values])
  /\ default = <<>> \/ default \in Domain
  /\ cont \in Seq([cgf.vals -> Values])
  /\ instrs \in Seq(Instrs) /\ final \in Seq(Instrs)
  /\ scanned \in Nat

Kept == {final[i] : i \in DOMAIN final}

\* If opcomb has not given up, each register to cover is in a final instruction.
OperandsCovered ==
  (pc = "done" /\ ~warned)
    => \A op \in Ops : \A r \in cgf.cover[op] : \E ins \in Kept : ins.op[op] = r

\* If all conditions on operands are rich, a final instruction meets each.
CombCovered ==
  (pc = "done" /\ ~random /\ \A i \in DOMAIN cgf.comb : IsRich(i))
    => \A i \in DOMAIN cgf.comb : \E ins \in Kept : ins.op \in cgf.comb[i].sat

\* Every condition on values that can be met is met by a final instruction
\* whose coverage counts, whatever operands its values were combined with;
\* gen_inst repeats values for x0, but not for f0.
ValuesCovered ==
  (pc = "done" /\ ~random /\ \A op \in Ops : "f0" \notin cgf.data[op])
    => \A i \in DOMAIN cgf.val :
         \/ cgf.val[i].how = "partial"
         \/ (cgf.val[i].how = "solve" /\ Solvable(cgf.val[i]) = {})
         \/ \E ins \in Kept : ins.val \in cgf.val[i].sat /\ ~SkipVal(ins)

\* The values of an instruction can be in its registers: x0 holds 0, and
\* operands in one register have one value.
ValuesConsistent ==
  \A ins \in Kept : \A op, other \in DOMAIN cgf.reads :
    /\ ins.op[op] = "x0" => ins.val[cgf.reads[op]] = 0
    /\ ins.op[op] = ins.op[other] => ins.val[cgf.reads[op]] = ins.val[cgf.reads[other]]

\* Generating ends, with instructions or an error.
Finishes == <>(pc \in {"done", "raised", "exited"})
=============================================================================
