------------------------------- MODULE OpComb -------------------------------
(***************************************************************************)
(* Operand combinations: opcomb() of generator.py.                         *)
(*                                                                         *)
(* A covergroup asks that each register of a list occurs as a certain      *)
(* operand, and that certain conditions on the operands are met.  opcomb   *)
(* looks for few instructions that do it all: each iteration of its loop   *)
(* has a constraint solver find registers that meet one pending condition  *)
(* and use pending registers for every operand at once, and gives up one   *)
(* of its wishes each time there is no solution.                           *)
(*                                                                         *)
(* A covergroup is a record                                                *)
(*   ops    the operands, in the order of op_vars                          *)
(*   data   the registers each operand may be                              *)
(*   cover  the registers to cover for each operand                        *)
(*   comb   the conditions: [sat, hard], the operands that satisfy it and  *)
(*          the registers x0..x31 its text compares an operand with        *)
(*   random whether the generator runs with --randomize                    *)
(* The solver (python-constraint) is external: it returns any solution,    *)
(* and the random one may also miss the ones there are.  It prunes the     *)
(* domains on the first attempt, which is why registers that are added     *)
(* before an attempt is repeated do not help that attempt.                 *)
(***************************************************************************)
EXTENDS Integers, Sequences, SequencesExt, FiniteSets

CONSTANTS
  Regs,    \* names of registers
  Cgfs     \* covergroups

OpsOf(g) == {g.ops[i] : i \in DOMAIN g.ops}
Operations(g) == [OpsOf(g) -> Regs]

ASSUME CgfAssumption == \A g \in Cgfs :
  /\ g.ops \in Seq(STRING)
  /\ g.data \in [OpsOf(g) -> SUBSET Regs]
  /\ g.cover \in [OpsOf(g) -> SUBSET Regs]
  /\ g.comb \in Seq([sat : SUBSET Operations(g), hard : SUBSET Regs])
  /\ g.random \in BOOLEAN

VARIABLES
  cgf,         \* the covergroup
  pc,          \* "opcomb" while opcomb runs, and then what follows it
  op_conds,    \* registers still to cover, for each operand
  op_comb,     \* pending conditions (indices of cgf.comb), the next one last
  cond,        \* the condition popped last, 0 before the first
  individual,  \* only one operand is constrained to its pending registers
  nodiff,      \* operands need not be different any more
  warned,      \* opcomb has given up, with a warning
  solutions    \* the combinations found

combVars == <<op_conds, op_comb, cond, individual, nodiff, warned, solutions>>
vars == <<cgf, pc, combVars>>

Ops == OpsOf(cgf)
random == cgf.random
Found == {solutions[i] : i \in DOMAIN solutions}

\* add_variable for each operand: what the solver chooses from.
Domain == {s \in Operations(cgf) : \A op \in Ops : s[op] \in cgf.data[op]}

AllDifferent(s) == \A op, other \in Ops : op # other => s[op] # s[other]

PendingFaulty == op_comb # <<>> \/ \A op \in Ops : op_conds[op] # {}
Pending == op_comb # <<>> \/ \E op \in Ops : op_conds[op] # {}

\* The operands that are constrained to their pending registers: all that
\* have any, or the first such operand.
Constrained ==
  LET wanting == {i \in DOMAIN cgf.ops : op_conds[cgf.ops[i]] # {}}
  IN  {cgf.ops[i] : i \in {k \in wanting : individual => \A j \in wanting : k <= j}}

\* The condition of an iteration, and what it leaves pending.
Popped == IF op_comb = <<>> THEN cond ELSE op_comb[Len(op_comb)]
Rest   == IF op_comb = <<>> THEN <<>> ELSE SubSeq(op_comb, 1, Len(op_comb) - 1)

\* A condition takes the place of the wish for different operands.
WantedFaulty(s) ==
  /\ op_comb # <<>> => s \in cgf.comb[Popped].sat
  /\ nodiff \/ AllDifferent(s)
Wanted(s) ==
  IF op_comb # <<>> THEN s \in cgf.comb[Popped].sat ELSE nodiff \/ AllDifferent(s)
Candidates ==
  {s \in Domain : Wanted(s) /\ \A op \in Constrained : s[op] \in op_conds[op]}

\* Without a solution, the registers named in the condition are added to the
\* lists of all three operands, and the condition becomes pending again.  The
\* condition is the one popped last, in an iteration without one as well.
Hard == IF Popped = 0 THEN {} ELSE cgf.comb[Popped].hard
HasAllOps == {"rs1", "rs2", "rd"} \subseteq Ops
MoreConds == [op \in Ops |-> IF op \in {"rs1", "rs2", "rd"} THEN op_conds[op] \cup Hard
                                                          ELSE op_conds[op]]
MoreComb == IF Hard = {} THEN Rest ELSE Append(Rest, Popped)

CombInit ==
  /\ cgf \in Cgfs
  /\ pc = "opcomb"
  /\ op_conds = cgf.cover
  /\ op_comb = [i \in 1..Len(cgf.comb) |-> i]
  /\ cond = 0
  /\ individual = FALSE
  /\ nodiff = FALSE
  /\ warned = FALSE
  /\ solutions = <<>>

\* The registers of a combination are pending no longer, each as the operand
\* it was used for.
Take(s, conds) ==
  /\ op_conds' = [op \in Ops |-> conds[op] \ {s[op]}]
  /\ cond' = Popped
  /\ solutions' = Append(solutions, s)
  /\ UNCHANGED <<cgf, pc, individual, nodiff, warned>>

\* The solver finds a solution.
Solve ==
  /\ pc = "opcomb" /\ Pending
  /\ \E s \in Candidates : Take(s, op_conds)
  /\ op_comb' = Rest

\* The random solver finds one when it is asked again.
SolveRepeated ==
  /\ pc = "opcomb" /\ Pending
  /\ random /\ Hard # {} /\ HasAllOps
  /\ \E s \in Candidates : Take(s, MoreConds)
  /\ op_comb' = MoreComb

NoSolution ==
  /\ pc = "opcomb" /\ Pending
  /\ Candidates = {} \/ random

\* op_conds['rd'] of an instruction without rd raises a KeyError.
NoSuchOperand ==
  /\ NoSolution
  /\ Hard # {} /\ ~HasAllOps
  /\ pc' = "raised"
  /\ UNCHANGED <<cgf, combVars>>

\* First only one operand is constrained, then operands may be equal ...
LoosenFaulty ==
  /\ NoSolution
  /\ Hard = {} \/ HasAllOps
  /\ ~individual \/ ~nodiff
  /\ individual' = TRUE
  /\ op_conds' = MoreConds
  /\ op_comb' = MoreComb
  /\ cond' = Popped
  /\ UNCHANGED <<cgf, pc, nodiff, warned, solutions>>
Loosen ==
  /\ NoSolution
  /\ Hard = {} \/ HasAllOps
  /\ ~individual \/ ~nodiff
  /\ individual' = TRUE
  /\ nodiff' = individual
  /\ op_conds' = MoreConds
  /\ op_comb' = MoreComb
  /\ cond' = Popped
  /\ UNCHANGED <<cgf, pc, warned, solutions>>

\* ... and then whatever is pending is given up.
GiveUp ==
  /\ NoSolution
  /\ Hard = {} \/ HasAllOps
  /\ individual /\ nodiff
  /\ pc' = "valcomb"
  /\ warned' = TRUE
  /\ op_conds' = MoreConds
  /\ op_comb' = MoreComb
  /\ cond' = Popped
  /\ UNCHANGED <<cgf, individual, nodiff, solutions>>

CombDone ==
  /\ pc = "opcomb" /\ ~Pending
  /\ pc' = "valcomb"
  /\ UNCHANGED <<cgf, combVars>>

CombNext == Solve \/ SolveRepeated \/ NoSuchOperand \/ Loosen \/ GiveUp \/ CombDone
CombSpec == CombInit /\ [][CombNext]_vars

-----------------------------------------------------------------------------
\* All variables hold what the code can store in them.
CombTypeOK ==
  /\ cgf \in Cgfs
  /\ op_conds \in [Ops -> SUBSET Regs]
  /\ op_comb \in Seq(1..Len(cgf.comb))
  /\ cond \in 0..Len(cgf.comb)
  /\ individual \in BOOLEAN /\ nodiff \in BOOLEAN /\ warned \in BOOLEAN
  /\ solutions \in Seq(Domain)

\* A register to cover is pending as long as no combination has it: no
\* register is lost on the way, whatever the solver finds or misses.
RegistersKept ==
  \A op \in Ops : \A r \in cgf.cover[op] :
    r \in op_conds[op] \/ \E s \in Found : s[op] = r

\* A condition is rich if it has more solutions within the lists that share no
\* operand than the combinations for the other conditions can use up.
Listed(op) == IF cgf.cover[op] = {} THEN cgf.data[op] ELSE cgf.cover[op] \cap cgf.data[op]
Covering == {op \in Ops : cgf.cover[op] # {}}
Disjoint(F) == \A s, t \in F : s # t => \A op \in Covering : s[op] # t[op]
IsRich(i) ==
  \E F \in SUBSET {s \in cgf.comb[i].sat \cap Domain : \A op \in Ops : s[op] \in Listed(op)} :
    /\ IsFiniteSet(F)
    /\ Disjoint(F)
    /\ Cardinality(F) > Cardinality(Covering) * (Len(cgf.comb) - 1)

\* If all conditions are rich, the conditions that are not pending any more
\* are covered: none is dropped for want of a solution.
RichCovered ==
  (~random /\ \A i \in DOMAIN cgf.comb : IsRich(i))
    => \A i \in DOMAIN cgf.comb :
         \/ \E k \in DOMAIN op_comb : op_comb[k] = i
         \/ \E s \in Found : s \in cgf.comb[i].sat
=============================================================================
