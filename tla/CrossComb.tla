------------------------------ MODULE CrossComb -----------------------------
(***************************************************************************)
(* Tests of cross-combination coverpoints: cross_comb() and write_test()   *)
(* of cross_comb.py.                                                       *)
(*                                                                         *)
(* A coverpoint describes a window of consecutive instructions; cross_comb *)
(* picks an instruction and its registers for one item at a time.  It      *)
(* keeps operands and variables as names in its own scope (exec), where    *)
(* they stay for later items and later coverpoints.                        *)
(*                                                                         *)
(* An item of a coverpoint is a record:                                    *)
(*   any     it is "?": any of dntcare_instrs with the operands it needs   *)
(*   data    otherwise the instructions it lists (a tuple, or just one)    *)
(*   cond    names x, y with x == y, joined by "or"; <<>> is "?"           *)
(*   assgn   assignments x = y, in order; <<>> is "?"                      *)
(*                                                                         *)
(* Immediates, floating point and ISA strings are left out.                *)
(***************************************************************************)
EXTENDS Integers, FiniteSets, SequencesExt

CONSTANTS
  Regs,           \* default_regset: the registers, which are names as well
  PtrRegs,        \* those swreg() chooses from
  Template,       \* OP_TEMPLATE, see TemplateAssumption
  High,           \* the other half of a pair, for the registers that may hold one
  dntcare_instrs,
  Window,         \* the coverpoints by their number
  CrossCombs      \* lists of coverpoints: the cross_comb nodes of covergroups

Operands == {"rs1", "rs2", "rs3", "rd"}
InstrTemplate(o) ==
  [op_data : [o -> SUBSET Regs],  \* operands and their registers
   pairs : SUBSET o,              \* operands that are register pairs
   prints : BOOLEAN]              \* its INSTR_FORMAT asks for these operands only
\* The registers an operand can be: rd is never x0.
Values(i, o) == Template[i].op_data[o] \ (IF o = "rd" THEN {"x0"} ELSE {})
ASSUME TemplateAssumption ==
  /\ \A i \in DOMAIN Template :
       \E o \in (SUBSET Operands) \ {{}} : Template[i] \in InstrTemplate(o) /\ \A x \in o : Values(i, x) # {}
  /\ Regs \cap Operands = {} /\ dntcare_instrs \subseteq DOMAIN Template
  /\ "x0" \in Regs /\ PtrRegs \subseteq Regs /\ High \in [DOMAIN High -> Regs]

Items == [any : BOOLEAN, data : SUBSET STRING, cond : Seq(STRING \X STRING), assgn : Seq(STRING \X STRING)]
ASSUME WindowAssumption ==
  /\ \A c \in DOMAIN Window : Window[c] \in Seq(Items)
  /\ CrossCombs \subseteq Seq(DOMAIN Window)

VARIABLES
  cross_comb,      \* the coverpoints of the covergroup (numbers)
  stage,           \* "solve", "write", "written", or "raised"
  each,            \* the coverpoint at work (index)
  scope,           \* names that exec has set, and their registers
  instr,           \* the instruction picked last
  solution,        \* the items done of this coverpoint
  full_solution,   \* the coverpoints done
  labels           \* of the signature regions: pointer register and count

crossVars == <<cross_comb, stage, each, scope, instr, solution, full_solution, labels>>

NoInstr == "none"
Covering == Window[cross_comb[each]]
item == Covering[Len(solution) + 1]
oprs(i) == DOMAIN Template[i].op_data

\* The names of b are set, those of a that b does not have are kept.
Set(a, b) == [x \in DOMAIN a \cup DOMAIN b |-> IF x \in DOMAIN b THEN b[x] ELSE a[x]]

-----------------------------------------------------------------------------
(***************************************************************************)
(* Picking an instruction and its registers.                               *)
(***************************************************************************)
Named(it) == UNION {ToSet(a) : a \in ToSet(it.cond) \cup ToSet(it.assgn)}
get_oprs(it) == Named(it) \cap Operands

\* A single name that is not in the template is logged, and the instruction
\* picked last is used again.
Picks(it) ==
  CASE it.any -> {i \in dntcare_instrs : get_oprs(it) \subseteq oprs(i)}
    [] ~it.any /\ Cardinality(it.data) = 1 /\ ~it.data \subseteq DOMAIN Template -> {instr}
    [] OTHER -> it.data

\* What "or" makes of equations with the names in s: an equation is only
\* looked at if the ones before it are false.
Defined(eq, s) == ToSet(eq) \subseteq DOMAIN s
Equal(eq, s) == s[eq[1]] = s[eq[2]]
Holds(cond, s) == \E k \in DOMAIN cond :
  /\ Defined(cond[k], s) /\ Equal(cond[k], s)
  /\ \A j \in 1..(k - 1) : Defined(cond[j], s)
NameError(cond, s) == \E k \in DOMAIN cond :
  /\ ~Defined(cond[k], s)
  /\ \A j \in 1..(k - 1) : Defined(cond[j], s) /\ ~Equal(cond[j], s)

InDomains(i) == {v \in [oprs(i) -> Regs] : \A o \in oprs(i) : v[o] \in Values(i, o)}
opr_sols(it, i) == {v \in InDomains(i) : it.cond = <<>> \/ Holds(it.cond, Set(scope, v))}

\* The names after the assignments; one of an unknown name raises, and adds none.
Exec(s, a) == IF a[2] \notin DOMAIN s THEN s
              ELSE [x \in DOMAIN s \cup {a[1]} |-> IF x = a[1] THEN s[a[2]] ELSE s[x]]
AfterEach(s, assgn) ==
  LET after[k \in 0..Len(assgn)] == IF k = 0 THEN s ELSE Exec(after[k - 1], assgn[k])
  IN  after
Assign(s, assgn) == AfterEach(s, assgn)[Len(assgn)]
AssignRaises(s, assgn) == \E k \in DOMAIN assgn :
  assgn[k][2] \notin DOMAIN s \cup {assgn[j][1] : j \in 1..(k - 1)}

\* One of the random choices ends in an exception: nothing to choose from, an
\* instruction that is not in the template, or a name that is not set.
Raises(it, i) ==
  \/ i \notin DOMAIN Template
  \/ \E v \in InDomains(i) : NameError(it.cond, Set(scope, v))
  \/ opr_sols(it, i) = {}
  \/ \E v \in opr_sols(it, i) : AssignRaises(Set(scope, v), it.assgn)

-----------------------------------------------------------------------------
CrossInit ==
  /\ cross_comb \in CrossCombs
  /\ stage = IF cross_comb = <<>> THEN "written" ELSE "solve"
  /\ each = 1 /\ scope = [r \in Regs |-> r] /\ instr = NoInstr
  /\ solution = <<>> /\ full_solution = <<>> /\ labels = <<>>

Solving == stage = "solve" /\ Len(solution) < Len(Covering)

\* Faulty variant: the assignments see the operands of the instruction before.
SolveItemFaulty ==
  /\ Solving
  /\ \E i \in Picks(item) :
       /\ ~Raises(item, i)
       /\ \E v \in opr_sols(item, i) :
            /\ scope' = Set(Assign(scope, item.assgn), v)
            /\ instr' = i
            /\ solution' = Append(solution, [instr |-> i, opr_vals |-> v])
  /\ UNCHANGED <<cross_comb, stage, each, full_solution, labels>>

\* One iteration of the loop over the items: random.choice of an instruction,
\* then of its registers; then the assignments.
SolveItem ==
  /\ Solving
  /\ \E i \in Picks(item) :
       /\ ~Raises(item, i)
       /\ \E v \in opr_sols(item, i) :
            /\ scope' = Assign(Set(scope, v), item.assgn)
            /\ instr' = i
            /\ solution' = Append(solution, [instr |-> i, opr_vals |-> v])
  /\ UNCHANGED <<cross_comb, stage, each, full_solution, labels>>

\* An exception ends create_test, and with it the chunk of its worker.
ItemRaises ==
  /\ Solving
  /\ Picks(item) = {} \/ \E i \in Picks(item) : Raises(item, i)
  /\ stage' = "raised"
  /\ UNCHANGED <<cross_comb, each, scope, instr, solution, full_solution, labels>>

WindowSolved ==
  /\ stage = "solve" /\ Len(solution) = Len(Covering)
  /\ full_solution' = Append(full_solution, solution)
  /\ solution' = <<>>
  /\ IF each < Len(cross_comb) THEN each' = each + 1 /\ stage' = stage
                               ELSE each' = 1 /\ stage' = "write"
  /\ UNCHANGED <<cross_comb, scope, instr, labels>>

-----------------------------------------------------------------------------
op_vals(w) == {"x0"} \cup UNION {{w[k].opr_vals[o] : o \in DOMAIN w[k].opr_vals} : k \in DOMAIN w}
rd_lst(w) == {w[k].opr_vals["rd"] : k \in {j \in DOMAIN w : "rd" \in DOMAIN w[j].opr_vals}}
swreg(w) == PtrRegs \ op_vals(w)
Writing == stage = "write" /\ each <= Len(full_solution)

\* Faulty variant: every region of a pointer has the same label.
WriteWindowFaulty ==
  /\ Writing
  /\ LET w == full_solution[each] IN
       /\ \A k \in DOMAIN w : Template[w[k].instr].prints
       /\ \E sreg \in swreg(w) :
            labels' = Append(labels, [sreg |-> sreg, count |-> 0, n |-> Cardinality(rd_lst(w))])
  /\ each' = each + 1
  /\ UNCHANGED <<cross_comb, stage, scope, instr, solution, full_solution>>

\* One iteration of the loop of write_test: the pointer, the label of the
\* region it points to, and a word of the region for each rd.
WriteWindow ==
  /\ Writing
  /\ LET w == full_solution[each] IN
       /\ \A k \in DOMAIN w : Template[w[k].instr].prints
       /\ \E sreg \in swreg(w) :
            labels' = Append(labels,
              [sreg |-> sreg, count |-> Cardinality({k \in DOMAIN labels : labels[k].sreg = sreg}),
               n |-> Cardinality(rd_lst(w))])
  /\ each' = each + 1
  /\ UNCHANGED <<cross_comb, stage, scope, instr, solution, full_solution>>

WriteRaises ==
  /\ Writing
  /\ \/ swreg(full_solution[each]) = {}
     \/ \E k \in DOMAIN full_solution[each] : ~Template[full_solution[each][k].instr].prints
  /\ stage' = "raised"
  /\ UNCHANGED <<cross_comb, each, scope, instr, solution, full_solution, labels>>

\* The file is opened when all of it is there.
FileWritten ==
  /\ stage = "write" /\ each > Len(full_solution)
  /\ stage' = "written"
  /\ UNCHANGED <<cross_comb, each, scope, instr, solution, full_solution, labels>>

CrossNext == SolveItem \/ ItemRaises \/ WindowSolved \/ WriteWindow \/ WriteRaises \/ FileWritten

-----------------------------------------------------------------------------
(***************************************************************************)
(* What a coverpoint means, taken by itself: there are no names but the    *)
(* operands of the instruction at hand, the registers, and the variables   *)
(* that earlier items of the coverpoint set.                               *)
(***************************************************************************)
Listed(it) == IF it.any THEN {i \in dntcare_instrs : get_oprs(it) \subseteq oprs(i)} ELSE it.data

\* Names after the first k items of a window w.
Without(t, names) == [x \in DOMAIN t \ names |-> t[x]]
NamesAfter(c, w) ==
  LET names[k \in 0..Len(w)] ==
        IF k = 0 THEN [r \in Regs |-> r]
        ELSE Without(Assign(Set(names[k - 1], w[k].opr_vals), c[k].assgn), Operands)
  IN  names

Begins(w, c) ==
  \A k \in DOMAIN w :
    /\ w[k].instr \in Listed(c[k])
    /\ LET s == Set(NamesAfter(c, w)[k - 1], w[k].opr_vals)
       IN  c[k].cond = <<>> \/ \E eq \in ToSet(c[k].cond) : Defined(eq, s) /\ Equal(eq, s)
Covers(w, c) == Len(w) = Len(c) /\ Begins(w, c)

\* Variables assigned by items before k, and in k by assignments before a.
SetBefore(c, k, a) == (UNION {{x[1] : x \in ToSet(c[j].assgn)} : j \in 1..(k - 1)})
                      \cup {c[k].assgn[b][1] : b \in 1..(a - 1)}
SelfContained(c) == \A k \in DOMAIN c :
  /\ Listed(c[k]) # {} /\ Listed(c[k]) \subseteq DOMAIN Template
  /\ \A i \in Listed(c[k]) : get_oprs(c[k]) \subseteq oprs(i)
  /\ \A eq \in ToSet(c[k].cond) : ToSet(eq) \subseteq Regs \cup Operands \cup SetBefore(c, k, 1)
  /\ \A a \in DOMAIN c[k].assgn : c[k].assgn[a][2] \in Regs \cup Operands \cup SetBefore(c, k, a)

\* An operand compared with a variable that always holds one of its registers.
Meets(c, k, eq) ==
  /\ eq[1] \in Operands /\ eq[2] \in SetBefore(c, k, 1)
  /\ \A j \in 1..(k - 1) : \A a \in ToSet(c[j].assgn) : a[1] = eq[2] =>
       /\ a[2] \in Operands
       /\ \A i \in Listed(c[j]), l \in Listed(c[k]) : Values(i, a[2]) \subseteq Values(l, eq[1])
Solvable(c) == \A k \in DOMAIN c : c[k].cond = <<>> \/ \E eq \in ToSet(c[k].cond) : Meets(c, k, eq)

\* Whatever earlier items and coverpoints left in the scope, each window of a
\* self-contained coverpoint satisfies it.
WindowsCover == \A k \in DOMAIN full_solution :
  SelfContained(Window[cross_comb[k]]) => Covers(full_solution[k], Window[cross_comb[k]])

\* Whatever registers were picked for the items before, the solver does not fail
\* on conditions that ask for registers an operand can always be.
NeverStuck ==
  stage = "raised" /\ Len(full_solution) < Len(cross_comb) => ~(SelfContained(Covering) /\ Solvable(Covering))

\* Each window has a signature region of its own, and no instruction in it writes
\* the pointer to it, unless one writes a register pair: op_vals lacks the other
\* halves of pairs.
PairDests(w) == {k \in DOMAIN w : "rd" \in Template[w[k].instr].pairs}
Destroyed(w) == rd_lst(w) \cup {High[w[k].opr_vals["rd"]] : k \in PairDests(w)}
RegionsOwn == \A k \in DOMAIN labels :
  /\ \A j \in 1..(k - 1) : <<labels[j].sreg, labels[j].count>> # <<labels[k].sreg, labels[k].count>>
  /\ labels[k].sreg \in Destroyed(full_solution[k]) => PairDests(full_solution[k]) # {}

(***************************************************************************)
(* Cross combinations are tested as they are meant: windows satisfy their  *)
(* coverpoints, random choices do not lead to a failure where none is       *)
(* needed, and the results of a window reach a region of their own.        *)
(***************************************************************************)
CrossTested == WindowsCover /\ NeverStuck /\ RegionsOwn

-----------------------------------------------------------------------------
(***************************************************************************)
(* The inductive invariant, for coverpoints that assign to variables only  *)
(***************************************************************************)
VariablesOnly == \A c \in DOMAIN Window : \A k \in DOMAIN Window[c] :
  \A a \in ToSet(Window[c][k].assgn) : a[1] \notin Regs \cup Operands

Placed == UNION {{[instr |-> i, opr_vals |-> v] : v \in InDomains(i)} : i \in DOMAIN Template}

CrossTypeOK ==
  /\ cross_comb \in Seq(DOMAIN Window) /\ stage \in {"solve", "write", "written", "raised"}
  /\ each \in Nat \ {0} /\ \A x \in DOMAIN scope : scope[x] \in Regs
  /\ solution \in Seq(Placed) /\ full_solution \in Seq(Seq(Placed))
  /\ labels \in Seq([sreg : Regs, count : Nat, n : Nat])

StageInv ==
  /\ Len(labels) <= Len(full_solution) /\ Len(full_solution) <= Len(cross_comb)
  /\ stage = "solve" =>
       /\ each \in 1..Len(cross_comb) /\ Len(full_solution) = each - 1
       /\ Len(solution) <= Len(Covering) /\ labels = <<>>
  /\ stage = "write" => Len(full_solution) = Len(cross_comb) /\ Len(labels) = each - 1

\* The scope gives every register and, while a self-contained coverpoint is
\* solved, every variable of it the value it has by itself.  What a variable
\* got from an operand is a register that operand can be.
Agree(s, t) == \A x \in DOMAIN t : x \in DOMAIN s /\ s[x] = t[x]
OwnVariables == SetBefore(Covering, Len(solution) + 1, 1)
ScopeInv ==
  /\ Agree(scope, [r \in Regs |-> r])
  /\ stage = "solve" /\ SelfContained(Covering) =>
       LET names == NamesAfter(Covering, solution)[Len(solution)]
       IN  Agree(scope, names) /\ Regs \cup OwnVariables \subseteq DOMAIN names
SetFrom(c, w, s, x) == \E j \in DOMAIN w : \E a \in ToSet(c[j].assgn) :
  a[1] = x /\ (a[2] \in Operands => s[x] \in Values(w[j].instr, a[2]))
OriginInv ==
  stage = "solve" /\ SelfContained(Covering) =>
    \A x \in OwnVariables : SetFrom(Covering, solution, scope, x)
BeginsInv == stage = "solve" /\ SelfContained(Covering) => Begins(solution, Covering)

\* The number in a label tells how many regions of its pointer came before.
LabelInv == \A k \in DOMAIN labels :
  /\ labels[k].count = Cardinality({j \in 1..(k - 1) : labels[j].sreg = labels[k].sreg})
  /\ labels[k].sreg \in swreg(full_solution[k])

CrossIInv ==
  /\ CrossTypeOK /\ StageInv /\ ScopeInv /\ OriginInv /\ BeginsInv /\ LabelInv
  /\ WindowsCover /\ NeverStuck
=============================================================================
