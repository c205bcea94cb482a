------------------------------- MODULE CsrComb ------------------------------
(***************************************************************************)
(* Tests of CSR coverpoints: csr_comb() and write_test() of csr_comb.py,   *)
(* and what the file they write does when it runs.                         *)
(*                                                                         *)
(* Each solution of a coverpoint (module CsrParse) is an instance: writes  *)
(* that bring the CSRs into the state wanted, reads that put them into the *)
(* signature, and writes that restore them.  Words are XLEN bits.          *)
(***************************************************************************)
EXTENDS CsrParse

CONSTANT Reset    \* the CSRs when the test starts

ASSUME ResetAssumption == Reset \in [Csrs -> SUBSET Bits]

VARIABLES
  instr_dict,   \* the instances
  offset,       \* of the next word in the signature
  code,         \* the macros in the file
  filled,       \* words reserved for the signature
  at,           \* the macro the test executes next
  csr,          \* the CSRs
  saved,        \* registers x1, x2, ... that keep CSRs
  signature,    \* the words written
  hit           \* coverpoints that held after a write (indices)

genVars == <<instr_dict, offset>>
runVars == <<csr, saved, signature, hit>>
vars == <<parseVars, genVars, code, filled, at, runVars>>

-----------------------------------------------------------------------------
(***************************************************************************)
(* From a solution to an instance.                                         *)
(***************************************************************************)
\* csr_reg is None if the text of a clause is not recognised.
CsrReg(c) == IF c = 0 THEN None ELSE Clause[c].csr

\* The register of the first clause with a modifier; clauses with a modifier
\* on other registers are dropped.
reg_with_mod(sol) ==
  LET m == {k \in DOMAIN sol : CsrReg(sol[k]) # None /\ Clause[sol[k]].mod # None}
  IN  IF m = {} THEN None ELSE CsrReg(sol[Min(m)])
Used(sol) == {c \in ToSet(sol) :
  CsrReg(c) # None /\ (Clause[c].mod = None \/ CsrReg(c) = reg_with_mod(sol))}

\* reg_mask_val_mod_dict[r], for the modifier m.
With(sol, r, m) == {c \in Used(sol) : CsrReg(c) = r /\ Clause[c].mod = m}
Mask(sol, r, m) == UNION {Clause[c].mask : c \in With(sol, r, m)}
Val(sol, r, m)  == UNION {Clause[c].val : c \in With(sol, r, m)}

\* Its keys but the register with the modifier, in the order of insertion.
PlainKeys(sol) ==
  LET keys[n \in 0..Len(sol)] ==
        IF n = 0 THEN <<>>
        ELSE IF sol[n] \in Used(sol)
                /\ CsrReg(sol[n]) \notin ToSet(keys[n - 1]) \cup {reg_with_mod(sol)}
             THEN Append(keys[n - 1], CsrReg(sol[n])) ELSE keys[n - 1]
  IN  keys[Len(sol)]

\* The sort by a comparison that only knows the register with the modifier:
\* it comes last, the others in reverse.
reg_mask_val_arr(sol) ==
  Reverse(PlainKeys(sol)) \o (IF reg_with_mod(sol) = None THEN <<>> ELSE <<reg_with_mod(sol)>>)

\* The writes to a register: the old value first, then the written value, or
\* the plain value if there is none.  Empty masks are not written.
Field(sol, r, m) ==
  IF Mask(sol, r, m) = {} THEN <<>>
  ELSE <<[csr |-> r, mask |-> Mask(sol, r, m), val |-> Val(sol, r, m)]>>
FieldWrites(sol, r) ==
  Field(sol, r, "old")
  \o (IF Mask(sol, r, "write") # {} THEN Field(sol, r, "write") ELSE Field(sol, r, None))

CsrWrites(sol) ==
  LET regs == reg_mask_val_arr(sol)
      w == FlattenSeq([k \in DOMAIN regs |-> FieldWrites(sol, regs[k])])
  IN  [k \in DOMAIN w |-> [do |-> "write", csr |-> w[k].csr, mask |-> w[k].mask,
                           val |-> w[k].val, restore_reg |-> k]]

\* Faulty variant: restored in the order of the writes.
CsrRestoresFaulty(sol) ==
  [k \in DOMAIN CsrWrites(sol) |-> [do |-> "restore", csr |-> CsrWrites(sol)[k].csr, restore_reg |-> k]]

CsrRestores(sol) ==
  Reverse([k \in DOMAIN CsrWrites(sol) |->
             [do |-> "restore", csr |-> CsrWrites(sol)[k].csr, restore_reg |-> k]])

\* Faulty variant: each instance starts at the beginning of the signature.
CsrReadsFaulty(sol, first) ==
  LET regs == reg_mask_val_arr(sol)
  IN  [k \in DOMAIN regs |-> [do |-> "read", csr |-> regs[k], offset |-> k - 1]]

CsrReads(sol, first) ==
  LET regs == reg_mask_val_arr(sol)
  IN  [k \in DOMAIN regs |-> [do |-> "read", csr |-> regs[k], offset |-> first + k - 1]]

\* An instance: where it comes from, its first word of the signature, its macros.
Instance(sol) ==
  [covpt |-> covpt, sol |-> sol, first |-> offset,
   code |-> CsrWrites(sol) \o CsrReads(sol, offset) \o CsrRestores(sol)]

\* Faulty variant: one word for each instance.
AddInstanceFaulty ==
  /\ phase = "solve" /\ pos <= Len(bool_expr.SAT)
  /\ instr_dict' = Append(instr_dict, Instance(bool_expr.SAT[pos].t))
  /\ offset' = offset + 1
  /\ pos' = pos + 1
  /\ UNCHANGED <<csr_comb, covpt, phase, bracket_depth, operator_stack, clause_stack,
                 clause_index, current_clause, invalid, code, filled, at, runVars>>

\* One iteration of the loop over the solutions (pos counts them).
AddInstance ==
  /\ phase = "solve" /\ pos <= Len(bool_expr.SAT)
  /\ LET sol == bool_expr.SAT[pos].t IN
       /\ instr_dict' = Append(instr_dict, Instance(sol))
       /\ offset' = offset + Len(reg_mask_val_arr(sol))
  /\ pos' = pos + 1
  /\ UNCHANGED <<csr_comb, covpt, phase, bracket_depth, operator_stack, clause_stack,
                 clause_index, current_clause, invalid, code, filled, at, runVars>>

AllAdded ==
  /\ phase = "solve" /\ pos > Len(bool_expr.SAT)
  /\ NextCovpt
  /\ UNCHANGED <<invalid, genVars, code, filled, at, runVars>>

Macros == FlattenSeq([i \in DOMAIN instr_dict |->
            [k \in DOMAIN instr_dict[i].code |-> [inst |-> i, macro |-> instr_dict[i].code[k]]]])

\* write_test: one word for each instance, and the macros of all instances.
WriteTest ==
  /\ phase = "write_test"
  /\ filled' = Len(instr_dict)
  /\ code' = Macros
  /\ phase' = "run" /\ at' = 1
  /\ UNCHANGED <<csr_comb, covpt, parserVars, invalid, genVars, runVars>>

-----------------------------------------------------------------------------
(***************************************************************************)
(* The test runs.  The macros are not in the repository; their parameters  *)
(* say what they do: keep the CSR in the restore register and write a      *)
(* field; store the CSR at an offset; write the register back.             *)
(***************************************************************************)
macro == code[at].macro
Executing(what) == phase = "run" /\ at <= Len(code) /\ macro.do = what

\* The clauses that are true after a write, given the CSRs before it: old() is
\* the value that was overwritten, write() the one written.
True(before, after, r) ==
  {c \in DOMAIN Clause :
     /\ CsrReg(c) # None
     /\ Clause[c].mod # None => CsrReg(c) = r
     /\ (IF Clause[c].mod = "old" THEN before ELSE after)[CsrReg(c)] \cap Clause[c].mask = Clause[c].val}

WRITE_TO_CSR_FIELD_W_MASK ==
  /\ Executing("write")
  /\ csr' = [csr EXCEPT ![macro.csr] = (@ \ macro.mask) \cup macro.val]
  /\ saved' = [k \in DOMAIN saved \cup {macro.restore_reg} |->
                 IF k = macro.restore_reg THEN csr[macro.csr] ELSE saved[k]]
  /\ hit' = hit \cup {i \in DOMAIN csr_comb : True(csr, csr', macro.csr) \in Covpt[csr_comb[i]].holds}
  /\ at' = at + 1
  /\ UNCHANGED <<parseVars, genVars, code, filled, signature>>

READ_CSR_REG_AND_UPD_SIG ==
  /\ Executing("read")
  /\ signature' = [w \in DOMAIN signature \cup {macro.offset} |->
                     IF w = macro.offset THEN [inst |-> code[at].inst, csr |-> macro.csr] ELSE signature[w]]
  /\ at' = at + 1
  /\ UNCHANGED <<parseVars, genVars, code, filled, csr, saved, hit>>

RESTORE_CSR_REG ==
  /\ Executing("restore")
  /\ csr' = [csr EXCEPT ![macro.csr] = saved[macro.restore_reg]]
  /\ at' = at + 1
  /\ UNCHANGED <<parseVars, genVars, code, filled, saved, signature, hit>>

Halt == /\ phase = "run" /\ at > Len(code)
        /\ phase' = "done"
        /\ UNCHANGED <<csr_comb, covpt, parserVars, invalid, genVars, code, filled, at, runVars>>

\* The only state in which nothing more happens.
Stopped == phase = "done" /\ UNCHANGED vars

-----------------------------------------------------------------------------
Init == /\ ParseInit
        /\ instr_dict = <<>> /\ offset = 0 /\ code = <<>> /\ filled = 0 /\ at = 0
        /\ csr = Reset /\ saved = <<>> /\ signature = [w \in {} |-> 0] /\ hit = {}

Next == \/ Parse /\ UNCHANGED <<genVars, code, filled, at, runVars>>
        \/ AddInstance \/ AllAdded \/ WriteTest
        \/ WRITE_TO_CSR_FIELD_W_MASK \/ READ_CSR_REG_AND_UPD_SIG \/ RESTORE_CSR_REG
        \/ Halt \/ Stopped

Spec == Init /\ [][Next]_vars

-----------------------------------------------------------------------------
(***************************************************************************)
(* What a set of clauses asks for can be had with the writes of an         *)
(* instance: fields agree where they overlap, one register has modifiers,  *)
(* an old value is followed by another one, and the value a register gets  *)
(* is given by write() or by the register itself, not by both.             *)
(***************************************************************************)
Realisable(S) ==
  /\ 0 \notin S
  /\ \A c \in S : CsrReg(c) # None /\ Clause[c].mask # {} /\ Clause[c].val \subseteq Clause[c].mask
  /\ \A c, d \in S : CsrReg(c) = CsrReg(d) =>
       /\ \/ Clause[c].mod # Clause[d].mod
          \/ Clause[c].val \cap Clause[d].mask = Clause[d].val \cap Clause[c].mask
       /\ {Clause[c].mod, Clause[d].mod} # {None, "write"}
  /\ \A c, d \in S : Clause[c].mod # None /\ Clause[d].mod # None => CsrReg(c) = CsrReg(d)
  /\ \A c \in S : Clause[c].mod = "old" =>
       \E d \in S : CsrReg(d) = CsrReg(c) /\ Clause[d].mod # "old"

\* Negated clauses are solved for, but their solutions are not used.
Lexemes(i) == ToSet(Covpt[csr_comb[i]].toks)
Positive(i) == \A t \in Lexemes(i) : t.sym # "not"

Inst(k) == instr_dict[code[k].inst]

(***************************************************************************)
(* A test covers each of its coverpoints without a negation that any set   *)
(* of clauses makes true and realisable: one of the solutions of SAT() is. *)
(* Rejected coverpoints lose no others.                                    *)
(***************************************************************************)
CovptsCovered ==
  phase = "done" => \A i \in DOMAIN csr_comb \ invalid :
    Positive(i) /\ (\E S \in Covpt[csr_comb[i]].holds \cap SUBSET {t.of : t \in Lexemes(i)} : Realisable(S)) => i \in hit

(***************************************************************************)
(* Each instance leaves the CSRs as it found them, even if it writes one   *)
(* of them twice (old, then written value).                                *)
(***************************************************************************)
CsrsRestored ==
  phase \in {"run", "done"} =>
    (at \in 2..Len(code) /\ code[at].inst = code[at - 1].inst) \/ csr = Reset

(***************************************************************************)
(* Nothing in the signature is overwritten: in the end there is one word   *)
(* for each register of each instance.  If no coverpoint names two         *)
(* registers all of them are in the words reserved (write_test reserves    *)
(* one for each instance).                                                 *)
(***************************************************************************)
CsrsOf(i) == {CsrReg(t.of) : t \in Lexemes(i)} \ {None}
OneCsr(i) == Cardinality(CsrsOf(i)) <= 1
ReadsSaved ==
  phase = "done" =>
    /\ Cardinality(DOMAIN signature) = Cardinality({k \in DOMAIN code : code[k].macro.do = "read"})
    /\ (\A i \in DOMAIN csr_comb : OneCsr(i)) => DOMAIN signature \subseteq 0..(filled - 1)

-----------------------------------------------------------------------------
(***************************************************************************)
(* Why: an inductive invariant.                                            *)
(***************************************************************************)
Write   == [do : {"write"}, csr : Csrs, mask : SUBSET Bits, val : SUBSET Bits, restore_reg : Nat]
Read    == [do : {"read"}, csr : Csrs, offset : Nat]
Restore == [do : {"restore"}, csr : Csrs, restore_reg : Nat]

\* The instances share the words of the signature out, one after the other.
InstInv ==
  /\ offset \in Nat
  /\ instr_dict \in Seq([covpt : DOMAIN csr_comb, sol : Seq({0} \cup DOMAIN Clause), first : Nat,
                          code : Seq(Write \cup Read \cup Restore)])
  /\ \A i \in DOMAIN instr_dict :
       LET d == instr_dict[i] IN
         /\ d.sol \in Seq(ClausesOf(csr_comb[d.covpt]))
         /\ d.code = CsrWrites(d.sol) \o CsrReads(d.sol, d.first) \o CsrRestores(d.sol)
         /\ d.first + Len(reg_mask_val_arr(d.sol)) <=
              IF i < Len(instr_dict) THEN instr_dict[i + 1].first ELSE offset
  /\ (\A i \in DOMAIN csr_comb : OneCsr(i)) => offset <= Len(instr_dict)

CodeInv ==
  phase \in {"run", "done"} => /\ code = Macros /\ filled = Len(instr_dict)
                               /\ at \in 1..(Len(code) + 1)

\* Before macro p of c, the writes of its instance that are not restored yet.
Before(c, p, what) == {k \in 1..(p - 1) : c[k].inst = c[p].inst /\ c[k].macro.do = what}
Unrestored(c, p) ==
  IF p > Len(c) THEN {}
  ELSE {k \in Before(c, p, "write") :
          \A l \in Before(c, p, "restore") : c[l].macro.restore_reg # c[k].macro.restore_reg}

\* A CSR without such a write has its value; the register of the first such
\* write to a CSR keeps the value.
SavedInv ==
  /\ csr \in [Csrs -> SUBSET Bits] /\ \A k \in DOMAIN saved : saved[k] \in SUBSET Bits
  /\ phase \notin {"run", "done"} => csr = Reset
  /\ phase \in {"run", "done"} =>
       /\ \A r \in Csrs : (\A k \in Unrestored(code, at) : code[k].macro.csr # r) => csr[r] = Reset[r]
       /\ \A k \in Unrestored(code, at) :
            /\ code[k].macro.restore_reg \in DOMAIN saved
            /\ (\A l \in Unrestored(code, at) : l < k => code[l].macro.csr # code[k].macro.csr)
                 => saved[code[k].macro.restore_reg] = Reset[code[k].macro.csr]

ReadInv ==
  DOMAIN signature =
    IF phase \in {"run", "done"}
    THEN {code[k].macro.offset : k \in {l \in 1..(at - 1) : code[l].macro.do = "read"}} ELSE {}

DoneInv == phase = "done" => at = Len(code) + 1

CsrIInv == ParseTypeOK /\ InstInv /\ CodeInv /\ SavedInv /\ ReadInv /\ DoneInv
=============================================================================
