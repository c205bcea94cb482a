--------------------------- MODULE GenInstProofs ----------------------------
(***************************************************************************)
(* Proofs about OpComb and GenInst, for every set of covergroups.          *)
(***************************************************************************)
EXTENDS GenInst, SequenceTheorems, FiniteSetTheorems, WellFoundedInduction, TLAPS

-----------------------------------------------------------------------------
\* The last element a list has after Append, and the others.
LEMMA Appended ==
  ASSUME NEW S, NEW s \in Seq(S), NEW e \in S
  PROVE  /\ Append(s, e) \in Seq(S)
         /\ Len(s) \in Nat /\ DOMAIN s = 1..Len(s)
         /\ Len(Append(s, e)) = Len(s) + 1
         /\ DOMAIN Append(s, e) = 1..(Len(s) + 1)
         /\ Append(s, e)[Len(s) + 1] = e
         /\ \A i \in 1..Len(s) : Append(s, e)[i] = s[i]
OBVIOUS

\* An element of a list is one of its members' set.
LEMMA Element ==
  ASSUME NEW S, NEW s \in Seq(S), NEW i \in DOMAIN s
  PROVE  s[i] \in S /\ i \in 1..Len(s) /\ Len(s) \in Nat
OBVIOUS

\* A list without its last element.
LEMMA FrontOf ==
  ASSUME NEW S, NEW s \in Seq(S), Len(s) \in Nat \ {0}
  PROVE  /\ Len(SubSeq(s, 1, Len(s) - 1)) = Len(s) - 1
         /\ \A k \in 1..(Len(s) - 1) : SubSeq(s, 1, Len(s) - 1)[k] = s[k]
<1> DEFINE n == Len(s) - 1
<1>1. n \in Nat /\ n \in Int /\ 1 \in Int /\ \A i \in 1..n : s[i] \in S
  OBVIOUS
<1> HIDE DEF n
<1>2. /\ Len(SubSeq(s, 1, n)) = IF 1 <= n THEN n - 1 + 1 ELSE 0
      /\ \A i \in 1..(n - 1 + 1) : SubSeq(s, 1, n)[i] = s[1 + i - 1]
  BY <1>1, SubSeqProperties
<1>3. Len(SubSeq(s, 1, n)) = n /\ \A i \in 1..n : SubSeq(s, 1, n)[i] = s[i]
  <2>1. n - 1 + 1 = n /\ \A i \in 1..n : 1 + i - 1 = i
    BY <1>1
  <2>2. (IF 1 <= n THEN n - 1 + 1 ELSE 0) = n
    BY <1>1
  <2>3. QED
    BY <1>2, <2>1, <2>2, Zenon
<1>4. QED
  BY <1>3 DEF n

\* The assumptions about a covergroup.
CombType == [sat : SUBSET Operations(cgf), hard : SUBSET Regs]
ValType  == [sat : SUBSET [cgf.vals -> Values], vars : SUBSET cgf.vals,
             how : {"solve", "given", "partial", "twice"}]

LEMMA Covergroup ==
  ASSUME cgf \in Cgfs
  PROVE  /\ cgf.ops \in Seq(STRING)
         /\ cgf.data \in [Ops -> SUBSET Regs]
         /\ cgf.cover \in [Ops -> SUBSET Regs]
         /\ cgf.comb \in Seq(CombType)
         /\ cgf.val \in Seq(ValType)
         /\ cgf.dataset \in [cgf.vals -> Seq(Values) \ {<<>>}]
         /\ DOMAIN cgf.reads \subseteq Ops
         /\ \A op \in DOMAIN cgf.reads : cgf.reads[op] \in cgf.vals
         /\ \A op, other \in DOMAIN cgf.reads :
              cgf.reads[op] = cgf.reads[other] => op = other
         /\ random \in BOOLEAN
         /\ 0 \in Values
BY CgfAssumption, ValAssumption, Zenon DEF Ops, random, CombType, ValType

LEMMA CondTypes ==
  ASSUME cgf \in Cgfs
  PROVE  /\ Len(cgf.comb) \in Nat /\ DOMAIN cgf.comb = 1..Len(cgf.comb)
         /\ Len(cgf.val) \in Nat /\ DOMAIN cgf.val = 1..Len(cgf.val)
         /\ Len(cgf.ops) \in Nat /\ DOMAIN cgf.ops = 1..Len(cgf.ops)
         /\ \A i \in DOMAIN cgf.comb :
              cgf.comb[i].sat \subseteq Operations(cgf) /\ cgf.comb[i].hard \subseteq Regs
         /\ \A i \in DOMAIN cgf.val :
              /\ cgf.val[i].sat \subseteq [cgf.vals -> Values]
              /\ cgf.val[i].vars \subseteq cgf.vals
              /\ cgf.val[i].how \in {"solve", "given", "partial", "twice"}
         /\ \A i \in DOMAIN cgf.ops : cgf.ops[i] \in Ops
<1>1. /\ Len(cgf.comb) \in Nat /\ DOMAIN cgf.comb = 1..Len(cgf.comb)
      /\ Len(cgf.val) \in Nat /\ DOMAIN cgf.val = 1..Len(cgf.val)
      /\ Len(cgf.ops) \in Nat /\ DOMAIN cgf.ops = 1..Len(cgf.ops)
  <2> HIDE DEF CombType, ValType
  <2>1. QED
    BY Covergroup
<1>2. ASSUME NEW i \in DOMAIN cgf.comb
      PROVE  cgf.comb[i].sat \subseteq Operations(cgf) /\ cgf.comb[i].hard \subseteq Regs
  <2>1. cgf.comb[i] \in CombType
    BY Covergroup, Element, Zenon
  <2>2. QED
    BY <2>1 DEF CombType
<1>3. ASSUME NEW i \in DOMAIN cgf.val
      PROVE  /\ cgf.val[i].sat \subseteq [cgf.vals -> Values]
             /\ cgf.val[i].vars \subseteq cgf.vals
             /\ cgf.val[i].how \in {"solve", "given", "partial", "twice"}
  <2>1. cgf.val[i] \in ValType
    BY Covergroup, Element, Zenon
  <2>2. QED
    BY <2>1 DEF ValType
<1>4. \A i \in DOMAIN cgf.ops : cgf.ops[i] \in Ops
  BY DEF Ops, OpsOf
<1>5. QED
  BY <1>1, <1>2, <1>3, <1>4

-----------------------------------------------------------------------------
\* opcomb stores what CombTypeOK allows.

LEMMA CombTypeInit == CombInit => CombTypeOK
<1> SUFFICES ASSUME CombInit PROVE CombTypeOK
  OBVIOUS
<1>1. cgf \in Cgfs
  BY DEF CombInit
<1>2. op_conds \in [Ops -> SUBSET Regs]
  BY <1>1, Covergroup DEF CombInit
<1>3. Len(cgf.comb) \in Nat
  BY <1>1, CondTypes
<1>4. op_comb \in Seq(1..Len(cgf.comb))
  BY <1>3 DEF CombInit
<1>5. solutions \in Seq(Domain)
  BY DEF CombInit
<1>6. random \in BOOLEAN
  BY <1>1, Covergroup
<1>7. cond \in 0..Len(cgf.comb)
  BY <1>3 DEF CombInit
<1>8. individual \in BOOLEAN /\ nodiff \in BOOLEAN /\ warned \in BOOLEAN
  BY DEF CombInit
<1>9. QED
  BY <1>1, <1>2, <1>4, <1>5, <1>6, <1>7, <1>8 DEF CombTypeOK

\* What an iteration computes from the lists.
LEMMA IterationTypes ==
  ASSUME CombTypeOK
  PROVE  /\ Popped \in 0..Len(cgf.comb)
         /\ op_comb # <<>> => Popped \in 1..Len(cgf.comb)
         /\ Rest \in Seq(1..Len(cgf.comb))
         /\ Hard \subseteq Regs
         /\ Hard # {} => Popped \in 1..Len(cgf.comb)
         /\ MoreConds \in [Ops -> SUBSET Regs]
         /\ \A op \in Ops : op_conds[op] \subseteq MoreConds[op]
         /\ MoreComb \in Seq(1..Len(cgf.comb))
<1>1. cgf \in Cgfs /\ Len(cgf.comb) \in Nat /\ DOMAIN cgf.comb = 1..Len(cgf.comb)
  BY CondTypes DEF CombTypeOK
<1>2. /\ Popped \in 0..Len(cgf.comb)
      /\ op_comb # <<>> => Popped \in 1..Len(cgf.comb)
  BY <1>1 DEF CombTypeOK, Popped
<1>3. Rest \in Seq(1..Len(cgf.comb))
  <2>1. CASE op_comb = <<>>
    BY <2>1 DEF Rest
  <2>2. CASE op_comb # <<>>
    <3>1. Len(op_comb) \in Nat \ {0}
      BY <2>2 DEF CombTypeOK
    <3>2. SubSeq(op_comb, 1, Len(op_comb) - 1) \in Seq(1..Len(cgf.comb))
      BY <3>1 DEF CombTypeOK
    <3>3. QED
      BY <2>2, <3>2 DEF Rest
  <2>3. QED
    BY <2>1, <2>2
<1>4. Hard \subseteq Regs /\ (Hard # {} => Popped \in 1..Len(cgf.comb))
  BY <1>1, <1>2, CondTypes DEF Hard
<1>5. /\ MoreConds \in [Ops -> SUBSET Regs]
      /\ \A op \in Ops : op_conds[op] \subseteq MoreConds[op]
  BY <1>4 DEF MoreConds, CombTypeOK
<1>6. MoreComb \in Seq(1..Len(cgf.comb))
  BY <1>3, <1>4, Appended DEF MoreComb
<1>7. QED
  BY <1>2, <1>3, <1>4, <1>5, <1>6

\* What is computed from the covergroup only stays as it is.
LEMMA SameGroup ==
  ASSUME cgf' = cgf
  PROVE  /\ Ops' = Ops /\ Domain' = Domain /\ random' = random
         /\ Covering' = Covering
         /\ \A i : IsRich(i)' = IsRich(i)
<1>1. Ops' = Ops /\ random' = random
  BY DEF Ops, random
<1>2. Domain' = Domain
  BY <1>1 DEF Domain
<1>3. Covering' = Covering
  BY <1>1 DEF Covering
<1>4. QED
  BY <1>1, <1>2, <1>3 DEF IsRich, Disjoint, Listed

LEMMA CombTypeSame ==
  ASSUME CombTypeOK, cgf' = cgf,
         op_conds' \in [Ops -> SUBSET Regs],
         op_comb' \in Seq(1..Len(cgf.comb)),
         cond' \in 0..Len(cgf.comb),
         individual' \in BOOLEAN, nodiff' \in BOOLEAN, warned' \in BOOLEAN,
         solutions' \in Seq(Domain)
  PROVE  CombTypeOK'
<1>1. cgf' \in Cgfs
  BY DEF CombTypeOK
<1>2. random' \in BOOLEAN
  BY <1>1, CgfAssumption, Zenon DEF random
<1>3. QED
  BY <1>1, <1>2, SameGroup DEF CombTypeOK

\* A combination is added, and its registers are not pending any more.
LEMMA TakeIs ==
  ASSUME CombTypeOK, NEW s \in Candidates, NEW conds \in [Ops -> SUBSET Regs],
         Take(s, conds)
  PROVE  /\ op_conds' \in [Ops -> SUBSET Regs]
         /\ \A op \in Ops : op_conds'[op] = conds[op] \ {s[op]}
         /\ solutions' \in Seq(Domain)
         /\ Found' = Found \cup {s}
         /\ cgf' = cgf /\ pc' = pc
         /\ individual' = individual /\ nodiff' = nodiff /\ warned' = warned
         /\ cond' = Popped
<1>1. s \in Domain
  BY DEF Candidates
<1>2. /\ op_conds' \in [Ops -> SUBSET Regs]
      /\ \A op \in Ops : op_conds'[op] = conds[op] \ {s[op]}
  BY DEF Take
<1>3. solutions \in Seq(Domain) /\ solutions' = Append(solutions, s)
  BY DEF CombTypeOK, Take
<1>4. solutions' \in Seq(Domain)
  BY <1>1, <1>3, Appended
<1>5. Found' = Found \cup {s}
  <2>1. /\ DOMAIN solutions = 1..Len(solutions) /\ Len(solutions) \in Nat
        /\ DOMAIN solutions' = 1..(Len(solutions) + 1)
        /\ solutions'[Len(solutions) + 1] = s
        /\ \A i \in 1..Len(solutions) : solutions'[i] = solutions[i]
    BY <1>1, <1>3, Appended
  <2>2. QED
    BY <2>1 DEF Found
<1>6. QED
  BY <1>2, <1>4, <1>5 DEF Take

\* An iteration without a solution adds nothing, and may put things back.
LEMMA FailureIs ==
  ASSUME CombTypeOK, Loosen \/ GiveUp
  PROVE  /\ op_conds' = MoreConds /\ op_comb' = MoreComb /\ cond' = Popped
         /\ cgf' = cgf /\ solutions' = solutions
         /\ individual' \in BOOLEAN /\ nodiff' \in BOOLEAN /\ warned' \in BOOLEAN
<1>1. CASE Loosen
  BY <1>1 DEF Loosen, CombTypeOK
<1>2. CASE GiveUp
  BY <1>2 DEF GiveUp, CombTypeOK
<1>3. QED
  BY <1>1, <1>2

LEMMA CombTypeStep == CombTypeOK /\ CombNext => CombTypeOK'
<1> SUFFICES ASSUME CombTypeOK, CombNext PROVE CombTypeOK'
  OBVIOUS
<1>1. CASE Solve
  <2>1. PICK s \in Candidates : Take(s, op_conds)
    BY <1>1 DEF Solve
  <2>2. op_conds \in [Ops -> SUBSET Regs] /\ op_comb' = Rest
    BY <1>1 DEF Solve, CombTypeOK
  <2>3. individual' \in BOOLEAN /\ nodiff' \in BOOLEAN /\ warned' \in BOOLEAN
    BY <2>1, <2>2, TakeIs DEF CombTypeOK
  <2>4. QED
    BY <2>1, <2>2, <2>3, TakeIs, IterationTypes, CombTypeSame
<1>2. CASE SolveRepeated
  <2>1. PICK s \in Candidates : Take(s, MoreConds)
    BY <1>2 DEF SolveRepeated
  <2>2. MoreConds \in [Ops -> SUBSET Regs] /\ op_comb' = MoreComb
    BY <1>2, IterationTypes DEF SolveRepeated
  <2>3. individual' \in BOOLEAN /\ nodiff' \in BOOLEAN /\ warned' \in BOOLEAN
    BY <2>1, <2>2, TakeIs DEF CombTypeOK
  <2>4. QED
    BY <2>1, <2>2, <2>3, TakeIs, IterationTypes, CombTypeSame
<1>3. CASE Loosen \/ GiveUp
  <2>1. solutions' \in Seq(Domain)
    BY <1>3, FailureIs DEF CombTypeOK
  <2>2. QED
    BY <1>3, <2>1, FailureIs, IterationTypes, CombTypeSame
<1>4. CASE NoSuchOperand \/ CombDone
  <2>1. UNCHANGED <<cgf, combVars>>
    BY <1>4 DEF NoSuchOperand, CombDone
  <2>2. QED
    BY <2>1, CombTypeSame DEF combVars, CombTypeOK
<1>5. QED
  BY <1>1, <1>2, <1>3, <1>4 DEF CombNext

-----------------------------------------------------------------------------
\* No register to cover is lost.

LEMMA RegistersKeptInit == CombInit => RegistersKept
BY DEF CombInit, RegistersKept

LEMMA RegistersKeptTake ==
  ASSUME CombTypeOK, RegistersKept,
         NEW s \in Candidates, NEW conds \in [Ops -> SUBSET Regs],
         \A op \in Ops : op_conds[op] \subseteq conds[op],
         Take(s, conds)
  PROVE  RegistersKept'
<1>1. /\ \A op \in Ops : op_conds'[op] = conds[op] \ {s[op]}
      /\ Found' = Found \cup {s}
      /\ cgf' = cgf /\ Ops' = Ops
  BY TakeIs, SameGroup
<1> SUFFICES ASSUME NEW op \in Ops, NEW r \in cgf.cover[op]
             PROVE  r \in op_conds'[op] \/ \E t \in Found' : t[op] = r
  BY <1>1 DEF RegistersKept
<1>2. CASE r \in op_conds[op]
  BY <1>1, <1>2
<1>3. CASE \E t \in Found : t[op] = r
  BY <1>1, <1>3
<1>4. QED
  BY <1>2, <1>3 DEF RegistersKept

LEMMA RegistersKeptStep == CombTypeOK /\ RegistersKept /\ CombNext => RegistersKept'
<1> SUFFICES ASSUME CombTypeOK, RegistersKept, CombNext PROVE RegistersKept'
  OBVIOUS
<1>1. CASE Solve
  <2>1. PICK s \in Candidates : Take(s, op_conds)
    BY <1>1 DEF Solve
  <2>2. op_conds \in [Ops -> SUBSET Regs]
    BY DEF CombTypeOK
  <2>3. QED
    BY <2>1, <2>2, RegistersKeptTake
<1>2. CASE SolveRepeated
  <2>1. PICK s \in Candidates : Take(s, MoreConds)
    BY <1>2 DEF SolveRepeated
  <2>2. QED
    BY <2>1, IterationTypes, RegistersKeptTake
<1>3. CASE Loosen \/ GiveUp
  <2>1. cgf' = cgf /\ Ops' = Ops /\ Found' = Found /\ op_conds' = MoreConds
    BY <1>3, FailureIs, SameGroup DEF Found
  <2>2. QED
    BY <2>1, IterationTypes DEF RegistersKept
<1>4. CASE NoSuchOperand \/ CombDone
  <2>1. UNCHANGED <<cgf, combVars>>
    BY <1>4 DEF NoSuchOperand, CombDone
  <2>2. cgf' = cgf /\ Ops' = Ops /\ Found' = Found /\ op_conds' = op_conds
    BY <2>1, SameGroup DEF combVars, Found
  <2>3. QED
    BY <2>2 DEF RegistersKept
<1>5. QED
  BY <1>1, <1>2, <1>3, <1>4 DEF CombNext

-----------------------------------------------------------------------------
\* Rich conditions are not dropped.  As long as there has been no failure, the
\* pending conditions are 1..m, and for each there are solutions left among
\* the pending registers, which share no operand: more than those for the
\* m - 1 others can use up.

Alive(i) == {s \in cgf.comb[i].sat \cap Domain :
               \A op \in Ops : op \in Covering => s[op] \in op_conds[op]}
Enough(i, m) ==
  \E F \in SUBSET Alive(i) :
    /\ IsFiniteSet(F)
    /\ Disjoint(F)
    /\ Cardinality(F) > Cardinality(Covering) * (m - 1)
IsCovered(i) == \E s \in Found : s \in cgf.comb[i].sat

NoFailure ==
  /\ pc = "opcomb"
  /\ op_comb # <<>>
  /\ \A op \in Ops : op \notin Covering => op_conds[op] = {}
  /\ \A k \in 1..Len(op_comb) : op_comb[k] = k
  /\ \A i \in DOMAIN cgf.comb : i <= Len(op_comb) \/ IsCovered(i)
  /\ Len(op_comb) <= Len(cgf.comb)
  /\ \A i \in 1..Len(op_comb) : Enough(i, Len(op_comb))

AllRich == \A i \in DOMAIN cgf.comb : IsRich(i)
RichInv ==
  (~random /\ AllRich) => NoFailure \/ \A i \in DOMAIN cgf.comb : IsCovered(i)

LEMMA RichSuffices == CombTypeOK /\ RichInv => RichCovered
<1> SUFFICES ASSUME CombTypeOK, RichInv, ~random, AllRich, NEW i \in DOMAIN cgf.comb
             PROVE  \/ \E k \in DOMAIN op_comb : op_comb[k] = i
                    \/ IsCovered(i)
  BY DEF RichCovered, AllRich, IsCovered
<1>1. CASE IsCovered(i)
  BY <1>1
<1>2. CASE NoFailure
  <2>1. DOMAIN cgf.comb = 1..Len(cgf.comb)
    BY CondTypes DEF CombTypeOK
  <2>2. DOMAIN op_comb = 1..Len(op_comb) /\ Len(op_comb) \in Nat
    BY DEF CombTypeOK
  <2>3. QED
    BY <1>2, <2>1, <2>2 DEF NoFailure
<1>3. QED
  BY <1>1, <1>2 DEF RichInv

LEMMA RichInit == CombInit => RichInv
<1> SUFFICES ASSUME CombInit, ~random, AllRich
             PROVE  NoFailure \/ \A i \in DOMAIN cgf.comb : IsCovered(i)
  BY DEF RichInv
<1>1. /\ cgf \in Cgfs /\ Len(cgf.comb) \in Nat
      /\ DOMAIN cgf.comb = 1..Len(cgf.comb)
  BY CondTypes DEF CombInit
<1>2. op_comb = [i \in 1..Len(cgf.comb) |-> i] /\ op_conds = cgf.cover /\ pc = "opcomb"
  BY DEF CombInit
<1>3. Len(op_comb) = Len(cgf.comb) /\ \A k \in 1..Len(op_comb) : op_comb[k] = k
  BY <1>1, <1>2
<1>4. CASE Len(cgf.comb) = 0
  BY <1>1, <1>4
<1>5. CASE Len(cgf.comb) # 0
  <2>1. op_comb # <<>>
    BY <1>1, <1>3, <1>5
  <2>2. \A op \in Ops : op \notin Covering => op_conds[op] = {}
    BY <1>2 DEF Covering
  <2>3. ASSUME NEW i \in 1..Len(op_comb)
        PROVE  Enough(i, Len(op_comb))
    <3>1. IsRich(i)
      BY <1>1, <1>3 DEF AllRich
    <3>2. PICK F \in SUBSET {s \in cgf.comb[i].sat \cap Domain :
                               \A op \in Ops : s[op] \in Listed(op)} :
            /\ IsFiniteSet(F)
            /\ Disjoint(F)
            /\ Cardinality(F) > Cardinality(Covering) * (Len(cgf.comb) - 1)
      BY <3>1, Zenon DEF IsRich
    <3>3. \A s \in F : \A op \in Ops : op \in Covering => s[op] \in op_conds[op]
      BY <1>2, <3>2 DEF Covering, Listed
    <3>4. F \in SUBSET Alive(i)
      BY <3>2, <3>3 DEF Alive
    <3>5. Cardinality(F) > Cardinality(Covering) * (Len(op_comb) - 1)
      BY <3>2, <1>3
    <3>6. QED
      BY <3>2, <3>4, <3>5 DEF Enough
  <2>4. QED
    BY <1>1, <1>2, <1>3, <2>1, <2>2, <2>3 DEF NoFailure
<1>6. QED
  BY <1>4, <1>5

\* A combination shares an operand with at most one solution per operand.
LEMMA UsedUp ==
  ASSUME cgf \in Cgfs, NEW F, IsFiniteSet(F), Disjoint(F), NEW t
  PROVE  LET left == {s \in F : \A op \in Covering : s[op] # t[op]}
         IN  /\ IsFiniteSet(left)
             /\ Cardinality(left) >= Cardinality(F) - Cardinality(Covering)
             /\ Cardinality(left) \in Nat /\ Cardinality(F) \in Nat
             /\ Cardinality(Covering) \in Nat
<1> DEFINE left == {s \in F : \A op \in Covering : s[op] # t[op]}
           gone == F \ left
           g == [s \in gone |-> CHOOSE op \in Covering : s[op] = t[op]]
<1>1. IsFiniteSet(Covering) /\ Cardinality(Covering) \in Nat
  <2>1. IsFiniteSet(Ops)
    <3> DEFINE f == [i \in 1..Len(cgf.ops) |-> cgf.ops[i]]
    <3>1. Len(cgf.ops) \in Nat /\ DOMAIN cgf.ops = 1..Len(cgf.ops)
      BY CondTypes
    <3>2. f \in Surjection(1..Len(cgf.ops), Ops)
      BY <3>1 DEF Surjection, Ops, OpsOf
    <3>3. IsFiniteSet(1..Len(cgf.ops))
      BY <3>1, FS_Interval
    <3> HIDE DEF f
    <3>4. QED
      BY <3>2, <3>3, FS_Surjection
  <2>2. Covering \in SUBSET Ops
    BY DEF Covering
  <2>3. QED
    BY <2>1, <2>2, FS_Subset, FS_CardinalityType
<1>2. \A s \in gone : g[s] \in Covering /\ s[g[s]] = t[g[s]]
  OBVIOUS
<1>3. g \in Injection(gone, Covering)
  <2>1. g \in [gone -> Covering]
    BY <1>2
  <2>2. ASSUME NEW s \in gone, NEW u \in gone, g[s] = g[u]
        PROVE  s = u
    <3>1. g[s] \in Covering /\ s[g[s]] = u[g[s]]
      BY <1>2, <2>2
    <3>2. s \in F /\ u \in F
      OBVIOUS
    <3> HIDE DEF g, gone
    <3>3. QED
      BY <3>1, <3>2 DEF Disjoint
  <2> HIDE DEF g, gone
  <2>3. QED
    BY <2>1, <2>2 DEF Injection, IsInjective
<1> HIDE DEF g
<1>4. IsFiniteSet(gone) /\ Cardinality(gone) <= Cardinality(Covering)
  <2> HIDE DEF gone
  <2>1. QED
    BY <1>1, <1>3, FS_Injection
<1>5. /\ IsFiniteSet(left)
      /\ Cardinality(F \ gone) = Cardinality(F) - Cardinality(F \cap gone)
      /\ Cardinality(F) \in Nat /\ Cardinality(left) \in Nat /\ Cardinality(gone) \in Nat
  <2>1. left \in SUBSET F
    OBVIOUS
  <2> HIDE DEF left, gone
  <2>2. QED
    BY <2>1, <1>4, FS_Subset, FS_Difference, FS_CardinalityType
<1>6. F \ gone = left /\ F \cap gone = gone
  OBVIOUS
<1> HIDE DEF left, gone
<1>7. IsFiniteSet(left) /\ Cardinality(left) >= Cardinality(F) - Cardinality(Covering)
  BY <1>1, <1>4, <1>5, <1>6
<1>8. QED
  BY <1>1, <1>5, <1>7 DEF left

\* What the steps of opcomb keep.
LEMMA CombKeeps ==
  ASSUME CombTypeOK, CombNext
  PROVE  cgf' = cgf /\ Found \subseteq Found'
<1>1. CASE Solve
  <2>1. PICK s \in Candidates : Take(s, op_conds)
    BY <1>1 DEF Solve
  <2>2. op_conds \in [Ops -> SUBSET Regs]
    BY DEF CombTypeOK
  <2>3. QED
    BY <2>1, <2>2, TakeIs
<1>2. CASE SolveRepeated
  <2>1. PICK s \in Candidates : Take(s, MoreConds)
    BY <1>2 DEF SolveRepeated
  <2>2. QED
    BY <2>1, IterationTypes, TakeIs
<1>3. CASE Loosen \/ GiveUp
  BY <1>3, FailureIs DEF Found
<1>4. CASE NoSuchOperand \/ CombDone
  BY <1>4 DEF NoSuchOperand, CombDone, combVars, Found
<1>5. QED
  BY <1>1, <1>2, <1>3, <1>4 DEF CombNext

\* As long as there has been no failure, there is none.
LEMMA NextSolution ==
  ASSUME CombTypeOK, NoFailure
  PROVE  /\ Candidates # {}
         /\ Pending
         /\ Len(op_comb) \in Nat \ {0}
         /\ Popped = Len(op_comb)
         /\ Popped \in 1..Len(cgf.comb)
<1> DEFINE m == Len(op_comb)
<1>1. m \in Nat \ {0} /\ op_comb # <<>>
  BY DEF CombTypeOK, NoFailure
<1>2. Popped = m /\ Popped \in 1..Len(cgf.comb)
  BY <1>1, IterationTypes DEF NoFailure, Popped
<1>3. Pending
  BY <1>1 DEF Pending
<1>4. Cardinality(Covering) \in Nat
  BY UsedUp, FS_EmptySet DEF Disjoint, CombTypeOK
<1>5. Enough(m, m)
  BY <1>1 DEF NoFailure
<1>6. PICK F \in SUBSET Alive(m) :
        IsFiniteSet(F) /\ Disjoint(F) /\ Cardinality(F) > Cardinality(Covering) * (m - 1)
  BY <1>5 DEF Enough
<1>7. F # {}
  <2>1. CASE F = {}
    <3> DEFINE n == Cardinality(Covering)
               k == m - 1
    <3>1. n \in Nat /\ k \in Nat
      BY <1>1, <1>4
    <3>2. 0 > n * k
      BY <1>6, <2>1, FS_EmptySet
    <3> HIDE DEF n, k
    <3>3. n * k >= 0
      BY <3>1
    <3>4. n * k \in Nat
      BY <3>1
    <3> QED
      BY <3>2, <3>3, <3>4
  <2>2. QED
    BY <2>1
<1>8. PICK s : s \in Alive(m)
  BY <1>6, <1>7
<1>9. Constrained \subseteq Covering
  <2> SUFFICES ASSUME NEW op \in Constrained PROVE op \in Covering
    OBVIOUS
  <2>1. op \in Ops /\ op_conds[op] # {}
    BY DEF Constrained, Ops, OpsOf
  <2>2. QED
    BY <2>1 DEF NoFailure
<1>10. s \in Candidates
  BY <1>1, <1>2, <1>8, <1>9 DEF Candidates, Alive, Wanted, Covering
<1>11. QED
  BY <1>1, <1>2, <1>3, <1>10

\* The combination for the last pending condition leaves enough for the others.
LEMMA StillEnough ==
  ASSUME cgf \in Cgfs, cgf' = cgf, NEW m \in Nat, m > 1, NEW i, Enough(i, m), NEW t,
         \A op \in Ops : op_conds'[op] = op_conds[op] \ {t[op]}
  PROVE  Enough(i, m - 1)'
<1> DEFINE n == Cardinality(Covering)
<1>1. PICK F \in SUBSET Alive(i) :
        IsFiniteSet(F) /\ Disjoint(F) /\ Cardinality(F) > n * (m - 1)
  BY DEF Enough
<1>2. PICK left : left = {s \in F : \A op \in Covering : s[op] # t[op]}
  OBVIOUS
<1>3. /\ IsFiniteSet(left)
      /\ Cardinality(left) >= Cardinality(F) - n
      /\ Cardinality(left) \in Nat /\ Cardinality(F) \in Nat /\ n \in Nat
  <2> DEFINE set == {s \in F : \A op \in Covering : s[op] # t[op]}
  <2>1. /\ IsFiniteSet(set)
        /\ Cardinality(set) >= Cardinality(F) - n
        /\ Cardinality(set) \in Nat /\ Cardinality(F) \in Nat /\ n \in Nat
    BY <1>1, UsedUp
  <2>2. left = set
    BY <1>2
  <2> HIDE DEF set
  <2>3. QED
    BY <2>1, <2>2
<1>4. left \subseteq Alive(i)'
  <2>1. Ops' = Ops /\ Domain' = Domain /\ Covering' = Covering
    BY SameGroup
  <2>2. Covering \subseteq Ops
    BY DEF Covering
  <2>3. ASSUME NEW s \in left
        PROVE  /\ s \in cgf.comb[i].sat \cap Domain
               /\ \A op \in Ops : op \in Covering => s[op] \in op_conds'[op]
    BY <1>1, <1>2, <2>2, <2>3 DEF Alive
  <2>4. QED
    BY <2>1, <2>3 DEF Alive
<1>5. Disjoint(left)'
  BY <1>1, <1>2, SameGroup DEF Disjoint
<1>6. Cardinality(left) > n * (m - 2)
  <2> DEFINE k == m - 2
             a == Cardinality(left)
             b == Cardinality(F)
  <2>1. k \in Nat /\ m - 1 = k + 1 /\ n \in Nat /\ a \in Nat /\ b \in Nat
    BY <1>3
  <2>2. b > n * (k + 1) /\ a >= b - n
    BY <1>1, <1>3, <2>1
  <2> HIDE DEF k, a, b, n
  <2>3. n * (k + 1) = n * k + n /\ n * k \in Nat
    BY <2>1
  <2>4. a > n * k
    BY <2>1, <2>2, <2>3
  <2>5. QED
    BY <2>4 DEF a, k
<1>7. n' = n /\ (m - 1) - 1 = m - 2
  BY SameGroup
<1>8. QED
  <2> HIDE DEF n
  <2>1. left \in SUBSET (Alive(i)') /\ IsFiniteSet(left) /\ Disjoint(left)'
        /\ Cardinality(left) > n' * ((m - 1) - 1)
    BY <1>3, <1>4, <1>5, <1>6, <1>7
  <2>2. QED
    BY <2>1 DEF Enough, n

LEMMA RichStep == CombTypeOK /\ RichInv /\ CombNext => RichInv'
<1> SUFFICES ASSUME CombTypeOK, RichInv, CombNext, ~random', AllRich'
             PROVE  (NoFailure \/ \A i \in DOMAIN cgf.comb : IsCovered(i))'
  BY DEF RichInv
<1>1. cgf' = cgf /\ Found \subseteq Found' /\ ~random /\ AllRich
  <2>1. cgf' = cgf /\ Found \subseteq Found'
    BY CombKeeps
  <2>2. QED
    BY <2>1, SameGroup DEF AllRich
<1>2. \A i : IsCovered(i) => IsCovered(i)'
  BY <1>1 DEF IsCovered
<1>3. CASE \A i \in DOMAIN cgf.comb : IsCovered(i)
  BY <1>1, <1>2, <1>3
<1>4. CASE NoFailure
  <2>1. PICK m : /\ m = Len(op_comb)
                 /\ Candidates # {} /\ Pending
                 /\ m \in Nat \ {0} /\ Popped = m /\ m \in 1..Len(cgf.comb)
    BY <1>4, NextSolution
  <2>2. Solve
    BY <1>1, <2>1 DEF CombNext, SolveRepeated, NoSuchOperand, Loosen, GiveUp, NoSolution, CombDone
  <2>3. PICK s \in Candidates : Take(s, op_conds)
    BY <2>2 DEF Solve
  <2>4. op_conds \in [Ops -> SUBSET Regs] /\ cgf \in Cgfs /\ op_comb # <<>>
    BY <1>4 DEF CombTypeOK, NoFailure
  <2>5. /\ \A op \in Ops : op_conds'[op] = op_conds[op] \ {s[op]}
        /\ Found' = Found \cup {s} /\ pc' = "opcomb"
    BY <1>4, <2>3, <2>4, TakeIs DEF NoFailure
  <2>6. IsCovered(m)'
    BY <1>1, <2>1, <2>4, <2>5 DEF IsCovered, Candidates, Wanted
  <2>7. op_comb' = SubSeq(op_comb, 1, m - 1)
    BY <2>1, <2>2, <2>4 DEF Solve, Rest
  <2>8. \A i \in DOMAIN cgf.comb : i <= m - 1 \/ IsCovered(i)'
    <3> SUFFICES ASSUME NEW i \in DOMAIN cgf.comb, ~(i <= m - 1) PROVE IsCovered(i)'
      OBVIOUS
    <3>1. i \in Nat /\ (i <= m => i = m)
      BY <2>1, <2>4, CondTypes
    <3>2. i <= m \/ IsCovered(i)
      BY <1>4, <2>1 DEF NoFailure
    <3>3. QED
      BY <1>2, <2>6, <3>1, <3>2
  <2>9. CASE m = 1
    <3>1. \A i \in DOMAIN cgf.comb : IsCovered(i)'
      BY <2>4, <2>8, <2>9, CondTypes
    <3>2. QED
      BY <1>1, <3>1
  <2>10. CASE m > 1
    <3>1. op_comb \in Seq(1..Len(cgf.comb))
      BY DEF CombTypeOK
    <3>2. /\ Len(op_comb') = m - 1
          /\ \A k \in 1..(m - 1) : op_comb'[k] = op_comb[k]
          /\ op_comb' # <<>>
      <4>1. Len(op_comb') = m - 1 /\ \A k \in 1..(m - 1) : op_comb'[k] = op_comb[k]
        BY <2>1, <2>7, <3>1, FrontOf
      <4>2. Len(op_comb') > 0
        BY <2>1, <2>10, <4>1
      <4>3. QED
        BY <4>1, <4>2
    <3>3. \A k \in 1..(m - 1) : op_comb'[k] = k
      BY <1>4, <2>1, <3>2 DEF NoFailure
    <3>4. \A op \in Ops : op \notin Covering => op_conds'[op] = {}
      BY <1>4, <2>5 DEF NoFailure
    <3>5. ASSUME NEW i \in 1..(m - 1) PROVE Enough(i, Len(op_comb))'
      <4>1. Enough(i, m)
        BY <1>4, <2>1 DEF NoFailure
      <4>2. Enough(i, m - 1)'
        BY <1>1, <2>1, <2>4, <2>5, <2>10, <4>1, StillEnough
      <4>3. QED
        BY <3>2, <4>2 DEF Enough
    <3>6. m - 1 <= Len(cgf.comb)
      BY <2>1, <2>4, CondTypes
    <3>7. Ops' = Ops /\ Covering' = Covering /\ cgf'.comb = cgf.comb
      BY <1>1, SameGroup
    <3>8. NoFailure'
      BY <2>5, <2>8, <3>2, <3>3, <3>4, <3>5, <3>6, <3>7 DEF NoFailure
    <3>9. QED
      BY <3>8
  <2>11. QED
    BY <2>1, <2>9, <2>10
<1>5. QED
  BY <1>1, <1>3, <1>4 DEF RichInv

-----------------------------------------------------------------------------
\* Where a condition or an operand is chosen by its place in a list.

LEMMA LowestOf ==
  ASSUME NEW S \in SUBSET Nat, S # {}
  PROVE  \E i \in S : \A j \in S : i <= j
<1>1. OpToRel(<, Nat) = {ss \in Nat \X Nat : ss[1] < ss[2]}
  BY Zenon DEF OpToRel
<1> DEFINE R == {ss \in Nat \X Nat : ss[1] < ss[2]}
<1>2. IsWellFoundedOn(R, Nat)
  BY <1>1, NatLessThanWellFounded, Zenon
<1>3. PICK i \in S : \A j \in S : ~ (<<j, i>> \in R)
  <2> HIDE DEF R
  <2>1. QED
    BY <1>2, WFMin
<1>4. \A j \in S : ~(j < i)
  <2> SUFFICES ASSUME NEW j \in S, j < i PROVE FALSE
    OBVIOUS
  <2>1. <<j, i>> \in Nat \X Nat /\ <<j, i>>[1] < <<j, i>>[2]
    OBVIOUS
  <2>2. QED
    BY <1>3, <2>1
<1>5. QED
  BY <1>4

LEMMA HighestOf ==
  ASSUME NEW n \in Nat, NEW S \in SUBSET (1..n), S # {}
  PROVE  Last1(S) \in S
<1> DEFINE T == {n - i : i \in S}
<1>1. T \in SUBSET Nat /\ T # {}
  <2>1. \A i \in S : i \in 1..n
    OBVIOUS
  <2>2. \A i \in S : n - i \in Nat
    BY <2>1
  <2>3. QED
    BY <2>2
<1>2. PICK k \in T : \A j \in T : k <= j
  <2> HIDE DEF T
  <2>1. QED
    BY <1>1, LowestOf
<1>3. PICK i \in S : k = n - i
  BY <1>2
<1>4. \A j \in S : j <= i
  <2> SUFFICES ASSUME NEW j \in S PROVE j <= i
    OBVIOUS
  <2>1. n - i <= n - j
    BY <1>2, <1>3
  <2>2. n \in Int /\ i \in Int /\ j \in Int
    OBVIOUS
  <2>3. QED
    BY <2>1, <2>2
<1>5. QED
  BY <1>4 DEF Last1

\* The operand a register is read as first is an operand that reads a value.
LEMMA FirstReads ==
  ASSUME cgf \in Cgfs, NEW s, NEW op \in DOMAIN cgf.reads
  PROVE  FirstWith(s, op) \in DOMAIN cgf.reads
<1> DEFINE S == {i \in Reading : s[cgf.ops[i]] = s[op]}
<1>1. S \in SUBSET Nat
  BY CondTypes DEF Reading
<1>2. S # {}
  <2>1. op \in Ops
    BY Covergroup
  <2>2. PICK i \in DOMAIN cgf.ops : cgf.ops[i] = op
    BY <2>1 DEF Ops, OpsOf
  <2>3. QED
    BY <2>2 DEF Reading
<1>3. PICK i \in S : \A j \in S : i <= j
  <2> HIDE DEF S
  <2>1. QED
    BY <1>1, <1>2, LowestOf
<1> DEFINE First(k) == /\ s[cgf.ops[k]] = s[op]
                       /\ \A j \in Reading : s[cgf.ops[j]] = s[op] => k <= j
<1>4. i \in Reading /\ First(i)
  BY <1>3
<1>5. (CHOOSE k \in Reading : First(k)) \in Reading
  BY <1>4, Zenon
<1>6. FirstWith(s, op) = cgf.ops[CHOOSE k \in Reading : First(k)]
  BY DEF FirstWith
<1>7. QED
  BY <1>5, <1>6 DEF Reading

-----------------------------------------------------------------------------
\* valcomb and gen_inst store what TypeOK allows.

Vals == [cgf.vals -> Values]

LEMMA ValueTyped ==
  ASSUME cgf \in Cgfs, values \in Seq(Vals), NEW i \in Nat \ {0}
  PROVE  ValueOf(i) \in Vals
<1>1. CASE i <= Len(values)
  <2>1. values[i] \in Vals
    BY <1>1
  <2>2. QED
    BY <1>1, <2>1 DEF ValueOf
<1>2. CASE ~(i <= Len(values))
  <2>1. ASSUME NEW x \in cgf.vals PROVE cgf.dataset[x][1] \in Values
    <3>1. cgf.dataset[x] \in Seq(Values) \ {<<>>}
      BY Covergroup, Zenon
    <3>2. QED
      BY <3>1
  <2>2. QED
    BY <1>2, <2>1 DEF ValueOf, Vals
<1>3. QED
  BY <1>1, <1>2

LEMMA AdjustedTyped ==
  ASSUME cgf \in Cgfs, NEW s, NEW v \in Vals
  PROVE  Adjusted(s, v) \in Vals
<1> SUFFICES ASSUME NEW x \in cgf.vals PROVE Adjusted(s, v)[x] \in Values
  BY DEF Adjusted, Vals
<1>1. v[x] \in Values
  BY DEF Vals
<1>2. CASE \E op \in DOMAIN cgf.reads : cgf.reads[op] = x
  <2> DEFINE op == CHOOSE o \in DOMAIN cgf.reads : cgf.reads[o] = x
  <2>1. op \in DOMAIN cgf.reads
    BY <1>2
  <2>2. Adjusted(s, v)[x] = IF s[op] = "x0" THEN 0 ELSE v[cgf.reads[FirstWith(s, op)]]
    BY <1>2 DEF Adjusted
  <2> HIDE DEF op
  <2>3. cgf.reads[FirstWith(s, op)] \in cgf.vals
    BY <2>1, FirstReads, Covergroup
  <2>4. v[cgf.reads[FirstWith(s, op)]] \in Values
    BY <2>3 DEF Vals
  <2>5. 0 \in Values
    BY Covergroup
  <2>6. QED
    BY <2>2, <2>4, <2>5
<1>3. CASE ~ \E op \in DOMAIN cgf.reads : cgf.reads[op] = x
  BY <1>1, <1>3 DEF Adjusted
<1>4. QED
  BY <1>2, <1>3

Phases == {"opcomb", "valcomb", "pair", "repeat", "filter", "done", "raised", "exited"}

\* What is computed from the covergroup and the operands stays as it is.
LEMMA SameGen ==
  ASSUME cgf' = cgf
  PROVE  /\ Vals' = Vals /\ Instrs' = Instrs
         /\ \A i : Solvable(cgf.val[i])' = Solvable(cgf.val[i])
         /\ \A ins : Hits(ins)' = Hits(ins) /\ SkipVal(ins)' = SkipVal(ins)
<1>1. Ops' = Ops
  BY SameGroup
<1>2. \A ins : SkipVal(ins)' = SkipVal(ins)
  BY <1>1, Zenon DEF SkipVal
<1>3. \A ins : Hits(ins)' = Hits(ins)
  BY <1>1, <1>2, Zenon DEF Hits
<1>4. QED
  BY <1>2, <1>3 DEF Vals, Instrs, Solvable, FromDatasets

LEMMA GenTypeSame ==
  ASSUME TypeOK, CombTypeOK', cgf' = cgf, pc' \in Phases,
         inds' \subseteq DOMAIN cgf.val, values' \in Seq(Vals), default' = default,
         cont' \in Seq(Vals), instrs' \in Seq(Instrs), final' \in Seq(Instrs),
         scanned' \in Nat
  PROVE  TypeOK'
<1>1. Domain' = Domain /\ Vals' = Vals /\ Instrs' = Instrs /\ DOMAIN cgf'.val = DOMAIN cgf.val
  BY SameGroup, SameGen
<1>2. default' = <<>> \/ default' \in Domain'
  BY <1>1 DEF TypeOK
<1>3. QED
  <2> HIDE DEF Instrs
  <2>1. QED
    BY <1>1, <1>2 DEF TypeOK, Phases, Vals

LEMMA TypedParts ==
  ASSUME TypeOK
  PROVE  /\ CombTypeOK /\ cgf \in Cgfs
         /\ pc \in Phases
         /\ inds \subseteq DOMAIN cgf.val /\ values \in Seq(Vals)
         /\ default = <<>> \/ default \in Domain
         /\ cont \in Seq(Vals) /\ instrs \in Seq(Instrs) /\ final \in Seq(Instrs)
         /\ scanned \in Nat
         /\ solutions \in Seq(Domain)
BY DEF TypeOK, Vals, CombTypeOK, Phases

LEMMA UnchangedComb ==
  ASSUME CombTypeOK, UNCHANGED <<cgf, combVars>>
  PROVE  CombTypeOK' /\ Found' = Found /\ RegistersKept' = RegistersKept
<1>1. CombTypeOK'
  BY CombTypeSame DEF combVars, CombTypeOK
<1>2. Found' = Found /\ Ops' = Ops
  BY SameGroup DEF combVars, Found
<1>3. QED
  BY <1>1, <1>2 DEF combVars, RegistersKept

\* The phase opcomb is in, and the one that follows.
LEMMA CombPhase ==
  ASSUME CombTypeOK, CombNext
  PROVE  /\ pc = "opcomb"
         /\ pc' \in {"opcomb", "valcomb", "raised"}
<1>1. CASE Solve
  BY <1>1 DEF Solve, Take
<1>2. CASE SolveRepeated
  BY <1>2 DEF SolveRepeated, Take
<1>3. QED
  BY <1>1, <1>2 DEF CombNext, NoSuchOperand, Loosen, GiveUp, CombDone, NoSolution

LEMMA TypeInit == GenInit => TypeOK
<1> SUFFICES ASSUME GenInit PROVE TypeOK
  OBVIOUS
<1>1. CombTypeOK /\ pc = "opcomb"
  BY CombTypeInit DEF GenInit, CombInit
<1>2. default = <<>> \/ default \in Domain
  BY DEF GenInit
<1>3. scanned \in Nat
  BY DEF GenInit
<1>4. QED
  <2> HIDE DEF Instrs
  <2>1. QED
    BY <1>1, <1>2, <1>3 DEF GenInit, TypeOK

LEMMA InstrTyped ==
  ASSUME NEW s \in Domain, NEW v \in Vals
  PROVE  Instr(s, v) \in Instrs /\ Instr(s, v).op = s /\ Instr(s, v).val = v
<1>1. s \in Operations(cgf)
  BY DEF Domain
<1>2. QED
  BY <1>1 DEF Instr, Instrs, Vals

\* What an iteration of the pairing loop appends.
LEMMA PairIs ==
  ASSUME TypeOK, Pair
  PROVE  /\ pc = "pair" /\ pc' = pc /\ scanned < Longer /\ scanned' = scanned + 1
         /\ UNCHANGED <<cgf, combVars, inds, values, default, final>>
         /\ ValueOf(scanned + 1) \in Vals
         /\ \/ /\ scanned < Len(solutions)
               /\ Shared(solutions[scanned + 1])
               /\ solutions[scanned + 1] \in Domain
               /\ cont' = Append(cont, ValueOf(scanned + 1))
               /\ Adjusted(solutions[scanned + 1], ValueOf(scanned + 1)) \in Vals
               /\ instrs' = Append(instrs, Instr(solutions[scanned + 1],
                              Adjusted(solutions[scanned + 1], ValueOf(scanned + 1))))
            \/ /\ scanned < Len(solutions)
               /\ ~Shared(solutions[scanned + 1])
               /\ solutions[scanned + 1] \in Domain
               /\ cont' = cont
               /\ instrs' = Append(instrs, Instr(solutions[scanned + 1], ValueOf(scanned + 1)))
            \/ /\ ~(scanned < Len(solutions))
               /\ default # <<>> /\ default \in Domain
               /\ cont' = cont
               /\ instrs' = Append(instrs, Instr(default, ValueOf(scanned + 1)))
<1>1. cgf \in Cgfs /\ scanned \in Nat /\ values \in Seq(Vals) /\ solutions \in Seq(Domain)
      /\ (default = <<>> \/ default \in Domain)
  BY TypedParts
<1>2. ValueOf(scanned + 1) \in Vals
  BY <1>1, ValueTyped
<1>3. scanned < Len(solutions) => solutions[scanned + 1] \in Domain
  BY <1>1
<1>4. Adjusted(solutions[scanned + 1], ValueOf(scanned + 1)) \in Vals
  BY <1>1, <1>2, AdjustedTyped
<1>5. UNCHANGED <<cgf, combVars, inds, values, default, final>> /\ pc' = pc
  BY DEF Pair, vars
<1>6. QED
  BY <1>1, <1>2, <1>3, <1>4, <1>5 DEF Pair

LEMMA PairTyped ==
  ASSUME TypeOK, Pair
  PROVE  cont' \in Seq(Vals) /\ instrs' \in Seq(Instrs)
<1> DEFINE v == ValueOf(scanned + 1)
           s == solutions[scanned + 1]
<1>1. cont \in Seq(Vals) /\ instrs \in Seq(Instrs) /\ v \in Vals
  BY TypedParts, PairIs
<1>2. cont' = cont \/ cont' = Append(cont, v)
  BY PairIs
<1>3. cont' \in Seq(Vals)
  <2> HIDE DEF v
  <2>1. QED
    BY <1>1, <1>2, Appended
<1>4. \E ins \in Instrs : instrs' = Append(instrs, ins)
  <2>1. CASE scanned < Len(solutions) /\ Shared(s)
    BY <2>1, PairIs, InstrTyped
  <2>2. CASE scanned < Len(solutions) /\ ~Shared(s)
    BY <2>2, PairIs, InstrTyped
  <2>3. CASE ~(scanned < Len(solutions))
    BY <2>3, PairIs, InstrTyped
  <2>4. QED
    BY <2>1, <2>2, <2>3
<1>5. QED
  BY <1>1, <1>3, <1>4, Appended

LEMMA RepeatIs ==
  ASSUME TypeOK, Repeat
  PROVE  /\ pc = "repeat" /\ pc' = pc /\ scanned < Len(cont) /\ scanned' = scanned + 1
         /\ UNCHANGED <<cgf, combVars, inds, values, default, cont, final>>
         /\ default # <<>> /\ default \in Domain
         /\ scanned + 1 \in DOMAIN cont /\ cont[scanned + 1] \in Vals
         /\ instrs' = Append(instrs, Instr(default, cont[scanned + 1]))
         /\ Instr(default, cont[scanned + 1]) \in Instrs
<1>1. scanned \in Nat /\ cont \in Seq(Vals) /\ (default = <<>> \/ default \in Domain)
  BY TypedParts
<1>2. scanned < Len(cont) /\ default # <<>>
  BY DEF Repeat
<1>3. scanned + 1 \in DOMAIN cont /\ cont[scanned + 1] \in Vals
  BY <1>1, <1>2
<1>4. Instr(default, cont[scanned + 1]) \in Instrs
  BY <1>1, <1>2, <1>3, InstrTyped
<1>5. QED
  BY <1>1, <1>2, <1>3, <1>4 DEF Repeat, vars

LEMMA FilterIs ==
  ASSUME TypeOK, Filter
  PROVE  /\ pc = "filter" /\ pc' = pc /\ scanned < Len(instrs) /\ scanned' = scanned + 1
         /\ UNCHANGED <<cgf, combVars, inds, values, default, cont, instrs>>
         /\ scanned + 1 \in DOMAIN instrs /\ instrs[scanned + 1] \in Instrs
         /\ \/ Hits(instrs[scanned + 1]) \subseteq Covered /\ final' = final
            \/ final' = Append(final, instrs[scanned + 1])
         /\ final' \in Seq(Instrs)
<1>1. scanned \in Nat /\ instrs \in Seq(Instrs) /\ final \in Seq(Instrs)
  BY TypedParts
<1>2. scanned + 1 \in DOMAIN instrs /\ instrs[scanned + 1] \in Instrs
  <2> HIDE DEF Instrs
  <2>1. QED
    BY <1>1 DEF Filter
<1>3. \/ Hits(instrs[scanned + 1]) \subseteq Covered /\ final' = final
      \/ final' = Append(final, instrs[scanned + 1])
  BY DEF Filter
<1>4. final' \in Seq(Instrs)
  BY <1>1, <1>2, <1>3, Appended
<1>5. QED
  BY <1>2, <1>3, <1>4 DEF Filter, vars

LEMMA TypeStep == TypeOK /\ GenNext => TypeOK'
<1> SUFFICES ASSUME TypeOK, GenNext PROVE TypeOK'
  OBVIOUS
<1>1. /\ CombTypeOK /\ cgf \in Cgfs /\ pc \in Phases
      /\ inds \subseteq DOMAIN cgf.val /\ values \in Seq(Vals)
      /\ cont \in Seq(Vals) /\ instrs \in Seq(Instrs) /\ final \in Seq(Instrs)
      /\ scanned \in Nat
  BY TypedParts
<1> DEFINE Keeps == UNCHANGED <<cgf, combVars>>
<1>2. Keeps => CombTypeOK'
  BY <1>1, UnchangedComb
<1>3. CASE Combine
  <2>1. CombTypeOK' /\ cgf' = cgf /\ pc' \in Phases
    BY <1>1, <1>3, CombTypeStep, CombKeeps, CombPhase DEF Combine, Phases
  <2>2. QED
    BY <1>1, <1>3, <2>1, GenTypeSame DEF Combine, genVars
<1>4. CASE SolveValue \/ TakeGiven
  <2>1. Last1(inds) \in DOMAIN cgf.val
    <3>1. inds # {} /\ inds \subseteq 1..Len(cgf.val) /\ Len(cgf.val) \in Nat
      BY <1>1, <1>4, CondTypes DEF SolveValue, TakeGiven, InValcomb
    <3>2. QED
      BY <1>1, <3>1, HighestOf
  <2>2. Cond.sat \subseteq Vals
    BY <1>1, <2>1, CondTypes DEF Cond, Vals
  <2>3. PICK v \in Cond.sat : values' = Append(values, v)
    BY <1>4 DEF SolveValue, TakeGiven, Solvable
  <2>4. values' \in Seq(Vals)
    BY <1>1, <2>2, <2>3, Appended
  <2>5. inds' \subseteq inds
    BY <1>4 DEF SolveValue, TakeGiven
  <2>6. Keeps /\ pc' = pc /\ UNCHANGED genVars
    BY <1>4 DEF SolveValue, TakeGiven, vars
  <2>7. QED
    BY <1>1, <1>2, <2>4, <2>5, <2>6, GenTypeSame DEF genVars
<1>5. CASE SkipValue
  <2>1. Keeps /\ pc' = pc /\ UNCHANGED <<values, genVars>> /\ inds' \subseteq inds
    BY <1>5 DEF SkipValue, vars
  <2>2. QED
    BY <1>1, <1>2, <2>1, GenTypeSame DEF genVars
<1>6. CASE Exit \/ ValDone \/ NoDefault \/ FilterDone
  <2>1. Keeps /\ pc' \in Phases /\ UNCHANGED <<inds, values, genVars>>
    BY <1>6 DEF Exit, ValDone, NoDefault, FilterDone, Phases
  <2>2. QED
    BY <1>1, <1>2, <2>1, GenTypeSame DEF genVars
<1>7. CASE PairsDone \/ RepeatDone
  <2>1. /\ Keeps /\ pc' \in Phases /\ scanned' = 0
        /\ UNCHANGED <<inds, values, default, cont, instrs, final>>
    BY <1>7 DEF PairsDone, RepeatDone, Phases
  <2>2. QED
    BY <1>1, <1>2, <2>1, GenTypeSame
<1>8. CASE Pair
  BY <1>1, <1>2, <1>8, PairIs, PairTyped, GenTypeSame
<1>9. CASE Repeat
  <2>1. instrs' \in Seq(Instrs)
    BY <1>1, <1>9, RepeatIs, Appended
  <2>2. QED
    BY <1>1, <1>2, <1>9, <2>1, RepeatIs, GenTypeSame
<1>10. CASE Filter
  BY <1>1, <1>2, <1>10, FilterIs, GenTypeSame
<1>11. QED
  BY <1>3, <1>4, <1>5, <1>6, <1>7, <1>8, <1>9, <1>10 DEF GenNext

-----------------------------------------------------------------------------
\* What every step keeps.

LEMMA GenKeeps ==
  ASSUME TypeOK, GenNext
  PROVE  /\ cgf' = cgf /\ default' = default
         /\ \/ Combine
            \/ /\ UNCHANGED combVars
               /\ pc \notin {"opcomb", "raised", "done", "exited"} /\ pc' # "opcomb"
         /\ DOMAIN instrs \subseteq DOMAIN instrs'
         /\ \A k \in DOMAIN instrs : instrs'[k] = instrs[k]
<1>1. CombTypeOK /\ instrs \in Seq(Instrs)
  BY TypedParts
<1>2. CASE Combine
  BY <1>1, <1>2, CombKeeps DEF Combine, genVars
<1>3. CASE SolveValue \/ TakeGiven \/ SkipValue \/ Exit \/ ValDone \/ PairsDone
           \/ NoDefault \/ RepeatDone \/ FilterDone
  <2>1. cgf' = cgf /\ UNCHANGED combVars /\ default' = default /\ instrs' = instrs
    BY <1>3 DEF SolveValue, TakeGiven, SkipValue, Exit, ValDone, PairsDone, NoDefault,
                RepeatDone, FilterDone, vars, genVars
  <2>2. pc \in {"valcomb", "pair", "repeat", "filter"}
    BY <1>3 DEF SolveValue, TakeGiven, SkipValue, Exit, ValDone, PairsDone, NoDefault,
                RepeatDone, FilterDone, InValcomb
  <2>3. pc' = pc \/ pc' \in {"exited", "pair", "repeat", "raised", "filter", "done"}
    BY <1>3 DEF SolveValue, TakeGiven, SkipValue, Exit, ValDone, PairsDone, NoDefault,
                RepeatDone, FilterDone, vars
  <2>4. QED
    BY <2>1, <2>2, <2>3
<1>4. CASE Pair
  <2>1. \E ins \in Instrs : instrs' = Append(instrs, ins)
    BY <1>4, PairIs, InstrTyped
  <2>2. DOMAIN instrs \subseteq DOMAIN instrs' /\ \A k \in DOMAIN instrs : instrs'[k] = instrs[k]
    BY <1>1, <2>1, Appended
  <2>3. QED
    BY <1>4, <2>2, PairIs
<1>5. CASE Repeat
  <2>1. \E ins \in Instrs : instrs' = Append(instrs, ins)
    BY <1>5, RepeatIs
  <2>2. DOMAIN instrs \subseteq DOMAIN instrs' /\ \A k \in DOMAIN instrs : instrs'[k] = instrs[k]
    BY <1>1, <2>1, Appended
  <2>3. QED
    BY <1>5, <2>2, RepeatIs
<1>6. CASE Filter
  BY <1>6, FilterIs
<1>7. QED
  BY <1>2, <1>3, <1>4, <1>5, <1>6 DEF GenNext

\* opcomb leaves nothing to cover unless it gives up, the loops stay within
\* their lists, and valcomb leaves no condition open.
CombDoneInv ==
  (pc \notin {"opcomb", "raised"} /\ ~warned) => \A op \in Ops : op_conds[op] = {}
PhaseInv ==
  /\ pc \in {"opcomb", "valcomb"} => scanned = 0
  /\ pc \in {"pair", "repeat", "filter", "done"} => inds = {}
DefaultInv == default = <<>> \/ (default \in Domain /\ ~Shared(default))

LEMMA CombDoneStep ==
  ASSUME TypeOK, CombDoneInv, GenNext
  PROVE  CombDoneInv'
<1>1. CombTypeOK /\ cgf' = cgf /\ Ops' = Ops
  BY TypedParts, GenKeeps, SameGroup
<1>2. CASE Combine
  <2>1. CombNext
    BY <1>2 DEF Combine
  <2>2. pc = "opcomb"
    BY <1>1, <2>1, CombPhase
  <2>3. CASE Solve \/ SolveRepeated \/ Loosen \/ NoSuchOperand
    <3>1. pc' \in {"opcomb", "raised"}
      BY <2>2, <2>3 DEF Solve, SolveRepeated, Loosen, NoSuchOperand, Take
    <3>2. QED
      BY <3>1 DEF CombDoneInv
  <2>4. CASE GiveUp
    BY <2>4 DEF GiveUp, CombDoneInv
  <2>5. CASE CombDone
    <3>1. op_conds' = op_conds /\ \A op \in Ops : op_conds[op] = {}
      BY <2>5 DEF CombDone, combVars, Pending
    <3>2. QED
      BY <1>1, <3>1 DEF CombDoneInv
  <2>6. QED
    BY <2>1, <2>3, <2>4, <2>5 DEF CombNext
<1>3. CASE ~Combine
  <2>1. UNCHANGED combVars /\ pc \notin {"opcomb", "raised"}
    BY <1>3, GenKeeps
  <2>2. QED
    BY <1>1, <2>1 DEF CombDoneInv, combVars
<1>4. QED
  BY <1>2, <1>3

LEMMA RichGenStep ==
  ASSUME TypeOK, RichInv, GenNext
  PROVE  RichInv'
<1>1. CombTypeOK /\ cgf' = cgf
  BY TypedParts, GenKeeps
<1>2. CASE Combine
  BY <1>1, <1>2, RichStep DEF Combine
<1>3. CASE ~Combine
  <2>1. UNCHANGED combVars /\ pc # "opcomb"
    BY <1>3, GenKeeps
  <2>2. Found' = Found /\ random' = random /\ AllRich' = AllRich
    BY <1>1, <2>1, SameGroup DEF combVars, Found, AllRich
  <2>3. \A i : IsCovered(i)' = IsCovered(i)
    BY <1>1, <2>2 DEF IsCovered
  <2>4. QED
    BY <1>1, <2>1, <2>2, <2>3 DEF RichInv, NoFailure
<1>4. QED
  BY <1>2, <1>3

LEMMA RegistersGenStep ==
  ASSUME TypeOK, RegistersKept, GenNext
  PROVE  RegistersKept'
<1>1. CombTypeOK /\ cgf' = cgf
  BY TypedParts, GenKeeps
<1>2. CASE Combine
  BY <1>1, <1>2, RegistersKeptStep DEF Combine
<1>3. CASE ~Combine
  BY <1>1, <1>3, GenKeeps, UnchangedComb
<1>4. QED
  BY <1>2, <1>3

LEMMA DefaultStep ==
  ASSUME TypeOK, DefaultInv, GenNext
  PROVE  DefaultInv'
<1>1. cgf' = cgf /\ default' = default /\ Domain' = Domain /\ Ops' = Ops
  BY GenKeeps, SameGroup
<1>2. QED
  BY <1>1, Zenon DEF DefaultInv, Shared, AllDifferent

LEMMA PhaseStep ==
  ASSUME TypeOK, PhaseInv, GenNext
  PROVE  PhaseInv'
<1>1. CASE Combine
  <2>1. pc = "opcomb" /\ pc' \in {"opcomb", "valcomb", "raised"} /\ scanned' = scanned
    BY <1>1, CombPhase, TypedParts DEF Combine, genVars
  <2>2. QED
    BY <2>1 DEF PhaseInv
<1>2. CASE SolveValue \/ TakeGiven \/ SkipValue
  <2>1. pc = "valcomb" /\ pc' = pc /\ scanned' = scanned
    BY <1>2 DEF SolveValue, TakeGiven, SkipValue, InValcomb, vars, genVars
  <2>2. QED
    BY <2>1 DEF PhaseInv
<1>3. CASE Exit \/ NoDefault
  BY <1>3 DEF Exit, NoDefault, PhaseInv
<1>4. CASE ValDone \/ PairsDone \/ RepeatDone \/ FilterDone
  BY <1>4 DEF ValDone, PairsDone, RepeatDone, FilterDone, PhaseInv
<1>5. CASE Pair \/ Repeat \/ Filter
  <2>1. pc \in {"pair", "repeat", "filter"} /\ pc' = pc /\ inds' = inds
    BY <1>5, PairIs, RepeatIs, FilterIs
  <2>2. QED
    BY <2>1 DEF PhaseInv
<1>6. QED
  BY <1>1, <1>2, <1>3, <1>4, <1>5 DEF GenNext

-----------------------------------------------------------------------------
\* gen_inst makes an instruction of every combination of operands.

Paired(n) ==
  \A i \in DOMAIN solutions : i <= n => \E k \in DOMAIN instrs : instrs[k].op = solutions[i]
PairedInv ==
  /\ pc = "pair" => Paired(scanned)
  /\ pc \in {"repeat", "filter", "done"} => Paired(Len(solutions))

LEMMA Lengths ==
  ASSUME TypeOK
  PROVE  /\ Len(solutions) \in Nat /\ DOMAIN solutions = 1..Len(solutions)
         /\ Len(values) \in Nat /\ DOMAIN values = 1..Len(values)
         /\ Len(cont) \in Nat /\ DOMAIN cont = 1..Len(cont)
         /\ Len(instrs) \in Nat /\ DOMAIN instrs = 1..Len(instrs)
         /\ Len(final) \in Nat /\ DOMAIN final = 1..Len(final)
         /\ scanned \in Nat
         /\ Longer \in Nat /\ Len(solutions) <= Longer /\ Len(values) <= Longer
<1>1. /\ Len(solutions) \in Nat /\ DOMAIN solutions = 1..Len(solutions)
      /\ Len(values) \in Nat /\ DOMAIN values = 1..Len(values)
      /\ Len(cont) \in Nat /\ DOMAIN cont = 1..Len(cont)
      /\ scanned \in Nat
  BY TypedParts
<1>2. /\ Len(instrs) \in Nat /\ DOMAIN instrs = 1..Len(instrs)
      /\ Len(final) \in Nat /\ DOMAIN final = 1..Len(final)
  <2> HIDE DEF Instrs
  <2>1. QED
    BY TypedParts
<1>3. QED
  BY <1>1, <1>2 DEF Longer

LEMMA PairedStays ==
  ASSUME TypeOK, GenNext, UNCHANGED combVars, NEW n \in Nat, Paired(n)
  PROVE  Paired(n)'
<1>1. solutions' = solutions
  BY DEF combVars
<1>2. /\ DOMAIN instrs \subseteq DOMAIN instrs'
      /\ \A k \in DOMAIN instrs : instrs'[k] = instrs[k]
  BY GenKeeps
<1>3. QED
  BY <1>1, <1>2 DEF Paired

LEMMA PairedPair ==
  ASSUME TypeOK, Pair, GenNext, Paired(scanned)
  PROVE  Paired(scanned)'
<1>1. PICK n \in Nat : n = scanned
  BY Lengths
<1>2. /\ UNCHANGED combVars /\ solutions' = solutions /\ scanned' = n + 1
      /\ instrs \in Seq(Instrs) /\ Len(solutions) \in Nat
      /\ DOMAIN solutions = 1..Len(solutions)
  BY <1>1, PairIs, TypedParts, Lengths DEF combVars
<1>3. Paired(n)'
  BY <1>1, <1>2, PairedStays DEF Paired
<1>4. ASSUME n < Len(solutions)
      PROVE  \E k \in DOMAIN instrs' : instrs'[k].op = solutions[n + 1]
  <2>1. PICK ins \in Instrs : instrs' = Append(instrs, ins) /\ ins.op = solutions[n + 1]
    BY <1>1, <1>4, PairIs, InstrTyped
  <2>2. /\ Len(instrs) + 1 \in DOMAIN instrs'
        /\ instrs'[Len(instrs) + 1] = ins
    <3> HIDE DEF Instrs
    <3>1. QED
      BY <1>2, <2>1, Appended
  <2>3. QED
    BY <2>1, <2>2
<1>5. ASSUME NEW i \in DOMAIN solutions, i <= n + 1
      PROVE  \E k \in DOMAIN instrs' : instrs'[k].op = solutions[i]
  <2>1. CASE i <= n
    BY <1>2, <1>3, <1>5, <2>1 DEF Paired
  <2>2. CASE i = n + 1
    <3>1. n < Len(solutions)
      BY <1>2, <1>5, <2>2
    <3>2. QED
      BY <1>4, <2>2, <3>1
  <2>3. QED
    BY <1>1, <1>2, <1>5, <2>1, <2>2
<1>6. QED
  BY <1>2, <1>5 DEF Paired

LEMMA PairedStep ==
  ASSUME TypeOK, PhaseInv, PairedInv, GenNext
  PROVE  PairedInv'
<1>1. CASE Combine
  <2>1. pc' \in {"opcomb", "valcomb", "raised"}
    BY <1>1, CombPhase, TypedParts DEF Combine
  <2>2. QED
    BY <2>1 DEF PairedInv
<1>2. CASE SolveValue \/ TakeGiven \/ SkipValue \/ Exit \/ NoDefault
  <2>1. pc' \in {"valcomb", "exited", "raised"}
    BY <1>2 DEF SolveValue, TakeGiven, SkipValue, Exit, NoDefault, InValcomb, vars
  <2>2. QED
    BY <2>1 DEF PairedInv
<1>3. CASE ValDone
  <2>1. pc' = "pair" /\ scanned' = 0 /\ solutions' = solutions
    BY <1>3 DEF ValDone, PhaseInv, genVars, combVars
  <2>2. DOMAIN solutions' = 1..Len(solutions) /\ Len(solutions) \in Nat
    BY <2>1, Lengths
  <2>3. QED
    BY <2>1, <2>2 DEF PairedInv, Paired
<1>4. CASE Pair
  <2>1. pc = "pair" /\ pc' = "pair"
    BY <1>4, PairIs
  <2>2. QED
    BY <1>4, <2>1, PairedPair DEF PairedInv
<1>5. CASE PairsDone
  <2>1. /\ pc = "pair" /\ pc' = "repeat" /\ scanned = Longer
        /\ solutions' = solutions /\ instrs' = instrs
    BY <1>5 DEF PairsDone, combVars
  <2>2. \A i \in DOMAIN solutions : i <= scanned
    BY <2>1, Lengths
  <2>3. QED
    BY <2>1, <2>2 DEF PairedInv, Paired
<1>6. CASE Repeat \/ RepeatDone \/ Filter \/ FilterDone
  <2>1. pc \in {"repeat", "filter"} /\ pc' \in {"repeat", "filter", "done"} /\ UNCHANGED combVars
    BY <1>6, RepeatIs, FilterIs DEF RepeatDone, FilterDone
  <2>2. PICK n \in Nat : n = Len(solutions)
    BY Lengths
  <2>3. Paired(n)
    BY <2>1, <2>2 DEF PairedInv, Paired
  <2>4. Paired(n)' /\ Len(solutions') = n
    BY <2>1, <2>2, <2>3, PairedStays DEF combVars
  <2>5. QED
    BY <2>1, <2>4 DEF PairedInv, Paired
<1>7. QED
  BY <1>1, <1>2, <1>3, <1>4, <1>5, <1>6 DEF GenNext

-----------------------------------------------------------------------------
\* valcomb leaves no condition on values that it can solve.

Settled(i) ==
  \/ cgf.val[i].how = "partial"
  \/ (cgf.val[i].how = "solve" /\ Solvable(cgf.val[i]) = {})
  \/ \E k \in DOMAIN values : values[k] \in cgf.val[i].sat
ValInv == ~random => \A i \in DOMAIN cgf.val : i \in inds \/ Settled(i)

LEMMA SettledStays ==
  ASSUME cgf' = cgf, DOMAIN values \subseteq DOMAIN values',
         \A k \in DOMAIN values : values'[k] = values[k], NEW i, Settled(i)
  PROVE  Settled(i)'
BY SameGen DEF Settled

LEMMA ValStep ==
  ASSUME TypeOK, ValInv, GenNext
  PROVE  ValInv'
<1>1. /\ cgf' = cgf /\ random' = random /\ CombTypeOK /\ cgf \in Cgfs
      /\ values \in Seq(Vals) /\ inds \subseteq DOMAIN cgf.val
  BY GenKeeps, SameGroup, TypedParts
<1>2. CASE SolveValue \/ TakeGiven
  <2>1. Last1(inds) \in DOMAIN cgf.val
    <3>1. inds # {} /\ inds \subseteq 1..Len(cgf.val) /\ Len(cgf.val) \in Nat
      BY <1>1, <1>2, CondTypes DEF SolveValue, TakeGiven, InValcomb
    <3>2. QED
      BY <1>1, <3>1, HighestOf
  <2>2. Cond.sat \subseteq Vals
    BY <1>1, <2>1, CondTypes DEF Cond, Vals
  <2>3. PICK v \in Cond.sat :
          /\ values' = Append(values, v)
          /\ \A i \in inds : i \in inds' \/ i = Last1(inds) \/ v \in cgf.val[i].sat
    BY <1>2 DEF SolveValue, TakeGiven, Solvable
  <2>4. /\ DOMAIN values \subseteq DOMAIN values'
        /\ \A k \in DOMAIN values : values'[k] = values[k]
        /\ \E k \in DOMAIN values' : values'[k] = v
    <3>1. /\ DOMAIN values = 1..Len(values) /\ Len(values) \in Nat
          /\ DOMAIN values' = 1..(Len(values) + 1)
          /\ values'[Len(values) + 1] = v
          /\ \A k \in 1..Len(values) : values'[k] = values[k]
      BY <1>1, <2>2, <2>3, Appended
    <3>2. QED
      BY <3>1
  <2>5. v \in cgf.val[Last1(inds)].sat
    BY <2>3 DEF Cond
  <2>6. ASSUME ~random, NEW i \in DOMAIN cgf.val, i \notin inds'
        PROVE  Settled(i)'
    <3>1. CASE Settled(i)
      BY <1>1, <2>4, <3>1, SettledStays
    <3>2. CASE v \in cgf.val[i].sat
      BY <1>1, <2>4, <3>2 DEF Settled
    <3>3. QED
      BY <2>3, <2>5, <2>6, <3>1, <3>2 DEF ValInv
  <2>7. QED
    BY <1>1, <2>6 DEF ValInv
<1>3. CASE SkipValue
  <2>1. values' = values /\ inds' = inds \ {Last1(inds)}
    BY <1>3 DEF SkipValue
  <2>2. ASSUME ~random
        PROVE  Settled(Last1(inds))
    BY <1>3, <2>2 DEF SkipValue, Settled, Cond
  <2>3. ASSUME ~random, NEW i \in DOMAIN cgf.val, i \notin inds'
        PROVE  Settled(i)'
    <3>1. Settled(i)
      BY <2>1, <2>2, <2>3 DEF ValInv
    <3>2. QED
      BY <1>1, <2>1, <3>1, SettledStays
  <2>4. QED
    BY <1>1, <2>3 DEF ValInv
<1>4. CASE values' = values /\ inds' = inds
  <2>1. \A i : Settled(i) => Settled(i)'
    BY <1>1, <1>4, SettledStays
  <2>2. QED
    BY <1>1, <1>4, <2>1 DEF ValInv
<1>5. Combine \/ Exit \/ ValDone \/ Pair \/ PairsDone \/ Repeat \/ NoDefault \/ RepeatDone
        \/ Filter \/ FilterDone => values' = values /\ inds' = inds
  BY DEF Combine, Exit, ValDone, Pair, PairsDone, Repeat, NoDefault, RepeatDone, Filter, FilterDone
<1>6. QED
  BY <1>2, <1>3, <1>4, <1>5 DEF GenNext

-----------------------------------------------------------------------------
\* gen_inst shows every combination of values in an instruction whose values
\* count, or repeats it.

NoF0 == \A op \in Ops : "f0" \notin cgf.data[op]
Shown(v) == \E k \in DOMAIN instrs : instrs[k].val = v /\ ~SkipVal(instrs[k])
Waiting(v, n) == \E k \in DOMAIN cont : k > n /\ cont[k] = v
ShownInv == NoF0 =>
  /\ pc = "pair" => \A i \in DOMAIN values :
                      i <= scanned => Shown(values[i]) \/ Waiting(values[i], 0)
  /\ pc = "repeat" => \A i \in DOMAIN values : Shown(values[i]) \/ Waiting(values[i], scanned)
  /\ pc \in {"filter", "done"} => \A i \in DOMAIN values : Shown(values[i])

LEMMA NotSkipped ==
  ASSUME cgf \in Cgfs, NoF0, NEW s \in Domain, ~Shared(s), NEW v \in Vals
  PROVE  Instr(s, v).val = v /\ ~SkipVal(Instr(s, v))
<1>1. Instr(s, v).val = v /\ Instr(s, v).op = s
  BY InstrTyped
<1>2. \A op \in Ops : s[op] # "x0" /\ s[op] \in cgf.data[op]
  BY DEF Domain, Shared
<1>3. \A op \in Ops : s[op] # "f0"
  BY <1>2 DEF NoF0
<1>4. ~({"rs1", "rs2"} \subseteq Ops /\ s["rs1"] = s["rs2"])
  BY DEF Shared, AllDifferent
<1>5. QED
  BY <1>1, <1>2, <1>3, <1>4 DEF SkipVal

LEMMA ShownStays ==
  ASSUME TypeOK, GenNext, NEW v, Shown(v)
  PROVE  Shown(v)'
BY GenKeeps, SameGen DEF Shown

\* The instruction that is appended shows its values.
LEMMA ShownNew ==
  ASSUME TypeOK, cgf' = cgf, NoF0, NEW s \in Domain, ~Shared(s), NEW v \in Vals,
         instrs' = Append(instrs, Instr(s, v))
  PROVE  Shown(v)'
<1>1. instrs \in Seq(Instrs) /\ Instr(s, v) \in Instrs /\ cgf \in Cgfs
  BY TypedParts, InstrTyped
<1>2. Instr(s, v).val = v /\ ~SkipVal(Instr(s, v))
  BY <1>1, NotSkipped
<1>3. PICK ins : ins = Instr(s, v)
  OBVIOUS
<1>4. Len(instrs) + 1 \in DOMAIN instrs' /\ instrs'[Len(instrs) + 1] = ins
  BY <1>1, <1>3, Appended
<1>5. ins.val = v /\ ~SkipVal(ins)'
  BY <1>2, <1>3, SameGen
<1>6. QED
  BY <1>4, <1>5 DEF Shown

LEMMA ShownPair ==
  ASSUME TypeOK, DefaultInv, Pair, GenNext, NoF0,
         \A i \in DOMAIN values : i <= scanned => Shown(values[i]) \/ Waiting(values[i], 0)
  PROVE  (\A i \in DOMAIN values : i <= scanned => Shown(values[i]) \/ Waiting(values[i], 0))'
<1>1. /\ values' = values /\ scanned' = scanned + 1 /\ cgf' = cgf /\ scanned \in Nat
      /\ Len(values) \in Nat /\ DOMAIN values = 1..Len(values) /\ cont \in Seq(Vals)
  BY PairIs, Lengths, TypedParts
<1>2. PICK w : w = ValueOf(scanned + 1)
  OBVIOUS
<1>3. w \in Vals
  BY <1>2, PairIs
<1>4. \A v : Waiting(v, 0) => Waiting(v, 0)'
  <2>1. cont' = cont \/ cont' = Append(cont, w)
    BY <1>2, PairIs
  <2>2. DOMAIN cont \subseteq DOMAIN cont' /\ \A k \in DOMAIN cont : cont'[k] = cont[k]
    <3>1. CASE cont' = cont
      BY <3>1
    <3>2. CASE cont' = Append(cont, w)
      <4>1. /\ DOMAIN cont = 1..Len(cont) /\ Len(cont) \in Nat
            /\ DOMAIN cont' = 1..(Len(cont) + 1)
            /\ \A k \in 1..Len(cont) : cont'[k] = cont[k]
        BY <1>1, <1>3, <3>2, Appended
      <4>2. QED
        BY <4>1
    <3>3. QED
      BY <2>1, <3>1, <3>2
  <2>3. QED
    BY <2>2 DEF Waiting
<1>5. Shown(w)' \/ Waiting(w, 0)'
  <2>1. CASE scanned < Len(solutions) /\ Shared(solutions[scanned + 1])
    <3>1. cont' = Append(cont, w)
      BY <1>2, <2>1, PairIs
    <3>2. /\ Len(cont) + 1 \in DOMAIN cont' /\ cont'[Len(cont) + 1] = w
          /\ Len(cont) + 1 > 0
      BY <1>1, <1>3, <3>1, Appended
    <3>3. QED
      BY <3>2 DEF Waiting
  <2>2. CASE scanned < Len(solutions) /\ ~Shared(solutions[scanned + 1])
    <3>1. PICK s \in Domain : ~Shared(s) /\ instrs' = Append(instrs, Instr(s, w))
      BY <1>2, <2>2, PairIs
    <3>2. QED
      BY <1>1, <1>3, <3>1, ShownNew
  <2>3. CASE ~(scanned < Len(solutions))
    <3>1. PICK s \in Domain : ~Shared(s) /\ instrs' = Append(instrs, Instr(s, w))
      BY <1>2, <2>3, PairIs DEF DefaultInv
    <3>2. QED
      BY <1>1, <1>3, <3>1, ShownNew
  <2>4. QED
    BY <2>1, <2>2, <2>3
<1>6. ASSUME NEW i \in DOMAIN values, i <= scanned + 1
      PROVE  Shown(values[i])' \/ Waiting(values[i], 0)'
  <2>1. PICK v : v = values[i]
    OBVIOUS
  <2>2. CASE i <= scanned
    <3>1. Shown(v) \/ Waiting(v, 0)
      BY <2>1, <2>2
    <3>2. Shown(v)' \/ Waiting(v, 0)'
      BY <1>4, <3>1, ShownStays
    <3>3. QED
      BY <1>1, <2>1, <3>2 DEF Shown, Waiting
  <2>3. CASE i = scanned + 1
    <3>1. v = w
      BY <1>1, <1>2, <2>1, <2>3 DEF ValueOf
    <3>2. QED
      BY <1>1, <1>5, <2>1, <3>1 DEF Shown, Waiting
  <2>4. QED
    BY <1>1, <1>6, <2>2, <2>3
<1>7. QED
  BY <1>1, <1>6

LEMMA ShownRepeat ==
  ASSUME TypeOK, DefaultInv, Repeat, GenNext, NoF0,
         \A i \in DOMAIN values : Shown(values[i]) \/ Waiting(values[i], scanned)
  PROVE  (\A i \in DOMAIN values : Shown(values[i]) \/ Waiting(values[i], scanned))'
<1>1. /\ values' = values /\ scanned' = scanned + 1 /\ cont' = cont /\ cgf' = cgf
      /\ scanned \in Nat /\ Len(cont) \in Nat /\ DOMAIN cont = 1..Len(cont)
      /\ default \in Domain /\ ~Shared(default)
      /\ scanned + 1 \in DOMAIN cont /\ cont[scanned + 1] \in Vals
      /\ instrs' = Append(instrs, Instr(default, cont[scanned + 1]))
  BY RepeatIs, Lengths DEF DefaultInv
<1>2. PICK w, s : w = cont[scanned + 1] /\ s = default
  OBVIOUS
<1>3. Shown(w)'
  BY <1>1, <1>2, ShownNew
<1>4. ASSUME NEW v, Waiting(v, scanned)
      PROVE  v = w \/ \E k \in DOMAIN cont : k > scanned + 1 /\ cont[k] = v
  <2>1. PICK k \in DOMAIN cont : k > scanned /\ cont[k] = v
    BY <1>4 DEF Waiting
  <2>2. k = scanned + 1 \/ k > scanned + 1
    BY <1>1, <2>1
  <2>3. QED
    BY <1>2, <2>1, <2>2
<1>5. ASSUME NEW i \in DOMAIN values
      PROVE  (Shown(values[i]) \/ Waiting(values[i], scanned))'
  <2>1. PICK v : v = values[i]
    OBVIOUS
  <2>2. Shown(v) \/ Waiting(v, scanned)
    BY <2>1
  <2>3. Shown(v)' \/ \E k \in DOMAIN cont : k > scanned + 1 /\ cont[k] = v
    BY <1>3, <1>4, <2>2, ShownStays
  <2>4. QED
    BY <1>1, <2>1, <2>3 DEF Shown, Waiting
<1>6. QED
  BY <1>1, <1>5

LEMMA ShownStep ==
  ASSUME TypeOK, PhaseInv, DefaultInv, ShownInv, GenNext
  PROVE  ShownInv'
<1>1. cgf' = cgf /\ NoF0' = NoF0
  BY GenKeeps, SameGroup DEF NoF0
<1> SUFFICES ASSUME NoF0
             PROVE  (/\ pc = "pair" => \A i \in DOMAIN values :
                          i <= scanned => Shown(values[i]) \/ Waiting(values[i], 0)
                     /\ pc = "repeat" => \A i \in DOMAIN values :
                          Shown(values[i]) \/ Waiting(values[i], scanned)
                     /\ pc \in {"filter", "done"} => \A i \in DOMAIN values : Shown(values[i]))'
  BY <1>1 DEF ShownInv
<1>2. CASE Combine
  <2>1. pc' \in {"opcomb", "valcomb", "raised"}
    BY <1>2, CombPhase, TypedParts DEF Combine
  <2>2. QED
    BY <2>1
<1>3. CASE SolveValue \/ TakeGiven \/ SkipValue \/ Exit \/ NoDefault
  <2>1. pc' \in {"valcomb", "exited", "raised"}
    BY <1>3 DEF SolveValue, TakeGiven, SkipValue, Exit, NoDefault, InValcomb, vars
  <2>2. QED
    BY <2>1
<1>4. CASE ValDone
  <2>1. pc' = "pair" /\ scanned' = 0 /\ values' = values
    BY <1>4 DEF ValDone, PhaseInv, genVars
  <2>2. \A i \in DOMAIN values' : ~(i <= scanned')
    BY <2>1, Lengths
  <2>3. QED
    BY <2>1, <2>2
<1>5. CASE Pair
  <2>1. pc = "pair" /\ pc' = "pair"
    BY <1>5, PairIs
  <2>2. QED
    BY <1>5, <2>1, ShownPair DEF ShownInv
<1>6. CASE PairsDone
  <2>1. /\ pc = "pair" /\ pc' = "repeat" /\ scanned' = 0 /\ scanned = Longer
        /\ values' = values /\ cont' = cont /\ instrs' = instrs
    BY <1>6 DEF PairsDone
  <2>2. \A i \in DOMAIN values : Shown(values[i]) \/ Waiting(values[i], 0)
    BY <2>1, Lengths DEF ShownInv
  <2>3. ASSUME NEW i \in DOMAIN values
        PROVE  (Shown(values[i]) \/ Waiting(values[i], scanned))'
    <3>1. PICK v : v = values[i]
      OBVIOUS
    <3>2. Shown(v)' \/ Waiting(v, 0)
      BY <2>2, <3>1, ShownStays
    <3>3. QED
      BY <2>1, <3>1, <3>2 DEF Shown, Waiting
  <2>4. QED
    BY <2>1, <2>3
<1>7. CASE Repeat
  <2>1. pc = "repeat" /\ pc' = "repeat"
    BY <1>7, RepeatIs
  <2>2. QED
    BY <1>7, <2>1, ShownRepeat DEF ShownInv
<1>8. CASE RepeatDone \/ Filter \/ FilterDone
  <2>1. /\ pc' \in {"filter", "done"} /\ values' = values
    BY <1>8, FilterIs DEF RepeatDone, FilterDone
  <2>2. \A i \in DOMAIN values : Shown(values[i])
    <3>1. CASE RepeatDone
      <4>1. pc = "repeat" /\ scanned = Len(cont)
        BY <3>1 DEF RepeatDone
      <4>2. \A k \in DOMAIN cont : ~(k > scanned)
        BY <4>1, Lengths
      <4>3. QED
        BY <4>1, <4>2 DEF ShownInv, Waiting
    <3>2. CASE Filter \/ FilterDone
      BY <3>2 DEF Filter, FilterDone, ShownInv
    <3>3. QED
      BY <1>8, <3>1, <3>2
  <2>3. ASSUME NEW i \in DOMAIN values
        PROVE  Shown(values[i])'
    <3>1. PICK v : v = values[i]
      OBVIOUS
    <3>2. Shown(v)'
      BY <2>2, <3>1, ShownStays
    <3>3. QED
      BY <2>1, <3>1, <3>2 DEF Shown
  <2>4. QED
    BY <2>1, <2>3
<1>9. QED
  BY <1>2, <1>3, <1>4, <1>5, <1>6, <1>7, <1>8 DEF GenNext

-----------------------------------------------------------------------------
\* The filter drops no coverage, and the values of an instruction can be in its
\* registers.

FilterInv ==
  /\ \A i \in DOMAIN final : \E k \in DOMAIN instrs : final[i] = instrs[k]
  /\ pc = "filter" => \A k \in DOMAIN instrs : k <= scanned => Hits(instrs[k]) \subseteq Covered
  /\ pc = "done" => \A k \in DOMAIN instrs : Hits(instrs[k]) \subseteq Covered

LEMMA FilterFilter ==
  ASSUME TypeOK, FilterInv, Filter
  PROVE  FilterInv'
<1>1. /\ pc = "filter" /\ pc' = "filter" /\ scanned' = scanned + 1
      /\ cgf' = cgf /\ instrs' = instrs /\ instrs \in Seq(Instrs) /\ final \in Seq(Instrs)
      /\ scanned \in Nat /\ DOMAIN instrs = 1..Len(instrs)
      /\ scanned + 1 \in DOMAIN instrs
  BY FilterIs, TypedParts, Lengths
<1>2. PICK ins \in Instrs : ins = instrs[scanned + 1]
  BY FilterIs
<1>3. /\ Covered \subseteq Covered'
      /\ Hits(ins) \subseteq Covered'
      /\ \A i \in DOMAIN final' : (i \in DOMAIN final /\ final'[i] = final[i]) \/ final'[i] = ins
  <2>1. \A x : Hits(x)' = Hits(x)
    BY <1>1, SameGen
  <2>2. CASE Hits(ins) \subseteq Covered /\ final' = final
    <3>1. Covered' = Covered
      BY <2>1, <2>2 DEF Covered
    <3>2. QED
      BY <2>2, <3>1
  <2>3. CASE final' = Append(final, ins)
    <3>1. /\ DOMAIN final = 1..Len(final) /\ Len(final) \in Nat
          /\ DOMAIN final' = 1..(Len(final) + 1)
          /\ final'[Len(final) + 1] = ins
          /\ \A i \in 1..Len(final) : final'[i] = final[i]
      BY <1>1, <1>2, <2>3, Appended
    <3>2. Covered' = UNION {Hits(final'[i]) : i \in DOMAIN final'}
      BY <2>1, Zenon DEF Covered
    <3>3. ASSUME NEW h \in Covered PROVE h \in Covered'
      <4>1. PICK i \in DOMAIN final : h \in Hits(final[i])
        BY <3>3, Zenon DEF Covered
      <4>2. i \in DOMAIN final' /\ final'[i] = final[i]
        BY <3>1, <4>1
      <4>3. QED
        BY <3>2, <4>1, <4>2
    <3>4. Hits(ins) \subseteq Covered'
      <4>1. Len(final) + 1 \in DOMAIN final'
        BY <3>1
      <4>2. QED
        BY <3>1, <3>2, <4>1
    <3>5. QED
      BY <3>1, <3>3, <3>4
  <2>4. QED
    BY <1>2, <2>2, <2>3, FilterIs
<1>4. \A i \in DOMAIN final' : \E k \in DOMAIN instrs : final'[i] = instrs[k]
  BY <1>1, <1>2, <1>3 DEF FilterInv
<1>5. ASSUME NEW k \in DOMAIN instrs, k <= scanned + 1
      PROVE  Hits(instrs[k]) \subseteq Covered'
  <2>1. CASE k <= scanned
    BY <1>1, <1>3, <2>1 DEF FilterInv
  <2>2. CASE k = scanned + 1
    BY <1>2, <1>3, <2>2
  <2>3. QED
    BY <1>1, <1>5, <2>1, <2>2
<1>6. \A k \in DOMAIN instrs' : k <= scanned' => Hits(instrs[k])' \subseteq Covered'
  <2> SUFFICES ASSUME NEW k \in DOMAIN instrs, k <= scanned + 1
               PROVE  Hits(instrs[k])' \subseteq Covered'
    BY <1>1
  <2>1. PICK x : x = instrs[k]
    OBVIOUS
  <2>2. Hits(x)' = Hits(x) /\ instrs'[k] = x
    BY <1>1, <2>1, SameGen
  <2>3. Hits(x) \subseteq Covered'
    BY <1>5, <2>1
  <2>4. QED
    BY <1>1, <2>2, <2>3 DEF Hits, SkipVal
<1>7. QED
  BY <1>1, <1>4, <1>6 DEF FilterInv

LEMMA FilterStep ==
  ASSUME TypeOK, FilterInv, GenNext
  PROVE  FilterInv'
<1>1. /\ cgf' = cgf
      /\ DOMAIN instrs \subseteq DOMAIN instrs'
      /\ \A k \in DOMAIN instrs : instrs'[k] = instrs[k]
  BY GenKeeps
<1>2. CASE Filter
  BY <1>2, FilterFilter
<1>3. CASE FilterDone \/ RepeatDone
  <2>1. /\ instrs' = instrs /\ final' = final /\ Ops' = Ops
    BY <1>1, <1>3, SameGroup DEF FilterDone, RepeatDone, genVars
  <2>2. Covered' = Covered /\ \A x : Hits(x)' = Hits(x)
    BY <1>1, <2>1, SameGen DEF Covered
  <2>3. CASE FilterDone
    <3>1. pc = "filter" /\ pc' = "done" /\ scanned = Len(instrs)
      BY <2>3 DEF FilterDone
    <3>2. \A k \in DOMAIN instrs : Hits(instrs[k]) \subseteq Covered
      BY <3>1, Lengths DEF FilterInv
    <3>3. ASSUME NEW k \in DOMAIN instrs PROVE Hits(instrs[k])' \subseteq Covered'
      <4>1. PICK x : x = instrs[k]
        OBVIOUS
      <4>2. Hits(x)' \subseteq Covered'
        BY <2>2, <3>2, <4>1
      <4>3. QED
        BY <2>1, <4>1, <4>2 DEF Hits, SkipVal
    <3>4. QED
      BY <2>1, <3>1, <3>3 DEF FilterInv
  <2>4. CASE RepeatDone
    <3>1. pc' = "filter" /\ scanned' = 0 /\ \A k \in DOMAIN instrs : ~(k <= 0)
      BY <2>4, Lengths DEF RepeatDone
    <3>2. QED
      BY <2>1, <3>1 DEF FilterInv
  <2>5. QED
    BY <1>3, <2>3, <2>4
<1>4. CASE ~(Filter \/ FilterDone \/ RepeatDone)
  <2>1. pc' \notin {"filter", "done"} /\ final' = final
    <3>1. CASE Combine
      BY <3>1, CombPhase, TypedParts DEF Combine, genVars
    <3>2. CASE SolveValue \/ TakeGiven \/ SkipValue \/ Exit \/ ValDone
      BY <3>2 DEF SolveValue, TakeGiven, SkipValue, Exit, ValDone, InValcomb, vars, genVars
    <3>3. CASE Pair \/ Repeat
      BY <3>3, PairIs, RepeatIs
    <3>4. CASE PairsDone \/ NoDefault
      BY <3>4 DEF PairsDone, NoDefault, genVars
    <3>5. QED
      BY <1>4, <3>1, <3>2, <3>3, <3>4 DEF GenNext
  <2>2. QED
    BY <1>1, <2>1 DEF FilterInv
<1>5. QED
  BY <1>2, <1>3, <1>4

Consistent(ins) == \A op, other \in DOMAIN cgf.reads :
  /\ ins.op[op] = "x0" => ins.val[cgf.reads[op]] = 0
  /\ ins.op[op] = ins.op[other] => ins.val[cgf.reads[op]] = ins.val[cgf.reads[other]]
ConsistentInv == \A k \in DOMAIN instrs : Consistent(instrs[k])

LEMMA AdjustedConsistent ==
  ASSUME cgf \in Cgfs, NEW s \in Domain, NEW v \in Vals
  PROVE  Consistent(Instr(s, Adjusted(s, v)))
<1> DEFINE a == Adjusted(s, v)
<1>1. a \in Vals
  BY AdjustedTyped
<1>2. Instr(s, a).op = s /\ Instr(s, a).val = a
  BY <1>1, InstrTyped
<1>3. ASSUME NEW op \in DOMAIN cgf.reads
      PROVE  a[cgf.reads[op]] = IF s[op] = "x0" THEN 0 ELSE v[cgf.reads[FirstWith(s, op)]]
  <2>1. cgf.reads[op] \in cgf.vals
    BY Covergroup
  <2> DEFINE o == CHOOSE o \in DOMAIN cgf.reads : cgf.reads[o] = cgf.reads[op]
  <2>2. o \in DOMAIN cgf.reads /\ cgf.reads[o] = cgf.reads[op]
    OBVIOUS
  <2>3. o = op
    <3> HIDE DEF o
    <3>1. QED
      BY <2>2, Covergroup
  <2>4. a[cgf.reads[op]] = IF s[o] = "x0" THEN 0 ELSE v[cgf.reads[FirstWith(s, o)]]
    BY <2>1 DEF Adjusted
  <2> HIDE DEF o, a
  <2>5. QED
    BY <2>3, <2>4
<1>4. \A op, other \in DOMAIN cgf.reads :
        s[op] = s[other] => FirstWith(s, op) = FirstWith(s, other)
  BY DEF FirstWith
<1> HIDE DEF a
<1>5. \A op, other \in DOMAIN cgf.reads :
        /\ s[op] = "x0" => a[cgf.reads[op]] = 0
        /\ s[op] = s[other] => a[cgf.reads[op]] = a[cgf.reads[other]]
  BY <1>3, <1>4
<1>6. QED
  BY <1>2, <1>5 DEF Consistent, a

LEMMA DistinctConsistent ==
  ASSUME cgf \in Cgfs, NEW s \in Domain, ~Shared(s), NEW v \in Vals
  PROVE  Consistent(Instr(s, v))
<1>1. Instr(s, v).op = s /\ Instr(s, v).val = v
  BY InstrTyped
<1>2. DOMAIN cgf.reads \subseteq Ops
  BY Covergroup
<1>3. \A op, other \in DOMAIN cgf.reads : s[op] # "x0" /\ (s[op] = s[other] => op = other)
  BY <1>2 DEF Shared, AllDifferent
<1>4. QED
  BY <1>1, <1>3 DEF Consistent

LEMMA ConsistentStep ==
  ASSUME TypeOK, DefaultInv, ConsistentInv, GenNext
  PROVE  ConsistentInv'
<1>1. cgf' = cgf /\ cgf \in Cgfs /\ instrs \in Seq(Instrs)
  BY GenKeeps, TypedParts
<1>2. CASE instrs' = instrs
  BY <1>1, <1>2 DEF ConsistentInv, Consistent
<1>3. ASSUME NEW ins \in Instrs, Consistent(ins), instrs' = Append(instrs, ins)
      PROVE  ConsistentInv'
  <2>1. \A k \in DOMAIN instrs' : (k \in DOMAIN instrs /\ instrs'[k] = instrs[k]) \/ instrs'[k] = ins
    <3>1. /\ DOMAIN instrs = 1..Len(instrs) /\ Len(instrs) \in Nat
          /\ DOMAIN instrs' = 1..(Len(instrs) + 1)
          /\ instrs'[Len(instrs) + 1] = ins
          /\ \A i \in 1..Len(instrs) : instrs'[i] = instrs[i]
      BY <1>1, <1>3, Appended
    <3>2. QED
      BY <3>1
  <2>2. ASSUME NEW k \in DOMAIN instrs' PROVE Consistent(instrs[k])'
    <3>1. CASE k \in DOMAIN instrs /\ instrs'[k] = instrs[k]
      BY <1>1, <3>1 DEF ConsistentInv, Consistent
    <3>2. CASE instrs'[k] = ins
      BY <1>1, <1>3, <3>2 DEF Consistent
    <3>3. QED
      BY <2>1, <3>1, <3>2
  <2>3. QED
    BY <2>2 DEF ConsistentInv
<1>4. CASE Pair
  <2>1. PICK ins \in Instrs : Consistent(ins) /\ instrs' = Append(instrs, ins)
    <3>1. CASE scanned < Len(solutions) /\ Shared(solutions[scanned + 1])
      BY <1>1, <1>4, <3>1, PairIs, InstrTyped, AdjustedConsistent
    <3>2. CASE scanned < Len(solutions) /\ ~Shared(solutions[scanned + 1])
      BY <1>1, <1>4, <3>2, PairIs, InstrTyped, DistinctConsistent
    <3>3. CASE ~(scanned < Len(solutions))
      BY <1>1, <1>4, <3>3, PairIs, InstrTyped, DistinctConsistent DEF DefaultInv
    <3>4. QED
      BY <3>1, <3>2, <3>3
  <2>2. QED
    BY <1>3, <2>1
<1>5. CASE Repeat
  BY <1>1, <1>3, <1>5, RepeatIs, DistinctConsistent DEF DefaultInv
<1>6. Combine \/ SolveValue \/ TakeGiven \/ SkipValue \/ Exit \/ ValDone \/ PairsDone
        \/ NoDefault \/ RepeatDone \/ Filter \/ FilterDone => instrs' = instrs
  BY DEF Combine, SolveValue, TakeGiven, SkipValue, Exit, ValDone, PairsDone, NoDefault,
         RepeatDone, Filter, FilterDone, genVars
<1>7. QED
  BY <1>2, <1>4, <1>5, <1>6 DEF GenNext

-----------------------------------------------------------------------------
\* What the invariants say about the instructions that are kept.

LEMMA HitsAre ==
  ASSUME NEW ins, NEW op, NEW r, NEW i
  PROVE  /\ <<"op", op, r>> \in Hits(ins) <=> op \in Ops /\ ins.op[op] = r /\ r \in cgf.cover[op]
         /\ <<"comb", i>> \in Hits(ins) <=> i \in DOMAIN cgf.comb /\ ins.op \in cgf.comb[i].sat
         /\ <<"val", i>> \in Hits(ins)
              <=> i \in DOMAIN cgf.val /\ ins.val \in cgf.val[i].sat /\ ~SkipVal(ins)
<1>1. <<"op", op, r>> \in Hits(ins) <=> op \in Ops /\ ins.op[op] = r /\ r \in cgf.cover[op]
  BY DEF Hits
<1>2. <<"comb", i>> \in Hits(ins) <=> i \in DOMAIN cgf.comb /\ ins.op \in cgf.comb[i].sat
  BY DEF Hits
<1>3. <<"val", i>> \in Hits(ins)
         <=> i \in DOMAIN cgf.val /\ ins.val \in cgf.val[i].sat /\ ~SkipVal(ins)
  BY DEF Hits
<1>4. QED
  BY <1>1, <1>2, <1>3

LEMMA KeptHits ==
  ASSUME FilterInv, pc = "done", NEW k \in DOMAIN instrs, NEW h \in Hits(instrs[k])
  PROVE  \E ins \in Kept : h \in Hits(ins)
<1>1. h \in Covered
  BY DEF FilterInv
<1>2. PICK i \in DOMAIN final : h \in Hits(final[i])
  BY <1>1, Zenon DEF Covered
<1>3. QED
  BY <1>2 DEF Kept

\* The combination of an instruction that is made is one of gen_inst's.
LEMMA FoundPaired ==
  ASSUME TypeOK, PairedInv, pc = "done", NEW s \in Found
  PROVE  \E k \in DOMAIN instrs : instrs[k].op = s
<1>1. PICK i \in DOMAIN solutions : solutions[i] = s
  BY DEF Found
<1>2. i <= Len(solutions)
  BY <1>1, Lengths
<1>3. QED
  BY <1>1, <1>2 DEF PairedInv, Paired

LEMMA OperandsSuffice ==
  ASSUME TypeOK, CombDoneInv, RegistersKept, PairedInv, FilterInv
  PROVE  OperandsCovered
<1> SUFFICES ASSUME pc = "done", ~warned, NEW op \in Ops, NEW r \in cgf.cover[op]
             PROVE  \E ins \in Kept : ins.op[op] = r
  BY DEF OperandsCovered
<1>1. PICK s \in Found : s[op] = r
  BY DEF CombDoneInv, RegistersKept
<1>2. PICK k \in DOMAIN instrs : instrs[k].op = s
  BY <1>1, FoundPaired
<1>3. <<"op", op, r>> \in Hits(instrs[k])
  BY <1>1, <1>2, HitsAre
<1>4. PICK ins \in Kept : <<"op", op, r>> \in Hits(ins)
  BY <1>3, KeptHits
<1>5. ins.op[op] = r
  BY <1>4, HitsAre
<1>6. QED
  BY <1>5

LEMMA CombSuffices ==
  ASSUME TypeOK, RichInv, PairedInv, FilterInv
  PROVE  CombCovered
<1> SUFFICES ASSUME pc = "done", ~random, AllRich, NEW i \in DOMAIN cgf.comb
             PROVE  \E ins \in Kept : ins.op \in cgf.comb[i].sat
  BY DEF CombCovered, AllRich
<1>1. PICK s \in Found : s \in cgf.comb[i].sat
  BY DEF RichInv, NoFailure, IsCovered
<1>2. PICK k \in DOMAIN instrs : instrs[k].op = s
  BY <1>1, FoundPaired
<1>3. <<"comb", i>> \in Hits(instrs[k])
  BY <1>1, <1>2, HitsAre
<1>4. PICK ins \in Kept : <<"comb", i>> \in Hits(ins)
  BY <1>3, KeptHits
<1>5. QED
  BY <1>4, HitsAre

LEMMA ValuesSuffice ==
  ASSUME TypeOK, PhaseInv, ValInv, ShownInv, FilterInv
  PROVE  ValuesCovered
<1> SUFFICES ASSUME pc = "done", ~random, NoF0, NEW i \in DOMAIN cgf.val, Settled(i)
             PROVE  \/ cgf.val[i].how = "partial"
                    \/ (cgf.val[i].how = "solve" /\ Solvable(cgf.val[i]) = {})
                    \/ \E ins \in Kept : ins.val \in cgf.val[i].sat /\ ~SkipVal(ins)
  BY DEF ValuesCovered, NoF0, PhaseInv, ValInv
<1>1. ASSUME NEW n \in DOMAIN values, values[n] \in cgf.val[i].sat
      PROVE  \E ins \in Kept : ins.val \in cgf.val[i].sat /\ ~SkipVal(ins)
  <2>1. PICK k \in DOMAIN instrs : instrs[k].val = values[n] /\ ~SkipVal(instrs[k])
    BY DEF ShownInv, Shown
  <2>2. <<"val", i>> \in Hits(instrs[k])
    BY <1>1, <2>1, HitsAre
  <2>3. PICK ins \in Kept : <<"val", i>> \in Hits(ins)
    BY <2>2, KeptHits
  <2>4. QED
    BY <2>3, HitsAre
<1>2. QED
  BY <1>1 DEF Settled

LEMMA ConsistentSuffices ==
  ASSUME FilterInv, ConsistentInv
  PROVE  ValuesConsistent
<1> SUFFICES ASSUME NEW ins \in Kept PROVE Consistent(ins)
  BY DEF ValuesConsistent, Consistent
<1>1. PICK k \in DOMAIN instrs : ins = instrs[k]
  BY DEF FilterInv, Kept
<1>2. QED
  BY <1>1 DEF ConsistentInv

-----------------------------------------------------------------------------
\* The invariant all properties follow from.
GenInv ==
  /\ TypeOK
  /\ RegistersKept /\ CombDoneInv /\ RichInv
  /\ PhaseInv /\ DefaultInv
  /\ PairedInv /\ ValInv /\ ShownInv
  /\ FilterInv /\ ConsistentInv

LEMMA GenInvInit == GenInit => GenInv
<1> SUFFICES ASSUME GenInit PROVE GenInv
  OBVIOUS
<1>1. TypeOK /\ RegistersKept /\ RichInv
  BY TypeInit, RegistersKeptInit, RichInit DEF GenInit
<1>2. pc = "opcomb"
  BY DEF GenInit, CombInit
<1>3. instrs = <<>> /\ final = <<>> /\ scanned = 0 /\ inds = DOMAIN cgf.val
  BY DEF GenInit
<1>4. DefaultInv
  BY DEF GenInit, DefaultInv, Shared
<1>5. CombDoneInv /\ PhaseInv /\ PairedInv /\ ShownInv
  BY <1>2, <1>3 DEF CombDoneInv, PhaseInv, PairedInv, ShownInv
<1>6. ValInv
  BY <1>3 DEF ValInv
<1>7. FilterInv /\ ConsistentInv
  BY <1>2, <1>3 DEF FilterInv, ConsistentInv
<1>8. QED
  BY <1>1, <1>4, <1>5, <1>6, <1>7 DEF GenInv

LEMMA GenInvStep == GenInv /\ GenNext => GenInv'
<1> SUFFICES ASSUME GenInv, GenNext PROVE GenInv'
  OBVIOUS
<1>1. TypeOK' /\ RegistersKept' /\ CombDoneInv' /\ RichInv'
  BY TypeStep, RegistersGenStep, CombDoneStep, RichGenStep DEF GenInv
<1>2. PhaseInv' /\ DefaultInv' /\ PairedInv' /\ ValInv'
  BY PhaseStep, DefaultStep, PairedStep, ValStep DEF GenInv
<1>3. ShownInv' /\ FilterInv' /\ ConsistentInv'
  BY ShownStep, FilterStep, ConsistentStep DEF GenInv
<1>4. QED
  BY <1>1, <1>2, <1>3 DEF GenInv

LEMMA GenInvStutter == GenInv /\ UNCHANGED allVars => GenInv'
<1> SUFFICES ASSUME GenInv, UNCHANGED allVars PROVE GenInv'
  OBVIOUS
<1>1. /\ cgf' = cgf /\ pc' = pc /\ UNCHANGED combVars /\ inds' = inds /\ values' = values
      /\ default' = default /\ cont' = cont /\ instrs' = instrs
      /\ scanned' = scanned /\ final' = final
  BY DEF allVars, vars, genVars
<1>2. /\ op_conds' = op_conds /\ op_comb' = op_comb /\ solutions' = solutions
      /\ warned' = warned
  BY <1>1 DEF combVars
<1>3. /\ Ops' = Ops /\ Domain' = Domain /\ Covering' = Covering /\ random' = random
      /\ Found' = Found /\ \A ins : Hits(ins)' = Hits(ins) /\ SkipVal(ins)' = SkipVal(ins)
  BY <1>1, <1>2, SameGroup, SameGen DEF Found
<1>4. TypeOK'
  <2>1. CombTypeOK'
    BY <1>1, TypedParts, UnchangedComb DEF GenInv
  <2>2. QED
    BY <1>1, <2>1, TypedParts, GenTypeSame DEF GenInv
<1>5. RegistersKept' /\ CombDoneInv'
  BY <1>1, <1>2, <1>3 DEF GenInv, RegistersKept, CombDoneInv
<1>6. RichInv'
  <2>1. AllRich' = AllRich /\ \A i : IsCovered(i)' = IsCovered(i)
    BY <1>1, <1>3, SameGroup DEF AllRich, IsCovered
  <2>2. \A i, m : Enough(i, m)' = Enough(i, m)
    <3>1. \A i : Alive(i)' = Alive(i)
      BY <1>1, <1>2, <1>3 DEF Alive
    <3>2. \A F : Disjoint(F)' = Disjoint(F)
      BY <1>3 DEF Disjoint
    <3>3. QED
      BY <1>3, <3>1, <3>2, Zenon DEF Enough
  <2>3. NoFailure => NoFailure'
    BY <1>1, <1>2, <1>3, <2>1, <2>2 DEF NoFailure
  <2>4. QED
    BY <1>1, <1>3, <2>1, <2>3 DEF GenInv, RichInv
<1>7. PhaseInv' /\ DefaultInv'
  <2>1. \A s : Shared(s)' = Shared(s)
    BY <1>3, Zenon DEF Shared, AllDifferent
  <2>2. QED
    BY <1>1, <1>3, <2>1 DEF GenInv, PhaseInv, DefaultInv
<1>8. PairedInv' /\ ShownInv'
  BY <1>1, <1>2, <1>3 DEF GenInv, PairedInv, Paired, ShownInv, NoF0, Shown, Waiting
<1>9. ValInv'
  <2>1. \A i : Settled(i) => Settled(i)'
    BY <1>1, SettledStays
  <2>2. QED
    BY <1>1, <1>3, <2>1 DEF GenInv, ValInv
<1>10. FilterInv' /\ ConsistentInv'
  <2>1. Covered' = Covered
    BY <1>1, <1>3 DEF Covered
  <2>2. QED
    BY <1>1, <1>3, <2>1 DEF GenInv, FilterInv, ConsistentInv, Consistent, Hits, SkipVal
<1>11. QED
  BY <1>4, <1>5, <1>6, <1>7, <1>8, <1>9, <1>10 DEF GenInv

LEMMA GenInvAlways == GenSpec => []GenInv
<1>1. GenInv /\ [GenNext]_allVars => GenInv'
  BY GenInvStep, GenInvStutter
<1>2. QED
  BY <1>1, GenInvInit, PTL DEF GenSpec

\* All variables of opcomb, valcomb and gen_inst hold what the code can store.
THEOREM TypeCorrect == GenSpec => []TypeOK
<1>1. GenInv => TypeOK
  BY DEF GenInv
<1>2. QED
  BY <1>1, GenInvAlways, PTL

\* opcomb: no register to cover is lost, whatever the solver finds.
THEOREM NoRegisterLost == GenSpec => []RegistersKept
<1>1. GenInv => RegistersKept
  BY DEF GenInv
<1>2. QED
  BY <1>1, GenInvAlways, PTL

\* opcomb: no condition is dropped if all have more solutions within the lists
\* than the others can use up.
THEOREM RichNotDropped == GenSpec => []RichCovered
<1>1. GenInv => RichCovered
  BY RichSuffices, TypedParts DEF GenInv
<1>2. QED
  BY <1>1, GenInvAlways, PTL

\* gen_inst: without a warning of opcomb, each register to cover is in a final
\* instruction, as the operand it is to cover.
THEOREM EveryOperandCovered == GenSpec => []OperandsCovered
<1>1. GenInv => OperandsCovered
  BY OperandsSuffice DEF GenInv
<1>2. QED
  BY <1>1, GenInvAlways, PTL

\* gen_inst: a final instruction meets each rich condition on operands.
THEOREM EveryRichCombCovered == GenSpec => []CombCovered
<1>1. GenInv => CombCovered
  BY CombSuffices DEF GenInv
<1>2. QED
  BY <1>1, GenInvAlways, PTL

\* valcomb and gen_inst: a final instruction whose coverage counts meets each
\* condition on values that can be met.
THEOREM EveryValueCovered == GenSpec => []ValuesCovered
<1>1. GenInv => ValuesCovered
  BY ValuesSuffice DEF GenInv
<1>2. QED
  BY <1>1, GenInvAlways, PTL

\* gen_inst: the values of an instruction can be in its registers.
THEOREM EveryInstrConsistent == GenSpec => []ValuesConsistent
<1>1. GenInv => ValuesConsistent
  BY ConsistentSuffices DEF GenInv
<1>2. QED
  BY <1>1, GenInvAlways, PTL

=============================================================================
