--------------------------- MODULE SigLayoutProofs ---------------------------
(***************************************************************************)
(* Proofs about register allocation and about the layout of the test files *)
(* that is built on it.                                                    *)
(*                                                                         *)
(* RegAlloc: every property follows from the inductive invariant IInv, for *)
(* every register file, instruction format, list of instructions and       *)
(* stride.  Its heart is counting: an instruction takes at most one        *)
(* register per operand, per high half and per earlier pass out of a pool  *)
(* that was above the threshold, so registers always remain when a window  *)
(* is closed; and the pool has, at that moment, none of the registers of   *)
(* the window's instructions.                                              *)
(*                                                                         *)
(* SigLayout: files, signature and data, for every list of instructions    *)
(* that these passes have served.                                          *)
(***************************************************************************)
EXTENDS SigLayout, FiniteSetTheorems, WellFoundedInduction, TLAPS

-----------------------------------------------------------------------------
\* The first register of a pool is in the pool: available_reg[0] (and [1])
\* of a list that is long enough.
LEMMA LowestIn ==
  ASSUME NEW S \in SUBSET Nat, S # {}
  PROVE  Lowest(S) \in S
<1>1. OpToRel(<, Nat) = {ss \in Nat \X Nat : ss[1] < ss[2]}
  BY Zenon DEF OpToRel
<1> DEFINE R == {ss \in Nat \X Nat : ss[1] < ss[2]}
<1>2. IsWellFoundedOn(R, Nat)
  BY <1>1, NatLessThanWellFounded, Zenon
<1>3. PICK x \in S : \A y \in S : ~ (<<y, x>> \in R)
  <2> HIDE DEF R
  <2>1. QED
    BY <1>2, WFMin
<1>4. ASSUME NEW y \in S, y < x
      PROVE  FALSE
  <2>1. <<y, x>> \in Nat \X Nat /\ <<y, x>>[1] < <<y, x>>[2]
    BY <1>4
  <2>2. <<y, x>> \in R
    BY <2>1
  <2>3. QED
    BY <2>2, <1>3
<1>5. \A y \in S : x <= y
  BY <1>4
<1>6. QED
  BY <1>5 DEF Lowest

\* The registers of an instruction: a finite set of at most as many as the
\* format has operands and the profile has pairs.
LEMMA OperandsBounded ==
  ASSUME instr \in Seq([OpVars -> Nat]), NEW i \in 1..Len(instr)
  PROVE  /\ IsFiniteSet(Operands(i))
         /\ Cardinality(Operands(i)) <= Cardinality(OpVars) + Cardinality(Paired)
         /\ Operands(i) \subseteq Nat
<1>1. instr[i] \in [OpVars -> Nat]
  OBVIOUS
<1>2. IsFiniteSet(OpVars) /\ IsFiniteSet(Paired)
  <2>1. IsFiniteSet((({} \cup {"rs1"}) \cup {"rs2"}) \cup {"rd"})
    BY FS_EmptySet, FS_AddElement
  <2>2. OpVars \subseteq {"rs1", "rs2", "rd"} /\ Paired \subseteq {"rs1", "rs2", "rd"}
    BY OperandAssumption
  <2>3. ({} \cup {"rs1"}) \cup {"rs2"} \cup {"rd"} = {"rs1", "rs2", "rd"}
    OBVIOUS
  <2>4. QED
    BY <2>1, <2>2, <2>3, FS_Subset
<1>3. IsFiniteSet(Lows(i)) /\ Cardinality(Lows(i)) <= Cardinality(OpVars)
  <2>1. instr[i] \in Surjection(OpVars, Lows(i))
    BY <1>1 DEF Surjection, Lows
  <2>2. QED
    BY <2>1, <1>2, FS_Surjection
<1>4. IsFiniteSet(Highs(i)) /\ Cardinality(Highs(i)) <= Cardinality(Paired)
  <2> DEFINE f == [v \in Paired |-> instr[i][v] + 1]
  <2>1. f \in Surjection(Paired, Highs(i))
    BY DEF Surjection, Highs
  <2> HIDE DEF f
  <2>2. QED
    BY <2>1, <1>2, FS_Surjection
<1>5. /\ Cardinality(Lows(i)) \in Nat /\ Cardinality(Highs(i)) \in Nat
      /\ Cardinality(Lows(i) \cap Highs(i)) \in Nat
      /\ Cardinality(OpVars) \in Nat /\ Cardinality(Paired) \in Nat
  BY <1>2, <1>3, <1>4, FS_CardinalityType, FS_Intersection
<1>6. /\ IsFiniteSet(Operands(i))
      /\ Cardinality(Operands(i)) = Cardinality(Lows(i)) + Cardinality(Highs(i))
                                      - Cardinality(Lows(i) \cap Highs(i))
  BY <1>3, <1>4, FS_Union DEF Operands
<1>7. Lows(i) \subseteq Nat
  BY <1>1 DEF Lows
<1>8. Highs(i) \subseteq Nat
  <2>1. \A v \in Paired : instr[i][v] \in Nat
    BY <1>1, OperandAssumption
  <2>2. QED
    BY <2>1 DEF Highs
<1>9. QED
  BY <1>3, <1>4, <1>5, <1>6, <1>7, <1>8 DEF Operands

\* A pass gives an instruction at most one register.
LEMMA GivenBounded ==
  ASSUME NEW f, NEW i
  PROVE  IsFiniteSet(Given(f, i)) /\ Cardinality(Given(f, i)) <= 1
<1>1. CASE i \in DOMAIN f
  <2>1. Given(f, i) = {f[i]}
    BY <1>1 DEF Given
  <2>2. IsFiniteSet({f[i]}) /\ Cardinality({f[i]}) = 1
    BY FS_Singleton, Zenon
  <2>3. QED
    BY <2>1, <2>2
<1>2. CASE i \notin DOMAIN f
  <2>1. Given(f, i) = {}
    BY <1>2 DEF Given
  <2>2. QED
    BY <2>1, FS_EmptySet
<1>3. QED
  BY <1>1, <1>2

\* Taking T out of S leaves at least |S| - |T| elements.
LEMMA DifferenceBound ==
  ASSUME NEW S, NEW T, IsFiniteSet(S), IsFiniteSet(T)
  PROVE  /\ IsFiniteSet(S \ T)
         /\ Cardinality(S \ T) >= Cardinality(S) - Cardinality(T)
         /\ Cardinality(S \ T) \in Nat
<1>1. S \cap T \in SUBSET T
  OBVIOUS
<1>2. Cardinality(S \cap T) <= Cardinality(T) /\ IsFiniteSet(S \cap T)
  BY <1>1, FS_Subset
<1>3. Cardinality(S) \in Nat /\ Cardinality(T) \in Nat /\ Cardinality(S \cap T) \in Nat
  BY <1>2, FS_CardinalityType
<1>4. /\ IsFiniteSet(S \ T)
      /\ Cardinality(S \ T) = Cardinality(S) - Cardinality(S \cap T)
  BY FS_Difference
<1>5. Cardinality(S \ T) \in Nat
  BY <1>4, FS_CardinalityType
<1>6. QED
  BY <1>2, <1>3, <1>4, <1>5

\* The union of two finite sets has at most as many elements as both together.
LEMMA UnionBound ==
  ASSUME NEW S, NEW T, IsFiniteSet(S), IsFiniteSet(T)
  PROVE  /\ IsFiniteSet(S \cup T)
         /\ Cardinality(S \cup T) <= Cardinality(S) + Cardinality(T)
         /\ Cardinality(S \cup T) \in Nat
<1>1. Cardinality(S \cap T) \in Nat /\ Cardinality(S) \in Nat /\ Cardinality(T) \in Nat
  BY FS_Intersection, FS_CardinalityType
<1>2. /\ IsFiniteSet(S \cup T)
      /\ Cardinality(S \cup T) = Cardinality(S) + Cardinality(T) - Cardinality(S \cap T)
  BY FS_Union
<1>3. Cardinality(S \cup T) \in Nat
  BY <1>2, FS_CardinalityType
<1>4. QED
  BY <1>1, <1>2, <1>3

-----------------------------------------------------------------------------
\* Offsets are natural numbers, wrapped or not.
LEMMA WrapType ==
  ASSUME NEW k \in Nat, NEW stride \in Nat \ {0}, NEW sz \in Nat
  PROVE  Wrap(k, stride, sz) \in Nat
<1>1. CASE sz = 0
  BY <1>1 DEF Wrap
<1>2. CASE sz # 0
  <2>1. sz * stride \in Nat \ {0}
    BY <1>2
  <2>2. OffsetLimit \div (sz * stride) \in Nat
    BY <2>1, StrideAssumption
  <2> DEFINE P == (OffsetLimit \div (sz * stride)) + 1
  <2>3. P \in Nat \ {0}
    BY <2>2
  <2> HIDE DEF P
  <2>4. k % P \in Nat
    BY <2>3
  <2>5. QED
    BY <1>2, <2>4 DEF Wrap, P
<1>3. QED
  BY <1>1, <1>2

\* g serves the first m instructions: the first len as f does, the others with r.
Served(g, f, len, m, r) ==
  /\ g \in [1..m -> Regs]
  /\ \A i \in 1..len : g[i] = f[i]
  /\ \A i \in (len + 1)..m : g[i] = r

\* Closing a window at instruction m serves exactly the instructions that
\* follow the len served ones.
LEMMA ExtendIs ==
  ASSUME NEW len \in Nat, NEW m \in Nat, len <= m,
         NEW f \in [1..len -> Regs], NEW r \in Regs,
         NEW W, W = Without(f, len + 1, m), NEW g, g = Extend(f, W, r)
  PROVE  /\ W = (len + 1)..m
         /\ Cardinality(W) = m - len
         /\ Served(g, f, len, m, r)
<1>1. W = (len + 1)..m
  BY DEF Without
<1>2. Cardinality((len + 1)..m) = m - len
  <2>1. len + 1 \in Int /\ m \in Int
    OBVIOUS
  <2>2. Cardinality((len + 1)..m) = IF len + 1 > m THEN 0 ELSE m - (len + 1) + 1
    BY <2>1, FS_Interval
  <2>3. QED
    BY <2>2
<1>3. DOMAIN f \cup W = 1..m
  BY <1>1
<1>4. g = [i \in 1..m |-> IF i \in W THEN r ELSE f[i]]
  BY <1>3 DEF Extend
<1>5. g \in [1..m -> Regs]
  BY <1>1, <1>4
<1>6. (\A i \in 1..len : g[i] = f[i]) /\ (\A i \in (len + 1)..m : g[i] = r)
  BY <1>1, <1>4
<1>7. QED
  BY <1>1, <1>2, <1>5, <1>6 DEF Served

\* The offsets of a window extend those of the instructions before it.
LEMMA ExtendOffsetsIs ==
  ASSUME NEW len \in Nat, NEW m \in Nat, len <= m,
         NEW f \in [1..len -> Nat], NEW stride \in Nat \ {0}, NEW sz \in Nat
  PROVE  ExtendOffsets(f, (len + 1)..m, stride, sz) \in [1..m -> Nat]
<1> DEFINE W == (len + 1)..m
<1>1. \A i \in W : Cardinality({j \in W : j < i}) \in Nat
  <2>1. IsFiniteSet(W)
    BY FS_Interval
  <2>2. TAKE i \in W
  <2>3. {j \in W : j < i} \in SUBSET W
    OBVIOUS
  <2>4. QED
    BY <2>1, <2>3, FS_Subset, FS_CardinalityType
<1>2. \A i \in W : Wrap(Cardinality({j \in W : j < i}), stride, sz) \in Nat
  BY <1>1, WrapType
<1>3. DOMAIN f \cup W = 1..m
  OBVIOUS
<1>4. QED
  BY <1>2, <1>3 DEF ExtendOffsets

-----------------------------------------------------------------------------
\* The thresholds and the register file are finite quantities.
LEMMA Bounds ==
  /\ IsFiniteSet(Regs) /\ Regs \subseteq Nat
  /\ Cardinality(OpVars) \in Nat /\ Cardinality(Paired) \in Nat
  /\ Cardinality(Regs) > SmallPool /\ Cardinality(Regs) > SmallValPool
  /\ SmallPool \in Nat /\ SmallValPool \in Nat
  /\ HasFlag \in BOOLEAN
<1>1. IsFiniteSet({"rs1", "rs2", "rd"})
  <2>1. IsFiniteSet((({} \cup {"rs1"}) \cup {"rs2"}) \cup {"rd"})
    BY FS_EmptySet, FS_AddElement
  <2>2. ({} \cup {"rs1"}) \cup {"rs2"} \cup {"rd"} = {"rs1", "rs2", "rd"}
    OBVIOUS
  <2>3. QED
    BY <2>1, <2>2
<1>2. OpVars \subseteq {"rs1", "rs2", "rd"} /\ Paired \subseteq {"rs1", "rs2", "rd"}
  BY OperandAssumption
<1>3. Cardinality(OpVars) \in Nat /\ Cardinality(Paired) \in Nat
  BY <1>1, <1>2, FS_Subset, FS_CardinalityType
<1>4. Cardinality(Regs) \in Nat
  BY RegsAssumption, FS_CardinalityType
<1>5. QED
  BY <1>3, <1>4, RegsAssumption DEF SmallPool, SmallValPool, HasFlag

\* What a pass takes out of the pool for one instruction, at most.
LEMMA TakenBounded ==
  ASSUME TypeOK, NEW i \in 1..Len(instr), NEW f, NEW g
  PROVE  LET T == Operands(i) \cup Given(f, i) \cup Given(g, i)
         IN  /\ IsFiniteSet(T)
             /\ Cardinality(T) <= Cardinality(OpVars) + Cardinality(Paired) + 2
             /\ Cardinality(T) \in Nat
<1>1. instr \in Seq([OpVars -> Nat])
  BY OperandAssumption DEF TypeOK
<1>2. /\ IsFiniteSet(Operands(i))
      /\ Cardinality(Operands(i)) <= Cardinality(OpVars) + Cardinality(Paired)
  BY <1>1, OperandsBounded
<1>3. /\ IsFiniteSet(Given(f, i)) /\ Cardinality(Given(f, i)) <= 1
      /\ IsFiniteSet(Given(g, i)) /\ Cardinality(Given(g, i)) <= 1
  BY GivenBounded
<1>4. /\ Cardinality(Operands(i)) \in Nat
      /\ Cardinality(Given(f, i)) \in Nat /\ Cardinality(Given(g, i)) \in Nat
  BY <1>2, <1>3, FS_CardinalityType
<1>5. /\ IsFiniteSet(Operands(i) \cup Given(f, i))
      /\ Cardinality(Operands(i) \cup Given(f, i))
            <= Cardinality(Operands(i)) + Cardinality(Given(f, i))
      /\ Cardinality(Operands(i) \cup Given(f, i)) \in Nat
  BY <1>2, <1>3, UnionBound
<1>6. LET T == (Operands(i) \cup Given(f, i)) \cup Given(g, i)
      IN  /\ IsFiniteSet(T)
          /\ Cardinality(T) <= Cardinality(Operands(i) \cup Given(f, i))
                                 + Cardinality(Given(g, i))
          /\ Cardinality(T) \in Nat
  BY <1>3, <1>5, UnionBound
<1>7. QED
  BY <1>2, <1>3, <1>4, <1>5, <1>6, Bounds

\* Whatever a pass leaves of its pool is finite and short by no more than it took.
LEMMA LeftBound ==
  ASSUME TypeOK, NEW L \in SUBSET avail, NEW T,
         IsFiniteSet(T), Cardinality(T) \in Nat,
         Cardinality(T) <= Cardinality(OpVars) + Cardinality(Paired) + 2,
         avail \ T \subseteq L
  PROVE  /\ L \in SUBSET Regs /\ L \in SUBSET Nat /\ IsFiniteSet(L)
         /\ Cardinality(L) \in Nat
         /\ Cardinality(avail) > SmallPool => L # {}
         /\ Cardinality(avail) > SmallValPool => Cardinality(L) >= 2
<1>1. IsFiniteSet(avail) /\ IsFiniteSet(L) /\ avail \subseteq Regs
  BY FS_Subset, Bounds DEF TypeOK
<1>2. Cardinality(avail) \in Nat /\ Cardinality(L) \in Nat
  BY <1>1, FS_CardinalityType
<1>3. /\ Cardinality(avail \ T) \in Nat
      /\ Cardinality(avail \ T) >= Cardinality(avail) - Cardinality(T)
  BY <1>1, DifferenceBound
<1>4. Cardinality(avail \ T) <= Cardinality(L)
  BY <1>1, FS_Subset
<1>5. L = {} => Cardinality(L) = 0
  BY FS_EmptySet
<1>6. QED
  BY <1>1, <1>2, <1>3, <1>4, <1>5, Bounds DEF SmallPool, SmallValPool

\* The registers left by swreg avoid every register of the instruction.
LEMMA SwregLeftIs ==
  ASSUME TypeOK, PoolInv, pass = "swreg", count < Len(instr)
  PROVE  LET L == SwregLeft(count + 1)
         IN  /\ L \in SUBSET Regs /\ L \in SUBSET Nat /\ L \in SUBSET avail
             /\ Cardinality(L) \in Nat /\ L # {}
             /\ L \cap Operands(count + 1) = {}
<1> DEFINE i == count + 1
           T == Operands(i) \cup Given(testreg, i) \cup Given(testreg, i)
<1>1. i \in 1..Len(instr)
  BY OperandAssumption DEF TypeOK
<1> HIDE DEF i
<1>2. /\ IsFiniteSet(T) /\ Cardinality(T) \in Nat
      /\ Cardinality(T) <= Cardinality(OpVars) + Cardinality(Paired) + 2
  BY <1>1, TakenBounded
<1>3. SwregLeft(i) = avail \ T
  BY DEF SwregLeft
<1>4. Cardinality(avail) > SmallPool
  BY DEF PoolInv
<1> HIDE DEF T
<1>5. /\ SwregLeft(i) \in SUBSET Regs /\ SwregLeft(i) \in SUBSET Nat
      /\ Cardinality(SwregLeft(i)) \in Nat /\ SwregLeft(i) # {}
  BY <1>2, <1>3, <1>4, LeftBound
<1>6. QED
  BY <1>3, <1>5 DEF T, i

\* TakeOperand removes the low register of the operand, and nothing that is
\* not a register of the instruction.
LEMMA TakeOperandIs ==
  ASSUME NEW S, NEW i, NEW v
  PROVE  /\ TakeOperand(S, i, v) \subseteq S
         /\ v \in OpVars => instr[i][v] \notin TakeOperand(S, i, v)
         /\ S \ Operands(i) \subseteq TakeOperand(S, i, v)
<1>1. v \in OpVars => instr[i][v] \in Operands(i)
  BY DEF Operands, Lows
<1>2. v \in Paired => instr[i][v] + 1 \in Operands(i)
  BY DEF Operands, Highs
<1>3. QED
  BY <1>1, <1>2 DEF TakeOperand

\* The registers left by testreg avoid the low registers and the pointer.
LEMMA TestregLeftIs ==
  ASSUME TypeOK, PoolInv, pass = "testreg", count < Len(instr)
  PROVE  LET L == TestregLeft(count + 1)
         IN  /\ L \in SUBSET Regs /\ L \in SUBSET Nat /\ L \in SUBSET avail
             /\ Cardinality(L) \in Nat /\ L # {}
             /\ L \cap (Lows(count + 1) \cup Given(swreg, count + 1)) = {}
<1> DEFINE i == count + 1
           T == Operands(i) \cup Given(swreg, i) \cup Given(swreg, i)
           A == TakeOperand(avail, i, "rs1")
           B == TakeOperand(A, i, "rs2")
           C == TakeOperand(B, i, "rd")
<1>1. i \in 1..Len(instr)
  BY OperandAssumption DEF TypeOK
<1> HIDE DEF i
<1>2. /\ IsFiniteSet(T) /\ Cardinality(T) \in Nat
      /\ Cardinality(T) <= Cardinality(OpVars) + Cardinality(Paired) + 2
  BY <1>1, TakenBounded
<1>3. TestregLeft(i) = C \ Given(swreg, i)
  BY DEF TestregLeft
<1>4. C \subseteq B /\ B \subseteq A /\ A \subseteq avail
  BY TakeOperandIs
<1>5. avail \ Operands(i) \subseteq C
  <2>1. avail \ Operands(i) \subseteq A
    BY TakeOperandIs
  <2>2. A \ Operands(i) \subseteq B
    BY TakeOperandIs
  <2>3. B \ Operands(i) \subseteq C
    BY TakeOperandIs
  <2> HIDE DEF A, B, C
  <2>4. QED
    BY <2>1, <2>2, <2>3
<1>6. Lows(i) \cap C = {}
  <2>1. "rs1" \in OpVars => instr[i]["rs1"] \notin A
    BY TakeOperandIs
  <2>2. "rs2" \in OpVars => instr[i]["rs2"] \notin B
    BY TakeOperandIs
  <2>3. "rd" \in OpVars => instr[i]["rd"] \notin C
    BY TakeOperandIs
  <2> HIDE DEF A, B, C
  <2>4. QED
    BY <1>4, <2>1, <2>2, <2>3, OperandAssumption DEF Lows
<1>7. Cardinality(avail) > SmallPool
  BY DEF PoolInv
<1> HIDE DEF A, B, C
<1>8. TestregLeft(i) \in SUBSET avail /\ avail \ T \subseteq TestregLeft(i)
  BY <1>3, <1>4, <1>5
<1> HIDE DEF T
<1>9. /\ TestregLeft(i) \in SUBSET Regs /\ TestregLeft(i) \in SUBSET Nat
      /\ Cardinality(TestregLeft(i)) \in Nat /\ TestregLeft(i) # {}
  BY <1>2, <1>7, <1>8, LeftBound
<1>10. QED
  BY <1>3, <1>6, <1>8, <1>9 DEF i

\* The registers left by valreg avoid every register of the instruction, and
\* there are two of them.
LEMMA ValregLeftIs ==
  ASSUME TypeOK, PoolInv, pass = "valreg", count < Len(instr)
  PROVE  LET L == ValregLeft(count + 1)
         IN  /\ L \in SUBSET Regs /\ L \in SUBSET Nat /\ L \in SUBSET avail
             /\ IsFiniteSet(L) /\ Cardinality(L) \in Nat /\ Cardinality(L) >= 2
             /\ L \cap (Operands(count + 1) \cup Given(swreg, count + 1)
                                             \cup Given(testreg, count + 1)) = {}
<1> DEFINE i == count + 1
           T == Operands(i) \cup Given(swreg, i) \cup Given(testreg, i)
<1>1. i \in 1..Len(instr)
  BY OperandAssumption DEF TypeOK
<1> HIDE DEF i
<1>2. /\ IsFiniteSet(T) /\ Cardinality(T) \in Nat
      /\ Cardinality(T) <= Cardinality(OpVars) + Cardinality(Paired) + 2
  BY <1>1, TakenBounded
<1>3. ValregLeft(i) = avail \ T
  BY DEF ValregLeft
<1>4. Cardinality(avail) > SmallValPool
  BY DEF PoolInv
<1> HIDE DEF T
<1>5. /\ ValregLeft(i) \in SUBSET Regs /\ ValregLeft(i) \in SUBSET Nat
      /\ IsFiniteSet(ValregLeft(i))
      /\ Cardinality(ValregLeft(i)) \in Nat /\ Cardinality(ValregLeft(i)) >= 2
  BY <1>2, <1>3, <1>4, LeftBound
<1>6. QED
  BY <1>3, <1>5 DEF T, i

\* A pool with two registers has a first and a different second one.
LEMMA TwoLowest ==
  ASSUME NEW L \in SUBSET Nat, IsFiniteSet(L), Cardinality(L) >= 2
  PROVE  Lowest(L) \in L /\ Second(L) \in L /\ Second(L) # Lowest(L)
<1>1. L # {}
  BY FS_EmptySet
<1>2. Lowest(L) \in L
  BY <1>1, LowestIn
<1>3. Cardinality(L \ {Lowest(L)}) = Cardinality(L) - 1
  BY <1>2, FS_RemoveElement
<1>4. Cardinality(L) \in Nat
  BY FS_CardinalityType
<1>5. L \ {Lowest(L)} # {}
  BY <1>3, <1>4, FS_EmptySet
<1>6. Lowest(L \ {Lowest(L)}) \in L \ {Lowest(L)}
  BY <1>5, LowestIn
<1>7. QED
  BY <1>2, <1>6 DEF Second

-----------------------------------------------------------------------------
\* The registers of an instruction depend on the list only, which no step changes.
LEMMA SameOperands ==
  ASSUME UNCHANGED instr, NEW j
  PROVE  Operands(j)' = Operands(j) /\ Lows(j)' = Lows(j)
BY DEF Operands, Lows, Highs

LEMMA LenIsNat ==
  ASSUME TypeOK
  PROVE  Len(instr) \in Nat /\ count \in Nat /\ assigned \in Nat
BY OperandAssumption DEF TypeOK

\* What the loop leaves behind is exactly the open window.
LEMMA LeftoversAre ==
  ASSUME TypeOK, avail # {}, NEW S, NEW f \in [1..assigned -> S], count = Len(instr)
  PROVE  Leftovers(f) = Without(f, assigned + 1, Len(instr))
<1>1. Len(instr) \in Nat /\ assigned \in 0..Len(instr)
  BY LenIsNat DEF TypeOK
<1>2. CASE assigned = Len(instr)
  BY <1>1, <1>2 DEF Leftovers, HasLeftovers, Without
<1>3. CASE assigned # Len(instr)
  BY <1>1, <1>3 DEF Leftovers, HasLeftovers, Without
<1>4. QED
  BY <1>2, <1>3

THEOREM InitInv == Init => IInv
<1> SUFFICES ASSUME Init
             PROVE  IInv
  OBVIOUS
<1>1. Len(instr) \in Nat
  BY OperandAssumption DEF Init
<1>2. /\ SwregCount = 0 /\ TestregCount = 0 /\ ValregCount = 0
  BY DEF Init, SwregCount, TestregCount, ValregCount
<1>3. \A S : Empty \in [1..0 -> S]
  BY DEF Empty
<1>4. TypeOK
  BY <1>1, <1>2, <1>3, Bounds DEF Init, TypeOK, Passes
<1>5. PoolInv
  BY Bounds DEF Init, PoolInv
<1>6. SwregFree /\ TestregAvoids /\ ValregFree
  BY DEF Init, Empty, SwregFree, TestregAvoids, ValregFree
<1>7. QED
  BY <1>4, <1>5, <1>6 DEF IInv

-----------------------------------------------------------------------------
LEMMA SwregKeepInv ==
  ASSUME IInv, SwregKeep
  PROVE  IInv'
<1> DEFINE L == SwregLeft(count + 1)
<1>1. /\ pass = "swreg" /\ count < Len(instr)
      /\ Cardinality(L) > SmallPool /\ avail' = L /\ count' = count + 1
      /\ UNCHANGED <<instr, pass, assigned, swreg, offset, testreg, valVars>>
  BY DEF SwregKeep, Keep, Scanning
<1>2. TypeOK /\ PoolInv /\ SwregFree /\ TestregAvoids /\ ValregFree
  BY DEF IInv
<1>3. /\ L \in SUBSET Regs /\ L \in SUBSET avail
      /\ L \cap Operands(count + 1) = {}
  BY <1>1, <1>2, SwregLeftIs
<1>4. Len(instr) \in Nat /\ count \in Nat /\ assigned \in Nat
  BY <1>2, LenIsNat
<1> HIDE DEF L
<1>5. /\ SwregCount' = SwregCount /\ TestregCount' = TestregCount
      /\ ValregCount' = ValregCount /\ HasFlag' = HasFlag
  BY <1>1 DEF SwregCount, TestregCount, ValregCount, HasFlag
<1>6. TypeOK'
  BY <1>1, <1>2, <1>3, <1>4, <1>5 DEF TypeOK, valVars
<1>7. PoolInv'
  <2>1. \A i \in (assigned + 1)..(count + 1) : L \cap Operands(i) = {}
    BY <1>1, <1>2, <1>3, <1>4 DEF PoolInv
  <2>2. QED
    BY <1>1, <2>1, SameOperands DEF PoolInv, SmallPool
<1>8. SwregFree' /\ TestregAvoids' /\ ValregFree'
  BY <1>1, <1>2, SameOperands DEF SwregFree, TestregAvoids, ValregFree, valVars, Given
<1>9. QED
  BY <1>6, <1>7, <1>8 DEF IInv

\* Serving the open window, up to instruction m, with a register that none of
\* its instructions has.
LEMMA SwregServed ==
  ASSUME TypeOK, SwregFree, pass = "swreg", UNCHANGED instr,
         NEW m \in Nat, assigned <= m, NEW r \in Regs,
         NEW W, W = Without(swreg, assigned + 1, m),
         swreg' = Extend(swreg, W, r),
         offset' = ExtendOffsets(offset, W, Stride, StrideSz),
         \A i \in (assigned + 1)..m : r \notin Operands(i)
  PROVE  /\ Cardinality(W) = m - assigned
         /\ swreg' \in [1..m -> Regs] /\ offset' \in [1..m -> Nat]
         /\ SwregFree'
<1>1. SwregCount = assigned /\ assigned \in Nat
  BY LenIsNat DEF SwregCount
<1>2. swreg \in [1..assigned -> Regs] /\ offset \in [1..assigned -> Nat]
  BY <1>1 DEF TypeOK
<1>3. /\ W = (assigned + 1)..m
      /\ Cardinality(W) = m - assigned
      /\ Served(swreg', swreg, assigned, m, r)
  BY <1>1, <1>2, ExtendIs
<1>4. offset' \in [1..m -> Nat]
  BY <1>1, <1>2, <1>3, ExtendOffsetsIs, StrideAssumption
<1>5. SwregFree'
  <2>1. \A i \in 1..m : swreg'[i] \notin Operands(i)
    BY <1>1, <1>2, <1>3 DEF SwregFree, Served
  <2>2. DOMAIN swreg' = 1..m
    BY <1>3 DEF Served
  <2>3. QED
    BY <2>1, <2>2, SameOperands DEF SwregFree
<1>6. QED
  BY <1>3, <1>4, <1>5 DEF Served

\* Nothing is known of the later passes' registers while swreg runs.
LEMMA NoTestregYet ==
  ASSUME TypeOK, pass = "swreg", UNCHANGED <<testreg, valVars>>
  PROVE  TestregAvoids' /\ ValregFree'
<1>1. TestregCount = 0 /\ ValregCount = 0
  BY DEF TestregCount, ValregCount
<1>2. DOMAIN testreg = {} /\ DOMAIN valreg = {}
  BY <1>1 DEF TypeOK
<1>3. QED
  BY <1>2 DEF TestregAvoids, ValregFree, valVars

LEMMA SwregWindowInv ==
  ASSUME IInv, SwregWindow
  PROVE  IInv'
<1> DEFINE m == count + 1
           L == SwregLeft(m)
           W == Window(swreg)
           r == Lowest(L)
<1>1. /\ pass = "swreg" /\ count < Len(instr)
      /\ swreg' = Extend(swreg, W, r)
      /\ offset' = ExtendOffsets(offset, W, Stride, StrideSz)
      /\ assigned' = assigned + Cardinality(W) /\ avail' = Regs /\ count' = m
      /\ UNCHANGED <<instr, pass, testreg, valVars>>
  BY DEF SwregWindow, Scanning, Refill
<1>2. TypeOK /\ PoolInv /\ SwregFree /\ TestregAvoids /\ ValregFree
  BY DEF IInv
<1>3. /\ L \in SUBSET Regs /\ L \in SUBSET Nat /\ L \in SUBSET avail /\ L # {}
      /\ L \cap Operands(m) = {}
  BY <1>1, <1>2, SwregLeftIs
<1>4. /\ Len(instr) \in Nat /\ m \in Nat /\ m <= Len(instr)
      /\ assigned \in Nat /\ assigned <= m
  BY <1>1, <1>2, LenIsNat DEF TypeOK
<1>5. W = Without(swreg, assigned + 1, m)
  BY DEF Window
<1>6. \A i \in (assigned + 1)..m : i \in (assigned + 1)..count \/ i = m
  BY <1>2, LenIsNat
<1> HIDE DEF m, L, W
<1>7. r \in L /\ r \in Regs
  BY <1>3, LowestIn
<1>8. \A i \in (assigned + 1)..m : r \notin Operands(i)
  <2>1. \A i \in (assigned + 1)..count : avail \cap Operands(i) = {}
    BY <1>1, <1>2 DEF PoolInv
  <2> HIDE DEF r
  <2>2. QED
    BY <1>3, <1>6, <1>7, <2>1
<1> HIDE DEF r
<1>9. /\ Cardinality(W) = m - assigned
      /\ swreg' \in [1..m -> Regs] /\ offset' \in [1..m -> Nat]
      /\ SwregFree'
  BY <1>1, <1>2, <1>4, <1>5, <1>7, <1>8, SwregServed
<1>10. assigned' = m
  BY <1>1, <1>4, <1>9
<1>11. /\ SwregCount' = m /\ TestregCount' = 0 /\ ValregCount' = 0
       /\ TestregCount = 0 /\ ValregCount = 0
  BY <1>1, <1>10 DEF SwregCount, TestregCount, ValregCount
<1>12. TypeOK'
  BY <1>1, <1>2, <1>4, <1>9, <1>10, <1>11 DEF TypeOK, valVars, HasFlag
<1>13. PoolInv'
  BY <1>1, <1>4, <1>10, Bounds DEF PoolInv, SmallPool
<1>14. QED
  BY <1>1, <1>2, <1>9, <1>12, <1>13, NoTestregYet DEF IInv

\* At the end of a pass its pool is not empty.
LEMMA PoolNotEmpty ==
  ASSUME TypeOK, PoolInv, pass # "done"
  PROVE  /\ avail # {} /\ avail \in SUBSET Nat /\ avail \in SUBSET Regs
         /\ IsFiniteSet(avail)
         /\ pass = "valreg" => Cardinality(avail) >= 2
<1>1. avail \in SUBSET Regs /\ pass \in {"swreg", "testreg", "valreg"}
  BY DEF TypeOK, Passes
<1>2. IsFiniteSet(avail) /\ Cardinality(avail) \in Nat
  BY <1>1, Bounds, FS_Subset, FS_CardinalityType
<1>3. Cardinality({}) = 0
  BY FS_EmptySet
<1>4. /\ Cardinality(avail) > SmallPool
      /\ pass = "valreg" => Cardinality(avail) > SmallValPool
  <2>1. SmallValPool > SmallPool
    BY Bounds DEF SmallPool, SmallValPool
  <2>2. QED
    BY <1>1, <1>2, <2>1, Bounds DEF PoolInv
<1>5. QED
  BY <1>1, <1>2, <1>3, <1>4, Bounds DEF SmallValPool

LEMMA SwregDoneInv ==
  ASSUME IInv, SwregDone
  PROVE  IInv'
<1> DEFINE m == Len(instr)
           W == Leftovers(swreg)
           r == Lowest(avail)
<1>1. /\ pass = "swreg" /\ count = m /\ pass' = "testreg"
      /\ swreg' = Extend(swreg, W, r)
      /\ offset' = ExtendOffsets(offset, W, Stride, StrideSz)
      /\ assigned' = 0 /\ avail' = Regs /\ count' = 0
      /\ UNCHANGED <<instr, testreg, valVars>>
  BY DEF SwregDone, Scanned, NextPass
<1>2. TypeOK /\ PoolInv /\ SwregFree /\ TestregAvoids /\ ValregFree
  BY DEF IInv
<1>3. m \in Nat /\ assigned \in Nat /\ assigned <= m
  BY <1>1, <1>2, LenIsNat DEF TypeOK
<1>4. avail # {} /\ avail \in SUBSET Nat /\ avail \in SUBSET Regs
  BY <1>1, <1>2, PoolNotEmpty
<1>5. r \in avail /\ r \in Regs
  BY <1>4, LowestIn
<1>6. W = Without(swreg, assigned + 1, m)
  <2>1. swreg \in [1..assigned -> Regs]
    BY <1>1, <1>2 DEF TypeOK, SwregCount
  <2>2. QED
    BY <1>1, <1>2, <1>4, <2>1, LeftoversAre
<1>7. \A i \in (assigned + 1)..m : r \notin Operands(i)
  <2> HIDE DEF r, m
  <2>1. QED
    BY <1>1, <1>2, <1>5 DEF PoolInv
<1> HIDE DEF W, r, m
<1>8. /\ swreg' \in [1..m -> Regs] /\ offset' \in [1..m -> Nat]
      /\ SwregFree'
  BY <1>1, <1>2, <1>3, <1>5, <1>6, <1>7, SwregServed
<1>9. /\ SwregCount' = m /\ TestregCount' = 0 /\ ValregCount' = 0
      /\ TestregCount = 0 /\ ValregCount = 0
  BY <1>1 DEF SwregCount, TestregCount, ValregCount, m
<1>10. TypeOK'
  BY <1>1, <1>2, <1>3, <1>8, <1>9 DEF TypeOK, valVars, HasFlag, Passes, m
<1>11. PoolInv'
  BY <1>1, Bounds DEF PoolInv, SmallPool
<1>12. QED
  BY <1>1, <1>2, <1>8, <1>10, <1>11, NoTestregYet DEF IInv

-----------------------------------------------------------------------------
\* The pass testreg leaves alone what swreg has built.
LEMMA SwregKept ==
  ASSUME TypeOK, SwregFree, pass # "swreg", pass' # "swreg",
         UNCHANGED <<instr, swreg, offset>>
  PROVE  /\ SwregFree' /\ SwregCount = Len(instr) /\ SwregCount' = Len(instr)
         /\ swreg \in [1..Len(instr) -> Regs] /\ offset \in [1..Len(instr) -> Nat]
<1>1. SwregCount = Len(instr) /\ SwregCount' = Len(instr)
  BY DEF SwregCount
<1>2. SwregFree'
  BY SameOperands DEF SwregFree
<1>3. QED
  BY <1>1, <1>2 DEF TypeOK

LEMMA TestregKeepInv ==
  ASSUME IInv, TestregKeep
  PROVE  IInv'
<1> DEFINE m == count + 1
           L == TestregLeft(m)
<1>1. /\ pass = "testreg" /\ count < Len(instr)
      /\ Cardinality(L) > SmallPool /\ avail' = L /\ count' = m
      /\ UNCHANGED <<instr, pass, assigned, swreg, offset, testreg, valVars>>
  BY DEF TestregKeep, Keep, Scanning
<1>2. TypeOK /\ PoolInv /\ SwregFree /\ TestregAvoids /\ ValregFree
  BY DEF IInv
<1>3. /\ L \in SUBSET Regs /\ L \in SUBSET avail
      /\ L \cap (Lows(m) \cup Given(swreg, m)) = {}
  BY <1>1, <1>2, TestregLeftIs
<1>4. /\ Len(instr) \in Nat /\ m \in 0..Len(instr) /\ assigned \in 0..m
  BY <1>1, <1>2, LenIsNat DEF TypeOK
<1>5. \A i \in (assigned + 1)..m : i \in (assigned + 1)..count \/ i = m
  BY <1>2, LenIsNat
<1> HIDE DEF m, L
<1>6. /\ SwregCount' = SwregCount /\ TestregCount' = TestregCount
      /\ ValregCount' = ValregCount /\ HasFlag' = HasFlag
  BY <1>1 DEF SwregCount, TestregCount, ValregCount, HasFlag
<1>7. TypeOK'
  BY <1>1, <1>2, <1>3, <1>4, <1>6 DEF TypeOK, valVars
<1>8. PoolInv'
  <2>1. \A i \in (assigned + 1)..m : L \cap (Lows(i) \cup Given(swreg, i)) = {}
    BY <1>1, <1>2, <1>3, <1>5 DEF PoolInv
  <2>2. QED
    BY <1>1, <2>1, SameOperands DEF PoolInv, SmallPool, Given
<1>9. SwregFree' /\ TestregAvoids' /\ ValregFree'
  BY <1>1, <1>2, SameOperands DEF SwregFree, TestregAvoids, ValregFree, valVars, Given
<1>10. QED
  BY <1>7, <1>8, <1>9 DEF IInv

\* Serving the open window, up to instruction m, with a scratch register that
\* is neither an operand nor the pointer of any of its instructions.
LEMMA TestregServed ==
  ASSUME TypeOK, TestregAvoids, pass = "testreg", UNCHANGED <<instr, swreg>>,
         NEW m \in Nat, assigned <= m, NEW r \in Regs,
         NEW W, W = Without(testreg, assigned + 1, m),
         testreg' = Extend(testreg, W, r),
         \A i \in (assigned + 1)..m : r \notin Lows(i) \cup Given(swreg, i)
  PROVE  /\ Cardinality(W) = m - assigned
         /\ testreg' \in [1..m -> Regs]
         /\ TestregAvoids'
<1>1. TestregCount = assigned /\ assigned \in Nat
  BY LenIsNat DEF TestregCount
<1>2. testreg \in [1..assigned -> Regs]
  BY <1>1 DEF TypeOK
<1>3. Cardinality(W) = m - assigned /\ Served(testreg', testreg, assigned, m, r)
  BY <1>1, <1>2, ExtendIs
<1>4. TestregAvoids'
  <2>1. \A i \in 1..m : testreg'[i] \notin Lows(i) \cup Given(swreg, i)
    BY <1>1, <1>2, <1>3 DEF TestregAvoids, Served
  <2>2. DOMAIN testreg' = 1..m
    BY <1>3 DEF Served
  <2>3. QED
    BY <2>1, <2>2, SameOperands DEF TestregAvoids, Given
<1>5. QED
  BY <1>3, <1>4 DEF Served

\* Nothing is known of data pointers while testreg runs.
LEMMA NoValregYet ==
  ASSUME TypeOK, pass = "testreg", UNCHANGED valVars
  PROVE  ValregFree' /\ ValregCount = 0
<1>1. ValregCount = 0
  BY DEF ValregCount
<1>2. DOMAIN valreg = {}
  BY <1>1 DEF TypeOK
<1>3. QED
  BY <1>1, <1>2 DEF ValregFree, valVars

LEMMA TestregWindowInv ==
  ASSUME IInv, TestregWindow
  PROVE  IInv'
<1> DEFINE m == count + 1
           L == TestregLeft(m)
           W == Window(testreg)
           r == Lowest(L)
<1>1. /\ pass = "testreg" /\ count < Len(instr)
      /\ testreg' = Extend(testreg, W, r)
      /\ assigned' = assigned + Cardinality(W) /\ avail' = Regs /\ count' = m
      /\ UNCHANGED <<instr, pass, swreg, offset, valVars>>
  BY DEF TestregWindow, Scanning, Refill
<1>2. TypeOK /\ PoolInv /\ SwregFree /\ TestregAvoids /\ ValregFree
  BY DEF IInv
<1>3. /\ L \in SUBSET Regs /\ L \in SUBSET Nat /\ L \in SUBSET avail /\ L # {}
      /\ L \cap (Lows(m) \cup Given(swreg, m)) = {}
  BY <1>1, <1>2, TestregLeftIs
<1>4. /\ Len(instr) \in Nat /\ m \in Nat /\ m <= Len(instr)
      /\ assigned \in Nat /\ assigned <= m
  BY <1>1, <1>2, LenIsNat DEF TypeOK
<1>5. W = Without(testreg, assigned + 1, m)
  BY DEF Window
<1>6. \A i \in (assigned + 1)..m : i \in (assigned + 1)..count \/ i = m
  BY <1>2, LenIsNat
<1> HIDE DEF m, L, W
<1>7. r \in L /\ r \in Regs
  BY <1>3, LowestIn
<1>8. \A i \in (assigned + 1)..m : r \notin Lows(i) \cup Given(swreg, i)
  <2>1. \A i \in (assigned + 1)..count : avail \cap (Lows(i) \cup Given(swreg, i)) = {}
    BY <1>1, <1>2 DEF PoolInv
  <2> HIDE DEF r
  <2>2. QED
    BY <1>3, <1>6, <1>7, <2>1
<1> HIDE DEF r
<1>9. Cardinality(W) = m - assigned /\ testreg' \in [1..m -> Regs] /\ TestregAvoids'
  BY <1>1, <1>2, <1>4, <1>5, <1>7, <1>8, TestregServed
<1>10. assigned' = m
  BY <1>1, <1>4, <1>9
<1>11. TestregCount' = m /\ ValregCount' = 0
  BY <1>1, <1>10 DEF TestregCount, ValregCount
<1>12. /\ SwregFree' /\ SwregCount = Len(instr) /\ SwregCount' = Len(instr)
       /\ ValregFree' /\ ValregCount = 0
  BY <1>1, <1>2, SwregKept, NoValregYet
<1>13. TypeOK'
  BY <1>1, <1>2, <1>4, <1>9, <1>10, <1>11, <1>12 DEF TypeOK, valVars, HasFlag
<1>14. PoolInv'
  BY <1>1, <1>4, <1>10, Bounds DEF PoolInv, SmallPool
<1>15. QED
  BY <1>9, <1>12, <1>13, <1>14 DEF IInv

LEMMA TestregDoneInv ==
  ASSUME IInv, TestregDone
  PROVE  IInv'
<1> DEFINE m == Len(instr)
           W == Leftovers(testreg)
           r == Lowest(avail)
<1>1. /\ pass = "testreg" /\ count = m
      /\ pass' = IF HasVal THEN "valreg" ELSE "done"
      /\ testreg' = Extend(testreg, W, r)
      /\ assigned' = 0 /\ avail' = Regs /\ count' = 0
      /\ UNCHANGED <<instr, swreg, offset, valVars>>
  BY DEF TestregDone, Scanned, NextPass
<1>2. TypeOK /\ PoolInv /\ SwregFree /\ TestregAvoids /\ ValregFree
  BY DEF IInv
<1>3. m \in Nat /\ assigned \in Nat /\ assigned <= m
  BY <1>1, <1>2, LenIsNat DEF TypeOK
<1>4. avail # {} /\ avail \in SUBSET Nat /\ avail \in SUBSET Regs
  BY <1>1, <1>2, PoolNotEmpty
<1>5. r \in avail /\ r \in Regs
  BY <1>4, LowestIn
<1>6. W = Without(testreg, assigned + 1, m)
  <2>1. testreg \in [1..assigned -> Regs]
    BY <1>1, <1>2 DEF TypeOK, TestregCount
  <2>2. QED
    BY <1>1, <1>2, <1>4, <2>1, LeftoversAre
<1>7. \A i \in (assigned + 1)..m : r \notin Lows(i) \cup Given(swreg, i)
  <2> HIDE DEF r, m
  <2>1. QED
    BY <1>1, <1>2, <1>5 DEF PoolInv
<1> HIDE DEF W, r, m
<1>8. testreg' \in [1..m -> Regs] /\ TestregAvoids'
  BY <1>1, <1>2, <1>3, <1>5, <1>6, <1>7, TestregServed
<1>9. pass' \in Passes /\ pass' # "swreg" /\ pass' # "testreg"
  BY <1>1 DEF Passes
<1>10. TestregCount' = m /\ ValregCount' = 0
  BY <1>1, <1>9, StrideAssumption DEF TestregCount, ValregCount, m
<1>11. /\ SwregFree' /\ SwregCount = m /\ SwregCount' = m
       /\ ValregFree' /\ ValregCount = 0
  BY <1>1, <1>2, <1>9, SwregKept, NoValregYet DEF m
<1>12. TypeOK'
  BY <1>1, <1>2, <1>3, <1>8, <1>9, <1>10, <1>11 DEF TypeOK, valVars, HasFlag, m
<1>13. PoolInv'
  BY <1>1, Bounds DEF PoolInv, SmallPool, SmallValPool
<1>14. QED
  BY <1>8, <1>11, <1>12, <1>13 DEF IInv

-----------------------------------------------------------------------------
\* The pass valreg leaves alone what swreg and testreg have built.
LEMMA TestregKept ==
  ASSUME TypeOK, TestregAvoids, pass = "valreg", pass' \in {"valreg", "done"},
         UNCHANGED <<instr, swreg, testreg>>
  PROVE  /\ TestregAvoids' /\ TestregCount = Len(instr) /\ TestregCount' = Len(instr)
         /\ testreg \in [1..Len(instr) -> Regs]
<1>1. TestregCount = Len(instr) /\ TestregCount' = Len(instr)
  BY DEF TestregCount
<1>2. TestregAvoids'
  BY SameOperands DEF TestregAvoids, Given
<1>3. QED
  BY <1>1, <1>2 DEF TypeOK

\* The registers instruction i has before valreg gives it its own.
Used(i) == Operands(i) \cup Given(swreg, i) \cup Given(testreg, i)

LEMMA SameUsed ==
  ASSUME UNCHANGED <<instr, swreg, testreg>>, NEW i
  PROVE  Used(i)' = Used(i)
BY SameOperands DEF Used, Given

LEMMA ValregKeepInv ==
  ASSUME IInv, ValregKeep
  PROVE  IInv'
<1> DEFINE m == count + 1
           L == ValregLeft(m)
<1>1. /\ pass = "valreg" /\ count < Len(instr)
      /\ Cardinality(L) > SmallValPool /\ avail' = L /\ count' = m
      /\ UNCHANGED <<instr, pass, assigned, swreg, offset, testreg, valVars>>
  BY DEF ValregKeep, Keep, Scanning
<1>2. TypeOK /\ PoolInv /\ SwregFree /\ TestregAvoids /\ ValregFree
  BY DEF IInv
<1>3. L \in SUBSET Regs /\ L \in SUBSET avail /\ L \cap Used(m) = {}
  BY <1>1, <1>2, ValregLeftIs DEF Used
<1>4. /\ Len(instr) \in Nat /\ m \in 0..Len(instr) /\ assigned \in 0..m
  BY <1>1, <1>2, LenIsNat DEF TypeOK
<1>5. \A i \in (assigned + 1)..m : i \in (assigned + 1)..count \/ i = m
  BY <1>2, LenIsNat
<1> HIDE DEF m, L
<1>6. /\ SwregCount' = SwregCount /\ TestregCount' = TestregCount
      /\ ValregCount' = ValregCount /\ HasFlag' = HasFlag
  BY <1>1 DEF SwregCount, TestregCount, ValregCount, HasFlag
<1>7. TypeOK'
  BY <1>1, <1>2, <1>3, <1>4, <1>6 DEF TypeOK, valVars
<1>8. PoolInv'
  <2>1. \A i \in (assigned + 1)..count : avail \cap Used(i) = {}
    BY <1>1, <1>2 DEF PoolInv, Used
  <2>2. \A i \in (assigned + 1)..m : L \cap Used(i) = {}
    BY <1>3, <1>5, <2>1
  <2>3. \A i \in (assigned + 1)..m : L \cap Used(i)' = {}
    BY <1>1, <2>2, SameUsed
  <2>4. HasVal
    BY <1>1, <1>2 DEF PoolInv
  <2>5. QED
    BY <1>1, <2>3, <2>4 DEF PoolInv, SmallValPool, Used
<1>9. SwregFree' /\ TestregAvoids' /\ ValregFree'
  BY <1>1, <1>2, SameOperands DEF SwregFree, TestregAvoids, ValregFree, valVars, Given
<1>10. QED
  BY <1>7, <1>8, <1>9 DEF IInv

\* Serving the open window, up to instruction m, with a data pointer r and a
\* flag register q that none of its instructions has.
LEMMA ValregServed ==
  ASSUME TypeOK, ValregFree, pass = "valreg", UNCHANGED <<instr, swreg, testreg>>,
         NEW m \in Nat, assigned <= m,
         NEW P \in SUBSET Regs, Lowest(P) \in P, Second(P) \in P, Second(P) # Lowest(P),
         NEW W, W = Without(valreg, assigned + 1, m), AssignVal(W, P),
         \A i \in (assigned + 1)..m : P \cap Used(i) = {}
  PROVE  /\ Cardinality(W) = m - assigned
         /\ valreg' \in [1..m -> Regs] /\ valoffset' \in [1..m -> Nat]
         /\ flagreg' \in [1..(IF HasFlag THEN m ELSE 0) -> Regs]
         /\ ValregFree'
<1> DEFINE r == Lowest(P)
           q == Second(P)
<1>1. ValregCount = assigned /\ assigned \in Nat
  BY LenIsNat DEF ValregCount
<1>2. /\ valreg \in [1..assigned -> Regs] /\ valoffset \in [1..assigned -> Nat]
      /\ flagreg \in [1..(IF HasFlag THEN assigned ELSE 0) -> Regs]
  BY <1>1 DEF TypeOK
<1>3. /\ valreg' = Extend(valreg, W, r)
      /\ valoffset' = ExtendOffsets(valoffset, W, ValStride, ValStrideSz)
      /\ flagreg' = IF HasFlag THEN Extend(flagreg, W, q) ELSE flagreg
  BY DEF AssignVal
<1>4. r \in Regs /\ q \in Regs /\ r \in P /\ q \in P /\ r # q
  OBVIOUS
<1> HIDE DEF r, q
<1>5. /\ W = (assigned + 1)..m
      /\ Cardinality(W) = m - assigned
      /\ Served(valreg', valreg, assigned, m, r)
  BY <1>1, <1>2, <1>3, <1>4, ExtendIs
<1>6. valoffset' \in [1..m -> Nat]
  BY <1>1, <1>2, <1>3, <1>5, ExtendOffsetsIs, StrideAssumption
<1>7. ASSUME HasFlag
      PROVE  Served(flagreg', flagreg, assigned, m, q) /\ flagreg \in [1..assigned -> Regs]
  <2>1. flagreg \in [1..assigned -> Regs] /\ flagreg' = Extend(flagreg, W, q)
    BY <1>2, <1>3, <1>7
  <2>2. W = Without(flagreg, assigned + 1, m)
    BY <1>1, <1>5, <2>1 DEF Without
  <2>3. QED
    BY <1>1, <1>4, <2>1, <2>2, ExtendIs
<1>8. ASSUME ~ HasFlag
      PROVE  flagreg' = flagreg /\ DOMAIN flagreg = {} /\ flagreg \in [1..0 -> Regs]
  <2>1. flagreg \in [1..0 -> Regs]
    BY <1>2, <1>8
  <2>2. QED
    BY <1>3, <1>8, <2>1
<1>9. flagreg' \in [1..(IF HasFlag THEN m ELSE 0) -> Regs]
  <2>1. CASE HasFlag
    BY <1>7, <2>1 DEF Served
  <2>2. CASE ~ HasFlag
    BY <1>8, <2>2
  <2>3. QED
    BY <2>1, <2>2
<1>10. ValregFree'
  <2>1. DOMAIN valreg' = 1..m
    BY <1>5 DEF Served
  <2>2. SUFFICES ASSUME NEW i \in 1..m
                 PROVE  /\ valreg'[i] \notin Used(i)
                        /\ Given(flagreg', i) \cap (Used(i) \cup {valreg'[i]}) = {}
    BY <2>1, SameUsed DEF ValregFree, Used, Given
  <2>3. i \in 1..assigned \/ i \in (assigned + 1)..m
    BY <1>1
  <2>4. CASE i \in 1..assigned
    <3>1. valreg'[i] = valreg[i]
      BY <1>5, <2>4 DEF Served
    <3>2. /\ valreg[i] \notin Used(i)
          /\ Given(flagreg, i) \cap (Used(i) \cup {valreg[i]}) = {}
      BY <1>2, <2>4 DEF ValregFree, Used
    <3>3. Given(flagreg', i) = Given(flagreg, i)
      <4>1. CASE HasFlag
        BY <1>1, <1>7, <2>4, <4>1 DEF Served, Given
      <4>2. CASE ~ HasFlag
        BY <1>8, <4>2
      <4>3. QED
        BY <4>1, <4>2
    <3>4. QED
      BY <3>1, <3>2, <3>3
  <2>5. CASE i \in (assigned + 1)..m
    <3>1. valreg'[i] = r /\ P \cap Used(i) = {}
      BY <1>5, <2>5 DEF Served
    <3>2. Given(flagreg', i) \subseteq {q}
      <4>1. CASE HasFlag
        BY <1>7, <2>5, <4>1 DEF Served, Given
      <4>2. CASE ~ HasFlag
        BY <1>8, <4>2 DEF Given
      <4>3. QED
        BY <4>1, <4>2
    <3>3. QED
      BY <1>4, <3>1, <3>2
  <2>6. QED
    BY <2>3, <2>4, <2>5
<1>11. QED
  BY <1>5, <1>6, <1>9, <1>10 DEF Served

LEMMA ValregWindowInv ==
  ASSUME IInv, ValregWindow
  PROVE  IInv'
<1> DEFINE m == count + 1
           L == ValregLeft(m)
           W == Window(valreg)
<1>1. /\ pass = "valreg" /\ count < Len(instr) /\ AssignVal(W, L)
      /\ assigned' = assigned + Cardinality(W) /\ avail' = Regs /\ count' = m
      /\ UNCHANGED <<instr, pass, swreg, offset, testreg>>
  BY DEF ValregWindow, Scanning, Refill
<1>2. TypeOK /\ PoolInv /\ SwregFree /\ TestregAvoids /\ ValregFree
  BY DEF IInv
<1>3. /\ L \in SUBSET Regs /\ L \in SUBSET Nat /\ L \in SUBSET avail
      /\ IsFiniteSet(L) /\ Cardinality(L) >= 2 /\ L \cap Used(m) = {}
  BY <1>1, <1>2, ValregLeftIs DEF Used
<1>4. /\ Len(instr) \in Nat /\ m \in Nat /\ m <= Len(instr)
      /\ assigned \in Nat /\ assigned <= m
  BY <1>1, <1>2, LenIsNat DEF TypeOK
<1>5. W = Without(valreg, assigned + 1, m)
  BY DEF Window
<1>6. \A i \in (assigned + 1)..m : i \in (assigned + 1)..count \/ i = m
  BY <1>2, LenIsNat
<1> HIDE DEF m, L, W
<1>7. Lowest(L) \in L /\ Second(L) \in L /\ Second(L) # Lowest(L)
  BY <1>3, TwoLowest
<1>8. \A i \in (assigned + 1)..m : L \cap Used(i) = {}
  <2>1. \A i \in (assigned + 1)..count : avail \cap Used(i) = {}
    BY <1>1, <1>2 DEF PoolInv, Used
  <2>2. QED
    BY <1>3, <1>6, <2>1
<1>9. /\ Cardinality(W) = m - assigned
      /\ valreg' \in [1..m -> Regs] /\ valoffset' \in [1..m -> Nat]
      /\ flagreg' \in [1..(IF HasFlag THEN m ELSE 0) -> Regs]
      /\ ValregFree'
  BY <1>1, <1>2, <1>3, <1>4, <1>5, <1>7, <1>8, ValregServed
<1>10. assigned' = m
  BY <1>1, <1>4, <1>9
<1>11. ValregCount' = m /\ HasVal
  BY <1>1, <1>2, <1>10 DEF ValregCount, PoolInv
<1>12. /\ SwregFree' /\ SwregCount = Len(instr) /\ SwregCount' = Len(instr)
       /\ TestregAvoids' /\ TestregCount = Len(instr) /\ TestregCount' = Len(instr)
  BY <1>1, <1>2, SwregKept, TestregKept
<1>13. TypeOK'
  <2>1. /\ (instr \in Programs)' /\ (pass \in Passes)' /\ (avail \subseteq Regs)'
        /\ (count \in 0..Len(instr))' /\ (assigned \in 0..count)'
    BY <1>1, <1>2, <1>4, <1>10 DEF TypeOK
  <2>2. /\ (swreg \in [1..SwregCount -> Regs])' /\ (offset \in [1..SwregCount -> Nat])'
        /\ (testreg \in [1..TestregCount -> Regs])'
    BY <1>1, <1>2, <1>12 DEF TypeOK
  <2>3. QED
    BY <2>1, <2>2, <1>9, <1>11 DEF TypeOK, HasFlag
<1>14. PoolInv'
  BY <1>1, <1>4, <1>10, <1>11, Bounds DEF PoolInv, SmallValPool
<1>15. QED
  BY <1>9, <1>12, <1>13, <1>14 DEF IInv

LEMMA ValregDoneInv ==
  ASSUME IInv, ValregDone
  PROVE  IInv'
<1> DEFINE m == Len(instr)
           W == Leftovers(valreg)
<1>1. /\ pass = "valreg" /\ count = m /\ pass' = "done" /\ AssignVal(W, avail)
      /\ assigned' = 0 /\ avail' = Regs /\ count' = 0
      /\ UNCHANGED <<instr, swreg, offset, testreg>>
  BY DEF ValregDone, Scanned, NextPass
<1>2. TypeOK /\ PoolInv /\ SwregFree /\ TestregAvoids /\ ValregFree
  BY DEF IInv
<1>3. m \in Nat /\ assigned \in Nat /\ assigned <= m
  BY <1>1, <1>2, LenIsNat DEF TypeOK
<1>4. /\ avail # {} /\ avail \in SUBSET Nat /\ avail \in SUBSET Regs
      /\ IsFiniteSet(avail) /\ Cardinality(avail) >= 2
  BY <1>1, <1>2, PoolNotEmpty
<1>5. Lowest(avail) \in avail /\ Second(avail) \in avail /\ Second(avail) # Lowest(avail)
  BY <1>4, TwoLowest
<1>6. W = Without(valreg, assigned + 1, m)
  <2>1. valreg \in [1..assigned -> Regs]
    BY <1>1, <1>2 DEF TypeOK, ValregCount
  <2>2. QED
    BY <1>1, <1>2, <1>4, <2>1, LeftoversAre
<1>7. \A i \in (assigned + 1)..m : avail \cap Used(i) = {}
  <2> HIDE DEF m
  <2>1. QED
    BY <1>1, <1>2 DEF PoolInv, Used
<1> HIDE DEF W, m
<1>8. /\ valreg' \in [1..m -> Regs] /\ valoffset' \in [1..m -> Nat]
      /\ flagreg' \in [1..(IF HasFlag THEN m ELSE 0) -> Regs]
      /\ ValregFree'
  BY <1>1, <1>2, <1>3, <1>4, <1>5, <1>6, <1>7, ValregServed
<1>9. HasVal /\ ValregCount' = m
  BY <1>1, <1>2 DEF ValregCount, PoolInv, m
<1>10. /\ SwregFree' /\ SwregCount = m /\ SwregCount' = m
       /\ TestregAvoids' /\ TestregCount = m /\ TestregCount' = m
  BY <1>1, <1>2, SwregKept, TestregKept DEF m
<1>11. TypeOK'
  BY <1>1, <1>2, <1>3, <1>8, <1>9, <1>10 DEF TypeOK, HasFlag, Passes, m
<1>12. PoolInv'
  BY <1>1 DEF PoolInv
<1>13. QED
  BY <1>8, <1>10, <1>11, <1>12 DEF IInv

-----------------------------------------------------------------------------
LEMMA StepInv == IInv /\ [Next]_vars => IInv'
<1> SUFFICES ASSUME IInv, [Next]_vars
             PROVE  IInv'
  OBVIOUS
<1>1. CASE SwregPass
  BY <1>1, SwregKeepInv, SwregWindowInv, SwregDoneInv DEF SwregPass
<1>2. CASE TestregPass
  BY <1>2, TestregKeepInv, TestregWindowInv, TestregDoneInv DEF TestregPass
<1>3. CASE ValregPass
  BY <1>3, ValregKeepInv, ValregWindowInv, ValregDoneInv DEF ValregPass
<1>4. CASE UNCHANGED vars
  <2>1. /\ UNCHANGED <<instr, pass, count, assigned, avail, swreg, offset, testreg>>
        /\ UNCHANGED <<valreg, valoffset, flagreg>>
    BY <1>4 DEF vars, scanVars, valVars
  <2>2. /\ SwregCount' = SwregCount /\ TestregCount' = TestregCount
        /\ ValregCount' = ValregCount /\ HasFlag' = HasFlag
    BY <2>1 DEF SwregCount, TestregCount, ValregCount, HasFlag
  <2>3. TypeOK'
    BY <2>1, <2>2 DEF IInv, TypeOK
  <2>4. PoolInv'
    BY <2>1, SameOperands DEF IInv, PoolInv, Given, SmallPool, SmallValPool
  <2>5. SwregFree' /\ TestregAvoids' /\ ValregFree'
    BY <2>1, SameOperands DEF IInv, SwregFree, TestregAvoids, ValregFree, Given
  <2>6. QED
    BY <2>3, <2>4, <2>5 DEF IInv
<1>5. QED
  BY <1>1, <1>2, <1>3, <1>4 DEF Next

\* The inductive invariant holds in every reachable state.
THEOREM Invariance == Spec => []IInv
BY InitInv, StepInv, PTL DEF Spec

\* Every pass of gen_test serves the list of instructions from the front, each
\* instruction once, with registers of the base register file.
THEOREM TypeCorrect == Spec => []TypeOK
<1>1. IInv => TypeOK
  BY DEF IInv
<1>2. QED
  BY <1>1, Invariance, PTL

\* generator.swreg never gives an instruction a signature pointer that the
\* instruction reads or overwrites, whatever the format, the pairs and the list.
THEOREM SignaturePointerFree == Spec => []SwregFree
<1>1. IInv => SwregFree
  BY DEF IInv
<1>2. QED
  BY <1>1, Invariance, PTL

\* generator.testreg keeps the scratch register of an instruction apart from
\* its signature pointer and from the low registers of its operands.
THEOREM ScratchAvoidsOperands == Spec => []TestregAvoids
<1>1. IInv => TestregAvoids
  BY DEF IInv
<1>2. QED
  BY <1>1, Invariance, PTL

\* generator.valreg keeps the data pointer and the flag register of an
\* instruction apart from each other and from its other registers.
THEOREM DataPointerFree == Spec => []ValregFree
<1>1. IInv => ValregFree
  BY DEF IInv
<1>2. QED
  BY <1>1, Invariance, PTL

\* No pass of gen_test indexes a pool that is too short: available_reg[0] and,
\* in valreg, available_reg[1] exist whenever a window is closed.
THEOREM PoolNeverEmpty == Spec => []PoolSuffices
<1>1. IInv => PoolSuffices
  <2>1. SUFFICES ASSUME IInv, count < Len(instr)
                 PROVE  /\ pass = "swreg" => SwregLeft(count + 1) # {}
                        /\ pass = "testreg" => TestregLeft(count + 1) # {}
                        /\ pass = "valreg" => Cardinality(ValregLeft(count + 1)) >= 2
    BY DEF PoolSuffices
  <2>2. TypeOK /\ PoolInv
    BY <2>1 DEF IInv
  <2>3. QED
    BY <2>1, <2>2, SwregLeftIs, TestregLeftIs, ValregLeftIs
<1>2. QED
  BY <1>1, Invariance, PTL

\* Where operands are no register pairs, the scratch register is free of all
\* the registers the docstring of testreg names.
THEOREM ScratchFree == Paired = {} => (Spec => []TestregFree)
<1>1. ASSUME Paired = {}, TestregAvoids PROVE TestregFree
  BY <1>1 DEF TestregAvoids, TestregFree, Operands, Highs
<1>2. ASSUME Paired = {} PROVE Spec => []TestregFree
  <2>1. TestregAvoids => TestregFree
    BY <1>1, <1>2
  <2>2. QED
    BY <2>1, ScratchAvoidsOperands, PTL
<1>3. QED
  BY <1>2

-----------------------------------------------------------------------------
\* Division of natural numbers.
LEMMA DivIs ==
  ASSUME NEW a \in Nat, NEW b \in Nat \ {0}
  PROVE  /\ a \div b \in Nat /\ (a \div b) * b <= a /\ a < (a \div b) * b + b
         /\ a % b \in 0..(b - 1) /\ a = (a \div b) * b + (a % b)
  OBVIOUS

\* Counting modulo p goes on by one or returns to 0.
LEMMA ModNext ==
  ASSUME NEW k \in Nat, NEW p \in Nat \ {0}
  PROVE  (k + 1) % p = 0 \/ (k + 1) % p = (k % p) + 1
<1> DEFINE l == k + 1
<1>l. l \in Nat /\ l = k + 1
  OBVIOUS
<1> HIDE DEF l
<1>1. /\ k \div p \in Nat /\ k % p \in 0..(p - 1) /\ k = (k \div p) * p + (k % p)
      /\ l \in Nat /\ l = k + 1
  BY <1>l, DivIs
<1>2. l \div p \in Nat /\ l % p \in 0..(p - 1) /\ l = (l \div p) * p + (l % p)
  BY <1>1, DivIs
<1>3. ASSUME NEW q \in Nat, NEW r \in 0..(p - 1), NEW t \in Nat, NEW u \in 0..(p - 1),
             q * p + r + 1 = t * p + u, u # 0
      PROVE  u = r + 1
  <2>1. CASE t > q
    <3>1. t * p >= (q + 1) * p
      BY <2>1
    <3>2. t * p >= q * p + p
      BY <3>1
    <3>3. QED
      BY <1>3, <3>2
  <2>2. CASE t < q
    <3>1. q * p >= (t + 1) * p
      BY <2>2
    <3>2. q * p >= t * p + p
      BY <3>1
    <3>3. QED
      BY <1>3, <3>2
  <2>3. CASE t = q
    BY <1>3, <2>3
  <2>4. QED
    BY <2>1, <2>2, <2>3
<1>4. QED
  <2> DEFINE q == k \div p
             r == k % p
             t == l \div p
             u == l % p
  <2>1. /\ q \in Nat /\ r \in 0..(p - 1) /\ t \in Nat /\ u \in 0..(p - 1)
        /\ q * p + r + 1 = t * p + u
    BY <1>1, <1>2
  <2> HIDE DEF q, r, t, u
  <2>2. u # 0 => u = r + 1
    BY <2>1, <1>3
  <2>3. QED
    BY <2>2 DEF l, r, u

\* The offset of the k-th instruction of a window fits the limit, and the next
\* one is 0 or one stride further.
LEMMA WrapRuns ==
  ASSUME NEW k \in Nat, NEW stride \in Nat \ {0}, NEW sz \in Nat
  PROVE  /\ Wrap(0, stride, sz) = 0
         /\ Wrap(k, stride, sz) * sz <= OffsetLimit
         /\ \/ Wrap(k + 1, stride, sz) = 0
            \/ Wrap(k + 1, stride, sz) = Wrap(k, stride, sz) + stride
<1>1. OffsetLimit \in Nat
  BY StrideAssumption
<1>2. CASE sz = 0
  <2>1. \A l \in Nat : Wrap(l, stride, sz) = l * stride
    BY <1>2 DEF Wrap
  <2>2. k * stride \in Nat /\ (k + 1) * stride = k * stride + stride
    OBVIOUS
  <2>3. QED
    BY <1>1, <1>2, <2>1, <2>2
<1>3. CASE sz # 0
  <2> DEFINE b == sz * stride
             c == OffsetLimit \div b
             p == c + 1
  <2>1. b \in Nat \ {0}
    BY <1>3
  <2>2. c \in Nat /\ c * b <= OffsetLimit
    <3> HIDE DEF b
    <3>1. QED
      BY <1>1, <2>1, DivIs
  <2>3. \A l : Wrap(l, stride, sz) = (l % p) * stride
    BY <1>3 DEF Wrap
  <2> HIDE DEF c
  <2>4. p \in Nat \ {0}
    BY <2>2
  <2> HIDE DEF p
  <2> DEFINE q == k % p
  <2>5. q \in 0..(p - 1) /\ ((k + 1) % p = 0 \/ (k + 1) % p = q + 1) /\ 0 % p = 0
    <3>1. q \in 0..(p - 1)
      BY <2>4, DivIs
    <3>2. (k + 1) % p = 0 \/ (k + 1) % p = q + 1
      BY <2>4, ModNext
    <3>3. 0 % p = 0
      BY <2>4
    <3>4. QED
      BY <3>1, <3>2, <3>3
  <2>6. q \in Nat /\ q <= c
    BY <2>2, <2>5 DEF p
  <2> HIDE DEF q
  <2>7. (q * stride) * sz <= OffsetLimit
    <3>1. q * b <= c * b
      BY <2>1, <2>2, <2>6
    <3>2. (q * stride) * sz = q * b
      BY <2>6 DEF b
    <3>3. q * b \in Nat /\ c * b \in Nat
      BY <2>1, <2>2, <2>6
    <3>4. QED
      BY <1>1, <2>2, <3>1, <3>2, <3>3
  <2>8. (q + 1) * stride = q * stride + stride /\ 0 * stride = 0
    BY <2>6
  <2>9. QED
    BY <2>3, <2>5, <2>7, <2>8 DEF q
<1>4. QED
  BY <1>2, <1>3

\* What a layout in the order of the list relies on: an instruction starts
\* anew, or has the pointer of its predecessor and the next offset.
Runs(ptr, off, stride) ==
  \A i \in DOMAIN off :
    \/ off[i] = 0
    \/ i - 1 \in DOMAIN off /\ ptr[i] = ptr[i - 1] /\ off[i] = off[i - 1] + stride

Fits(off, sz) == \A i \in DOMAIN off : off[i] * sz <= OffsetLimit

\* A window that is closed starts anew and runs on from there.
LEMMA RunsOn ==
  ASSUME NEW k \in Nat, NEW m \in Nat, k <= m, NEW r \in Regs,
         NEW ptr, NEW off \in [1..k -> Nat], NEW stride \in Nat \ {0}, NEW sz \in Nat,
         NEW p, Served(p, ptr, k, m, r),
         NEW o, o = ExtendOffsets(off, (k + 1)..m, stride, sz),
         Runs(ptr, off, stride), Fits(off, sz)
  PROVE  Runs(p, o, stride) /\ Fits(o, sz)
<1> DEFINE W == (k + 1)..m
<1>1. ASSUME NEW i \in W
      PROVE  Cardinality({j \in W : j < i}) = i - (k + 1)
  <2>1. {j \in W : j < i} = (k + 1)..(i - 1)
    OBVIOUS
  <2> DEFINE a == k + 1
             b == i - 1
  <2>2. a \in Int /\ b \in Int /\ a <= b + 1
    OBVIOUS
  <2> HIDE DEF a, b
  <2>3. Cardinality(a..b) = IF a > b THEN 0 ELSE b - a + 1
    BY <2>2, FS_Interval
  <2>4. Cardinality(a..b) = b - a + 1
    BY <2>2, <2>3
  <2>5. {j \in W : j < i} = a..b
    BY <2>1 DEF a, b
  <2>6. b - a + 1 = i - (k + 1)
    BY DEF a, b
  <2>7. QED
    <3> HIDE DEF W
    <3>1. QED
      BY <2>4, <2>5, <2>6
<1>2. /\ DOMAIN o = 1..m
      /\ \A i \in 1..k : o[i] = off[i]
      /\ \A i \in W : o[i] = Wrap(i - (k + 1), stride, sz)
  <2>1. DOMAIN off \cup W = 1..m
    OBVIOUS
  <2>2. o = [i \in 1..m |->
               IF i \in W THEN Wrap(Cardinality({j \in W : j < i}), stride, sz) ELSE off[i]]
    BY <2>1 DEF ExtendOffsets
  <2>3. DOMAIN o = 1..m /\ \A i \in 1..k : o[i] = off[i]
    <3>1. \A i \in 1..k : i \in 1..m /\ i \notin W
      OBVIOUS
    <3> HIDE DEF W
    <3>2. QED
      BY <2>2, <3>1
  <2>4. ASSUME NEW i \in W PROVE o[i] = Wrap(i - (k + 1), stride, sz)
    <3>1. i \in 1..m
      OBVIOUS
    <3>2. o[i] = Wrap(Cardinality({j \in W : j < i}), stride, sz)
      BY <2>2, <3>1
    <3>3. QED
      BY <1>1, <3>2
  <2>5. QED
    BY <2>3, <2>4
<1>3. ASSUME NEW i \in 1..k
      PROVE  /\ o[i] * sz <= OffsetLimit
             /\ \/ o[i] = 0
                \/ i - 1 \in DOMAIN o /\ p[i] = p[i - 1] /\ o[i] = o[i - 1] + stride
  <2>1. o[i] = off[i] /\ p[i] = ptr[i]
    BY <1>2 DEF Served
  <2>2. CASE off[i] = 0
    BY <2>1, <2>2, StrideAssumption DEF Fits
  <2>3. CASE off[i] # 0
    <3>1. i - 1 \in 1..k /\ ptr[i] = ptr[i - 1] /\ off[i] = off[i - 1] + stride
      BY <2>3 DEF Runs
    <3> DEFINE j == i - 1
    <3>2. j \in 1..k /\ j \in 1..m
      BY <3>1
    <3> HIDE DEF j
    <3>3. o[j] = off[j] /\ p[j] = ptr[j]
      BY <1>2, <3>2 DEF Served
    <3>4. QED
      BY <1>2, <2>1, <3>1, <3>2, <3>3 DEF j, Fits
  <2>4. QED
    BY <2>2, <2>3
<1>4. ASSUME NEW i \in W
      PROVE  /\ o[i] * sz <= OffsetLimit
             /\ \/ o[i] = 0
                \/ i - 1 \in DOMAIN o /\ p[i] = p[i - 1] /\ o[i] = o[i - 1] + stride
  <2> DEFINE l == i - (k + 1)
  <2>1. l \in Nat /\ o[i] = Wrap(l, stride, sz)
    BY <1>2
  <2>2. CASE i = k + 1
    <3>1. l = 0
      BY <2>2
    <3> HIDE DEF l
    <3>2. QED
      BY <2>1, <3>1, WrapRuns
  <2>3. CASE i # k + 1
    <3> DEFINE j == i - 1
               h == j - (k + 1)
    <3>1. j \in W /\ j \in 1..m /\ h \in Nat /\ l = h + 1
      BY <2>3
    <3>2. p[i] = r /\ p[j] = r
      BY <3>1 DEF Served
    <3>3. o[j] = Wrap(h, stride, sz)
      BY <1>2, <3>1
    <3>4. o[i] * sz <= OffsetLimit
      <4> HIDE DEF l
      <4>1. QED
        BY <2>1, WrapRuns
    <3>5. o[i] = 0 \/ o[i] = o[j] + stride
      <4> HIDE DEF l, h, j
      <4>1. QED
        BY <2>1, <3>1, <3>3, WrapRuns
    <3>6. QED
      BY <1>2, <3>1, <3>2, <3>4, <3>5
  <2>4. QED
    BY <2>2, <2>3
<1>5. \A i \in 1..m : i \in 1..k \/ i \in W
  OBVIOUS
<1>6. QED
  BY <1>2, <1>3, <1>4, <1>5 DEF Runs, Fits

OffsetInv ==
  /\ Runs(swreg, offset, Stride) /\ Fits(offset, StrideSz)
  /\ Runs(valreg, valoffset, ValStride) /\ Fits(valoffset, ValStrideSz)

\* Serving the open window keeps both layouts.
LEMMA SwregRunsOn ==
  ASSUME IInv, OffsetInv, SwregWindow \/ SwregDone
  PROVE  Runs(swreg', offset', Stride) /\ Fits(offset', StrideSz)
<1>1. TypeOK /\ PoolInv /\ pass = "swreg"
  BY DEF IInv, SwregWindow, SwregDone, Scanning, Scanned
<1>2. Len(instr) \in Nat /\ count \in Nat /\ assigned \in Nat /\ assigned <= count
  BY <1>1, LenIsNat DEF TypeOK
<1>3. swreg \in [1..assigned -> Regs] /\ offset \in [1..assigned -> Nat]
  BY <1>1 DEF TypeOK, SwregCount
<1>4. PICK m \in Nat, r \in Regs :
        /\ assigned <= m
        /\ LET W == Without(swreg, assigned + 1, m)
           IN  /\ swreg' = Extend(swreg, W, r)
               /\ offset' = ExtendOffsets(offset, W, Stride, StrideSz)
  <2>1. CASE SwregWindow
    <3> DEFINE L == SwregLeft(count + 1)
    <3>1. Cardinality(L) <= SmallPool /\ L # {} /\ count < Len(instr)
      BY <2>1 DEF SwregWindow, Scanning
    <3>2. L \in SUBSET Regs /\ L \in SUBSET Nat
      BY <1>1, <3>1, SwregLeftIs
    <3>3. Lowest(L) \in Regs
      <4> HIDE DEF L
      <4>1. QED
        BY <3>1, <3>2, LowestIn
    <3>4. QED
      BY <1>2, <2>1, <3>3 DEF SwregWindow, Window
  <2>2. CASE SwregDone
    <3>1. count = Len(instr)
      BY <2>2 DEF SwregDone, Scanned
    <3>2. avail # {} /\ avail \in SUBSET Nat /\ avail \in SUBSET Regs
      BY <1>1, PoolNotEmpty
    <3>3. Lowest(avail) \in Regs
      BY <3>2, LowestIn
    <3>4. Leftovers(swreg) = Without(swreg, assigned + 1, Len(instr))
      BY <1>1, <1>3, <3>1, <3>2, LeftoversAre
    <3>5. QED
      BY <1>2, <2>2, <3>1, <3>3, <3>4 DEF SwregDone
  <2>3. QED
    BY <2>1, <2>2
<1>5. Without(swreg, assigned + 1, m) = (assigned + 1)..m /\ Served(swreg', swreg, assigned, m, r)
  BY <1>2, <1>3, <1>4, ExtendIs
<1>6. offset' = ExtendOffsets(offset, (assigned + 1)..m, Stride, StrideSz)
  BY <1>4, <1>5
<1>7. Runs(swreg, offset, Stride) /\ Fits(offset, StrideSz)
  BY DEF OffsetInv
<1>8. Stride \in Nat \ {0} /\ StrideSz \in Nat
  BY StrideAssumption
<1>9. QED
  BY <1>2, <1>3, <1>4, <1>5, <1>6, <1>7, <1>8, RunsOn

LEMMA ValregRunsOn ==
  ASSUME IInv, OffsetInv, ValregWindow \/ ValregDone
  PROVE  Runs(valreg', valoffset', ValStride) /\ Fits(valoffset', ValStrideSz)
<1>1. TypeOK /\ PoolInv /\ pass = "valreg"
  BY DEF IInv, ValregWindow, ValregDone, Scanning, Scanned
<1>2. Len(instr) \in Nat /\ count \in Nat /\ assigned \in Nat /\ assigned <= count
  BY <1>1, LenIsNat DEF TypeOK
<1>3. valreg \in [1..assigned -> Regs] /\ valoffset \in [1..assigned -> Nat]
  BY <1>1 DEF TypeOK, ValregCount
<1>4. PICK m \in Nat, r \in Regs :
        /\ assigned <= m
        /\ LET W == Without(valreg, assigned + 1, m)
           IN  /\ valreg' = Extend(valreg, W, r)
               /\ valoffset' = ExtendOffsets(valoffset, W, ValStride, ValStrideSz)
  <2>1. CASE ValregWindow
    <3> DEFINE L == ValregLeft(count + 1)
    <3>1. Cardinality(L) \in ValNeed..SmallValPool /\ count < Len(instr)
      BY <2>1 DEF ValregWindow, Scanning
    <3>2. L \in SUBSET Regs /\ L \in SUBSET Nat /\ L # {}
      <4>1. L \subseteq avail /\ Cardinality(L) # 0
        BY <1>1, <3>1, ValregLeftIs DEF ValregLeft
      <4>2. QED
        BY <1>1, <4>1, RegsAssumption, FS_EmptySet DEF TypeOK
    <3>3. Lowest(L) \in Regs
      <4> HIDE DEF L
      <4>1. QED
        BY <3>2, LowestIn
    <3>4. QED
      BY <1>2, <2>1, <3>3 DEF ValregWindow, Window, AssignVal
  <2>2. CASE ValregDone
    <3>1. count = Len(instr)
      BY <2>2 DEF ValregDone, Scanned
    <3>2. avail # {} /\ avail \in SUBSET Nat /\ avail \in SUBSET Regs
      BY <1>1, PoolNotEmpty
    <3>3. Lowest(avail) \in Regs
      BY <3>2, LowestIn
    <3>4. Leftovers(valreg) = Without(valreg, assigned + 1, Len(instr))
      BY <1>1, <1>3, <3>1, <3>2, LeftoversAre
    <3>5. QED
      BY <1>2, <2>2, <3>1, <3>3, <3>4 DEF ValregDone, AssignVal
  <2>3. QED
    BY <2>1, <2>2
<1>5. Without(valreg, assigned + 1, m) = (assigned + 1)..m /\ Served(valreg', valreg, assigned, m, r)
  BY <1>2, <1>3, <1>4, ExtendIs
<1>6. valoffset' = ExtendOffsets(valoffset, (assigned + 1)..m, ValStride, ValStrideSz)
  BY <1>4, <1>5
<1>7. Runs(valreg, valoffset, ValStride) /\ Fits(valoffset, ValStrideSz)
  BY DEF OffsetInv
<1>8. ValStride \in Nat \ {0} /\ ValStrideSz \in Nat
  BY StrideAssumption
<1>9. QED
  BY <1>2, <1>3, <1>4, <1>5, <1>6, <1>7, <1>8, RunsOn

LEMMA OffsetInit == Init => OffsetInv
  BY DEF Init, OffsetInv, Runs, Fits, Empty

LEMMA OffsetStep == IInv /\ OffsetInv /\ [Next]_vars => OffsetInv'
<1> SUFFICES ASSUME IInv, OffsetInv, [Next]_vars PROVE OffsetInv'
  OBVIOUS
<1>1. CASE SwregWindow \/ SwregDone
  <2>1. UNCHANGED <<valreg, valoffset>>
    BY <1>1 DEF SwregWindow, SwregDone, valVars
  <2>2. QED
    BY <1>1, <2>1, SwregRunsOn DEF OffsetInv, Runs, Fits
<1>2. CASE ValregWindow \/ ValregDone
  <2>1. UNCHANGED <<swreg, offset>>
    BY <1>2 DEF ValregWindow, ValregDone
  <2>2. QED
    BY <1>2, <2>1, ValregRunsOn DEF OffsetInv, Runs, Fits
<1>3. CASE UNCHANGED <<swreg, offset, valreg, valoffset>>
  BY <1>3 DEF OffsetInv, Runs, Fits
<1>4. QED
  BY <1>1, <1>2, <1>3
     DEF Next, SwregPass, TestregPass, ValregPass, SwregKeep, TestregKeep, TestregWindow,
         TestregDone, ValregKeep, Keep, vars, valVars

LEMMA OffsetAlways == Spec => []OffsetInv
<1>1. QED
  BY OffsetInit, OffsetStep, Invariance, PTL DEF Spec

\* The layout that write_test takes for granted: every instruction starts a
\* region or goes on where its predecessor ended, and its offset fits the
\* immediate of a store (generator.py, swreg).
THEOREM LayoutRuns == Spec => []OffsetsRun
<1>1. OffsetInv => OffsetsRun
  BY DEF OffsetInv, Runs, Fits, OffsetsRun
<1>2. QED
  BY <1>1, OffsetAlways, PTL

-----------------------------------------------------------------------------
\* The register passes run inside this specification as they do alone.
LEMMA Passes_ == LayoutNext \/ UNCHANGED allVars => [Next]_vars
BY DEF LayoutNext, Allocate, WriteTest, WriteInstance, CloseFile, RunSigbase, RunValbase,
       RunTest, NextFile, allVars

LEMMA Allocated == LayoutSpec => [](IInv /\ OffsetInv)
<1>1. LayoutInit => IInv /\ OffsetInv
  BY InitInv, OffsetInit DEF LayoutInit
<1>2. IInv /\ OffsetInv /\ [LayoutNext]_allVars => (IInv /\ OffsetInv)'
  BY Passes_, StepInv, OffsetStep
<1>3. QED
  BY <1>1, <1>2, PTL DEF LayoutSpec

\* What the passes leave: all instructions have the keys of all passes.
LEMMA Served_ ==
  ASSUME IInv, pass = "done"
  PROVE  /\ Len(instr) \in Nat
         /\ swreg \in [1..Len(instr) -> Regs] /\ offset \in [1..Len(instr) -> Nat]
         /\ testreg \in [1..Len(instr) -> Regs]
         /\ HasVal => /\ valreg \in [1..Len(instr) -> Regs]
                      /\ valoffset \in [1..Len(instr) -> Nat]
<1>1. TypeOK
  BY DEF IInv
<1>2. Len(instr) \in Nat
  BY <1>1, LenIsNat
<1>3. SwregCount = Len(instr) /\ TestregCount = Len(instr) /\ (HasVal => ValregCount = Len(instr))
  BY DEF SwregCount, TestregCount, ValregCount
<1>4. QED
  BY <1>1, <1>2, <1>3 DEF TypeOK

\* The base ISA has registers numbered from 1.
LEMMA RegsAre == \A r \in Regs : r \in Nat /\ r # 0
BY RegsAssumption

-----------------------------------------------------------------------------
(***************************************************************************)
(* Files                                                                   *)
(***************************************************************************)
LEMMA ChunkIs ==
  ASSUME LayoutTypeOK, IInv
  PROVE  /\ Len(instr) \in Nat /\ Chunk \in Nat
         /\ Chunk = 0 => Len(instr) = 0
         /\ inst <= Len(instr) => Chunk <= Len(instr)
         /\ inst > Len(instr) => Chunk > Len(instr)
<1>1. inst \in Nat /\ Len(instr) \in Nat
  BY LayoutAssumption, LenIsNat DEF LayoutTypeOK, IInv
<1>2. QED
  BY <1>1 DEF Chunk

\* One more file for the instances behind those covered.
LEMMA CoverMore ==
  ASSUME files \in Seq(SUBSET Nat), Chunk \in Nat, NEW m \in Nat, NEW k \in Nat, m < k,
         k - m <= Chunk, Cover(m), files' = Append(files, (m + 1)..k), UNCHANGED <<instr, inst>>
  PROVE  Cover(k)'
<1> DEFINE F == Len(files)
<1>1. /\ F \in Nat /\ DOMAIN files = 1..F /\ DOMAIN files' = 1..(F + 1)
      /\ files'[F + 1] = (m + 1)..k /\ \A f \in 1..F : files'[f] = files[f]
  OBVIOUS
<1>2. Chunk' = Chunk
  BY DEF Chunk
<1> HIDE DEF F
<1>3. ASSUME NEW f \in 1..F
      PROVE  /\ \E lo, hi \in 1..k : lo <= hi /\ hi - lo < Chunk /\ files'[f] = lo..hi
             /\ files'[f] \subseteq 1..m
  <2>1. PICK lo \in 1..m, hi \in 1..m : lo <= hi /\ hi - lo < Chunk /\ files[f] = lo..hi
    BY <1>1 DEF Cover
  <2>2. lo \in 1..k /\ hi \in 1..k /\ lo..hi \subseteq 1..m
    BY <2>1
  <2>3. QED
    BY <1>1, <2>1, <2>2
<1>4. \E lo, hi \in 1..k : lo <= hi /\ hi - lo < Chunk /\ files'[F + 1] = lo..hi
  <2>1. m + 1 \in 1..k /\ k \in 1..k /\ m + 1 <= k /\ k - (m + 1) < Chunk
    OBVIOUS
  <2>2. QED
    BY <1>1, <2>1
<1>5. ASSUME NEW i \in 1..k
      PROVE  \E f \in 1..(F + 1) : i \in files'[f] /\ \A g \in 1..(F + 1) : i \in files'[g] => g = f
  <2>1. CASE i <= m
    <3>1. PICK f \in 1..F : i \in files[f] /\ \A g \in 1..F : i \in files[g] => g = f
      <4>1. i \in 1..m
        BY <2>1
      <4>2. QED
        BY <1>1, <4>1 DEF Cover
    <3>2. i \notin files'[F + 1] /\ F + 1 # f /\ f \in 1..(F + 1)
      BY <1>1, <2>1
    <3>3. \A g \in 1..(F + 1) : g \in 1..F \/ g = F + 1
      BY <1>1
    <3>4. QED
      BY <1>1, <3>1, <3>2, <3>3
  <2>2. CASE i > m
    <3>1. i \in files'[F + 1] /\ F + 1 \in 1..(F + 1)
      BY <1>1, <2>2
    <3>2. \A g \in 1..F : i \notin files'[g] /\ g # F + 1
      BY <1>1, <1>3, <2>2
    <3>3. \A g \in 1..(F + 1) : g \in 1..F \/ g = F + 1
      BY <1>1
    <3>4. QED
      BY <3>1, <3>2, <3>3
  <2>3. i <= m \/ i > m
    OBVIOUS
  <2>4. QED
    BY <2>1, <2>2, <2>3, Zenon
<1>6. \A f \in 1..(F + 1) : f \in 1..F \/ f = F + 1
  BY <1>1
<1>7. ASSUME NEW f \in DOMAIN files'
      PROVE  \E lo, hi \in 1..k : lo <= hi /\ hi - lo < Chunk' /\ files'[f] = lo..hi
  BY <1>1, <1>2, <1>3, <1>4, <1>6
<1>8. \A i \in 1..k : \E f \in DOMAIN files' :
                          i \in files'[f] /\ \A g \in DOMAIN files' : i \in files'[g] => g = f
  BY <1>1, <1>5
<1>9. QED
  BY <1>7, <1>8 DEF Cover

LEMMA CoverSame ==
  ASSUME NEW m, Cover(m), UNCHANGED <<files, instr, inst>>
  PROVE  Cover(m)'
BY DEF Cover, Chunk

LEMMA CoverNone ==
  ASSUME files = <<>>
  PROVE  Cover(0)
BY DEF Cover

\* Entering the loop with the instances before lo covered.
LEMMA EnterFiles ==
  ASSUME LayoutTypeOK, IInv, pass = "done", NEW lo \in Nat, NEW hi \in Nat,
         UNCHANGED <<vars, inst, files>>, start' = lo, end' = hi, EnterLoop(lo, hi),
         hi = lo + Chunk \/ (hi = Len(instr) /\ hi < lo + Chunk),
         lo < Len(instr) /\ hi <= Len(instr) => lo < hi /\ Cover(lo),
         lo >= Len(instr) \/ hi > Len(instr) =>
            (inst <= Len(instr) => Cover(Len(instr)))
  PROVE  FilesInv'
<1>1. Len(instr) \in Nat /\ Chunk \in Nat /\ inst \in Nat
  BY ChunkIs, LayoutAssumption DEF LayoutTypeOK
<1>2. UNCHANGED <<instr, pass>> /\ Chunk' = Chunk
  BY DEF vars, Chunk
<1>3. CASE lo < Len(instr) /\ hi <= Len(instr)
  <2>1. stage' = "write" /\ written' = 0
    BY <1>3 DEF EnterLoop, OpenFile
  <2>2. Cover(lo)'
    BY <1>2, <1>3, CoverSame
  <2>3. Cover(start)'
    BY <2>2 DEF Cover, Chunk
  <2>4. QED
    BY <1>1, <1>2, <1>3, <2>1, <2>3 DEF FilesInv
<1>4. CASE ~(lo < Len(instr) /\ hi <= Len(instr))
  <2>1. stage' = "stop"
    BY <1>4 DEF EnterLoop
  <2>2. lo >= Len(instr) \/ hi > Len(instr)
    BY <1>1, <1>4
  <2>3. ASSUME inst <= Len(instr) PROVE Cover(Len(instr))'
    BY <1>2, <2>2, <2>3, CoverSame DEF Cover, Chunk
  <2>4. QED
    BY <1>1, <1>2, <2>1, <2>3 DEF FilesInv
<1>5. QED
  BY <1>3, <1>4

LEMMA FilesStep ==
  ASSUME LayoutTypeOK, IInv, FilesInv, LayoutNext
  PROVE  FilesInv'
<1>1. /\ Len(instr) \in Nat /\ Chunk \in Nat /\ inst \in Nat /\ start \in Nat /\ end \in Nat
      /\ (Chunk = 0 => Len(instr) = 0) /\ (inst <= Len(instr) => Chunk <= Len(instr))
      /\ (inst > Len(instr) => Chunk > Len(instr))
  BY ChunkIs, LayoutAssumption DEF LayoutTypeOK
<1>2. CASE Allocate
  <2>1. /\ stage = "allocate" /\ stage' = "allocate"
        /\ start' = start /\ end' = end /\ files' = files
    BY <1>2 DEF Allocate, layoutVars, writeVars
  <2>2. QED
    BY <2>1 DEF FilesInv
<1>3. CASE WriteTest
  <2>1. /\ stage = "allocate" /\ pass = "done" /\ UNCHANGED <<vars, inst, files>>
        /\ start' = 0 /\ end' = Chunk /\ EnterLoop(0, Chunk) /\ files = <<>>
    BY <1>3 DEF WriteTest, FilesInv
  <2>2. Cover(0)
    BY <2>1, CoverNone
  <2>3. 0 < Len(instr) => 0 < Chunk
    BY <1>1
  <2>4. 0 >= Len(instr) \/ Chunk > Len(instr) => (inst <= Len(instr) => Cover(Len(instr)))
    <3>1. ASSUME inst <= Len(instr), 0 >= Len(instr) \/ Chunk > Len(instr)
          PROVE  Len(instr) = 0
      BY <1>1, <3>1
    <3>2. QED
      BY <2>2, <3>1
  <2>5. Chunk = 0 + Chunk /\ 0 \in Nat
    BY <1>1
  <2>6. QED
    BY <1>1, <2>1, <2>2, <2>3, <2>4, <2>5, EnterFiles
<1>4. CASE WriteInstance
  <2>1. /\ stage = "write" /\ stage' = "write" /\ start + written < end /\ written' = written + 1
        /\ UNCHANGED <<instr, pass, inst, start, end, files>> /\ written \in Nat
    BY <1>4 DEF WriteInstance, vars, LayoutTypeOK
  <2>2. Cover(start)' /\ Chunk' = Chunk
    <3>1. Cover(start)
      BY <2>1 DEF FilesInv
    <3>2. QED
      BY <2>1, <3>1 DEF Cover, Chunk
  <2>3. QED
    BY <1>1, <2>1, <2>2 DEF FilesInv
<1>5. CASE CloseFile
  <2>1. /\ stage = "write" /\ stage' = "run" /\ start + written = end
        /\ files' = Append(files, (start + 1)..end) /\ executed' = 0 /\ code' = code
        /\ UNCHANGED <<instr, pass, inst, start, end, written>> /\ written \in Nat
        /\ files \in Seq(SUBSET Nat) /\ code \in Seq(Items)
    BY <1>5 DEF CloseFile, vars, LayoutTypeOK
  <2>2. start < end /\ end - start <= Chunk /\ Cover(start)
    BY <1>1, <2>1 DEF FilesInv
  <2>3. Cover(end)'
    <3>1. \E m \in Nat, k \in Nat : m = end /\ k = start
      BY <1>1
    <3>2. PICK m \in Nat, k \in Nat : m = end /\ k = start
      BY <3>1
    <3>3. /\ files' = Append(files, (k + 1)..m) /\ k < m /\ m - k <= Chunk
          /\ Cover(k) /\ UNCHANGED <<instr, inst>>
      BY <1>1, <2>1, <2>2, <3>2
    <3>4. Cover(m)'
      BY <1>1, <2>1, <3>2, <3>3, CoverMore
    <3>5. m = end'
      BY <2>1, <3>2
    <3>6. QED
      BY <3>4, <3>5 DEF Cover
  <2>4. Chunk' = Chunk /\ Len(code) \in Nat
    BY <2>1 DEF Chunk
  <2>5. QED
    BY <1>1, <2>1, <2>3, <2>4 DEF FilesInv
<1>6. CASE RunSigbase \/ RunValbase \/ RunTest
  <2>1. /\ stage = "run" /\ stage' = "run" /\ executed < Len(code) /\ executed' = executed + 1
        /\ UNCHANGED <<instr, pass, inst, start, end, written, files, code>>
        /\ executed \in Nat /\ code \in Seq(Items)
    BY <1>6 DEF RunSigbase, RunValbase, RunTest, Execute, vars, writeVars, LayoutTypeOK
  <2>2. Len(code) \in Nat
    BY <2>1
  <2>3. Cover(end)' /\ Chunk' = Chunk
    <3>1. Cover(end)
      BY <2>1 DEF FilesInv
    <3>2. QED
      BY <2>1, <3>1 DEF Cover, Chunk
  <2>4. QED
    BY <1>1, <2>1, <2>2, <2>3 DEF FilesInv
<1>7. CASE NextFile
  <2> DEFINE lo == start + Chunk
             hi == IF Len(instr) - end >= Chunk THEN end + Chunk ELSE Len(instr)
  <2>1. /\ stage = "run" /\ pass = "done" /\ UNCHANGED <<vars, inst, files>>
        /\ start' = lo /\ end' = hi /\ EnterLoop(lo, hi)
    BY <1>7 DEF NextFile, FilesInv
  <2>2. /\ start < end /\ end <= Len(instr) /\ Cover(end)
        /\ end = start + Chunk \/ (end = Len(instr) /\ end < start + Chunk)
    BY <2>1 DEF FilesInv
  <2>3. lo \in Nat /\ hi \in Nat
    BY <1>1
  <2>4. hi = lo + Chunk \/ (hi = Len(instr) /\ hi < lo + Chunk)
    BY <1>1, <2>2
  <2>5. lo < Len(instr) => lo < hi /\ lo = end
    BY <1>1, <2>2
  <2>6. hi <= Len(instr) /\ (lo >= Len(instr) => end = Len(instr))
    BY <1>1, <2>2
  <2> HIDE DEF lo, hi
  <2>7. lo < Len(instr) => Cover(lo)
    BY <2>2, <2>5
  <2>8. ~(hi > Len(instr))
    BY <1>1, <2>3, <2>6
  <2>9. QED
    BY <2>1, <2>2, <2>3, <2>4, <2>5, <2>6, <2>7, <2>8, EnterFiles
<1>8. QED
  BY <1>2, <1>3, <1>4, <1>5, <1>6, <1>7 DEF LayoutNext

-----------------------------------------------------------------------------
(***************************************************************************)
(* Types                                                                   *)
(***************************************************************************)
\* A list and one more item, or none.
LEMMA OneMore ==
  ASSUME NEW S, NEW s \in Seq(S), NEW e \in S
  PROVE  /\ s \o <<e>> \in Seq(S) /\ s \o <<>> = s
         /\ Len(s) \in Nat /\ DOMAIN s = 1..Len(s)
         /\ Len(s \o <<e>>) = Len(s) + 1
         /\ DOMAIN (s \o <<e>>) = 1..(Len(s) + 1)
         /\ (s \o <<e>>)[Len(s) + 1] = e
         /\ \A i \in 1..Len(s) : (s \o <<e>>)[i] = s[i]
<1>1. s \o <<e>> = Append(s, e) /\ s \o <<>> = s
  OBVIOUS
<1>2. QED
  BY <1>1

LEMMA Appended ==
  ASSUME NEW S, NEW s \in Seq(S), NEW e \in S
  PROVE  /\ Append(s, e) \in Seq(S)
         /\ Len(s) \in Nat /\ DOMAIN s = 1..Len(s)
         /\ Len(Append(s, e)) = Len(s) + 1
         /\ DOMAIN Append(s, e) = 1..(Len(s) + 1)
         /\ Append(s, e)[Len(s) + 1] = e
         /\ \A i \in 1..Len(s) : Append(s, e)[i] = s[i]
OBVIOUS

LEMMA TwoMore ==
  ASSUME NEW S, NEW s \in Seq(S), NEW a \in S, NEW b \in S
  PROVE  /\ s \o <<a>> \o <<b>> \in Seq(S)
         /\ Len(s) \in Nat /\ DOMAIN s = 1..Len(s)
         /\ Len(s \o <<a>> \o <<b>>) = Len(s) + 2
         /\ DOMAIN (s \o <<a>> \o <<b>>) = 1..(Len(s) + 2)
         /\ (s \o <<a>> \o <<b>>)[Len(s) + 1] = a
         /\ (s \o <<a>> \o <<b>>)[Len(s) + 2] = b
         /\ \A i \in 1..Len(s) : (s \o <<a>> \o <<b>>)[i] = s[i]
<1> DEFINE u == s \o <<a>>
<1>1. /\ u \in Seq(S) /\ Len(u) = Len(s) + 1 /\ u[Len(s) + 1] = a
      /\ \A i \in 1..Len(s) : u[i] = s[i]
  BY OneMore
<1>2. Len(s) \in Nat /\ DOMAIN s = 1..Len(s)
  OBVIOUS
<1> HIDE DEF u
<1>3. /\ u \o <<b>> \in Seq(S) /\ Len(u \o <<b>>) = Len(u) + 1
      /\ DOMAIN (u \o <<b>>) = 1..(Len(u) + 1) /\ (u \o <<b>>)[Len(u) + 1] = b
      /\ \A i \in 1..Len(u) : (u \o <<b>>)[i] = u[i]
  BY <1>1, OneMore
<1>4. /\ u \o <<b>> \in Seq(S) /\ Len(u \o <<b>>) = Len(s) + 2
      /\ DOMAIN (u \o <<b>>) = 1..(Len(s) + 2) /\ (u \o <<b>>)[Len(s) + 2] = b
      /\ (u \o <<b>>)[Len(s) + 1] = a
      /\ \A i \in 1..Len(s) : (u \o <<b>>)[i] = s[i]
  BY <1>1, <1>2, <1>3
<1>5. QED
  BY <1>2, <1>4 DEF u

LEMMA SourcesIs ==
  /\ Sources \in Nat /\ Sources <= 2
  /\ \A k \in 1..Sources : Source[k] \in OpVars
<1>1. CASE "rs1" \in OpVars /\ "rs2" \in OpVars
  <2>1. OpVars \ {"rd"} = {"rs1"} \cup {"rs2"}
    BY <1>1, OperandAssumption
  <2>2. Cardinality({"rs1"} \cup {"rs2"}) = 2
    <3>1. IsFiniteSet({"rs1"}) /\ Cardinality({"rs1"}) = 1 /\ "rs2" \notin {"rs1"}
      BY FS_Singleton, Zenon
    <3>2. Cardinality({"rs1"} \cup {"rs2"}) = Cardinality({"rs1"}) + 1
      BY <3>1, FS_AddElement
    <3>3. QED
      BY <3>1, <3>2
  <2>3. Sources = 2
    BY <2>1, <2>2 DEF Sources
  <2>4. QED
    BY <1>1, <2>3 DEF Source
<1>2. CASE "rs1" \in OpVars /\ "rs2" \notin OpVars
  <2>1. OpVars \ {"rd"} = {"rs1"}
    BY <1>2, OperandAssumption
  <2>2. Sources = 1
    BY <2>1, FS_Singleton, Zenon DEF Sources
  <2>3. QED
    BY <1>2, <2>2 DEF Source
<1>3. CASE "rs1" \notin OpVars
  <2>1. OpVars \ {"rd"} = {}
    BY <1>3, OperandAssumption, LayoutAssumption
  <2>2. Sources = 0
    BY <2>1, FS_EmptySet, Zenon DEF Sources
  <2>3. QED
    BY <2>2
<1>4. QED
  BY <1>1, <1>2, <1>3

LEMMA ExcessIs ==
  ASSUME NEW a \in Int
  PROVE  Excess(a) \in Int /\ OffsetWords \in Nat
<1>1. OffsetWords \in Nat
  <2>1. OffsetLimit + 1 \in Nat /\ WordSz \in Nat \ {0}
    BY StrideAssumption, LayoutAssumption
  <2>2. QED
    BY <2>1 DEF OffsetWords
<1>2. QED
  BY <1>1 DEF Excess

LEMMA SkippedIs ==
  ASSUME NEW a \in Int
  PROVE  Skipped(a, Words) \in Int
<1> DEFINE b == a - Excess(a) + Words - 1
<1>1. Excess(a) \in Int /\ Words \in Nat
  BY ExcessIs, LayoutAssumption
<1>2. b \in Int
  BY <1>1
<1> HIDE DEF b
<1>3. Excess(b) \in Int
  BY <1>2, ExcessIs
<1>4. Skipped(a, Words) = Excess(a) + Excess(b)
  BY DEF Skipped, b
<1>5. QED
  BY <1>1, <1>3, <1>4

\* CHK_OFFSET brings the offsets of all words of an instance within reach, and
\* leaves an offset that it can bring within reach again.
LEMMA Encodes ==
  ASSUME NEW a \in 0..OffsetWords
  PROVE  /\ \A w \in 1..Words : Low(a, w) < OffsetWords
         /\ a + Words - Skipped(a, Words) \in 0..OffsetWords
<1>1. /\ OffsetWords \in Nat /\ Words \in Nat \ {0} /\ Words < OffsetWords
      /\ a \in Nat /\ a <= OffsetWords
  BY ExcessIs, LayoutAssumption
<1>2. ASSUME NEW w \in 1..Words
      PROVE  Low(a, w) \in Nat /\ Low(a, w) < OffsetWords
  <2>1. w \in Nat /\ 1 <= w /\ w <= Words
    BY <1>1
  <2>2. CASE a = OffsetWords
    <3>1. Excess(a) = OffsetWords - 1
      BY <1>1, <2>2 DEF Excess
    <3>2. a - Excess(a) + w - 1 = w
      BY <1>1, <2>1, <2>2, <3>1
    <3>3. Excess(w) = 0
      BY <1>1, <2>1 DEF Excess
    <3>4. Skipped(a, w) = OffsetWords - 1
      BY <1>1, <3>1, <3>2, <3>3 DEF Skipped
    <3>5. QED
      BY <1>1, <2>1, <2>2, <3>4 DEF Low
  <2>3. CASE a < OffsetWords
    <3> DEFINE x == a + w - 1
    <3>1. Excess(a) = 0
      BY <1>1, <2>3 DEF Excess
    <3>2. a - Excess(a) + w - 1 = x /\ x \in Nat
      BY <1>1, <2>1, <3>1
    <3> HIDE DEF x
    <3>3. Excess(x) = IF x >= OffsetWords THEN OffsetWords - 1 ELSE 0
      BY DEF Excess
    <3>4. Skipped(a, w) = Excess(x)
      BY <1>1, <3>1, <3>2, <3>3 DEF Skipped
    <3>5. Low(a, w) = x - Excess(x)
      <4>1. Skipped(a, w) \in Int
        BY <1>1, <3>2, <3>3, <3>4
      <4>2. Low(a, w) = x - Skipped(a, w)
        BY <1>1, <2>1, <4>1 DEF Low, x
      <4>3. QED
        BY <3>4, <4>2
    <3>6. x <= OffsetWords + Words - 2
      BY <1>1, <2>1, <2>3 DEF x
    <3>7. QED
      BY <1>1, <3>2, <3>3, <3>5, <3>6
  <2>4. QED
    BY <1>1, <2>2, <2>3
<1>3. Low(a, Words) = a + Words - 1 - Skipped(a, Words) /\ Skipped(a, Words) \in Int
  BY <1>1, SkippedIs DEF Low
<1>4. QED
  BY <1>1, <1>2, <1>3

\* What WriteInstance appends to the code.
LEMMA WriteIs ==
  ASSUME LayoutTypeOK, IInv, FilesInv, WriteInstance, NEW i, i = start + written + 1,
         NEW c, c = Len(code)
  PROVE  /\ i \in 1..Len(instr) /\ swreg[i] \in Regs /\ offset[i] \in Nat
         /\ HasVal => valreg[i] \in Regs /\ valoffset[i] \in Nat
         /\ code' \in Seq(Items) /\ c \in Nat /\ DOMAIN code = 1..c
         /\ \A k \in 1..c : code'[k] = code[k]
         /\ Len(code') \in {c + 1, c + 2, c + 3} /\ DOMAIN code' = 1..Len(code')
         /\ code'[Len(code')] = [op |-> "test", i |-> i]
         /\ NewRegion(i) =>
              /\ sign' = Append(sign, Region) /\ n' = Stride /\ sreg' = swreg[i]
              /\ regs' = [regs EXCEPT ![sreg] = @ + 1]
              /\ Len(code') # c + 1
              /\ code'[Len(code') - 1] =
                   [op |-> "sigbase", r |-> swreg[i], label |-> <<swreg[i], regs'[swreg[i]]>>]
         /\ ~NewRegion(i) => n' = n + Stride /\ UNCHANGED <<sign, sreg, regs>>
         /\ NewDataset(i) =>
              /\ Len(code') = IF NewRegion(i) THEN c + 3 ELSE c + 2
              /\ code'[c + 1] = [op |-> "valbase", r |-> valreg[i], at |-> Len(data)]
         /\ ~NewDataset(i) => Len(code') = IF NewRegion(i) THEN c + 2 ELSE c + 1
<1>1. /\ stage = "write" /\ pass = "done" /\ start \in Nat /\ end \in Nat /\ written \in Nat
      /\ start + written < end /\ end <= Len(instr) /\ code \in Seq(Items)
      /\ regs \in [Regs -> Nat] /\ data \in Seq(Nat \X Nat)
  BY DEF WriteInstance, FilesInv, LayoutTypeOK
<1>2. /\ Len(instr) \in Nat /\ swreg \in [1..Len(instr) -> Regs]
      /\ offset \in [1..Len(instr) -> Nat]
      /\ HasVal => valreg \in [1..Len(instr) -> Regs] /\ valoffset \in [1..Len(instr) -> Nat]
  BY <1>1, Served_
<1>3. /\ i \in 1..Len(instr) /\ swreg[i] \in Regs /\ offset[i] \in Nat
      /\ HasVal => valreg[i] \in Regs /\ valoffset[i] \in Nat
  <2>1. i \in 1..Len(instr)
    BY <1>1, <1>2
  <2>2. QED
    BY <1>2, <2>1
<1> DEFINE used == [regs EXCEPT ![sreg] = @ + 1]
           val  == [op |-> "valbase", r |-> valreg[i], at |-> Len(data)]
           sig  == [op |-> "sigbase", r |-> swreg[i], label |-> <<swreg[i], used[swreg[i]]>>]
           test == [op |-> "test", i |-> i]
<1>4. used \in [Regs -> Nat]
  <2>1. used = [r \in Regs |-> IF r = sreg THEN regs[r] + 1 ELSE regs[r]]
    BY <1>1
  <2>2. \A r \in Regs : regs[r] \in Nat
    BY <1>1
  <2> HIDE DEF used
  <2>3. QED
    BY <2>1, <2>2
<1>5. used[swreg[i]] \in Nat
  BY <1>3, <1>4
<1> HIDE DEF used
<1>6. test \in Items /\ sig \in Items /\ (HasVal => val \in Items)
  <2>1. Len(data) \in Nat
    BY <1>1
  <2>2. QED
    BY <1>3, <1>5, <2>1 DEF Items
<1>7. c \in Nat /\ DOMAIN code = 1..c
  BY <1>1
<1>8. CASE NewRegion(i)
  <2>1. /\ sign' = Append(sign, Region) /\ n' = Stride /\ sreg' = swreg[i] /\ regs' = used
        /\ code' = code \o ValbaseUpd(i) \o <<sig>> \o <<test>>
    BY <1>8 DEF WriteInstance, Sigbase, used
  <2>2. CASE NewDataset(i)
    <3>1. HasVal /\ code' = code \o <<val>> \o <<sig>> \o <<test>>
      BY <2>1, <2>2 DEF ValbaseUpd, NewDataset
    <3> HIDE DEF val, sig, test
    <3>2. /\ code' \in Seq(Items) /\ Len(code') = c + 3 /\ DOMAIN code' = 1..(c + 3)
          /\ code'[c + 1] = val /\ code'[c + 2] = sig /\ code'[c + 3] = test
          /\ \A k \in 1..c : code'[k] = code[k]
      <4> DEFINE u == code \o <<val>> \o <<sig>>
      <4>1. /\ u \in Seq(Items) /\ Len(u) = c + 2 /\ u[c + 1] = val /\ u[c + 2] = sig
            /\ \A k \in 1..c : u[k] = code[k]
        <5>1. code \in Seq(Items) /\ val \in Items /\ sig \in Items
          BY <1>1, <1>6, <3>1
        <5>2. QED
          BY <5>1, TwoMore
      <4>2. code' = u \o <<test>>
        BY <3>1
      <4> HIDE DEF u
      <4>3. /\ code' \in Seq(Items) /\ Len(code') = c + 2 + 1 /\ DOMAIN code' = 1..(c + 2 + 1)
            /\ code'[c + 2 + 1] = test /\ \A k \in 1..(c + 2) : code'[k] = u[k]
        BY <1>6, <4>1, <4>2, OneMore
      <4>4. c + 2 + 1 = c + 3 /\ c + 1 \in 1..(c + 2) /\ c + 2 \in 1..(c + 2)
            /\ \A k \in 1..c : k \in 1..(c + 2)
        BY <1>7
      <4>5. QED
        BY <4>1, <4>3, <4>4
    <3>3. c + 3 - 1 = c + 2 /\ c + 3 # c + 1
      BY <1>7
    <3>4. QED
      BY <1>3, <1>7, <1>8, <2>1, <2>2, <3>2, <3>3 DEF val, sig, test, used
  <2>3. CASE ~NewDataset(i)
    <3>1. code' = code \o <<sig>> \o <<test>>
      <4>1. code \o <<>> = code
        BY <1>1
      <4>2. QED
        BY <2>1, <2>3, <4>1 DEF ValbaseUpd
    <3> HIDE DEF val, sig, test
    <3>2. /\ code' \in Seq(Items) /\ Len(code') = c + 2 /\ DOMAIN code' = 1..(c + 2)
          /\ code'[c + 1] = sig /\ code'[c + 2] = test
          /\ \A k \in 1..c : code'[k] = code[k]
      BY <1>1, <1>6, <3>1, TwoMore
    <3>3. c + 2 - 1 = c + 1 /\ c + 2 # c + 1
      BY <1>7
    <3>4. QED
      BY <1>3, <1>7, <1>8, <2>1, <2>3, <3>2, <3>3 DEF sig, test, used
  <2>4. QED
    BY <2>2, <2>3
<1>9. CASE ~NewRegion(i)
  <2>1. /\ n' = n + Stride /\ UNCHANGED <<sign, sreg, regs>>
        /\ code' = code \o ValbaseUpd(i) \o <<test>>
    BY <1>9 DEF WriteInstance
  <2>2. CASE NewDataset(i)
    <3>1. HasVal /\ code' = code \o <<val>> \o <<test>>
      BY <2>1, <2>2 DEF ValbaseUpd, NewDataset
    <3> HIDE DEF val, sig, test
    <3>2. /\ code' \in Seq(Items) /\ Len(code') = c + 2 /\ DOMAIN code' = 1..(c + 2)
          /\ code'[c + 1] = val /\ code'[c + 2] = test
          /\ \A k \in 1..c : code'[k] = code[k]
      BY <1>1, <1>6, <3>1, TwoMore
    <3>3. QED
      BY <1>3, <1>7, <1>9, <2>1, <2>2, <3>2 DEF val, test
  <2>3. CASE ~NewDataset(i)
    <3>1. code' = code \o <<test>>
      <4>1. code \o <<>> = code
        BY <1>1
      <4>2. QED
        BY <2>1, <2>3, <4>1 DEF ValbaseUpd
    <3> HIDE DEF val, sig, test
    <3>2. /\ code' \in Seq(Items) /\ Len(code') = c + 1 /\ DOMAIN code' = 1..(c + 1)
          /\ code'[c + 1] = test
          /\ \A k \in 1..c : code'[k] = code[k]
      BY <1>1, <1>6, <3>1, OneMore
    <3>3. QED
      BY <1>3, <1>7, <1>9, <2>1, <2>3, <3>2 DEF test
  <2>4. QED
    BY <2>2, <2>3
<1>10. QED
  BY <1>8, <1>9

LEMMA OpenType ==
  ASSUME LayoutTypeOK, IInv, pass = "done", NEW lo \in Nat, NEW hi \in Nat, EnterLoop(lo, hi),
         UNCHANGED <<inst, files, runVars>>, start' = lo, end' = hi
  PROVE  LayoutTypeOK'
<1>1. UNCHANGED <<inst, files, executed, reg, asmoff>>
  BY DEF runVars
<1>2. CASE hi <= Len(instr) /\ lo < Len(instr)
  <2>1. stage' = "write" /\ OpenFile(lo)
    BY <1>2 DEF EnterLoop
  <2>2. swreg[lo + 1] \in Regs
    <3>1. lo + 1 \in 1..Len(instr) /\ swreg \in [1..Len(instr) -> Regs]
      BY <1>2, Served_
    <3>2. QED
      BY <3>1
  <2>3. [r \in Regs |-> 0] \in [Regs -> Nat]
    OBVIOUS
  <2>4. <<>> \in Seq(Items) /\ <<>> \in Seq(Regions) /\ <<>> \in Seq(Nat \X Nat)
    OBVIOUS
  <2>5. QED
    BY <1>1, <2>1, <2>2, <2>3, <2>4 DEF OpenFile, LayoutTypeOK
<1>3. CASE ~(hi <= Len(instr) /\ lo < Len(instr))
  BY <1>1, <1>3 DEF EnterLoop, LayoutTypeOK
<1>4. QED
  BY <1>2, <1>3

\* A region that is closed: it starts where the signature ends so far.
LEMMA SignEndIs ==
  ASSUME sign \in Seq(Regions)
  PROVE  SignEnd \in Nat
<1>1. CASE sign = <<>>
  BY <1>1 DEF SignEnd
<1>2. CASE sign # <<>>
  <2>1. Len(sign) \in DOMAIN sign
    BY <1>2
  <2>2. sign[Len(sign)] \in Regions
    BY <2>1
  <2>3. sign[Len(sign)].at \in Nat /\ sign[Len(sign)].size \in Nat
    BY <2>2 DEF Regions
  <2>4. QED
    BY <1>2, <2>3 DEF SignEnd, Last
<1>3. QED
  BY <1>1, <1>2

LEMMA RegionType ==
  ASSUME LayoutTypeOK, stage = "write"
  PROVE  /\ Region \in Regions
         /\ sign' = Append(sign, Region) => sign' \in Seq(Regions)
<1>1. SignEnd \in Nat
  BY SignEndIs DEF LayoutTypeOK
<1>2. Region \in Regions
  <2>1. sreg \in Regs /\ n \in Nat /\ regs[sreg] \in Nat
    BY DEF LayoutTypeOK
  <2>2. QED
    BY <1>1, <2>1 DEF Region, Regions
<1>3. Append(sign, Region) \in Seq(Regions)
  BY <1>2, Appended DEF LayoutTypeOK
<1>4. QED
  BY <1>2, <1>3

LEMMA WriteType ==
  ASSUME LayoutTypeOK, IInv, FilesInv, WriteInstance
  PROVE  LayoutTypeOK'
<1> DEFINE i == start + written + 1
<1>1. /\ i \in 1..Len(instr) /\ swreg[i] \in Regs
      /\ HasVal => valreg[i] \in Regs
      /\ code' \in Seq(Items)
      /\ NewRegion(i) => /\ sign' = Append(sign, Region) /\ n' = Stride /\ sreg' = swreg[i]
                         /\ regs' = [regs EXCEPT ![sreg] = @ + 1]
      /\ ~NewRegion(i) => n' = n + Stride /\ UNCHANGED <<sign, sreg, regs>>
  BY WriteIs
<1>2. /\ stage' = "write" /\ UNCHANGED <<inst, start, end, files, executed, reg, asmoff>>
      /\ written' = written + 1 /\ Stride \in Nat /\ stage = "write"
      /\ vreg' = IF NewDataset(i) THEN valreg[i] ELSE vreg
      /\ data' = IF HasVal THEN data \o [j \in 1..Sources |-> <<i, j>>] ELSE data
  BY StrideAssumption DEF WriteInstance, runVars
<1>3. vreg' \in Regs \cup {0}
  BY <1>1, <1>2 DEF LayoutTypeOK, NewDataset
<1>4. data' \in Seq(Nat \X Nat)
  <2> DEFINE own == [j \in 1..Sources |-> <<i, j>>]
  <2>1. i \in Nat /\ Sources \in Nat
    BY <1>1, SourcesIs DEF LayoutTypeOK
  <2>2. own \in Seq(Nat \X Nat)
    BY <2>1
  <2> HIDE DEF own
  <2>3. data \in Seq(Nat \X Nat)
    BY DEF LayoutTypeOK
  <2>4. data \o own \in Seq(Nat \X Nat)
    BY <2>2, <2>3
  <2>5. QED
    BY <1>2, <2>3, <2>4 DEF own
<1>5. /\ sign' \in Seq(Regions) /\ n' \in Nat /\ sreg' \in Regs /\ regs' \in [Regs -> Nat]
  <2>1. CASE NewRegion(i)
    <3>1. regs' \in [Regs -> Nat]
      <4>1. regs' = [r \in Regs |-> IF r = sreg THEN regs[r] + 1 ELSE regs[r]]
        BY <1>1, <2>1 DEF LayoutTypeOK
      <4>2. \A r \in Regs : regs[r] \in Nat
        BY DEF LayoutTypeOK
      <4>3. QED
        BY <4>1, <4>2
    <3>2. sign' \in Seq(Regions)
      BY <1>1, <1>2, <2>1, RegionType
    <3>3. QED
      BY <1>1, <1>2, <2>1, <3>1, <3>2
  <2>2. CASE ~NewRegion(i)
    BY <1>1, <1>2, <2>2 DEF LayoutTypeOK
  <2>3. QED
    BY <2>1, <2>2
<1>6. written' \in Nat
  BY <1>2 DEF LayoutTypeOK
<1>7. QED
  BY <1>1, <1>2, <1>3, <1>4, <1>5, <1>6 DEF LayoutTypeOK

LEMMA ClobberType ==
  ASSUME LayoutTypeOK, NEW S
  PROVE  Clobber(S) \in [Regs -> [area : {"none", "sig", "data"}, at : Int]]
<1>1. Junk \in [area : {"none", "sig", "data"}, at : Int]
  BY DEF Junk
<1>2. \A r \in Regs : reg[r] \in [area : {"none", "sig", "data"}, at : Int]
  BY DEF LayoutTypeOK
<1> DEFINE P == [area : {"none", "sig", "data"}, at : Int]
<1> HIDE DEF P
<1>3. Junk \in P /\ \A r \in Regs : reg[r] \in P
  BY <1>1, <1>2 DEF P
<1>4. Clobber(S) \in [Regs -> P]
  BY <1>3 DEF Clobber
<1>5. QED
  BY <1>4 DEF P

\* The item that is executed.
LEMMA ItemIs ==
  ASSUME LayoutTypeOK, NEW op, Execute(op)
  PROVE  /\ Item \in Items /\ Item.op = op /\ executed + 1 \in DOMAIN code /\ executed \in Nat
         /\ executed + 1 <= Len(code) /\ Len(code) \in Nat
         /\ op = "test" => Item.i \in Nat
         /\ op = "sigbase" => Item.r \in Regs
         /\ op = "valbase" => Item.r \in Regs /\ Item.at \in Nat
<1>1. /\ executed + 1 \in 1..Len(code) /\ Len(code) \in Nat /\ executed \in Nat
      /\ code \in Seq(Items) /\ Item.op = op
  BY DEF LayoutTypeOK, Execute, Item
<1>2. Item \in Items /\ executed + 1 \in DOMAIN code
  BY <1>1 DEF Item
<1>3. QED
  BY <1>1, <1>2 DEF Items

\* A test that is executed is one of an instance of the file.
LEMMA TestItem ==
  ASSUME LayoutTypeOK, IInv, FilesInv, FileInv, Execute("test")
  PROVE  /\ stage = "run" /\ pass = "done" /\ written = end - start
         /\ Item.i \in (start + 1)..end /\ Item.i \in 1..Len(instr)
<1>1. Item.op = "test" /\ executed + 1 \in DOMAIN code
  BY ItemIs
<1>2. stage = "run" /\ pass = "done" /\ written = end - start /\ end <= Len(instr) /\ TestsInv
  BY DEF Execute, FilesInv, FileInv
<1>3. Item.i \in (start + 1)..(start + written)
  BY <1>1, <1>2 DEF TestsInv, Item
<1>4. start \in Nat /\ end \in Nat /\ written \in Nat /\ Len(instr) \in Nat
  BY LenIsNat DEF LayoutTypeOK, IInv
<1>5. QED
  BY <1>2, <1>3, <1>4

LEMMA PointerType ==
  ASSUME LayoutTypeOK, NEW r \in Regs, NEW a \in {"sig", "data"}, NEW k \in Int
  PROVE  [reg EXCEPT ![r] = [area |-> a, at |-> k]]
           \in [Regs -> [area : {"none", "sig", "data"}, at : Int]]
<1> DEFINE P == [area : {"none", "sig", "data"}, at : Int]
           p == [area |-> a, at |-> k]
<1>1. p \in P /\ reg \in [Regs -> P]
  BY DEF LayoutTypeOK
<1> HIDE DEF P, p
<1>2. [reg EXCEPT ![r] = p] \in [Regs -> P]
  BY <1>1
<1>3. QED
  BY <1>2 DEF P, p

LEMMA RunType ==
  ASSUME LayoutTypeOK, IInv, FilesInv, FileInv, RunSigbase \/ RunValbase \/ RunTest
  PROVE  LayoutTypeOK'
<1>1. /\ UNCHANGED <<stage, inst, start, end, files, written, sreg, n, regs, vreg, code, sign, data>>
      /\ executed' = executed + 1
  BY DEF RunSigbase, RunValbase, RunTest, writeVars
<1>2. executed' \in Nat
  BY <1>1 DEF LayoutTypeOK
<1> DEFINE P == [area : {"none", "sig", "data"}, at : Int]
<1>3. SUFFICES reg' \in [Regs -> P] /\ asmoff' \in Int
  BY <1>1, <1>2 DEF LayoutTypeOK
<1>4. CASE RunSigbase
  <2>1. PICK s \in ToSet(sign) : reg' = [reg EXCEPT ![Item.r] = [area |-> "sig", at |-> s.at]]
    BY <1>4 DEF RunSigbase
  <2>2. s.at \in Int
    <3>1. PICK j \in DOMAIN sign : s = sign[j]
      BY <2>1 DEF ToSet
    <3>2. sign[j] \in Regions
      BY <3>1 DEF LayoutTypeOK
    <3>3. QED
      BY <3>1, <3>2 DEF Regions
  <2>3. Item.r \in Regs
    BY <1>4, ItemIs DEF RunSigbase
  <2>4. QED
    BY <1>4, <2>1, <2>2, <2>3, PointerType DEF RunSigbase
<1>5. CASE RunValbase
  <2>1. Item.r \in Regs /\ Item.at \in Int
    BY <1>5, ItemIs DEF RunValbase
  <2>2. QED
    BY <1>5, <2>1, PointerType DEF RunValbase, LayoutTypeOK
<1>6. CASE RunTest
  <2> DEFINE i == Item.i
             file == Clobber(Operands(i) \cup Given(testreg, i) \cup Given(flagreg, i))
             off  == Off(i)
             skip == Skipped(off, Words)
  <2>1. reg' = [file EXCEPT ![swreg[i]].at = @ + skip] /\ asmoff' = off + Words - skip
    BY <1>6 DEF RunTest
  <2>2. off \in Int
    <3>1. i \in 1..Len(instr) /\ stage = "run" /\ pass = "done"
      BY <1>6, TestItem DEF RunTest
    <3>2. offset[i] \in Nat
      BY <3>1, Served_
    <3>3. QED
      BY <3>2 DEF LayoutTypeOK, Off
  <2>3. skip \in Int
    BY <2>2, SkippedIs
  <2>4. file \in [Regs -> P]
    BY ClobberType
  <2> HIDE DEF file, off, skip
  <2>5. asmoff' \in Int
    BY <2>1, <2>2, <2>3, LayoutAssumption
  <2>6. reg' \in [Regs -> P]
    <3>1. reg' = [r \in Regs |-> IF r = swreg[i] THEN [file[r] EXCEPT !.at = @ + skip] ELSE file[r]]
      BY <2>1, <2>4
    <3>2. ASSUME NEW r \in Regs
          PROVE  file[r] \in P /\ [file[r] EXCEPT !.at = @ + skip] \in P
      <4>1. file[r] \in P
        BY <2>4
      <4>2. QED
        BY <2>3, <4>1
    <3> HIDE DEF P
    <3>3. QED
      BY <3>1, <3>2
  <2>7. QED
    BY <2>5, <2>6
<1>7. QED
  BY <1>4, <1>5, <1>6

LEMMA TypeStep ==
  ASSUME LayoutTypeOK, IInv, FilesInv, FileInv, LayoutNext
  PROVE  LayoutTypeOK'
<1>1. CASE Allocate
  BY <1>1 DEF Allocate, layoutVars, writeVars, runVars, LayoutTypeOK
<1>2. CASE WriteTest
  <2>1. pass = "done" /\ 0 \in Nat /\ Chunk \in Nat
    BY <1>2, ChunkIs DEF WriteTest
  <2>2. QED
    BY <1>2, <2>1, OpenType DEF WriteTest
<1>3. CASE NextFile
  <2> DEFINE lo == start + Chunk
             hi == IF Len(instr) - end >= Chunk THEN end + Chunk ELSE Len(instr)
  <2>1. /\ pass = "done" /\ UNCHANGED <<inst, files, runVars>>
        /\ start' = lo /\ end' = hi /\ EnterLoop(lo, hi)
    BY <1>3 DEF NextFile, FilesInv
  <2>2. lo \in Nat /\ hi \in Nat
    BY ChunkIs DEF LayoutTypeOK
  <2> HIDE DEF lo, hi
  <2>3. QED
    BY <2>1, <2>2, OpenType
<1>4. CASE WriteInstance
  BY <1>4, WriteType
<1>5. CASE CloseFile
  <2>1. /\ stage = "write" /\ stage' = "run" /\ sign' = Append(sign, Region)
        /\ files' = Append(files, (start + 1)..end)
        /\ executed' = 0 /\ reg' = [r \in Regs |-> Junk] /\ asmoff' = 0
        /\ UNCHANGED <<inst, start, end, written, sreg, n, regs, vreg, code, data>>
    BY <1>5 DEF CloseFile
  <2>2. sign' \in Seq(Regions)
    BY <2>1, RegionType
  <2>3. files' \in Seq(SUBSET Nat)
    <3>1. (start + 1)..end \in SUBSET Nat /\ files \in Seq(SUBSET Nat)
      BY DEF LayoutTypeOK
    <3>2. QED
      BY <2>1, <3>1, Appended
  <2>4. reg' \in [Regs -> [area : {"none", "sig", "data"}, at : Int]]
    <3>1. Junk \in [area : {"none", "sig", "data"}, at : Int]
      BY DEF Junk
    <3>2. QED
      BY <2>1, <3>1
  <2>5. QED
    BY <2>1, <2>2, <2>3, <2>4 DEF LayoutTypeOK
<1>6. CASE RunSigbase \/ RunValbase \/ RunTest
  BY <1>6, RunType
<1>7. QED
  BY <1>1, <1>2, <1>3, <1>4, <1>5, <1>6 DEF LayoutNext

-----------------------------------------------------------------------------
(***************************************************************************)
(* What is written                                                         *)
(***************************************************************************)
\* Word j of the t-th block of s words is one of the words of m blocks.
LEMMA Slot ==
  ASSUME NEW s \in Nat, NEW m \in Nat, NEW t \in 1..m, NEW j \in 1..s
  PROVE  /\ s * (t - 1) \in Nat /\ s * m \in Nat /\ s * (t - 1) + j \in 1..(s * m)
         /\ s * (m + 1) = s * m + s
<1> DEFINE d == m - t
<1>1. d \in Nat /\ t - 1 \in Nat /\ m = (t - 1) + 1 + d
  OBVIOUS
<1> DEFINE u == t - 1
<1> HIDE DEF d, u
<1>2. u \in Nat /\ d \in Nat /\ m = u + 1 + d
  BY <1>1 DEF u
<1>3. s * m = s * u + s + s * d
  BY <1>2
<1>4. s * u \in Nat /\ s * d \in Nat
  BY <1>2
<1>5. s * (m + 1) = s * m + s /\ s * m \in Nat
  OBVIOUS
<1>6. s * u + j \in 1..(s * m)
  BY <1>3, <1>4
<1>7. QED
  BY <1>4, <1>5, <1>6 DEF u

\* Closing the region that is open.
LEMMA SignGrows ==
  ASSUME LayoutTypeOK, stage = "write", sign' = Append(sign, Region)
  PROVE  /\ SignEnd' = SignEnd + n /\ SignEnd \in Nat
         /\ DOMAIN sign' = 1..(Len(sign) + 1) /\ DOMAIN sign = 1..Len(sign)
         /\ Len(sign) \in Nat
         /\ sign'[Len(sign) + 1] = Region /\ \A s \in DOMAIN sign : sign'[s] = sign[s]
<1>1. Region \in Regions /\ sign \in Seq(Regions) /\ SignEnd \in Nat /\ n \in Nat
  BY RegionType, SignEndIs DEF LayoutTypeOK
<1>2. /\ Len(sign') = Len(sign) + 1 /\ sign'[Len(sign) + 1] = Region
      /\ DOMAIN sign' = 1..(Len(sign) + 1) /\ DOMAIN sign = 1..Len(sign) /\ Len(sign) \in Nat
      /\ \A s \in 1..Len(sign) : sign'[s] = sign[s]
  BY <1>1, Appended
<1>3. sign' # <<>>
  BY <1>1, <1>2
<1>4. SignEnd' = Region.at + Region.size
  BY <1>2, <1>3 DEF SignEnd, Last
<1>5. Region.at = SignEnd /\ Region.size = n
  BY DEF Region
<1>6. QED
  BY <1>1, <1>2, <1>4, <1>5

LEMMA LabelsGrow ==
  ASSUME LayoutTypeOK, SignInv, stage = "write", sign' = Append(sign, Region)
  PROVE  \A s, t \in DOMAIN sign' : sign'[s].label = sign'[t].label => s = t
<1> DEFINE L == Len(sign)
<1>1. /\ L \in Nat /\ DOMAIN sign' = 1..(L + 1) /\ DOMAIN sign = 1..L
      /\ sign'[L + 1] = Region /\ \A s \in 1..L : sign'[s] = sign[s]
  BY SignGrows
<1> HIDE DEF L
<1>2. /\ \A s, t \in 1..L : sign[s].label = sign[t].label => s = t
      /\ \A s \in 1..L : sign[s].label[2] < regs[sign[s].label[1]]
  BY <1>1 DEF SignInv
<1>3. Region.label[1] = sreg /\ Region.label[2] = regs[sreg] /\ regs[sreg] \in Nat
  BY DEF Region, LayoutTypeOK
<1>4. \A s \in 1..L : sign[s].label # Region.label
  <2>1. ASSUME NEW s \in 1..L, sign[s].label = Region.label PROVE FALSE
    <3>1. sign[s].label[2] = regs[sreg] /\ sign[s].label[1] = sreg
      BY <1>3, <2>1
    <3>2. regs[sreg] < regs[sreg]
      BY <1>2, <3>1
    <3>3. QED
      BY <1>3, <3>2
  <2>2. QED
    BY <2>1
<1>5. \A s \in 1..(L + 1) : s \in 1..L \/ s = L + 1
  BY <1>1
<1>6. QED
  BY <1>1, <1>2, <1>4, <1>5

LEMMA LabelKept ==
  ASSUME LayoutTypeOK, stage = "write", NEW l, NEW a, Labelled(l, a),
         \/ sign' = Append(sign, Region)
         \/ UNCHANGED <<stage, sign, sreg, regs>>
  PROVE  Labelled(l, a)'
<1>1. CASE sign' = Append(sign, Region)
  <2>1. /\ DOMAIN sign' = 1..(Len(sign) + 1) /\ DOMAIN sign = 1..Len(sign) /\ Len(sign) \in Nat
        /\ sign'[Len(sign) + 1] = Region /\ \A s \in DOMAIN sign : sign'[s] = sign[s]
    BY <1>1, SignGrows
  <2>2. CASE \E s \in DOMAIN sign : sign[s].label = l /\ sign[s].at = a
    <3>1. PICK s \in DOMAIN sign : sign[s].label = l /\ sign[s].at = a
      BY <2>2
    <3>2. s \in DOMAIN sign' /\ sign'[s] = sign[s]
      BY <2>1, <3>1
    <3>3. QED
      BY <3>1, <3>2 DEF Labelled
  <2>3. CASE l = <<sreg, regs[sreg]>> /\ a = SignEnd
    <3>1. Len(sign) + 1 \in DOMAIN sign' /\ Region.label = l /\ Region.at = a
      BY <2>1, <2>3 DEF Region
    <3>2. QED
      BY <2>1, <3>1 DEF Labelled
  <2>4. QED
    BY <2>2, <2>3 DEF Labelled
<1>2. CASE UNCHANGED <<stage, sign, sreg, regs>>
  BY <1>2 DEF Labelled, SignEnd
<1>3. QED
  BY <1>1, <1>2

\* The items of an instance stay where they are.
LEMMA ItemsKept ==
  ASSUME code \in Seq(Items), code' \in Seq(Items), Len(code) <= Len(code'),
         \A j \in 1..Len(code) : code'[j] = code[j],
         UNCHANGED <<start, offset, swreg, valreg, valoffset>>,
         \A l, a : Labelled(l, a) => Labelled(l, a)',
         NEW k, NEW t
  PROVE  /\ TestAt(k, t) => TestAt(k, t)'
         /\ SigAt(k, t) => SigAt(k, t)'
         /\ ValAt(k, t) => ValAt(k, t)'
         /\ Begins(k, t) => Begins(k, t)'
<1>1. \A j \in DOMAIN code : j \in DOMAIN code' /\ code'[j] = code[j]
  OBVIOUS
<1>2. \A j : TestAt(j, t) => TestAt(j, t)'
  BY <1>1 DEF TestAt
<1>3. \A j : SigAt(j, t) => SigAt(j, t)'
  BY <1>1, <1>2 DEF SigAt
<1>4. NewData(t)' <=> NewData(t)
  BY DEF NewData
<1>5. ValAt(k, t) => ValAt(k, t)'
  BY <1>1, <1>2, <1>3, <1>4 DEF ValAt
<1>6. Begins(k, t) => Begins(k, t)'
  BY <1>2, <1>3, <1>4, <1>5 DEF Begins
<1>7. QED
  BY <1>2, <1>3, <1>5, <1>6

\* The instance that is written: with the offset 0 it opens a region, and it
\* opens a dataset where the rules of NewData say so.
LEMMA InstanceIs ==
  ASSUME LayoutTypeOK, IInv, OffsetInv, FilesInv, FileInv, WriteInstance,
         NEW i, i = start + written + 1
  PROVE  /\ Laid => (NewRegion(i) <=> offset[i] = 0)
         /\ NewDataset(i) <=> NewData(written + 1)
         /\ start + (written + 1) = i /\ written \in Nat /\ start \in Nat
         /\ stage = "write" /\ stage' = "write" /\ written' = written + 1
         /\ UNCHANGED <<start, offset, swreg, valreg, valoffset, instr>>
<1>1. /\ stage = "write" /\ stage' = "write" /\ pass = "done" /\ written' = written + 1
      /\ UNCHANGED <<start, offset, swreg, valreg, valoffset, instr>>
      /\ start \in Nat /\ written \in Nat /\ sreg \in Regs
      /\ start + (written + 1) = i
  BY DEF WriteInstance, FilesInv, LayoutTypeOK, vars, valVars
<1>2. /\ Len(instr) \in Nat /\ swreg \in [1..Len(instr) -> Regs]
      /\ offset \in [1..Len(instr) -> Nat]
      /\ HasVal => valreg \in [1..Len(instr) -> Regs] /\ valoffset \in [1..Len(instr) -> Nat]
      /\ i \in 1..Len(instr)
  BY <1>1, Served_, WriteIs
<1>3. written # 0 => start + written = i - 1 /\ i - 1 \in 1..Len(instr)
  BY <1>1, <1>2
<1>4. written = 0 => i = start + 1
  BY <1>1
<1>5. ASSUME Laid PROVE NewRegion(i) <=> offset[i] = 0
  <2>1. SUFFICES ASSUME offset[i] # 0 PROVE swreg[i] = sreg
    BY DEF NewRegion
  <2>2. written # 0
    BY <1>4, <1>5, <2>1 DEF Laid
  <2>3. swreg[i] = swreg[i - 1]
    BY <1>2, <2>1 DEF OffsetInv, Runs
  <2>4. sreg = swreg[start + written]
    BY <1>1, <1>5, <2>2 DEF FileInv, SignInv
  <2>5. QED
    BY <1>3, <2>2, <2>3, <2>4
<1>6. NewDataset(i) <=> NewData(written + 1)
  <2>1. CASE ~HasVal
    BY <2>1 DEF NewDataset, NewData
  <2>2. CASE HasVal /\ written = 0
    <3>1. vreg = 0 /\ valreg[i] \in Regs
      BY <1>1, <1>2, <2>2 DEF FileInv, DataInv
    <3>2. valreg[i] # vreg
      BY <3>1, RegsAre
    <3>3. QED
      BY <2>2, <3>2 DEF NewDataset, NewData
  <2>3. CASE HasVal /\ written # 0
    <3>1. vreg = valreg[i - 1]
      BY <1>1, <1>3, <2>3 DEF FileInv, DataInv
    <3>2. valoffset[i] # 0 => valreg[i] = valreg[i - 1]
      BY <1>2, <2>3 DEF OffsetInv, Runs
    <3>3. written + 1 # 1
      BY <1>1, <2>3
    <3>4. QED
      BY <1>1, <2>3, <3>1, <3>2, <3>3 DEF NewDataset, NewData
  <2>4. QED
    BY <2>1, <2>2, <2>3
<1>7. QED
  BY <1>1, <1>5, <1>6

LEMMA WriteSign ==
  ASSUME LayoutTypeOK, IInv, OffsetInv, FilesInv, FileInv, WriteInstance, SignInv
  PROVE  SignInv'
<1> DEFINE i == start + written + 1
<1>1. /\ stage = "write" /\ stage' = "write" /\ written' = written + 1 /\ start' = start
      /\ swreg' = swreg /\ start \in Nat /\ written \in Nat /\ i = start + (written + 1)
      /\ n \in Nat /\ Stride \in Nat /\ sreg \in Regs /\ regs \in [Regs -> Nat]
  BY InstanceIs, StrideAssumption DEF LayoutTypeOK
<1>2. SignEnd + n = Stride * written
  BY <1>1 DEF SignInv
<1>3. Stride * (written + 1) = Stride * written + Stride /\ Stride * written \in Nat
  BY <1>1
<1>4. written' # 0 /\ start' + written' = i
  BY <1>1
<1>5. CASE NewRegion(i)
  <2>1. /\ sign' = Append(sign, Region) /\ n' = Stride /\ sreg' = swreg[i]
        /\ regs' = [regs EXCEPT ![sreg] = @ + 1]
    BY <1>5, WriteIs
  <2>2. /\ SignEnd' = SignEnd + n /\ SignEnd \in Nat
        /\ DOMAIN sign' = 1..(Len(sign) + 1) /\ DOMAIN sign = 1..Len(sign) /\ Len(sign) \in Nat
        /\ sign'[Len(sign) + 1] = Region /\ \A s \in DOMAIN sign : sign'[s] = sign[s]
    BY <1>1, <2>1, SignGrows
  <2>3. \A s, t \in DOMAIN sign' : sign'[s].label = sign'[t].label => s = t
    BY <1>1, <2>1, LabelsGrow
  <2>4. ASSUME NEW s \in DOMAIN sign'
        PROVE  sign'[s].label[2] < regs'[sign'[s].label[1]]
    <3>1. CASE s \in DOMAIN sign
      <4>1. sign'[s] = sign[s] /\ sign[s] \in Regions
        BY <2>2, <3>1 DEF LayoutTypeOK
      <4>2. sign[s].label[1] \in Regs /\ sign[s].label[2] \in Nat
        BY <4>1 DEF Regions
      <4>3. sign[s].label[2] < regs[sign[s].label[1]]
        BY <1>1, <3>1 DEF SignInv
      <4>4. \A r \in Regs : regs[r] \in Nat /\ regs'[r] \in Nat /\ regs[r] <= regs'[r]
        BY <1>1, <2>1
      <4>5. QED
        BY <4>1, <4>2, <4>3, <4>4
    <3>2. CASE s = Len(sign) + 1
      <4>1. sign'[s].label = <<sreg, regs[sreg]>>
        BY <2>2, <3>2 DEF Region
      <4>2. regs[sreg] \in Nat /\ regs'[sreg] = regs[sreg] + 1
        BY <1>1, <2>1
      <4>3. QED
        BY <4>1, <4>2
    <3>3. QED
      BY <2>2, <3>1, <3>2
  <2>5. SignEnd' + n' = Stride * written'
    BY <1>1, <1>2, <1>3, <2>1, <2>2
  <2>6. sreg' = swreg'[start' + written']
    BY <1>1, <1>4, <2>1
  <2>7. QED
    BY <1>1, <1>4, <2>3, <2>4, <2>5, <2>6 DEF SignInv
<1>6. CASE ~NewRegion(i)
  <2>1. n' = n + Stride /\ UNCHANGED <<sign, sreg, regs>>
    BY <1>6, WriteIs
  <2>2. sreg = swreg[i]
    BY <1>6 DEF NewRegion
  <2>3. SignEnd' = SignEnd /\ SignEnd \in Nat
    BY <2>1, SignEndIs DEF SignEnd, LayoutTypeOK
  <2>4. SignEnd' + n' = Stride * written'
    BY <1>1, <1>2, <1>3, <2>1, <2>3
  <2>5. sreg' = swreg'[start' + written']
    BY <1>1, <1>4, <2>1, <2>2
  <2>6. /\ \A s, t \in DOMAIN sign' : sign'[s].label = sign'[t].label => s = t
        /\ \A s \in DOMAIN sign' : sign'[s].label[2] < regs'[sign'[s].label[1]]
    BY <1>1, <2>1 DEF SignInv
  <2>7. QED
    BY <1>1, <1>4, <2>4, <2>5, <2>6 DEF SignInv
<1>7. QED
  BY <1>5, <1>6

LEMMA WriteData ==
  ASSUME LayoutTypeOK, IInv, OffsetInv, FilesInv, FileInv, WriteInstance
  PROVE  Owned' /\ DataInv'
<1> DEFINE i == start + written + 1
<1>1. /\ stage = "write" /\ stage' = "write" /\ written' = written + 1 /\ start' = start
      /\ start \in Nat /\ written \in Nat /\ i = start + (written + 1)
      /\ valreg' = valreg /\ Sources \in Nat /\ data \in Seq(Nat \X Nat)
  BY InstanceIs, SourcesIs DEF LayoutTypeOK
<1>2. written' # 0 /\ start' + written' = i
  BY <1>1
<1>3. ASSUME HasVal PROVE vreg' = valreg[i]
  BY <1>3 DEF WriteInstance, NewDataset
<1>4. DataInv'
  BY <1>1, <1>2, <1>3 DEF DataInv
<1>5. ASSUME HasVal
      PROVE  /\ Len(data') = Sources * written'
             /\ \A t \in 1..written', j \in 1..Sources :
                  data'[Sources * (t - 1) + j] = <<start' + t, j>>
  <2> DEFINE own == [j \in 1..Sources |-> <<i, j>>]
  <2>1. data' = data \o own
    BY <1>5 DEF WriteInstance
  <2>2. own \in Seq(Nat \X Nat) /\ Len(own) = Sources /\ \A j \in 1..Sources : own[j] = <<i, j>>
    <3>1. i \in Nat
      BY <1>1
    <3> HIDE DEF i
    <3>2. own \in [1..Sources -> Nat \X Nat]
      BY <3>1
    <3>3. QED
      BY <1>1, <3>1, <3>2
  <2>3. /\ Len(data) = Sources * written
        /\ \A t \in 1..written, j \in 1..Sources : data[Sources * (t - 1) + j] = <<start + t, j>>
    BY <1>1, <1>5 DEF FileInv, Owned
  <2> HIDE DEF own
  <2>4. /\ Len(data') = Len(data) + Sources /\ Len(data) \in Nat
        /\ \A k \in 1..Len(data) : data'[k] = data[k]
        /\ \A j \in 1..Sources : data'[Len(data) + j] = own[j]
    <3>1. /\ Len(data \o own) = Len(data) + Len(own) /\ Len(data) \in Nat
          /\ \A k \in 1..Len(data) : (data \o own)[k] = data[k]
      <4>1. data \in Seq(Nat \X Nat) /\ own \in Seq(Nat \X Nat)
        BY <1>1, <2>2
      <4>2. QED
        BY <4>1
    <3>2. ASSUME NEW j \in 1..Sources PROVE (data \o own)[Len(data) + j] = own[j]
      <4> DEFINE k == Len(data) + j
      <4>1. k \in 1..(Len(data) + Len(own)) /\ ~(k <= Len(data)) /\ k - Len(data) = j
        BY <1>1, <2>2, <3>1
      <4> HIDE DEF k
      <4>2. (data \o own)[k] = own[k - Len(data)]
        BY <1>1, <2>2, <4>1
      <4>3. QED
        BY <4>1, <4>2 DEF k
    <3>3. QED
      BY <2>1, <2>2, <3>1, <3>2
  <2>5. Len(data') = Sources * written'
    <3>1. Sources * (written + 1) = Sources * written + Sources
      BY <1>1
    <3>2. QED
      BY <1>1, <2>3, <2>4, <3>1
  <2>6. ASSUME NEW t \in 1..written', NEW j \in 1..Sources
        PROVE  data'[Sources * (t - 1) + j] = <<start' + t, j>>
    <3>1. CASE t \in 1..written
      <4>1. Sources * (t - 1) + j \in 1..(Sources * written)
        BY <1>1, <3>1, Slot
      <4>2. data'[Sources * (t - 1) + j] = data[Sources * (t - 1) + j]
        BY <2>3, <2>4, <4>1
      <4>3. QED
        BY <1>1, <2>3, <3>1, <4>2
    <3>2. CASE t = written + 1
      <4>1. t - 1 = written /\ i = start' + t
        BY <1>1, <3>2
      <4>2. data'[Sources * written + j] = <<i, j>>
        BY <2>2, <2>3, <2>4
      <4>3. QED
        BY <4>1, <4>2
    <3>3. t \in 1..written \/ t = written + 1
      BY <1>1
    <3>4. QED
      BY <3>1, <3>2, <3>3
  <2>7. QED
    BY <2>5, <2>6
<1>6. Owned'
  <2>1. Sources' = Sources
    BY DEF Sources
  <2>2. QED
    BY <1>5, <2>1 DEF Owned
<1>7. QED
  BY <1>4, <1>6

\* The code grows from c to d items, the last one the test of instance i.
Grows(i, c, d) ==
  /\ c \in Nat /\ d \in {c + 1, c + 2, c + 3}
  /\ DOMAIN code = 1..c /\ DOMAIN code' = 1..d
  /\ \A k \in 1..c : code'[k] = code[k]
  /\ code'[d] = [op |-> "test", i |-> i]
  /\ NewRegion(i) =>
       /\ d # c + 1
       /\ code'[d - 1].op = "sigbase" /\ code'[d - 1].r = swreg[i]
       /\ code'[d - 1].label = <<sreg', regs'[sreg']>>
  /\ NewDataset(i) =>
       /\ d = IF NewRegion(i) THEN c + 3 ELSE c + 2
       /\ code'[c + 1] = [op |-> "valbase", r |-> valreg[i], at |-> Len(data)]
  /\ ~NewDataset(i) => d = IF NewRegion(i) THEN c + 2 ELSE c + 1

LEMMA WriteGrows ==
  ASSUME LayoutTypeOK, IInv, FilesInv, WriteInstance
  PROVE  Grows(start + written + 1, Len(code), Len(code'))
<1> DEFINE i == start + written + 1
           c == Len(code)
<1>0. i = start + written + 1 /\ c = Len(code)
  OBVIOUS
<1> HIDE DEF c, i
<1>1. /\ c \in Nat /\ DOMAIN code = 1..c
      /\ \A k \in 1..c : code'[k] = code[k]
      /\ Len(code') \in {c + 1, c + 2, c + 3} /\ DOMAIN code' = 1..Len(code')
      /\ code'[Len(code')] = [op |-> "test", i |-> i]
  BY <1>0, WriteIs
<1>2. NewRegion(i) =>
        /\ sreg' = swreg[i] /\ Len(code') # c + 1
        /\ code'[Len(code') - 1] =
             [op |-> "sigbase", r |-> swreg[i], label |-> <<swreg[i], regs'[swreg[i]]>>]
  BY <1>0, WriteIs
<1>3. NewDataset(i) =>
        /\ Len(code') = IF NewRegion(i) THEN c + 3 ELSE c + 2
        /\ code'[c + 1] = [op |-> "valbase", r |-> valreg[i], at |-> Len(data)]
  <2>1. SUFFICES ASSUME NewDataset(i)
                 PROVE  /\ Len(code') = IF NewRegion(i) THEN c + 3 ELSE c + 2
                        /\ code'[c + 1] = [op |-> "valbase", r |-> valreg[i], at |-> Len(data)]
    OBVIOUS
  <2>2. code'[c + 1] = [op |-> "valbase", r |-> valreg[i], at |-> Len(data)]
    BY <1>0, <2>1, WriteIs, ZenonT(40)
  <2>3. CASE NewRegion(i)
    <3>1. Len(code') = c + 3
      BY <1>0, <2>1, <2>3, WriteIs
    <3>2. QED
      BY <2>2, <2>3, <3>1
  <2>4. CASE ~NewRegion(i)
    <3>1. Len(code') = c + 2
      BY <1>0, <2>1, <2>4, WriteIs
    <3>2. QED
      BY <2>2, <2>4, <3>1
  <2>5. QED
    BY <2>3, <2>4
<1>7. ~NewDataset(i) => Len(code') = IF NewRegion(i) THEN c + 2 ELSE c + 1
  BY <1>0, WriteIs
<1>4. ASSUME NewRegion(i)
      PROVE  /\ Len(code') # c + 1
             /\ code'[Len(code') - 1].op = "sigbase" /\ code'[Len(code') - 1].r = swreg[i]
             /\ code'[Len(code') - 1].label = <<sreg', regs'[sreg']>>
  <2> DEFINE x == code'[Len(code') - 1]
  <2>1. x = [op |-> "sigbase", r |-> swreg[i], label |-> <<swreg[i], regs'[swreg[i]]>>]
        /\ sreg' = swreg[i] /\ Len(code') # c + 1
    BY <1>2, <1>4
  <2> HIDE DEF x
  <2>2. x.op = "sigbase" /\ x.r = swreg[i] /\ x.label = <<sreg', regs'[sreg']>>
    BY <2>1
  <2>3. QED
    BY <2>1, <2>2 DEF x
<1>5. Grows(i, c, Len(code'))
  BY <1>1, <1>3, <1>4, <1>7, Zenon DEF Grows
<1>6. QED
  BY <1>5 DEF c, i

\* The items appended are no test but the last one.
LEMMA GrowsTests ==
  ASSUME NEW i, NEW c, NEW d, Grows(i, c, d)
  PROVE  /\ c \in Nat /\ d \in Nat /\ c < d
         /\ \A k \in 1..d : k > c /\ k # d => code'[k].op # "test"
         /\ code'[d].op = "test" /\ code'[d].i = i
<1>1. c \in Nat /\ d \in Nat /\ c < d /\ code'[d].op = "test" /\ code'[d].i = i
  BY DEF Grows
<1>2. NewRegion(i) => code'[d - 1].op = "sigbase" /\ d # c + 1
  BY DEF Grows
<1>3. NewDataset(i) => code'[c + 1].op = "valbase"
  <2>1. NewDataset(i) => code'[c + 1] = [op |-> "valbase", r |-> valreg[i], at |-> Len(data)]
    BY DEF Grows
  <2> DEFINE x == code'[c + 1]
  <2> HIDE DEF x
  <2>2. x = [op |-> "valbase", r |-> valreg[i], at |-> Len(data)] => x.op = "valbase"
    OBVIOUS
  <2>3. QED
    BY <2>1, <2>2 DEF x
<1>4. ASSUME NEW k \in 1..d, k > c, k # d PROVE code'[k].op # "test"
  <2>1. CASE NewRegion(i) /\ NewDataset(i)
    <3>1. d = c + 3
      BY <2>1 DEF Grows
    <3>2. k = c + 1 \/ k = d - 1
      BY <1>1, <1>4, <3>1
    <3>3. QED
      BY <1>2, <1>3, <2>1, <3>2
  <2>2. CASE NewRegion(i) /\ ~NewDataset(i)
    <3>1. d = c + 2
      BY <2>2 DEF Grows
    <3>2. k = d - 1
      BY <1>1, <1>4, <3>1
    <3>3. QED
      BY <1>2, <2>2, <3>2
  <2>3. CASE ~NewRegion(i) /\ NewDataset(i)
    <3>1. d = c + 2
      BY <2>3 DEF Grows
    <3>2. k = c + 1
      BY <1>1, <1>4, <3>1
    <3>3. QED
      BY <1>3, <2>3, <3>2
  <2>4. CASE ~NewRegion(i) /\ ~NewDataset(i)
    <3>1. d = c + 1
      BY <2>4 DEF Grows
    <3>2. QED
      BY <1>1, <1>4, <3>1
  <2>5. QED
    BY <2>1, <2>2, <2>3, <2>4
<1>5. QED
  BY <1>1, <1>4

LEMMA WriteTests ==
  ASSUME LayoutTypeOK, IInv, OffsetInv, FilesInv, FileInv, WriteInstance
  PROVE  TestsInv'
<1>1. PICK i, c, d : i = start + written + 1 /\ c = Len(code) /\ d = Len(code') /\ Grows(i, c, d)
  BY WriteGrows
<1>2. /\ stage = "write" /\ start' = start /\ written' = written + 1
      /\ start \in Nat /\ written \in Nat /\ start + (written + 1) = i
  BY <1>1, InstanceIs DEF LayoutTypeOK
<1>3. SUFFICES ASSUME NEW k \in DOMAIN code', code'[k].op = "test"
               PROVE  code'[k].i \in (start' + 1)..(start' + written')
  BY DEF TestsInv
<1>4. k \in 1..d /\ c \in Nat /\ d \in Nat
  BY <1>1, GrowsTests DEF Grows
<1>5. CASE k <= c
  <2>1. k \in DOMAIN code /\ code'[k] = code[k]
    BY <1>1, <1>4, <1>5 DEF Grows
  <2>2. code[k].i \in (start + 1)..(start + written)
    BY <1>2, <1>3, <2>1 DEF FileInv, TestsInv
  <2> DEFINE x == code'[k].i
  <2>3. x \in (start + 1)..(start + written)
    BY <2>1, <2>2
  <2> HIDE DEF x
  <2>4. x \in (start' + 1)..(start' + written')
    BY <1>2, <2>3
  <2>5. QED
    BY <2>4 DEF x
<1>6. CASE k > c
  <2>1. k = d /\ code'[d].i = i
    BY <1>1, <1>3, <1>4, <1>6, GrowsTests
  <2>2. i \in (start' + 1)..(start' + written')
    BY <1>2
  <2>3. QED
    BY <2>1, <2>2
<1>7. QED
  BY <1>4, <1>5, <1>6

LEMMA WriteCode ==
  ASSUME LayoutTypeOK, IInv, OffsetInv, FilesInv, FileInv, WriteInstance, Laid
  PROVE  CodeInv'
<1>1. PICK i, c, d, t :
        /\ i = start + written + 1 /\ c = Len(code) /\ d = Len(code') /\ t = written + 1
        /\ Grows(i, c, d)
  BY WriteGrows
<1>2. /\ stage = "write" /\ stage' = "write" /\ written' = t /\ start + t = i
      /\ UNCHANGED <<start, offset, swreg, valreg, valoffset>>
      /\ start \in Nat /\ written \in Nat
      /\ NewRegion(i) <=> offset[i] = 0
      /\ NewDataset(i) <=> NewData(t)
  BY <1>1, InstanceIs DEF LayoutTypeOK
<1>3. CodeInv /\ SignInv /\ Owned /\ TestsInv
  BY <1>2 DEF FileInv
<1>4. SignInv' /\ LayoutTypeOK'
  BY <1>3, WriteSign, WriteType
<1>5. /\ c \in Nat /\ d \in Nat /\ c < d /\ DOMAIN code = 1..c /\ DOMAIN code' = 1..d
      /\ \A k \in 1..c : code'[k] = code[k]
      /\ code'[d] = [op |-> "test", i |-> i]
      /\ \A k \in 1..d : k > c /\ k # d => code'[k].op # "test"
  <2>1. /\ DOMAIN code = 1..c /\ DOMAIN code' = 1..d /\ \A k \in 1..c : code'[k] = code[k]
        /\ code'[d] = [op |-> "test", i |-> i]
    BY <1>1 DEF Grows
  <2>2. /\ c \in Nat /\ d \in Nat /\ c < d
        /\ \A k \in 1..d : k > c /\ k # d => code'[k].op # "test"
    BY <1>1, GrowsTests
  <2>3. QED
    BY <2>1, <2>2
<1>6. ASSUME NEW l, NEW a, Labelled(l, a) PROVE Labelled(l, a)'
  <2>1. sign' = Append(sign, Region) \/ UNCHANGED <<stage, sign, sreg, regs>>
    <3>1. CASE NewRegion(i)
      BY <1>1, <3>1, WriteIs
    <3>2. CASE ~NewRegion(i)
      <4>1. UNCHANGED <<sign, sreg, regs>>
        BY <1>1, <3>2, WriteIs
      <4>2. QED
        BY <1>2, <4>1
    <3>3. QED
      BY <3>1, <3>2
  <2>2. QED
    BY <1>2, <1>6, <2>1, LabelKept
<1>7. \A k, u : /\ TestAt(k, u) => TestAt(k, u)'
                /\ Begins(k, u) => Begins(k, u)'
  <2>1. code \in Seq(Items) /\ code' \in Seq(Items)
    BY <1>4 DEF LayoutTypeOK
  <2>2. Len(code) <= Len(code') /\ \A j \in 1..Len(code) : code'[j] = code[j]
    BY <1>1, <1>5
  <2>3. QED
    BY <1>2, <1>6, <2>1, <2>2, ItemsKept
<1>8. TestAt(d, t)'
  BY <1>1, <1>2, <1>5 DEF TestAt
<1>9. ASSUME NewRegion(i)
      PROVE  SigAt(d - 1, t)'
  <2>1. d - 1 \in 1..d /\ d - 1 + 1 = d
    BY <1>1, <1>5, <1>9 DEF Grows
  <2>2. sign' = Append(sign, Region) /\ n' = Stride
    BY <1>1, <1>9, WriteIs
  <2>3. SignEnd' = Stride * (t - 1)
    <3>1. SignEnd' = SignEnd + n
      BY <1>2, <2>2, SignGrows
    <3>2. SignEnd + n = Stride * written
      BY <1>2, <1>3 DEF SignInv
    <3>3. t - 1 = written
      BY <1>1, <1>2
    <3>4. QED
      BY <3>1, <3>2, <3>3
  <2>4. Labelled(code[d - 1].label, Stride * (t - 1))'
    <3>1. code'[d - 1].label = <<sreg', regs'[sreg']>>
      BY <1>1, <1>9 DEF Grows
    <3>2. QED
      BY <1>2, <2>3, <3>1 DEF Labelled
  <2>5. code'[d - 1].op = "sigbase" /\ code'[d - 1].r = swreg'[start' + t] /\ offset'[start' + t] = 0
    BY <1>1, <1>2, <1>9 DEF Grows
  <2>6. TestAt(d - 1 + 1, t)'
    BY <1>8, <2>1
  <2>7. QED
    BY <1>5, <2>1, <2>4, <2>5, <2>6 DEF SigAt
<1>10. NewData(t)' <=> NewData(t)
  BY <1>2 DEF NewData
<1>11. ASSUME NewDataset(i)
       PROVE  ValAt(c + 1, t)'
  <2>1. c + 1 \in 1..d
    BY <1>5
  <2>2. code'[c + 1] = [op |-> "valbase", r |-> valreg'[start' + t], at |-> Sources * (t - 1)]
    <3>1. code'[c + 1] = [op |-> "valbase", r |-> valreg[i], at |-> Len(data)]
      BY <1>1, <1>11 DEF Grows
    <3>2. HasVal /\ t - 1 = written
      BY <1>1, <1>2, <1>11 DEF NewDataset
    <3>3. Len(data) = Sources * (t - 1)
      BY <1>3, <3>2 DEF Owned
    <3>4. QED
      BY <1>2, <3>1, <3>3
  <2>3. CASE NewRegion(i)
    <3>1. d - 1 = c + 1 + 1
      BY <1>1, <1>5, <1>11, <2>3 DEF Grows
    <3>2. SigAt(c + 1 + 1, t)'
      BY <1>9, <2>3, <3>1
    <3>3. QED
      BY <1>2, <1>5, <1>10, <1>11, <2>1, <2>2, <3>2 DEF ValAt, Sources
  <2>4. CASE ~NewRegion(i)
    <3>1. d = c + 1 + 1
      BY <1>1, <1>5, <1>11, <2>4 DEF Grows
    <3>2. TestAt(c + 1 + 1, t)' /\ offset'[start' + t] # 0
      BY <1>2, <1>8, <2>4, <3>1
    <3>3. QED
      BY <1>2, <1>5, <1>10, <1>11, <2>1, <2>2, <3>2 DEF ValAt, Sources
  <2>5. QED
    BY <2>3, <2>4
<1>12. Begins(c + 1, t)'
  <2>1. CASE NewDataset(i)
    BY <1>11, <2>1 DEF Begins
  <2>2. CASE ~NewDataset(i) /\ NewRegion(i)
    <3>1. d - 1 = c + 1
      BY <1>1, <1>5, <2>2 DEF Grows
    <3>2. SigAt(c + 1, t)' /\ ~NewData(t)'
      BY <1>2, <1>9, <1>10, <2>2, <3>1
    <3>3. QED
      BY <3>2 DEF Begins
  <2>3. CASE ~NewDataset(i) /\ ~NewRegion(i)
    <3>1. d = c + 1
      BY <1>1, <1>5, <2>3 DEF Grows
    <3>2. TestAt(c + 1, t)' /\ ~NewData(t)' /\ offset'[start' + t] # 0
      BY <1>2, <1>8, <1>10, <2>3, <3>1
    <3>3. QED
      BY <3>2 DEF Begins
  <2>4. QED
    BY <2>1, <2>2, <2>3
<1>13. Begins(1, 1)'
  <2>1. CASE written = 0
    <3>1. code = <<>>
      BY <1>3, <2>1 DEF CodeInv
    <3>2. c = 0 /\ t = 1
      BY <1>1, <2>1, <3>1
    <3>3. c + 1 = 1
      BY <3>2
    <3>4. QED
      BY <1>12, <3>2, <3>3
  <2>2. CASE written # 0
    BY <1>2, <1>3, <1>7, <2>2 DEF CodeInv
  <2>3. QED
    BY <2>1, <2>2
<1>14. ASSUME NEW k \in 1..d, NEW u \in 1..t, TestAt(k, u)'
       PROVE  IF u = t THEN k = d ELSE Begins(k + 1, u + 1)'
  <2>1. code'[k] = [op |-> "test", i |-> start + u]
    BY <1>2, <1>14 DEF TestAt
  <2>2. code'[k].op = "test" /\ code'[k].i = start + u
    BY <2>1
  <2>3. CASE k <= c
    <3>1. k \in DOMAIN code /\ code'[k] = code[k]
      BY <1>5, <2>3
    <3>2. code[k].i \in (start + 1)..(start + written)
      BY <1>3, <2>2, <3>1 DEF TestsInv
    <3>3. u \in 1..written /\ u # t
      BY <1>1, <1>2, <2>2, <3>1, <3>2
    <3>4. TestAt(k, u)
      BY <2>1, <3>1 DEF TestAt
    <3>5. IF u = written THEN k = Len(code) ELSE Begins(k + 1, u + 1)
      BY <1>3, <3>1, <3>3, <3>4 DEF CodeInv
    <3>6. CASE u = written
      <4>1. k + 1 = c + 1 /\ u + 1 = t
        BY <1>1, <3>5, <3>6
      <4>2. QED
        BY <1>12, <3>3, <4>1
    <3>7. CASE u # written
      BY <1>7, <3>3, <3>5, <3>7
    <3>8. QED
      BY <3>6, <3>7
  <2>4. CASE k > c
    <3>1. k = d
      BY <1>5, <2>2, <2>4
    <3>2. code'[d].i = i
      BY <1>5
    <3>3. u = t
      BY <1>2, <1>1, <2>2, <3>1, <3>2
    <3>4. QED
      BY <3>1, <3>3
  <2>5. QED
    BY <1>5, <2>3, <2>4
<1>15. written' # 0 /\ written' = t /\ DOMAIN code' = 1..d /\ Len(code') = d
  BY <1>1, <1>2, <1>5
<1>16. QED
  BY <1>8, <1>13, <1>14, <1>15 DEF CodeInv

\* A file that is opened is empty.
LEMMA OpenFileInv ==
  ASSUME LayoutTypeOK, IInv, NEW lo \in Nat, NEW hi, EnterLoop(lo, hi), start' = lo,
         UNCHANGED vars
  PROVE  FileInv'
<1>1. CASE stage' = "stop"
  BY <1>1 DEF FileInv
<1>2. CASE stage' = "write" /\ OpenFile(lo)
  <2>1. /\ written' = 0 /\ vreg' = 0 /\ n' = 0 /\ code' = <<>> /\ sign' = <<>> /\ data' = <<>>
        /\ sreg' = swreg[lo + 1]
    BY <1>2 DEF OpenFile
  <2>2. TestsInv'
    BY <2>1 DEF TestsInv
  <2>3. Owned'
    <3>1. Sources' = Sources /\ Sources \in Nat
      BY SourcesIs DEF Sources
    <3>2. Len(data') = Sources * 0 /\ \A t : t \notin 1..0
      BY <2>1, <3>1
    <3>3. QED
      BY <2>1, <3>1, <3>2 DEF Owned
  <2>4. DataInv'
    BY <2>1 DEF DataInv
  <2>5. ASSUME Laid' PROVE CodeInv'
    BY <2>1 DEF CodeInv
  <2>6. ASSUME Laid' PROVE SignInv'
    <3>1. SignEnd' = 0 /\ Stride * 0 = 0
      BY <2>1, StrideAssumption DEF SignEnd
    <3>2. lo + 1 = start' + 1 /\ swreg'[lo + 1] = swreg[lo + 1]
      BY DEF vars
    <3>3. QED
      BY <1>2, <2>1, <3>1, <3>2 DEF SignInv
  <2>7. QED
    BY <2>2, <2>3, <2>4, <2>5, <2>6 DEF FileInv
<1>3. QED
  BY <1>1, <1>2 DEF EnterLoop

LEMMA CloseFileInv ==
  ASSUME LayoutTypeOK, IInv, FilesInv, FileInv, CloseFile
  PROVE  FileInv'
<1>1. /\ stage = "write" /\ stage' = "run" /\ sign' = Append(sign, Region)
      /\ UNCHANGED <<vars, start, written, sreg, regs, vreg, n, code, data>>
  BY DEF CloseFile
<1>2. TestsInv /\ Owned /\ DataInv /\ (Laid => CodeInv /\ SignInv)
  BY <1>1 DEF FileInv
<1>3. UNCHANGED <<swreg, offset, valreg, valoffset, Sources>>
  BY <1>1 DEF vars, valVars, Sources
<1>4. TestsInv' /\ Owned' /\ DataInv' /\ Laid' = Laid
  BY <1>1, <1>2, <1>3 DEF TestsInv, Owned, DataInv, Laid
<1>5. ASSUME Laid PROVE CodeInv'
  <2>1. \A l, a : Labelled(l, a) => Labelled(l, a)'
    BY <1>1, LabelKept
  <2>2. code \in Seq(Items) /\ code' \in Seq(Items) /\ Len(code) <= Len(code')
        /\ \A j \in 1..Len(code) : code'[j] = code[j]
    BY <1>1 DEF LayoutTypeOK
  <2>3. \A k, t : (TestAt(k, t) => TestAt(k, t)') /\ (Begins(k, t) => Begins(k, t)')
    BY <1>1, <1>3, <2>1, <2>2, ItemsKept
  <2>4. \A k, t : TestAt(k, t)' => TestAt(k, t)
    BY <1>1 DEF TestAt
  <2>5. CodeInv
    BY <1>2, <1>5
  <2>6. (written' = 0 => code' = <<>>) /\ (written' > 0 => (Begins(1, 1) /\ TestAt(Len(code), written))')
    BY <1>1, <2>3, <2>5 DEF CodeInv
  <2>7. ASSUME NEW k \in DOMAIN code', NEW t \in 1..written', TestAt(k, t)'
        PROVE  IF t = written' THEN k = Len(code') ELSE Begins(k + 1, t + 1)'
    <3>1. IF t = written THEN k = Len(code) ELSE Begins(k + 1, t + 1)
      BY <1>1, <2>4, <2>5, <2>7 DEF CodeInv
    <3>2. QED
      BY <1>1, <2>3, <3>1
  <2>8. QED
    BY <2>6, <2>7 DEF CodeInv
<1>6. ASSUME Laid PROVE SignInv'
  <2>1. SignInv
    BY <1>2, <1>6
  <2>2. SignEnd' = SignEnd + n
    BY <1>1, SignGrows
  <2>3. \A s, t \in DOMAIN sign' : sign'[s].label = sign'[t].label => s = t
    BY <1>1, <2>1, LabelsGrow
  <2>4. SignEnd + n = Stride * written
    BY <1>1, <2>1 DEF SignInv
  <2>5. SignEnd' \in Nat
    BY <1>1, <2>2, SignGrows DEF LayoutTypeOK
  <2>6. QED
    BY <1>1, <2>2, <2>3, <2>4, <2>5 DEF SignInv
<1>7. QED
  BY <1>4, <1>5, <1>6 DEF FileInv

\* A run does not change the file.
LEMMA RunFileInv ==
  ASSUME LayoutTypeOK, FileInv, UNCHANGED <<vars, stage, writeVars>>
  PROVE  FileInv'
<1>1. UNCHANGED <<stage, swreg, offset, valreg, valoffset, start, written, sreg, n, regs, vreg,
                  code, sign, data, Sources>>
  BY DEF vars, valVars, writeVars, Sources
<1>2. /\ TestsInv' = TestsInv /\ Owned' = Owned /\ DataInv' = DataInv /\ Laid' = Laid
      /\ SignEnd' = SignEnd
  BY <1>1 DEF TestsInv, Owned, DataInv, Laid, SignEnd
<1>3. SignInv => SignInv'
  BY <1>1, <1>2 DEF SignInv
<1>4. \A l, a : Labelled(l, a) => Labelled(l, a)'
  BY <1>1, <1>2 DEF Labelled
<1>5. ASSUME CodeInv PROVE CodeInv'
  <2>1. \A k, t : TestAt(k, t)' => TestAt(k, t)
    BY <1>1 DEF TestAt
  <2>2. code \in Seq(Items) /\ code' \in Seq(Items) /\ Len(code) <= Len(code')
        /\ \A j \in 1..Len(code) : code'[j] = code[j]
    BY <1>1 DEF LayoutTypeOK
  <2>3. \A k, t : (TestAt(k, t) => TestAt(k, t)') /\ (Begins(k, t) => Begins(k, t)')
    BY <1>1, <1>4, <2>2, ItemsKept
  <2>4. (written' = 0 => code' = <<>>) /\ (written' > 0 => (Begins(1, 1) /\ TestAt(Len(code), written))')
    BY <1>1, <1>5, <2>3 DEF CodeInv
  <2>5. ASSUME NEW k \in DOMAIN code', NEW t \in 1..written', TestAt(k, t)'
        PROVE  IF t = written' THEN k = Len(code') ELSE Begins(k + 1, t + 1)'
    <3>1. IF t = written THEN k = Len(code) ELSE Begins(k + 1, t + 1)
      BY <1>1, <1>5, <2>1, <2>5 DEF CodeInv
    <3>2. QED
      BY <1>1, <2>3, <3>1
  <2>6. QED
    BY <2>4, <2>5 DEF CodeInv
<1>6. QED
  BY <1>1, <1>2, <1>3, <1>5 DEF FileInv

LEMMA FileStep ==
  ASSUME LayoutTypeOK, IInv, OffsetInv, FilesInv, FileInv, LayoutNext
  PROVE  FileInv'
<1>1. CASE Allocate
  BY <1>1 DEF Allocate, layoutVars, FileInv
<1>2. CASE WriteTest
  <2>1. 0 \in Nat /\ EnterLoop(0, Chunk) /\ start' = 0 /\ UNCHANGED vars
    BY <1>2 DEF WriteTest
  <2>2. QED
    BY <2>1, OpenFileInv
<1>3. CASE NextFile
  <2> DEFINE lo == start + Chunk
             hi == IF Len(instr) - end >= Chunk THEN end + Chunk ELSE Len(instr)
  <2>1. EnterLoop(lo, hi) /\ start' = lo /\ UNCHANGED vars
    BY <1>3 DEF NextFile
  <2>2. lo \in Nat
    BY ChunkIs DEF LayoutTypeOK
  <2> HIDE DEF lo, hi
  <2>3. QED
    BY <2>1, <2>2, OpenFileInv
<1>4. CASE WriteInstance
  <2>1. stage = "write" /\ start' = start /\ offset' = offset
    BY <1>4 DEF WriteInstance, vars
  <2>2. Laid' = Laid /\ (Laid => CodeInv /\ SignInv)
    BY <2>1 DEF Laid, FileInv
  <2>3. TestsInv' /\ Owned' /\ DataInv'
    BY <1>4, WriteTests, WriteData
  <2>4. Laid => CodeInv' /\ SignInv'
    BY <1>4, <2>2, WriteCode, WriteSign
  <2>5. QED
    BY <2>2, <2>3, <2>4 DEF FileInv
<1>5. CASE CloseFile
  BY <1>5, CloseFileInv
<1>6. CASE RunSigbase \/ RunValbase \/ RunTest
  <2>1. UNCHANGED <<vars, stage, writeVars>>
    BY <1>6 DEF RunSigbase, RunValbase, RunTest
  <2>2. QED
    BY <2>1, RunFileInv
<1>7. QED
  BY <1>1, <1>2, <1>3, <1>4, <1>5, <1>6 DEF LayoutNext

-----------------------------------------------------------------------------
(***************************************************************************)
(* What a run does                                                         *)
(***************************************************************************)
\* The signature pointer and the data pointer of an instance survive it.
LEMMA Distinct ==
  ASSUME IInv, pass = "done", NEW i \in 1..Len(instr)
  PROVE  /\ swreg[i] \in Regs /\ offset[i] \in Nat
         /\ swreg[i] \notin Operands(i) \cup Given(testreg, i) \cup Given(flagreg, i)
         /\ HasVal =>
              /\ valreg[i] \in Regs /\ valoffset[i] \in Nat /\ valreg[i] # swreg[i]
              /\ valreg[i] \notin Operands(i) \cup Given(testreg, i) \cup Given(flagreg, i)
<1>1. /\ DOMAIN swreg = 1..Len(instr) /\ DOMAIN testreg = 1..Len(instr)
      /\ swreg[i] \in Regs /\ offset[i] \in Nat
      /\ HasVal => DOMAIN valreg = 1..Len(instr) /\ valreg[i] \in Regs /\ valoffset[i] \in Nat
  BY Served_
<1>2. SwregFree /\ TestregAvoids /\ ValregFree /\ TypeOK
  BY DEF IInv
<1>3. Given(swreg, i) = {swreg[i]} /\ Given(testreg, i) = {testreg[i]}
  BY <1>1 DEF Given
<1>4. swreg[i] \notin Operands(i) /\ testreg[i] # swreg[i]
  BY <1>1, <1>2, <1>3 DEF SwregFree, TestregAvoids
<1>5. CASE HasVal
  <2>1. LET used == Operands(i) \cup Given(swreg, i) \cup Given(testreg, i)
        IN  valreg[i] \notin used /\ Given(flagreg, i) \cap (used \cup {valreg[i]}) = {}
    BY <1>1, <1>2, <1>5 DEF ValregFree
  <2>2. swreg[i] \notin Given(flagreg, i) /\ valreg[i] \notin Given(flagreg, i)
    BY <1>3, <2>1
  <2>3. QED
    BY <1>1, <1>3, <1>4, <1>5, <2>1, <2>2
<1>6. CASE ~HasVal
  <2>1. DOMAIN flagreg = {}
    <3>1. ValregCount = 0
      BY <1>6 DEF ValregCount
    <3>2. DOMAIN flagreg = 1..0
      BY <1>2, <3>1 DEF TypeOK
    <3>3. QED
      BY <3>2
  <2>2. Given(flagreg, i) = {}
    BY <2>1 DEF Given
  <2>3. QED
    BY <1>1, <1>3, <1>4, <1>6, <2>2
<1>7. QED
  BY <1>5, <1>6

\* The pointers and offsets of an instance that continues a region or a dataset.
LEMMA Follows ==
  ASSUME IInv, OffsetInv, pass = "done", NEW i \in 1..Len(instr), i + 1 \in 1..Len(instr)
  PROVE  /\ offset[i + 1] # 0 =>
              /\ swreg[i + 1] = swreg[i] /\ offset[i + 1] = offset[i] + Stride
              /\ (offset[i] + Stride) * StrideSz <= OffsetLimit
         /\ HasVal /\ valoffset[i + 1] # 0 =>
              valreg[i + 1] = valreg[i] /\ valoffset[i + 1] = valoffset[i] + ValStride
<1> DEFINE l == i + 1
<1>1. l \in 1..Len(instr) /\ l - 1 = i /\ i \in Nat
  BY Served_
<1> HIDE DEF l
<1>2. /\ DOMAIN offset = 1..Len(instr)
      /\ HasVal => DOMAIN valoffset = 1..Len(instr)
  BY Served_
<1>3. offset[l] # 0 =>
        /\ swreg[l] = swreg[i] /\ offset[l] = offset[i] + Stride
        /\ offset[l] * StrideSz <= OffsetLimit
  BY <1>1, <1>2 DEF OffsetInv, Runs, Fits
<1>4. HasVal /\ valoffset[l] # 0 =>
        valreg[l] = valreg[i] /\ valoffset[l] = valoffset[i] + ValStride
  BY <1>1, <1>2 DEF OffsetInv, Runs
<1>5. offset[l] # 0 =>
        /\ swreg[l] = swreg[i] /\ offset[l] = offset[i] + Stride
        /\ (offset[i] + Stride) * StrideSz <= OffsetLimit
  BY <1>3
<1>6. QED
  BY <1>4, <1>5 DEF l

\* Instance 1 has no predecessor, and so the offsets 0.
LEMMA FirstOffset ==
  ASSUME IInv, OffsetInv, pass = "done", 1 \in 1..Len(instr)
  PROVE  offset[1] = 0 /\ (HasVal => valoffset[1] = 0)
<1>1. /\ DOMAIN offset = 1..Len(instr)
      /\ HasVal => DOMAIN valoffset = 1..Len(instr)
  BY Served_
<1>2. 1 - 1 \notin 1..Len(instr)
  BY Served_
<1>3. QED
  BY <1>1, <1>2 DEF OffsetInv, Runs

\* A store whose following offset fits needs no correction of its pointer.
LEMMA NoExcess ==
  ASSUME NEW a \in Nat, NEW w \in Nat, (a + w) * StrideSz <= OffsetLimit, WordSz <= StrideSz
  PROVE  /\ a + w <= OffsetWords
         /\ w > 0 => Excess(a) = 0 /\ Excess(a + w - 1) = 0
<1>1. StrideSz \in Nat /\ WordSz \in Nat \ {0} /\ OffsetLimit \in Nat
  BY StrideAssumption, LayoutAssumption
<1> DEFINE x == a + w
           q == (OffsetLimit + 1) \div WordSz
           e == StrideSz - WordSz
<1>2. x \in Nat /\ (w > 0 => a < x /\ a + w - 1 < x) /\ e \in Nat /\ StrideSz = WordSz + e
      /\ x * StrideSz <= OffsetLimit
  BY <1>1
<1>3. q \in Nat /\ OffsetLimit + 1 < q * WordSz + WordSz
  <2> DEFINE l == OffsetLimit + 1
  <2>1. l \in Nat
    BY <1>1
  <2> HIDE DEF l
  <2>2. l \div WordSz \in Nat /\ l < (l \div WordSz) * WordSz + WordSz
    BY <1>1, <2>1, DivIs
  <2>3. QED
    BY <2>2 DEF l
<1> HIDE DEF x, q, e
<1>4. x * WordSz <= OffsetLimit
  <2>1. x * StrideSz = x * WordSz + x * e
    BY <1>1, <1>2
  <2>2. x * e \in Nat /\ x * WordSz \in Nat
    BY <1>1, <1>2
  <2>3. QED
    BY <1>1, <1>2, <2>1, <2>2
<1>5. x <= q
  <2>1. SUFFICES ASSUME x > q PROVE FALSE
    BY <1>2, <1>3
  <2> DEFINE f == x - q - 1
  <2>2. f \in Nat /\ x = q + 1 + f
    BY <1>2, <1>3, <2>1
  <2> HIDE DEF f
  <2>3. x * WordSz = q * WordSz + WordSz + f * WordSz
    BY <1>1, <1>3, <2>2
  <2>4. f * WordSz \in Nat /\ q * WordSz \in Nat
    BY <1>1, <1>3, <2>2
  <2>5. QED
    BY <1>1, <1>3, <1>4, <2>3, <2>4
<1>6. w > 0 => ~(a >= q) /\ ~(a + w - 1 >= q)
  BY <1>2, <1>3, <1>5
<1>7. OffsetWords = q
  BY DEF OffsetWords, q
<1>8. QED
  BY <1>5, <1>6, <1>7 DEF Excess, x

\* A step of the run leaves the items of the code alone.
LEMMA RunItems ==
  ASSUME LayoutTypeOK, UNCHANGED <<vars, stage, writeVars>>, NEW k, NEW t
  PROVE  /\ TestAt(k, t) => TestAt(k, t)'
         /\ SigAt(k, t) => SigAt(k, t)'
         /\ ValAt(k, t) => ValAt(k, t)'
         /\ Begins(k, t) => Begins(k, t)'
<1>1. UNCHANGED <<stage, swreg, offset, valreg, valoffset, start, sreg, regs, code, sign>>
  BY DEF vars, valVars, writeVars
<1>2. SignEnd' = SignEnd
  BY <1>1 DEF SignEnd
<1>3. \A l, a : Labelled(l, a) => Labelled(l, a)'
  BY <1>1, <1>2 DEF Labelled
<1>4. code \in Seq(Items) /\ code' \in Seq(Items) /\ Len(code) <= Len(code')
      /\ \A j \in 1..Len(code) : code'[j] = code[j]
  BY <1>1 DEF LayoutTypeOK
<1>5. QED
  BY <1>1, <1>3, <1>4, ItemsKept

\* What is at hand when an item is executed.
LEMMA Executes ==
  ASSUME LayoutTypeOK, IInv, FilesInv, FileInv, RunInv, Laid, NEW op, Execute(op)
  PROVE  \E t \in 1..written :
           /\ start + t \in 1..Len(instr) /\ pass = "done"
           /\ Stored(t - 1)
           /\ \/ /\ op = "valbase" /\ ValAt(executed + 1, t)
                 /\ offset[start + t] # 0 => SigSet(t)
              \/ op = "sigbase" /\ SigAt(executed + 1, t) /\ ValSet(t)
              \/ op = "test" /\ TestAt(executed + 1, t) /\ SigSet(t) /\ ValSet(t)
<1>1. /\ stage = "run" /\ executed < Len(code) /\ code[executed + 1].op = op
      /\ TestsInv
  BY DEF Execute, FileInv
<1>2. /\ pass = "done" /\ end <= Len(instr) /\ written = end - start
      /\ start \in Nat /\ end \in Nat /\ written \in Nat /\ Len(instr) \in Nat
      /\ executed \in Nat /\ Len(code) \in Nat
  BY <1>1, ChunkIs DEF FilesInv, LayoutTypeOK
<1>3. PICK t \in 1..(written + 1) : Running(t)
  BY <1>1 DEF RunInv
<1>4. ASSUME NEW k, TestAt(k, t)
      PROVE  t \in 1..written
  <2>1. k \in DOMAIN code /\ code[k].op = "test" /\ code[k].i = start + t
    BY <1>4 DEF TestAt
  <2>2. start + t \in (start + 1)..(start + written)
    BY <1>1, <2>1 DEF TestsInv
  <2>3. QED
    BY <1>2, <1>3, <2>2
<1>5. ASSUME t \in 1..written PROVE start + t \in 1..Len(instr)
  BY <1>2, <1>5
<1>6. ~(t = written + 1 /\ executed = Len(code))
  BY <1>1, <1>2
<1>7. Stored(t - 1)
  BY <1>3 DEF Running
<1>8. CASE ValAt(executed + 1, t) /\ (offset[start + t] # 0 => SigSet(t))
  <2>1. op = "valbase"
    BY <1>1, <1>8 DEF ValAt
  <2>2. t \in 1..written
    BY <1>4, <1>8 DEF ValAt, SigAt
  <2>3. QED
    BY <1>2, <1>5, <1>7, <1>8, <2>1, <2>2
<1>9. CASE SigAt(executed + 1, t) /\ ValSet(t)
  <2>1. op = "sigbase"
    BY <1>1, <1>9 DEF SigAt
  <2>2. t \in 1..written
    BY <1>4, <1>9 DEF SigAt
  <2>3. QED
    BY <1>2, <1>5, <1>7, <1>9, <2>1, <2>2
<1>10. CASE TestAt(executed + 1, t) /\ SigSet(t) /\ ValSet(t)
  <2>1. op = "test"
    BY <1>1, <1>10 DEF TestAt
  <2>2. t \in 1..written
    BY <1>4, <1>10
  <2>3. QED
    BY <1>2, <1>5, <1>7, <1>10, <2>1, <2>2
<1>11. QED
  BY <1>3, <1>6, <1>8, <1>9, <1>10 DEF Running

\* The next instance begins with its first item.
LEMMA Arrives ==
  ASSUME NEW t, Stored(t - 1)', Begins(executed + 1, t)',
         (offset[start + t] # 0)' => SigSet(t)',
         ~NewData(t)' => ValSet(t)'
  PROVE  Running(t)'
<1>1. CASE ValAt(executed + 1, t)'
  BY <1>1 DEF Running
<1>2. CASE (~NewData(t) /\ SigAt(executed + 1, t))'
  BY <1>2 DEF Running
<1>3. CASE (~NewData(t) /\ offset[start + t] # 0 /\ TestAt(executed + 1, t))'
  BY <1>3 DEF Running
<1>4. QED
  BY <1>1, <1>2, <1>3 DEF Begins

\* A run starts with a fresh signature and the first instance of the file.
LEMMA CloseRun ==
  ASSUME LayoutTypeOK, IInv, FilesInv, FileInv, CloseFile, Laid'
  PROVE  \E t \in 1..(written' + 1) : Running(t)'
<1>1. /\ executed' = 0 /\ mem' = Empty
      /\ UNCHANGED <<vars, start, end, written>> /\ start + written = end /\ stage = "write"
      /\ stage' = "run"
  BY DEF CloseFile
<1>2. written \in Nat /\ written # 0 /\ start \in Nat
  BY <1>1 DEF LayoutTypeOK, FilesInv
<1>3. CodeInv'
  BY <1>1, CloseFileInv DEF FileInv
<1>4. Begins(1, 1)' /\ 0 + 1 = 1
  BY <1>1, <1>2, <1>3 DEF CodeInv
<1>5. Begins(executed + 1, 1)'
  BY <1>1, <1>4
<1>6. Stored(1 - 1)'
  <2>1. Stride * 0 = 0 /\ DOMAIN mem' = {} /\ 0..(0 - 1) = {} /\ 1..0 = {}
    BY <1>1, StrideAssumption DEF Empty
  <2>2. QED
    BY <2>1 DEF Stored
<1>7. (offset[start + 1] = 0)'
  BY DEF Laid
<1>8. ~NewData(1)' => ValSet(1)'
  BY DEF NewData, ValSet, Valid
<1>9. Running(1)'
  BY <1>5, <1>6, <1>7, <1>8, Arrives
<1>10. 1 \in 1..(written' + 1)
  BY <1>1, <1>2
<1>11. QED
  BY <1>9, <1>10

\* RVTEST_SIGBASE points at the region of the instance.
LEMMA SigbaseRun ==
  ASSUME LayoutTypeOK, IInv, FilesInv, FileInv, RunInv, Laid, RunSigbase
  PROVE  \E t \in 1..(written' + 1) : Running(t)'
<1>1. /\ Execute("sigbase") /\ stage = "run" /\ Execute("sigbase")
      /\ UNCHANGED <<vars, stage, inst, writeVars, mem, fetched>>
      /\ executed' = executed + 1 /\ asmoff' = 0
  BY DEF RunSigbase, Execute
<1>2. PICK t \in 1..written :
        /\ start + t \in 1..Len(instr) /\ pass = "done"
        /\ Stored(t - 1) /\ SigAt(executed + 1, t) /\ ValSet(t)
  <2>1. \E t \in 1..written :
           /\ start + t \in 1..Len(instr) /\ pass = "done"
           /\ Stored(t - 1)
           /\ \/ /\ "sigbase" = "valbase" /\ ValAt(executed + 1, t)
                 /\ offset[start + t] # 0 => SigSet(t)
              \/ "sigbase" = "sigbase" /\ SigAt(executed + 1, t) /\ ValSet(t)
              \/ "sigbase" = "test" /\ TestAt(executed + 1, t) /\ SigSet(t) /\ ValSet(t)
    BY <1>1, Executes
  <2>2. QED
    BY <2>1
<1>3. UNCHANGED <<swreg, offset, valreg, valoffset, start, written>>
  BY <1>1 DEF vars, valVars, writeVars
<1>4. Item = code[executed + 1] /\ Item.r = swreg[start + t] /\ offset[start + t] = 0
      /\ Labelled(Item.label, Stride * (t - 1)) /\ TestAt(executed + 1 + 1, t)
  BY <1>2 DEF SigAt, Item
<1>5. PICK s \in DOMAIN sign : sign[s].label = Item.label /\ sign[s].at = Stride * (t - 1)
  BY <1>1, <1>4 DEF Labelled
<1>6. PICK x \in ToSet(sign) :
        x.label = Item.label /\ reg' = [reg EXCEPT ![Item.r] = [area |-> "sig", at |-> x.at]]
  BY DEF RunSigbase
<1>7. x.at = Stride * (t - 1)
  <2>1. PICK y \in DOMAIN sign : x = sign[y]
    BY <1>6 DEF ToSet
  <2>2. SignInv
    BY <1>1 DEF FileInv
  <2>3. y = s
    BY <1>5, <1>6, <2>1, <2>2 DEF SignInv
  <2>4. QED
    BY <1>5, <2>1, <2>3
<1>8. /\ swreg[start + t] \in Regs
      /\ HasVal => valreg[start + t] \in Regs /\ valreg[start + t] # swreg[start + t]
  BY <1>2, Distinct
<1>9. /\ reg'[swreg[start + t]] = [area |-> "sig", at |-> Stride * (t - 1)]
      /\ HasVal => reg'[valreg[start + t]] = reg[valreg[start + t]]
  BY <1>4, <1>6, <1>7, <1>8 DEF LayoutTypeOK
<1>10. SigSet(t)'
  <2>1. Stride * (t - 1) \in Nat
    BY <1>2, StrideAssumption DEF LayoutTypeOK
  <2> DEFINE p == reg'[swreg[start + t]]
  <2>2. p.area = "sig" /\ p.at = Stride * (t - 1)
    BY <1>9
  <2> HIDE DEF p
  <2>3. p.at + (IF Explicit THEN offset'[start' + t] ELSE asmoff') = Stride * (t - 1)
    BY <1>1, <1>3, <1>4, <2>1, <2>2
  <2>4. (IF Explicit THEN offset'[start' + t] ELSE asmoff') \in 0..OffsetWords
    BY <1>1, <1>3, <1>4, ExcessIs
  <2>5. QED
    BY <1>3, <2>2, <2>3, <2>4 DEF SigSet, Off, p
<1>11. ValSet(t)'
  BY <1>2, <1>3, <1>9 DEF ValSet, Valid, Sources
<1>12. Stored(t - 1)'
  BY <1>1, <1>2, <1>3 DEF Stored
<1>13. TestAt(executed + 1, t)'
  <2>1. PICK k : k = executed + 1 + 1 /\ TestAt(k, t)
    BY <1>4
  <2>2. TestAt(k, t)'
    BY <1>1, <2>1, RunItems
  <2>3. QED
    BY <1>1, <2>1, <2>2
<1>14. t \in 1..(written' + 1)
  BY <1>2, <1>3 DEF LayoutTypeOK
<1>15. QED
  BY <1>10, <1>11, <1>12, <1>13, <1>14 DEF Running

\* RVTEST_VALBASEUPD points at the data of the instance.
LEMMA ValbaseRun ==
  ASSUME LayoutTypeOK, IInv, FilesInv, FileInv, RunInv, Laid, RunValbase
  PROVE  \E t \in 1..(written' + 1) : Running(t)'
<1>1. /\ Execute("valbase") /\ stage = "run"
      /\ UNCHANGED <<vars, stage, inst, writeVars, asmoff, mem, fetched>>
      /\ reg' = [reg EXCEPT ![Item.r] = [area |-> "data", at |-> Item.at]]
      /\ executed' = executed + 1
  BY DEF RunValbase, Execute
<1>2. PICK t \in 1..written :
        /\ start + t \in 1..Len(instr) /\ pass = "done"
        /\ Stored(t - 1) /\ ValAt(executed + 1, t)
        /\ offset[start + t] # 0 => SigSet(t)
  <2>1. \E t \in 1..written :
           /\ start + t \in 1..Len(instr) /\ pass = "done"
           /\ Stored(t - 1)
           /\ \/ /\ "valbase" = "valbase" /\ ValAt(executed + 1, t)
                 /\ offset[start + t] # 0 => SigSet(t)
              \/ "valbase" = "sigbase" /\ SigAt(executed + 1, t) /\ ValSet(t)
              \/ "valbase" = "test" /\ TestAt(executed + 1, t) /\ SigSet(t) /\ ValSet(t)
    BY <1>1, Executes
  <2>2. QED
    BY <2>1
<1>3. UNCHANGED <<swreg, offset, valreg, valoffset, start, written>>
  BY <1>1 DEF vars, valVars, writeVars
<1>4. /\ HasVal /\ NewData(t)
      /\ Item = [op |-> "valbase", r |-> valreg[start + t], at |-> Sources * (t - 1)]
      /\ SigAt(executed + 1 + 1, t)
           \/ (TestAt(executed + 1 + 1, t) /\ offset[start + t] # 0)
  BY <1>2 DEF ValAt, NewData, Item
<1>5. Item.r = valreg[start + t] /\ Item.at = Sources * (t - 1)
  BY <1>4
<1>6. /\ swreg[start + t] \in Regs /\ valreg[start + t] \in Regs
      /\ valreg[start + t] # swreg[start + t]
  BY <1>2, <1>4, Distinct
<1>7. /\ reg'[valreg[start + t]] = [area |-> "data", at |-> Sources * (t - 1)]
      /\ reg'[swreg[start + t]] = reg[swreg[start + t]]
  BY <1>1, <1>5, <1>6 DEF LayoutTypeOK
<1>8. ValSet(t)'
  <2>1. Sources' = Sources /\ Valid' = Valid
    BY <1>3 DEF Valid, Sources
  <2>2. SUFFICES ASSUME Valid
                 PROVE  LET p == reg'[valreg[start + t]]
                        IN  p.area = "data" /\ p.at + valoffset[start + t] = Sources * (t - 1)
    BY <1>3, <2>1 DEF ValSet
  <2>3. valoffset[start + t] = 0
    BY <1>4, <2>2 DEF Valid, NewData
  <2>4. Sources * (t - 1) \in Int
    BY SourcesIs
  <2> DEFINE p == reg'[valreg[start + t]]
  <2>5. p.area = "data" /\ p.at = Sources * (t - 1)
    BY <1>7
  <2> HIDE DEF p
  <2>6. p.area = "data" /\ p.at + valoffset[start + t] = Sources * (t - 1)
    BY <2>3, <2>4, <2>5
  <2>7. QED
    BY <2>6 DEF p
<1>9. offset[start + t] # 0 => SigSet(t)'
  BY <1>1, <1>2, <1>3, <1>7 DEF SigSet, Off
<1>10. Stored(t - 1)'
  BY <1>1, <1>2, <1>3 DEF Stored
<1>11. SigAt(executed + 1, t)' \/ (TestAt(executed + 1, t)' /\ offset[start + t] # 0)
  <2>1. PICK k : /\ k = executed + 1 + 1
                 /\ SigAt(k, t) \/ (TestAt(k, t) /\ offset[start + t] # 0)
    BY <1>4
  <2>2. SigAt(k, t)' \/ (TestAt(k, t)' /\ offset[start + t] # 0)
    BY <1>1, <2>1, RunItems
  <2>3. QED
    BY <1>1, <2>1, <2>2
<1>12. t \in 1..(written' + 1)
  BY <1>2, <1>3 DEF LayoutTypeOK
<1>13. QED
  BY <1>8, <1>9, <1>10, <1>11, <1>12 DEF Running

LEMMA SkipIs ==
  ASSUME LayoutTypeOK, IInv, pass = "done", NEW i \in 1..Len(instr)
  PROVE  Off(i) \in Int /\ Skipped(Off(i), Words) \in Int
<1>1. Off(i) \in Int
  BY Served_ DEF Off, LayoutTypeOK
<1>2. QED
  BY <1>1, SkippedIs

\* What an instance leaves in the registers: its pointers survive, the
\* signature pointer may have been advanced.  Its result is stored if the
\* offset it begins with is within reach.
LEMMA TestRegs ==
  ASSUME LayoutTypeOK, IInv, FilesInv, FileInv, RunTest, NEW i, i = Item.i
  PROVE  /\ i \in 1..Len(instr) /\ pass = "done"
         /\ Off(i) \in Int /\ Skipped(Off(i), Words) \in Int
         /\ reg'[swreg[i]].area = reg[swreg[i]].area
         /\ reg'[swreg[i]].at = reg[swreg[i]].at + Skipped(Off(i), Words)
         /\ HasVal => reg'[valreg[i]] = reg[valreg[i]]
         /\ asmoff' = Off(i) + Words - Skipped(Off(i), Words)
         /\ reg[swreg[i]].area = "sig" /\ Off(i) \in 0..OffsetWords =>
              LET here == reg[swreg[i]].at + Off(i)
              IN  mem' = [a \in DOMAIN mem \cup here..(here + Words - 1) |->
                            IF a \in here..(here + Words - 1) THEN <<i, a - here + 1>> ELSE mem[a]]
<1>1. i \in 1..Len(instr) /\ pass = "done"
  BY TestItem DEF RunTest
<1> DEFINE S    == Operands(i) \cup Given(testreg, i) \cup Given(flagreg, i)
           file == Clobber(S)
<1>2. /\ swreg[i] \in Regs /\ swreg[i] \notin S
      /\ HasVal => valreg[i] \in Regs /\ valreg[i] # swreg[i] /\ valreg[i] \notin S
  BY <1>1, Distinct
<1>3. file \in [Regs -> [area : {"none", "sig", "data"}, at : Int]]
  BY ClobberType
<1>4. file[swreg[i]] \in [area : {"none", "sig", "data"}, at : Int]
  BY <1>2, <1>3
<1>5. /\ reg' = [file EXCEPT ![swreg[i]].at = @ + Skipped(Off(i), Words)]
      /\ asmoff' = Off(i) + Words - Skipped(Off(i), Words)
      /\ file[swreg[i]].area = "sig" /\ Off(i) \in 0..OffsetWords =>
           LET here == file[swreg[i]].at + Off(i)
           IN  mem' = [a \in DOMAIN mem \cup here..(here + Words - 1) |->
                         IF a \in here..(here + Words - 1) THEN <<i, a - here + 1>> ELSE mem[a]]
  <2>1. reg' = [file EXCEPT ![swreg[i]].at = @ + Skipped(Off(i), Words)]
    BY DEF RunTest
  <2>2. asmoff' = Off(i) + Words - Skipped(Off(i), Words)
    BY DEF RunTest
  <2>3. ASSUME file[swreg[i]].area = "sig", Off(i) \in 0..OffsetWords, file[swreg[i]].at \in Int
        PROVE  LET here == file[swreg[i]].at + Off(i)
               IN  mem' = [a \in DOMAIN mem \cup here..(here + Words - 1) |->
                         IF a \in here..(here + Words - 1) THEN <<i, a - here + 1>> ELSE mem[a]]
    <3> DEFINE here == file[swreg[i]].at + Off(i)
               word == {a \in here..(here + Words - 1) : Low(Off(i), a - here + 1) < OffsetWords}
    <3>1. mem' = [a \in DOMAIN mem \cup word |-> IF a \in word THEN <<i, a - here + 1>> ELSE mem[a]]
      BY <2>3, Zenon DEF RunTest
    <3>2. here \in Int /\ Words \in Nat
      BY <2>3, ExcessIs, LayoutAssumption
    <3> HIDE DEF here
    <3>3. \A a \in here..(here + Words - 1) : a - here + 1 \in 1..Words
      BY <3>2
    <3>4. word = here..(here + Words - 1)
      BY <2>3, <3>3, Encodes
    <3> HIDE DEF word
    <3>5. QED
      BY <3>1, <3>4 DEF here
  <2>4. QED
    BY <2>1, <2>2, <2>3, <1>4
<1> HIDE DEF S
<1>6. /\ file[swreg[i]] = reg[swreg[i]]
      /\ HasVal => file[valreg[i]] = reg[valreg[i]]
  BY <1>2 DEF Clobber
<1> HIDE DEF file
<1>7. Off(i) \in Int /\ Skipped(Off(i), Words) \in Int
  BY <1>1, SkipIs
<1>8. reg'[swreg[i]] = [file[swreg[i]] EXCEPT !.at = @ + Skipped(Off(i), Words)]
  BY <1>2, <1>3, <1>5
<1>9. reg'[swreg[i]].area = reg[swreg[i]].area /\ reg'[swreg[i]].at = reg[swreg[i]].at + Skipped(Off(i), Words)
  <2> DEFINE p == file[swreg[i]]
             q == reg'[swreg[i]]
  <2>1. p \in [area : {"none", "sig", "data"}, at : Int] /\ q = [p EXCEPT !.at = @ + Skipped(Off(i), Words)]
        /\ p = reg[swreg[i]]
    BY <1>4, <1>6, <1>8
  <2> HIDE DEF p, q
  <2>2. q.area = p.area /\ q.at = p.at + Skipped(Off(i), Words)
    BY <2>1
  <2>3. QED
    BY <2>1, <2>2 DEF q
<1>10. HasVal => reg'[valreg[i]] = reg[valreg[i]]
  BY <1>2, <1>3, <1>5, <1>6
<1>11. QED
  BY <1>1, <1>5, <1>6, <1>7, <1>9, <1>10

\* The results of the instances so far and of one more.
LEMMA Stores ==
  ASSUME LayoutTypeOK, NEW t \in Nat \ {0}, Stored(t - 1), NEW i, i = start + t,
         UNCHANGED start,
         Sized =>
           LET here == Stride * (t - 1)
           IN  mem' = [a \in DOMAIN mem \cup here..(here + Words - 1) |->
                         IF a \in here..(here + Words - 1) THEN <<i, a - here + 1>> ELSE mem[a]]
  PROVE  Stored(t)'
<1>1. SUFFICES ASSUME Sized
               PROVE  /\ \A u \in 1..t, w \in 1..Words :
                           LET a == Stride * (u - 1) + w - 1
                           IN  a \in DOMAIN mem' /\ mem'[a] = <<start + u, w>>
                      /\ Words = Stride => 0..(Stride * t - 1) \subseteq DOMAIN mem'
  BY DEF Stored
<1> DEFINE h == Stride * (t - 1)
<1>2. Words \in Nat \ {0} /\ Words <= Stride /\ Stride \in Nat \ {0}
  BY <1>1, StrideAssumption, LayoutAssumption DEF Sized
<1>3. h \in Nat /\ Stride * t = h + Stride /\ h = Stride * (t - 1)
  <2> DEFINE s == t - 1
  <2>1. s \in Nat /\ t = s + 1
    OBVIOUS
  <2> HIDE DEF s
  <2>2. Stride * s \in Nat /\ Stride * t = Stride * s + Stride
    BY <1>2, <2>1
  <2>3. QED
    BY <2>2 DEF s
<1>4. mem' = [a \in DOMAIN mem \cup h..(h + Words - 1) |->
                IF a \in h..(h + Words - 1) THEN <<i, a - h + 1>> ELSE mem[a]]
  BY <1>1
<1>5. /\ \A u \in 1..(t - 1), w \in 1..Words :
           LET a == Stride * (u - 1) + w - 1
           IN  a \in DOMAIN mem /\ mem[a] = <<start + u, w>>
      /\ Words = Stride => 0..(h - 1) \subseteq DOMAIN mem
  BY <1>1, <1>3 DEF Stored
<1> HIDE DEF h
<1>6. ASSUME Words = Stride
      PROVE  0..(Stride * t - 1) \subseteq DOMAIN mem'
  <2>1. DOMAIN mem' = DOMAIN mem \cup (h..(h + Words - 1))
    BY <1>4
  <2>2. 0..(h + Words - 1) = (0..(h - 1)) \cup (h..(h + Words - 1))
    BY <1>2, <1>3
  <2>3. Stride * t - 1 = h + Words - 1
    BY <1>2, <1>3, <1>6
  <2>4. QED
    BY <1>5, <1>6, <2>1, <2>2, <2>3
<1>7. ASSUME NEW u \in 1..t, NEW w \in 1..Words
      PROVE  LET a == Stride * (u - 1) + w - 1
             IN  a \in DOMAIN mem' /\ mem'[a] = <<start + u, w>>
  <2>1. CASE u = t
    <3> DEFINE a == h + w - 1
    <3>1. a \in h..(h + Words - 1) /\ a - h + 1 = w
      BY <1>2, <1>3
    <3> HIDE DEF a
    <3>2. a \in DOMAIN mem' /\ mem'[a] = <<i, w>>
      BY <1>4, <3>1
    <3>3. QED
      BY <1>3, <2>1, <3>2 DEF a
  <2>2. CASE u # t
    <3>1. u \in 1..(t - 1)
      BY <2>2
    <3> DEFINE a == Stride * (u - 1) + w - 1
               m == t - 1
    <3>2. m \in Nat /\ u \in 1..m /\ w \in 1..Stride
      BY <1>2, <3>1
    <3> HIDE DEF m
    <3>3. Stride * (u - 1) \in Nat /\ Stride * (u - 1) + w \in 1..(Stride * m)
      BY <1>2, <3>2, Slot
    <3>4. Stride * (u - 1) \in Nat /\ Stride * (u - 1) + w \in 1..h
      BY <1>3, <3>3 DEF m
    <3>5. a \notin h..(h + Words - 1)
      BY <1>2, <1>3, <3>2, <3>4
    <3>6. a \in DOMAIN mem /\ mem[a] = <<start + u, w>>
      BY <1>5, <3>1
    <3> HIDE DEF a
    <3>7. a \in DOMAIN mem' /\ mem'[a] = mem[a]
      BY <1>4, <3>5, <3>6
    <3>8. QED
      BY <3>6, <3>7 DEF a
  <2>3. QED
    BY <2>1, <2>2
<1>8. QED
  BY <1>6, <1>7

\* The pointers an instance leaves are those its successor needs.
LEMMA SigNext ==
  ASSUME LayoutTypeOK, IInv, OffsetInv, pass = "done", UNCHANGED <<start, offset, swreg>>,
         NEW t \in Nat \ {0}, NEW i, i = start + t, i \in 1..Len(instr), i + 1 \in 1..Len(instr),
         reg'[swreg[i]].area = reg[swreg[i]].area,
         reg'[swreg[i]].at = reg[swreg[i]].at + Skipped(Off(i), Words),
         asmoff' = Off(i) + Words - Skipped(Off(i), Words),
         SigSet(t), offset[i + 1] # 0
  PROVE  SigSet(t + 1)'
<1> DEFINE next == IF Explicit THEN offset[i + 1] ELSE asmoff'
<1>1. SUFFICES ASSUME Sized
               PROVE  LET p == reg'[swreg[i + 1]]
                      IN  /\ p.area = "sig" /\ p.at + next = Stride * t
                          /\ next \in 0..OffsetWords
  <2>1. start' + (t + 1) = i + 1 /\ t + 1 - 1 = t
    BY DEF LayoutTypeOK
  <2>2. QED
    BY <2>1 DEF SigSet, Off
<1>2. /\ swreg[i + 1] = swreg[i] /\ offset[i + 1] = offset[i] + Stride
      /\ (offset[i] + Stride) * StrideSz <= OffsetLimit
  BY Follows
<1>3. /\ Stride \in Nat \ {0} /\ Words \in Nat \ {0} /\ StrideSz \in Nat
      /\ IF Explicit THEN Words <= Stride /\ WordSz <= StrideSz ELSE Words = Stride
      /\ offset[i] \in Nat /\ swreg[i] \in Regs
  BY <1>1, StrideAssumption, LayoutAssumption, Served_ DEF Sized
<1>4. Stride * (t - 1) \in Int /\ Stride * t = Stride * (t - 1) + Stride
  BY <1>3
<1> DEFINE p == reg[swreg[i]]
           q == reg'[swreg[i]]
           h == Stride * (t - 1)
<1>5. p.area = "sig" /\ p.at + Off(i) = h /\ Off(i) \in 0..OffsetWords
  BY <1>1 DEF SigSet
<1>6. p.at \in Int /\ Off(i) \in Int /\ Skipped(Off(i), Words) \in Int
  <2>1. p \in [area : {"none", "sig", "data"}, at : Int]
    BY <1>3 DEF LayoutTypeOK
  <2>2. QED
    BY <2>1, SkipIs
<1>7. q.area = "sig" /\ q.at = p.at + Skipped(Off(i), Words)
  BY <1>5
<1>8. Explicit => Off(i) = offset[i] /\ Skipped(Off(i), Words) = 0
  <2>1. SUFFICES ASSUME Explicit PROVE Off(i) = offset[i] /\ Skipped(Off(i), Words) = 0
    OBVIOUS
  <2>2. Off(i) = offset[i]
    BY <2>1 DEF Off
  <2> DEFINE a == offset[i]
             d == Stride - Words
  <2>3. a \in Nat /\ d \in Nat /\ Stride = Words + d /\ (a + Stride) * StrideSz <= OffsetLimit
        /\ WordSz <= StrideSz
    BY <1>2, <1>3, <2>1
  <2> HIDE DEF a, d
  <2>4. Excess(a) = 0 /\ Excess(a + Words - 1) = 0
    <3>1. (a + Stride) * StrideSz = (a + Words) * StrideSz + d * StrideSz
      BY <1>3, <2>3
    <3>2. (a + Words) * StrideSz \in Nat /\ d * StrideSz \in Nat /\ OffsetLimit \in Nat
      BY <1>3, <2>3, StrideAssumption
    <3>3. (a + Words) * StrideSz <= OffsetLimit
      BY <2>3, <3>1, <3>2
    <3>4. Words \in Nat /\ Words > 0
      BY <1>3
    <3>5. QED
      BY <2>3, <3>3, <3>4, NoExcess
  <2>5. Skipped(Off(i), Words) = Excess(a) + Excess(a - Excess(a) + Words - 1)
    BY <2>2 DEF Skipped, a
  <2>6. a - Excess(a) + Words - 1 = a + Words - 1
    BY <1>3, <2>3, <2>4
  <2>7. Skipped(Off(i), Words) = 0
    BY <2>4, <2>5, <2>6
  <2>8. QED
    BY <2>2, <2>7
<1>9. q.at + next = Stride * t
  <2> HIDE DEF p, q, h
  <2>1. Stride * t = h + Stride /\ h \in Int
    BY <1>4 DEF h
  <2>2. CASE Explicit
    <3>1. offset[i + 1] = Off(i) + Stride /\ Skipped(Off(i), Words) = 0
      BY <1>2, <1>8, <2>2
    <3> DEFINE a == Off(i)
    <3>2. /\ next = a + Stride /\ a \in Int /\ p.at \in Int /\ p.at + a = h
          /\ q.at = p.at + 0 /\ Stride \in Nat
      BY <1>3, <1>5, <1>6, <1>7, <2>2, <3>1
    <3> HIDE DEF a, next
    <3>3. QED
      BY <2>1, <3>2
  <2>3. CASE ~Explicit
    <3> DEFINE a == Off(i)
               b == Skipped(Off(i), Words)
               x == p.at
    <3>1. /\ a \in Int /\ b \in Int /\ x \in Int /\ x + a = h /\ q.at = x + b
          /\ asmoff' = a + Stride - b
      BY <1>3, <1>5, <1>6, <1>7, <2>3
    <3> HIDE DEF a, b, x
    <3>2. q.at + asmoff' = Stride * t
      BY <1>3, <2>1, <3>1
    <3>3. QED
      BY <2>3, <3>2
  <2>4. QED
    BY <2>2, <2>3
<1>10. next \in 0..OffsetWords
  <2>1. CASE Explicit
    <3> DEFINE a == offset[i]
    <3>1. a \in Nat /\ (a + Stride) * StrideSz <= OffsetLimit /\ WordSz <= StrideSz
      BY <1>2, <1>3, <2>1
    <3> HIDE DEF a
    <3>2. Stride \in Nat
      BY <1>3
    <3>3. a + Stride <= OffsetWords
      BY <3>1, <3>2, NoExcess
    <3>4. OffsetWords \in Nat
      BY <3>1, ExcessIs
    <3>5. a + Stride \in 0..OffsetWords
      BY <3>1, <3>2, <3>3, <3>4
    <3>6. next = a + Stride
      BY <1>2, <2>1 DEF a
    <3>7. QED
      BY <3>5, <3>6
  <2>2. CASE ~Explicit
    BY <1>5, <2>2, Encodes
  <2>3. QED
    BY <2>1, <2>2
<1>11. QED
  BY <1>2, <1>7, <1>9, <1>10

LEMMA ValNext ==
  ASSUME LayoutTypeOK, IInv, OffsetInv, pass = "done", UNCHANGED <<start, valoffset, valreg>>,
         NEW t \in Nat \ {0}, NEW i, i = start + t, i \in 1..Len(instr), i + 1 \in 1..Len(instr),
         HasVal => reg'[valreg[i]] = reg[valreg[i]],
         ValSet(t), HasVal => valoffset[i + 1] # 0
  PROVE  ValSet(t + 1)'
<1>1. Valid' = Valid /\ Sources' = Sources
  BY DEF Valid, Sources
<1>2. SUFFICES ASSUME Valid
               PROVE  LET p == reg'[valreg[i + 1]]
                      IN  p.area = "data" /\ p.at + valoffset[i + 1] = Sources * t
  <2>1. start' + (t + 1) = i + 1 /\ t + 1 - 1 = t
    BY DEF LayoutTypeOK
  <2>2. QED
    BY <1>1, <2>1 DEF ValSet
<1>3. /\ valreg[i + 1] = valreg[i] /\ valoffset[i + 1] = valoffset[i] + Sources
      /\ reg'[valreg[i]] = reg[valreg[i]] /\ HasVal
  BY <1>2, Follows DEF Valid
<1>4. valreg[i] \in Regs /\ valoffset[i] \in Nat /\ Sources \in Nat
  BY <1>3, Served_, SourcesIs
<1> DEFINE p == reg[valreg[i]]
           h == Sources * (t - 1)
<1>5. p.area = "data" /\ p.at + valoffset[i] = h
  BY <1>2 DEF ValSet
<1>6. p.at \in Int
  <2>1. p \in [area : {"none", "sig", "data"}, at : Int]
    BY <1>4 DEF LayoutTypeOK
  <2>2. QED
    BY <2>1
<1>7. h \in Int /\ Sources * t = h + Sources
  BY <1>4
<1> HIDE DEF p, h
<1>8. p.at + (valoffset[i] + Sources) = Sources * t
  BY <1>4, <1>5, <1>6, <1>7
<1>9. QED
  BY <1>3, <1>5, <1>8 DEF p

\* An instance stores its result where it belongs, and the next one begins.
LEMMA TestRun ==
  ASSUME LayoutTypeOK, IInv, OffsetInv, FilesInv, FileInv, RunInv, Laid, RunTest
  PROVE  \E t \in 1..(written' + 1) : Running(t)'
<1>1. /\ Execute("test") /\ stage = "run" /\ executed' = executed + 1
      /\ UNCHANGED <<vars, stage, inst, writeVars>>
  BY DEF RunTest, Execute
<1>2. PICK t \in 1..written :
        /\ start + t \in 1..Len(instr) /\ pass = "done"
        /\ Stored(t - 1) /\ TestAt(executed + 1, t) /\ SigSet(t) /\ ValSet(t)
  <2>1. \E t \in 1..written :
           /\ start + t \in 1..Len(instr) /\ pass = "done"
           /\ Stored(t - 1)
           /\ \/ /\ "test" = "valbase" /\ ValAt(executed + 1, t)
                 /\ offset[start + t] # 0 => SigSet(t)
              \/ "test" = "sigbase" /\ SigAt(executed + 1, t) /\ ValSet(t)
              \/ "test" = "test" /\ TestAt(executed + 1, t) /\ SigSet(t) /\ ValSet(t)
    BY <1>1, Executes
  <2>2. QED
    BY <2>1
<1>3. UNCHANGED <<instr, swreg, offset, valreg, valoffset, start, end, written, code>>
  BY <1>1 DEF vars, valVars, writeVars
<1>4. /\ start \in Nat /\ end \in Nat /\ written \in Nat /\ t \in Nat \ {0}
      /\ Len(instr) \in Nat /\ executed \in Nat /\ end <= Len(instr) /\ written = end - start
  BY <1>1, ChunkIs DEF LayoutTypeOK, FilesInv
<1>5. PICK i : i = start + t /\ i = Item.i
  <2>1. Item = [op |-> "test", i |-> start + t]
    BY <1>2 DEF TestAt, Item
  <2>2. Item.i = start + t
    BY <2>1
  <2>3. QED
    BY <2>2
<1>6. /\ i \in 1..Len(instr)
      /\ Off(i) \in Int /\ Skipped(Off(i), Words) \in Int
      /\ reg'[swreg[i]].area = reg[swreg[i]].area
      /\ reg'[swreg[i]].at = reg[swreg[i]].at + Skipped(Off(i), Words)
      /\ HasVal => reg'[valreg[i]] = reg[valreg[i]]
      /\ asmoff' = Off(i) + Words - Skipped(Off(i), Words)
  BY <1>5, TestRegs
<1>7. Stored(t)'
  <2>1. Sized => reg[swreg[i]].area = "sig" /\ reg[swreg[i]].at + Off(i) = Stride * (t - 1)
                 /\ Off(i) \in 0..OffsetWords
    BY <1>2, <1>5 DEF SigSet
  <2>2. Sized =>
           LET here == Stride * (t - 1)
           IN  mem' = [a \in DOMAIN mem \cup here..(here + Words - 1) |->
                         IF a \in here..(here + Words - 1) THEN <<i, a - here + 1>> ELSE mem[a]]
    <3>1. SUFFICES ASSUME Sized
                   PROVE  LET here == Stride * (t - 1)
           IN  mem' = [a \in DOMAIN mem \cup here..(here + Words - 1) |->
                         IF a \in here..(here + Words - 1) THEN <<i, a - here + 1>> ELSE mem[a]]
      OBVIOUS
    <3>2. reg[swreg[i]].area = "sig" /\ reg[swreg[i]].at + Off(i) = Stride * (t - 1)
          /\ Off(i) \in 0..OffsetWords
      BY <2>1, <3>1
    <3>3. LET here == reg[swreg[i]].at + Off(i)
          IN  mem' = [a \in DOMAIN mem \cup here..(here + Words - 1) |->
                        IF a \in here..(here + Words - 1) THEN <<i, a - here + 1>> ELSE mem[a]]
      BY <1>5, <3>2, TestRegs
    <3>4. QED
      BY <3>2, <3>3
  <2>3. QED
    BY <1>2, <1>3, <1>4, <1>5, <2>2, Stores
<1>8. CodeInv
  BY <1>1 DEF FileInv
<1>9. executed + 1 \in DOMAIN code
  BY <1>2 DEF TestAt
<1>10. CASE t = written
  <2>1. executed' = Len(code')
    BY <1>1, <1>2, <1>3, <1>8, <1>9, <1>10 DEF CodeInv
  <2>2. (written' + 1) - 1 = t /\ written' + 1 \in 1..(written' + 1)
    BY <1>3, <1>4, <1>10
  <2>3. PICK u \in 1..(written' + 1) : u = written' + 1 /\ u - 1 = t
    BY <2>2
  <2>4. Stored(u - 1)'
    BY <1>7, <2>3
  <2>5. Running(u)'
    BY <2>1, <2>3, <2>4 DEF Running
  <2>6. QED
    BY <2>5
<1>11. CASE t # written
  <2>1. Begins(executed + 1 + 1, t + 1)
    BY <1>2, <1>8, <1>9, <1>11 DEF CodeInv
  <2>2. i + 1 \in 1..Len(instr) /\ t + 1 \in 1..(written' + 1) /\ start + (t + 1) = i + 1
    BY <1>2, <1>3, <1>4, <1>5, <1>11
  <2>3. PICK k, u : k = executed + 1 + 1 /\ u = t + 1 /\ Begins(k, u)
    BY <2>1
  <2>4. Begins(k, u)'
    BY <1>1, <2>3, RunItems
  <2>5. Begins(executed + 1, u)'
    BY <1>1, <2>3, <2>4
  <2>6. u - 1 = t /\ start + u = i + 1
    BY <1>2, <2>2, <2>3, <1>4
  <2>7. Stored(u - 1)'
    BY <1>7, <2>6
  <2>8. ASSUME (offset[start + u] # 0)' PROVE SigSet(u)'
    <3>1. offset[i + 1] # 0
      BY <1>3, <2>6, <2>8
    <3>2. SigSet(t + 1)'
      BY <1>2, <1>3, <1>4, <1>5, <1>6, <2>2, <3>1, SigNext
    <3>3. QED
      BY <2>3, <3>2
  <2>9. ASSUME ~NewData(u)' PROVE ValSet(u)'
    <3>1. HasVal => valoffset[i + 1] # 0
      BY <1>3, <2>6, <2>9 DEF NewData
    <3>2. ValSet(t + 1)'
      BY <1>2, <1>3, <1>4, <1>5, <1>6, <2>2, <3>1, ValNext
    <3>3. QED
      BY <2>3, <3>2
  <2>10. Running(u)'
    BY <2>5, <2>7, <2>8, <2>9, Arrives
  <2>11. QED
    BY <2>2, <2>3, <2>10
<1>12. QED
  BY <1>10, <1>11

-----------------------------------------------------------------------------
(***************************************************************************)
(* The operands of an instance                                             *)
(***************************************************************************)
LEMMA StartStep ==
  ASSUME LayoutTypeOK, IInv, FilesInv, StartInv, LayoutNext
  PROVE  StartInv'
<1>1. start \in Nat /\ Chunk \in Nat
  BY ChunkIs DEF LayoutTypeOK
<1>2. CASE Allocate
  BY <1>2 DEF Allocate, FilesInv, layoutVars, writeVars, StartInv
<1>3. CASE WriteTest
  BY <1>3 DEF WriteTest, StartInv
<1>4. CASE NextFile
  <2>1. start' = start + Chunk /\ Chunk' = Chunk
    BY <1>4 DEF NextFile, Chunk, vars
  <2>2. QED
    BY <1>1, <2>1 DEF StartInv
<1>5. CASE WriteInstance \/ CloseFile \/ RunSigbase \/ RunValbase \/ RunTest
  <2>1. UNCHANGED <<start, inst, instr>>
    BY <1>5 DEF WriteInstance, CloseFile, RunSigbase, RunValbase, RunTest, vars, writeVars
  <2>2. QED
    BY <2>1 DEF StartInv, Chunk
<1>6. QED
  BY <1>2, <1>3, <1>4, <1>5 DEF LayoutNext

\* With its data pointer at its data, an instance loads its own words.
LEMMA LoadedIs ==
  ASSUME LayoutTypeOK, IInv, pass = "done", HasVal, Owned, Valid,
         NEW t \in 1..written, ValSet(t), NEW i, i = start + t, i \in 1..Len(instr)
  PROVE  DOMAIN Loaded(i) = 1..Sources /\ \A j \in 1..Sources : Loaded(i)[j] = <<i, j>>
<1>1. /\ valreg[i] \in Regs /\ valreg[i] \notin Operands(i) /\ valoffset[i] \in Nat
      /\ Sources \in Nat
  BY Distinct, SourcesIs
<1>2. /\ reg[valreg[i]].area = "data" /\ reg[valreg[i]].at + valoffset[i] = Sources * (t - 1)
  BY DEF ValSet
<1>3. reg[valreg[i]].at \in Int
  <2>1. reg[valreg[i]] \in [area : {"none", "sig", "data"}, at : Int]
    BY <1>1 DEF LayoutTypeOK
  <2>2. QED
    BY <2>1
<1>4. ASSUME NEW j \in 1..Sources
      PROVE  Clobber({instr[i][Source[k]] : k \in 1..(j - 1)})[valreg[i]] = reg[valreg[i]]
  <2> DEFINE S == {instr[i][Source[k]] : k \in 1..(j - 1)}
  <2>1. \A k \in 1..(j - 1) : Source[k] \in OpVars
    BY <1>1, SourcesIs
  <2>2. S \subseteq Operands(i)
    BY <2>1 DEF Operands, Lows
  <2> HIDE DEF S
  <2>3. valreg[i] \notin S
    BY <1>1, <2>2
  <2>4. Clobber(S)[valreg[i]] = reg[valreg[i]]
    BY <1>1, <2>3 DEF Clobber
  <2>5. QED
    BY <2>4 DEF S
<1>5. ASSUME NEW j \in 1..Sources
      PROVE  /\ Sources * (t - 1) + j \in DOMAIN data
             /\ data[Sources * (t - 1) + j] = <<i, j>>
  <2>1. written \in Nat /\ DOMAIN data = 1..Len(data)
    BY DEF LayoutTypeOK
  <2>2. Sources * (t - 1) + j \in 1..(Sources * written)
    BY <1>1, <2>1, Slot
  <2>3. QED
    BY <2>1, <2>2 DEF Owned
<1>6. DOMAIN Loaded(i) = 1..Sources
  BY DEF Loaded
<1>7. ASSUME NEW j \in 1..Sources PROVE Loaded(i)[j] = <<i, j>>
  <2> DEFINE base == Clobber({instr[i][Source[k]] : k \in 1..(j - 1)})[valreg[i]]
             word == base.at + valoffset[i] + j
  <2>1. Loaded(i)[j] = IF base.area = "data" /\ word \in DOMAIN data THEN data[word]
                       ELSE <<0, 0>>
    BY DEF Loaded
  <2>2. base = reg[valreg[i]]
    BY <1>4
  <2> HIDE DEF base
  <2>3. base.area = "data" /\ word = Sources * (t - 1) + j
    BY <1>1, <1>2, <1>3, <2>2
  <2> HIDE DEF word
  <2>4. QED
    BY <1>5, <2>1, <2>3
<1>8. QED
  BY <1>6, <1>7

LEMMA LoadsStep ==
  ASSUME LayoutTypeOK, IInv, OffsetInv, FilesInv, StartInv, FileInv, RunInv, LayoutNext,
         Insts = {0}, ValStride = Sources
  PROVE  LoadsOwnOperands'
<1>1. LoadsOwnOperands
  BY DEF RunInv
<1>2. CASE CloseFile
  <2>1. DOMAIN fetched' = {}
    BY <1>2 DEF CloseFile, Empty
  <2>2. QED
    BY <2>1 DEF LoadsOwnOperands
<1>3. CASE RunTest
  <2>1. PICK i : i = Item.i
    OBVIOUS
  <2>2. /\ i \in 1..Len(instr) /\ pass = "done" /\ stage = "run" /\ Execute("test")
    BY <1>3, <2>1, TestItem DEF RunTest
  <2>3. fetched' = IF HasVal THEN [k \in DOMAIN fetched \cup {i} |->
                                     IF k = i THEN Loaded(i) ELSE fetched[k]]
                             ELSE fetched
    BY <1>3, <2>1 DEF RunTest
  <2>4. CASE ~HasVal
    BY <1>1, <2>3, <2>4 DEF LoadsOwnOperands
  <2>5. CASE HasVal
    <3>1. start = 0 /\ 1 \in 1..Len(instr)
      <4>1. Chunk = Len(instr)
        BY DEF LayoutTypeOK, Chunk
      <4>2. start < end /\ end <= Len(instr) /\ start \in Nat /\ end \in Nat /\ Len(instr) \in Nat
        BY <2>2, ChunkIs DEF FilesInv, LayoutTypeOK
      <4>3. QED
        BY <4>1, <4>2 DEF StartInv
    <3>2. Laid /\ Valid
      <4>1. offset[1] = 0 /\ valoffset[1] = 0 /\ start + 1 = 1
        BY <2>2, <2>5, <3>1, FirstOffset
      <4>2. QED
        BY <2>5, <4>1 DEF Laid, Valid
    <3>3. PICK t \in 1..written : TestAt(executed + 1, t) /\ ValSet(t)
      <4>1. \E t \in 1..written :
           /\ start + t \in 1..Len(instr) /\ pass = "done"
           /\ Stored(t - 1)
           /\ \/ /\ "test" = "valbase" /\ ValAt(executed + 1, t)
                 /\ offset[start + t] # 0 => SigSet(t)
              \/ "test" = "sigbase" /\ SigAt(executed + 1, t) /\ ValSet(t)
              \/ "test" = "test" /\ TestAt(executed + 1, t) /\ SigSet(t) /\ ValSet(t)
        BY <2>2, <3>2, Executes
      <4>2. QED
        BY <4>1
    <3>4. i = start + t
      <4>1. Item = [op |-> "test", i |-> start + t]
        BY <3>3 DEF TestAt, Item
      <4>2. Item.i = start + t
        BY <4>1
      <4>3. QED
        BY <2>1, <4>2
    <3>5. Owned
      BY <2>2 DEF FileInv
    <3>6. DOMAIN Loaded(i) = 1..Sources /\ \A j \in 1..Sources : Loaded(i)[j] = <<i, j>>
      BY <2>2, <2>5, <3>2, <3>3, <3>4, <3>5, LoadedIs
    <3>7. QED
      BY <1>1, <2>3, <2>5, <3>6 DEF LoadsOwnOperands
  <2>6. QED
    BY <2>4, <2>5
<1>4. CASE Allocate \/ WriteTest \/ WriteInstance \/ RunSigbase \/ RunValbase \/ NextFile
  <2>1. UNCHANGED fetched
    BY <1>4 DEF Allocate, WriteTest, WriteInstance, RunSigbase, RunValbase, NextFile,
                layoutVars, runVars
  <2>2. QED
    BY <1>1, <2>1 DEF LoadsOwnOperands
<1>5. QED
  BY <1>2, <1>3, <1>4 DEF LayoutNext

-----------------------------------------------------------------------------
(***************************************************************************)
(* The invariant and what follows from it                                  *)
(***************************************************************************)
LEMMA RunStep ==
  ASSUME LayoutTypeOK, IInv, OffsetInv, FilesInv, StartInv, FileInv, RunInv, LayoutNext
  PROVE  RunInv'
<1>1. Insts = {0} /\ ValStride = Sources => LoadsOwnOperands'
  BY LoadsStep
<1>2. ASSUME stage' = "run", Laid'
      PROVE  \E t \in 1..(written' + 1) : Running(t)'
  <2>1. CASE CloseFile
    BY <1>2, <2>1, CloseRun
  <2>2. CASE RunSigbase \/ RunValbase \/ RunTest
    <3>1. Laid
      BY <1>2, <2>2 DEF Laid, RunSigbase, RunValbase, RunTest, vars, writeVars
    <3>2. QED
      BY <2>2, <3>1, SigbaseRun, ValbaseRun, TestRun
  <2>3. CASE Allocate \/ WriteTest \/ WriteInstance \/ NextFile
    <3>1. stage' # "run"
      BY <2>3 DEF Allocate, layoutVars, WriteTest, WriteInstance, NextFile, EnterLoop
    <3>2. QED
      BY <1>2, <3>1
  <2>4. QED
    BY <2>1, <2>2, <2>3 DEF LayoutNext
<1>3. Sources' = Sources
  BY DEF Sources
<1>4. QED
  BY <1>1, <1>2, <1>3 DEF RunInv

LEMMA LayoutInitInv ==
  ASSUME LayoutInit
  PROVE  LayoutIInv
<1>1. LayoutTypeOK
  BY LayoutAssumption, RegsAre DEF LayoutInit, LayoutTypeOK, Junk
<1>2. FilesInv /\ StartInv /\ FileInv
  BY DEF LayoutInit, FilesInv, StartInv, FileInv
<1>3. RunInv
  BY DEF LayoutInit, RunInv, LoadsOwnOperands, Empty
<1>4. QED
  BY <1>1, <1>2, <1>3 DEF LayoutIInv

LEMMA LayoutStep ==
  ASSUME IInv, OffsetInv, LayoutIInv, [LayoutNext]_allVars
  PROVE  LayoutIInv'
<1>1. LayoutTypeOK /\ FilesInv /\ StartInv /\ FileInv /\ RunInv
  BY DEF LayoutIInv
<1>2. CASE LayoutNext
  <2>1. LayoutTypeOK' /\ FilesInv' /\ StartInv' /\ FileInv' /\ RunInv'
    BY <1>1, <1>2, TypeStep, FilesStep, StartStep, FileStep, RunStep
  <2>2. QED
    BY <2>1 DEF LayoutIInv
<1>3. CASE UNCHANGED allVars
  <2>1. UNCHANGED <<instr, pass, swreg, offset, valreg, valoffset, stage, inst, start, end, files,
                    written, sreg, n, regs, vreg, code, sign, data, executed, reg, asmoff, mem,
                    fetched>>
    BY <1>3 DEF allVars, vars, valVars, layoutVars, writeVars, runVars
  <2>2. UNCHANGED <<vars, stage, writeVars>>
    BY <1>3 DEF allVars, layoutVars
  <2>3. LayoutTypeOK' /\ StartInv'
    BY <1>1, <2>1 DEF LayoutTypeOK, StartInv, Chunk
  <2>4. FilesInv'
    BY <1>1, <2>1 DEF FilesInv, Cover, Chunk
  <2>5. FileInv'
    BY <1>1, <2>2, RunFileInv
  <2>6. RunInv'
    <3>1. ASSUME stage' = "run", Laid'
          PROVE  \E t \in 1..(written' + 1) : Running(t)'
      <4>1. PICK t \in 1..(written + 1) : Running(t)
        BY <1>1, <2>1, <3>1 DEF RunInv, Laid
      <4>2. Stored(t - 1)' /\ (SigSet(t) => SigSet(t)') /\ (ValSet(t) => ValSet(t)')
        BY <2>1, <4>1 DEF Running, Stored, SigSet, Off, ValSet, Valid, Sources
      <4>3. /\ TestAt(executed + 1, t) => TestAt(executed + 1, t)'
            /\ SigAt(executed + 1, t) => SigAt(executed + 1, t)'
            /\ ValAt(executed + 1, t) => ValAt(executed + 1, t)'
        <5>1. PICK k : k = executed + 1
          OBVIOUS
        <5>2. /\ TestAt(k, t) => TestAt(k, t)'
              /\ SigAt(k, t) => SigAt(k, t)'
              /\ ValAt(k, t) => ValAt(k, t)'
          BY <1>1, <2>2, RunItems
        <5>3. QED
          BY <2>1, <5>1, <5>2
      <4>4. Running(t)'
        BY <2>1, <4>1, <4>2, <4>3 DEF Running
      <4>5. QED
        BY <2>1, <4>1, <4>4
    <3>2. LoadsOwnOperands' = LoadsOwnOperands /\ Sources' = Sources
      BY <2>1 DEF LoadsOwnOperands, Sources
    <3>3. QED
      BY <1>1, <3>1, <3>2 DEF RunInv
  <2>7. QED
    BY <2>3, <2>4, <2>5, <2>6 DEF LayoutIInv
<1>4. QED
  BY <1>2, <1>3

LEMMA LayoutAlways == LayoutSpec => [](IInv /\ OffsetInv /\ LayoutIInv)
<1>1. LayoutInit => IInv /\ OffsetInv /\ LayoutIInv
  BY LayoutInitInv, InitInv, OffsetInit DEF LayoutInit
<1>2. IInv /\ OffsetInv /\ LayoutIInv /\ [LayoutNext]_allVars => (IInv /\ OffsetInv /\ LayoutIInv)'
  BY Passes_, StepInv, OffsetStep, LayoutStep DEF allVars
<1>3. QED
  BY <1>1, <1>2, PTL DEF LayoutSpec

\* However many instances --inst allows per file, and however long the list
\* is: write_test puts every instance into exactly one file, and none of the
\* files has more than that many.
THEOREM EveryFileCounts == LayoutSpec => []FilesPartition
<1>1. ASSUME IInv, LayoutIInv PROVE FilesPartition
  <2>1. LayoutTypeOK /\ FilesInv
    BY <1>1 DEF LayoutIInv
  <2>2. SUFFICES ASSUME stage = "stop", Len(instr) >= inst
                 PROVE  /\ \A i \in 1..Len(instr) :
                             Cardinality({f \in DOMAIN files : i \in files[f]}) = 1
                        /\ \A f \in DOMAIN files : inst # 0 => Cardinality(files[f]) \in 1..inst
    BY DEF FilesPartition
  <2>3. Len(instr) \in Nat /\ inst \in Nat
    BY <1>1, <2>1, ChunkIs, LayoutAssumption DEF LayoutTypeOK
  <2>4. Cover(Len(instr))
    BY <2>1, <2>2, <2>3 DEF FilesInv
  <2>5. ASSUME NEW i \in 1..Len(instr)
        PROVE  Cardinality({f \in DOMAIN files : i \in files[f]}) = 1
    <3>1. PICK f \in DOMAIN files :
            i \in files[f] /\ \A g \in DOMAIN files : i \in files[g] => g = f
      BY <2>4 DEF Cover
    <3>2. {g \in DOMAIN files : i \in files[g]} = {f}
      BY <3>1
    <3>3. QED
      BY <3>2, FS_Singleton
  <2>6. ASSUME NEW f \in DOMAIN files, inst # 0
        PROVE  Cardinality(files[f]) \in 1..inst
    <3>1. PICK lo \in 1..Len(instr), hi \in 1..Len(instr) :
            lo <= hi /\ hi - lo < Chunk /\ files[f] = lo..hi
      BY <2>4 DEF Cover
    <3>2. lo \in Int /\ hi \in Int /\ Chunk = inst
      BY <2>3, <2>6 DEF Chunk
    <3>3. Cardinality(lo..hi) = hi - lo + 1
      BY <3>1, <3>2, FS_Interval
    <3>4. QED
      BY <2>3, <3>1, <3>2, <3>3
  <2>7. QED
    BY <2>5, <2>6
<1>2. QED
  BY <1>1, LayoutAlways, PTL

\* A file that begins with a region and has been run to its end has every word
\* of its results where the offsets say, and no hole unless the stride has one.
LEMMA Results ==
  ASSUME Sized, IInv, OffsetInv, LayoutIInv, Whole
  PROVE  /\ \A i \in InFile : Saved(i)
         /\ Words = Stride => 0..(SignEnd - 1) \subseteq DOMAIN mem
<1>1. LayoutTypeOK /\ FilesInv /\ FileInv /\ RunInv
  BY DEF LayoutIInv
<1>2. stage = "run" /\ executed = Len(code) /\ Laid
  BY DEF Whole, Finished, Laid
<1>3. /\ written = end - start /\ written \in Nat /\ start \in Nat /\ end \in Nat
      /\ SignEnd = Stride * written /\ Len(code) \in Nat
      /\ Stride \in Nat \ {0} /\ Words \in Nat \ {0} /\ Words <= Stride
  <2>1. SignEnd + 0 = Stride * written /\ SignEnd \in Nat
    BY <1>1, <1>2, SignEndIs DEF FileInv, SignInv, LayoutTypeOK
  <2>2. QED
    BY <1>1, <1>2, <2>1, StrideAssumption, LayoutAssumption DEF FilesInv, LayoutTypeOK, Sized
<1>4. PICK t \in 1..(written + 1) : Running(t)
  BY <1>1, <1>2 DEF RunInv
<1>5. t = written + 1
  <2>1. executed + 1 \notin DOMAIN code
    BY <1>1, <1>2, <1>3 DEF LayoutTypeOK
  <2>2. QED
    BY <1>4, <2>1 DEF Running, ValAt, SigAt, TestAt
<1>6. /\ \A u \in 1..written, w \in 1..Words :
           LET a == Stride * (u - 1) + w - 1
           IN  a \in DOMAIN mem /\ mem[a] = <<start + u, w>>
      /\ Words = Stride => 0..(Stride * written - 1) \subseteq DOMAIN mem
  <2>1. Stored(t - 1) /\ t - 1 = written
    BY <1>3, <1>4, <1>5 DEF Running
  <2>2. QED
    BY <2>1 DEF Stored
<1>7. ASSUME NEW i \in InFile PROVE Saved(i)
  <2> DEFINE u == i - start
  <2>1. u \in 1..written /\ start + u = i
    BY <1>3 DEF InFile
  <2> HIDE DEF u
  <2>2. ASSUME NEW w \in 1..Words
        PROVE  \E a \in DOMAIN mem : a < SignEnd /\ mem[a] = <<i, w>>
    <3> DEFINE a == Stride * (u - 1) + w - 1
    <3>1. w \in 1..Stride
      BY <1>3
    <3>2. Stride * (u - 1) \in Nat /\ Stride * (u - 1) + w \in 1..(Stride * written)
      BY <1>3, <2>1, <3>1, Slot
    <3>3. Stride * written \in Nat
      BY <1>3
    <3>4. a < SignEnd
      BY <1>3, <3>1, <3>2, <3>3
    <3>5. a \in DOMAIN mem /\ mem[a] = <<i, w>>
      BY <1>6, <2>1
    <3> HIDE DEF a
    <3>6. QED
      BY <3>4, <3>5
  <2>3. QED
    BY <2>2 DEF Saved
<1>8. QED
  BY <1>3, <1>6, <1>7

\* Where the stride of a template counts the words its macro stores, and with
\* explicit offsets its words are no longer than the unit of the stride, a file
\* that begins with a region leaves every result in the signature and no word of
\* it unwritten: for every list of instances, every value of --inst, and every
\* limit on the offsets that leaves room for one instance.
THEOREM SignaturesAreExact == Exact => (LayoutSpec => []SignatureExact)
<1>1. ASSUME Exact PROVE LayoutSpec => []SignatureExact
  <2>1. Sized /\ Words = Stride
    BY <1>1 DEF Exact
  <2>2. IInv /\ OffsetInv /\ LayoutIInv => SignatureExact
    BY <2>1, Results DEF SignatureExact, ResultsSaved
  <2>3. QED
    BY <2>2, LayoutAlways, PTL
<1>2. QED
  BY <1>1

\* No result is lost either where instances have explicit offsets and use only
\* some of the words of their stride: CHK_OFFSET moves the pointer where a
\* region outgrows the immediate of a store, and it does so only in the last
\* instance of the region, after which the pointer is set anew.
THEOREM NothingIsLost == Sized => (LayoutSpec => []ResultsSaved)
<1>1. ASSUME Sized PROVE LayoutSpec => []ResultsSaved
  <2>1. IInv /\ OffsetInv /\ LayoutIInv => ResultsSaved
    BY <1>1, Results DEF ResultsSaved
  <2>2. QED
    BY <2>1, LayoutAlways, PTL
<1>2. QED
  BY <1>1

\* Without --inst, and with a value stride that counts the source operands,
\* every instance loads its own operand values, whatever the list is and
\* wherever its datasets and regions end.
THEOREM OperandsAreOwn ==
  Insts = {0} /\ ValStride = Sources => (LayoutSpec => []LoadsOwnOperands)
<1>1. ASSUME Insts = {0}, ValStride = Sources PROVE LayoutSpec => []LoadsOwnOperands
  <2>1. IInv /\ OffsetInv /\ LayoutIInv => LoadsOwnOperands
    BY <1>1 DEF LayoutIInv, RunInv
  <2>2. QED
    BY <2>1, LayoutAlways, PTL
<1>2. QED
  BY <1>1

=============================================================================
