----------------------------- MODULE CombProofs -----------------------------
(***************************************************************************)
(* Proofs about CombFiles, for all templates, coverpoints and registers.   *)
(***************************************************************************)
EXTENDS CombFiles, FiniteSetTheorems, WellFoundedInduction, TLAPS

-----------------------------------------------------------------------------
(***************************************************************************)
(* Induction                                                               *)
(***************************************************************************)
LEMMA LeastOf ==
  ASSUME NEW S \in SUBSET Nat, S # {}
  PROVE  \E m \in S : \A k \in S : m <= k
<1>1. OpToRel(<, Nat) = {ss \in Nat \X Nat : ss[1] < ss[2]}
  BY Zenon DEF OpToRel
<1> DEFINE R == {ss \in Nat \X Nat : ss[1] < ss[2]}
<1>2. IsWellFoundedOn(R, Nat)
  BY <1>1, NatLessThanWellFounded, Zenon
<1>3. PICK m \in S : \A y \in S : ~ (<<y, m>> \in R)
  <2> HIDE DEF R
  <2>1. QED
    BY <1>2, WFMin
<1>4. ASSUME NEW y \in S, y < m
      PROVE  FALSE
  <2>1. <<y, m>> \in Nat \X Nat /\ <<y, m>>[1] < <<y, m>>[2]
    BY <1>4
  <2>2. <<y, m>> \in R
    BY <2>1
  <2>3. QED
    BY <2>2, <1>3
<1>5. QED
  BY <1>4

\* Induction over the numbers up to n, for a set of them.
LEMMA UpTo ==
  ASSUME NEW n \in Nat, NEW S, 0 \in S, \A k \in 0..(n - 1) : k \in S => k + 1 \in S
  PROVE  0..n \subseteq S
<1> SUFFICES ASSUME NEW j \in 0..n, j \notin S
             PROVE  FALSE
  OBVIOUS
<1> DEFINE Bad == {k \in 0..n : k \notin S}
<1>1. Bad \in SUBSET Nat /\ Bad # {}
  OBVIOUS
<1>2. PICK m \in Bad : \A k \in Bad : m <= k
  <2> HIDE DEF Bad
  <2>1. QED
    BY <1>1, LeastOf
<1>3. m # 0 /\ m \in 0..n /\ m \notin S
  BY <1>2
<1>4. m - 1 \in 0..(n - 1) /\ m - 1 \in S /\ (m - 1) + 1 = m
  BY <1>2, <1>3
<1>5. QED
  BY <1>3, <1>4

-----------------------------------------------------------------------------
(***************************************************************************)
(* Assignments                                                             *)
(***************************************************************************)
\* The names after each assignment, as the recursive function defines them.
LEMMA AfterEachIs ==
  ASSUME NEW s, NEW assgn \in Seq(STRING \X STRING)
  PROVE  /\ AfterEach(s, assgn)[0] = s
         /\ \A k \in 1..Len(assgn) :
              AfterEach(s, assgn)[k] = Exec(AfterEach(s, assgn)[k - 1], assgn[k])
<1> DEFINE n == Len(assgn)
           Def(f, m) == f = [k \in 0..m |-> IF k = 0 THEN s ELSE Exec(f[k - 1], assgn[k])]
           Good == {m \in Nat : \E f : Def(f, m)}
<1>1. n \in Nat
  OBVIOUS
<1>2. 0 \in Good
  <2>1. Def([k \in 0..0 |-> s], 0)
    OBVIOUS
  <2>2. QED
    BY <2>1
<1>3. ASSUME NEW m \in 0..(n - 1), m \in Good PROVE m + 1 \in Good
  <2>1. PICK f : Def(f, m)
    BY <1>3
  <2> DEFINE g == [k \in 0..(m + 1) |-> IF k = m + 1 THEN Exec(f[m], assgn[m + 1]) ELSE f[k]]
  <2>2. m \in Nat
    BY <1>1
  <2>3. \A k \in 0..m : f[k] = IF k = 0 THEN s ELSE Exec(f[k - 1], assgn[k])
    BY <2>1
  <2>4. \A k \in 0..(m + 1) : g[k] = IF k = 0 THEN s ELSE Exec(g[k - 1], assgn[k])
    <3> TAKE k \in 0..(m + 1)
    <3>1. CASE k = m + 1
      <4>1. g[k] = Exec(f[m], assgn[m + 1]) /\ g[m] = f[m] /\ k # 0 /\ k - 1 = m
        BY <3>1, <2>2
      <4>2. QED
        BY <4>1, <3>1
    <3>2. CASE k # m + 1 /\ k # 0
      <4>1. k \in 0..m /\ k - 1 \in 0..m
        BY <3>2, <2>2
      <4>2. g[k] = f[k] /\ g[k - 1] = f[k - 1]
        BY <4>1, <2>2
      <4>3. QED
        BY <4>1, <4>2, <3>2, <2>3
    <3>3. CASE k # m + 1 /\ k = 0
      <4>1. g[k] = f[k] /\ 0 \in 0..m
        BY <3>3, <2>2
      <4>2. QED
        BY <4>1, <3>3, <2>3
    <3>4. QED
      BY <3>1, <3>2, <3>3
  <2>5. Def(g, m + 1)
    <3>1. g = [k \in 0..(m + 1) |-> g[k]]
      OBVIOUS
    <3> HIDE DEF g
    <3>2. QED
      BY <3>1, <2>4
  <2> HIDE DEF g, Def
  <2>6. QED
    BY <2>2, <2>5
<1>4. n \in Good
  <2> HIDE DEF Good, n
  <2>1. 0..n \subseteq Good
    BY <1>1, <1>2, <1>3, UpTo
  <2>2. QED
    BY <1>1, <2>1
<1>5. \E f : Def(f, n)
  BY <1>4
<1>6. AfterEach(s, assgn) = CHOOSE f : Def(f, n)
  BY DEF AfterEach
<1>7. Def(AfterEach(s, assgn), n)
  <2> HIDE DEF Def
  <2>1. QED
    BY <1>5, <1>6
<1>8. QED
  BY <1>7, <1>1

\* If no assignment raises, the names are those there were and those assigned.
LEMMA AfterEachNames ==
  ASSUME NEW t, NEW assgn \in Seq(STRING \X STRING), ~AssignRaises(t, assgn)
  PROVE  \A k \in 0..Len(assgn) :
           DOMAIN AfterEach(t, assgn)[k] = DOMAIN t \cup {assgn[l][1] : l \in 1..k}
<1> DEFINE n == Len(assgn)
           T == AfterEach(t, assgn)
           Good == {k \in 0..n : DOMAIN T[k] = DOMAIN t \cup {assgn[l][1] : l \in 1..k}}
<1>1. n \in Nat /\ T[0] = t /\ \A k \in 1..n : T[k] = Exec(T[k - 1], assgn[k])
  BY AfterEachIs
<1>2. \A k \in 1..n : assgn[k][2] \in DOMAIN t \cup {assgn[l][1] : l \in 1..(k - 1)}
  BY DEF AssignRaises
<1> HIDE DEF T
<1>3. 0 \in Good
  <2>1. 0 \in 0..n /\ 1..0 = {}
    BY <1>1
  <2>2. QED
    BY <2>1, <1>1
<1>4. ASSUME NEW k \in 0..(n - 1), k \in Good PROVE k + 1 \in Good
  <2>1. k + 1 \in 1..n /\ (k + 1) - 1 = k /\ k + 1 \in 0..n
    BY <1>1
  <2>2. T[k + 1] = Exec(T[k], assgn[k + 1])
    BY <2>1, <1>1
  <2>3. DOMAIN T[k] = DOMAIN t \cup {assgn[l][1] : l \in 1..k}
    BY <1>4
  <2>4. assgn[k + 1][2] \in DOMAIN T[k]
    BY <2>1, <2>3, <1>2
  <2>5. DOMAIN T[k + 1] = DOMAIN T[k] \cup {assgn[k + 1][1]}
    BY <2>2, <2>4 DEF Exec
  <2>6. 1..(k + 1) = (1..k) \cup {k + 1}
    BY <1>1
  <2>7. {assgn[l][1] : l \in 1..(k + 1)} = {assgn[l][1] : l \in 1..k} \cup {assgn[k + 1][1]}
    BY <2>6
  <2>8. QED
    BY <2>1, <2>3, <2>5, <2>7
<1>5. 0..n \subseteq Good
  <2> HIDE DEF Good, n
  <2>1. QED
    BY <1>1, <1>3, <1>4, UpTo
<1>6. QED
  BY <1>5 DEF T

\* A larger scope gives the same values.
LEMMA AfterEachAgrees ==
  ASSUME NEW s, NEW t, NEW assgn \in Seq(STRING \X STRING), ~AssignRaises(t, assgn), Agree(s, t)
  PROVE  \A k \in 0..Len(assgn) : Agree(AfterEach(s, assgn)[k], AfterEach(t, assgn)[k])
<1> DEFINE n == Len(assgn)
           S == AfterEach(s, assgn)
           T == AfterEach(t, assgn)
           Good == {k \in 0..n : Agree(S[k], T[k])}
<1>1. n \in Nat /\ S[0] = s /\ T[0] = t
  BY AfterEachIs
<1>2. \A k \in 1..n : S[k] = Exec(S[k - 1], assgn[k]) /\ T[k] = Exec(T[k - 1], assgn[k])
  BY AfterEachIs
<1>3. \A k \in 1..n : assgn[k][2] \in DOMAIN T[k - 1]
  <2>1. TAKE k \in 1..n
  <2>2. k - 1 \in 0..n
    BY <1>1
  <2>3. DOMAIN T[k - 1] = DOMAIN t \cup {assgn[l][1] : l \in 1..(k - 1)}
    <3>1. \A j \in 0..n : DOMAIN T[j] = DOMAIN t \cup {assgn[l][1] : l \in 1..j}
      BY AfterEachNames, Zenon
    <3> HIDE DEF T, n
    <3>2. QED
      BY <2>2, <3>1, Zenon
  <2>4. assgn[k][2] \in DOMAIN t \cup {assgn[l][1] : l \in 1..(k - 1)}
    BY DEF AssignRaises
  <2>5. QED
    BY <2>3, <2>4
<1> HIDE DEF S, T
<1>4. 0 \in Good
  BY <1>1
<1>5. ASSUME NEW k \in 0..(n - 1), k \in Good PROVE k + 1 \in Good
  <2>1. k + 1 \in 1..n /\ (k + 1) - 1 = k /\ k + 1 \in 0..n
    BY <1>1
  <2>2. S[k + 1] = Exec(S[k], assgn[k + 1]) /\ T[k + 1] = Exec(T[k], assgn[k + 1])
    BY <2>1, <1>2
  <2>3. assgn[k + 1][2] \in DOMAIN T[k]
    BY <2>1, <1>3
  <2>4. Agree(S[k], T[k])
    BY <1>5
  <2>5. Agree(S[k + 1], T[k + 1])
    BY <2>2, <2>3, <2>4 DEF Agree, Exec
  <2>6. QED
    BY <2>1, <2>5
<1>6. 0..n \subseteq Good
  <2> HIDE DEF Good, n
  <2>1. QED
    BY <1>1, <1>4, <1>5, UpTo
<1>7. QED
  BY <1>6 DEF S, T

\* Names that are not assigned keep their values.
LEMMA AfterEachKeeps ==
  ASSUME NEW s, NEW assgn \in Seq(STRING \X STRING),
         NEW x \in DOMAIN s, \A l \in 1..Len(assgn) : assgn[l][1] # x
  PROVE  \A k \in 0..Len(assgn) :
           x \in DOMAIN AfterEach(s, assgn)[k] /\ AfterEach(s, assgn)[k][x] = s[x]
<1> DEFINE n == Len(assgn)
           S == AfterEach(s, assgn)
           Good == {k \in 0..n : x \in DOMAIN S[k] /\ S[k][x] = s[x]}
<1>1. n \in Nat /\ S[0] = s /\ \A k \in 1..n : S[k] = Exec(S[k - 1], assgn[k])
  BY AfterEachIs
<1> HIDE DEF S
<1>2. 0 \in Good
  BY <1>1
<1>3. ASSUME NEW k \in 0..(n - 1), k \in Good PROVE k + 1 \in Good
  <2>1. k + 1 \in 1..n /\ (k + 1) - 1 = k /\ k + 1 \in 0..n
    BY <1>1
  <2>2. S[k + 1] = Exec(S[k], assgn[k + 1])
    BY <2>1, <1>1
  <2>3. x \in DOMAIN S[k + 1] /\ S[k + 1][x] = s[x]
    BY <2>1, <2>2, <1>3 DEF Exec
  <2>4. QED
    BY <2>1, <2>3
<1>4. 0..n \subseteq Good
  <2> HIDE DEF Good, n
  <2>1. QED
    BY <1>1, <1>2, <1>3, UpTo
<1>5. QED
  BY <1>4 DEF S

OfOperand(s, assgn, k, x) == \E m \in 1..k :
  /\ assgn[m][1] = x
  /\ assgn[m][2] \in Operands => AfterEach(s, assgn)[k][x] = s[assgn[m][2]]

\* What an assigned name got from an operand is the value of that operand.
LEMMA AfterEachOrigin ==
  ASSUME NEW s, NEW assgn \in Seq(STRING \X STRING), ~AssignRaises(s, assgn),
         \A l \in 1..Len(assgn) : assgn[l][1] \notin Operands
  PROVE  \A k \in 0..Len(assgn) : \A l \in 1..k : OfOperand(s, assgn, k, assgn[l][1])
<1> DEFINE n == Len(assgn)
           S == AfterEach(s, assgn)
           Of(k, l, m) == /\ assgn[m][1] = assgn[l][1]
                          /\ assgn[m][2] \in Operands => S[k][assgn[l][1]] = s[assgn[m][2]]
           Good == {k \in 0..n : \A l \in 1..k : \E m \in 1..k : Of(k, l, m)}
<1>0. \A j \in 0..n : DOMAIN S[j] = DOMAIN s \cup {assgn[l][1] : l \in 1..j}
  <2>1. PICK q : q = assgn
    OBVIOUS
  <2>2. q \in Seq(STRING \X STRING) /\ ~AssignRaises(s, q)
    BY <2>1, Zenon
  <2>3. \A j \in 0..Len(q) : DOMAIN AfterEach(s, q)[j] = DOMAIN s \cup {q[l][1] : l \in 1..j}
    BY <2>2, AfterEachNames, Zenon
  <2>4. QED
    BY <2>1, <2>3
<1>1. n \in Nat /\ \A k \in 1..n : S[k] = Exec(S[k - 1], assgn[k])
  BY AfterEachIs
<1>2. \A k \in 1..n : assgn[k][2] \in DOMAIN S[k - 1]
  <2>1. TAKE k \in 1..n
  <2>2. k - 1 \in 0..n
    BY <1>1
  <2>3. DOMAIN S[k - 1] = DOMAIN s \cup {assgn[l][1] : l \in 1..(k - 1)}
    <3> HIDE DEF S, n
    <3>1. QED
      BY <2>2, <1>0, Zenon
  <2>4. assgn[k][2] \in DOMAIN s \cup {assgn[l][1] : l \in 1..(k - 1)}
    <3>1. k \in DOMAIN assgn
      OBVIOUS
    <3>2. QED
      BY <3>1, Zenon DEF AssignRaises
  <2>5. QED
    BY <2>3, <2>4
<1>3. \A k \in 1..n : assgn[k][2] \in Operands => S[k - 1][assgn[k][2]] = s[assgn[k][2]]
  <2>1. TAKE k \in 1..n
  <2>2. SUFFICES ASSUME assgn[k][2] \in Operands
                 PROVE  S[k - 1][assgn[k][2]] = s[assgn[k][2]]
    OBVIOUS
  <2>3. \A l \in 1..n : assgn[l][1] # assgn[k][2]
    BY <2>2
  <2>4. assgn[k][2] \in DOMAIN s
    BY <2>2 DEF AssignRaises
  <2>5. k - 1 \in 0..n
    BY <1>1
  <2>6. PICK y : y = assgn[k][2]
    OBVIOUS
  <2>7. S[k - 1][y] = s[y]
    BY <2>3, <2>4, <2>5, <2>6, AfterEachKeeps
  <2>8. QED
    BY <2>6, <2>7
<1> HIDE DEF S
<1>4. 0 \in Good
  BY <1>1
<1>5. ASSUME NEW k \in 0..(n - 1), k \in Good PROVE k + 1 \in Good
  <2>1. k + 1 \in 1..n /\ (k + 1) - 1 = k /\ k + 1 \in 0..n /\ k + 1 \in 1..(k + 1)
    BY <1>1
  <2>2. S[k + 1] = Exec(S[k], assgn[k + 1]) /\ assgn[k + 1][2] \in DOMAIN S[k]
    BY <2>1, <1>1, <1>2
  <2>3. ASSUME NEW l \in 1..(k + 1)
        PROVE  \E m \in 1..(k + 1) : Of(k + 1, l, m)
    <3>1. CASE assgn[k + 1][1] = assgn[l][1]
      <4>1. S[k + 1][assgn[l][1]] = S[k][assgn[k + 1][2]]
        BY <2>2, <3>1 DEF Exec
      <4>2. Of(k + 1, l, k + 1)
        BY <2>1, <3>1, <4>1, <1>3
      <4>3. QED
        BY <2>1, <4>2
    <3>2. CASE assgn[k + 1][1] # assgn[l][1]
      <4>1. l \in 1..k
        BY <3>2
      <4>2. PICK m \in 1..k : Of(k, l, m)
        BY <4>1, <1>5
      <4>3. assgn[l][1] \in DOMAIN S[k]
        <5>1. k \in 0..Len(assgn)
          BY <1>1
        <5>2. DOMAIN S[k] = DOMAIN s \cup {assgn[j][1] : j \in 1..k}
          BY <5>1, AfterEachNames DEF S
        <5>3. QED
          BY <4>1, <5>2
      <4>4. S[k + 1][assgn[l][1]] = S[k][assgn[l][1]]
        BY <2>2, <3>2, <4>3 DEF Exec
      <4>5. Of(k + 1, l, m) /\ m \in 1..(k + 1)
        BY <4>2, <4>4
      <4>6. QED
        BY <4>5
    <3>3. QED
      BY <3>1, <3>2
  <2>4. QED
    BY <2>1, <2>3
<1>6. 0..n \subseteq Good
  <2> HIDE DEF Good, n
  <2>1. QED
    BY <1>1, <1>4, <1>5, UpTo
<1>7. QED
  BY <1>6 DEF S, OfOperand

LEMMA Targets ==
  ASSUME NEW assgn \in Seq(STRING \X STRING)
  PROVE  {x[1] : x \in ToSet(assgn)} = {assgn[l][1] : l \in 1..Len(assgn)}
BY DEF ToSet

LEMMA AssignNames ==
  ASSUME NEW t, NEW assgn \in Seq(STRING \X STRING), ~AssignRaises(t, assgn)
  PROVE  DOMAIN Assign(t, assgn) = DOMAIN t \cup {x[1] : x \in ToSet(assgn)}
<1>1. Len(assgn) \in 0..Len(assgn)
  OBVIOUS
<1>2. DOMAIN AfterEach(t, assgn)[Len(assgn)] = DOMAIN t \cup {assgn[l][1] : l \in 1..Len(assgn)}
  BY <1>1, AfterEachNames
<1>3. QED
  BY <1>2, Targets DEF Assign

LEMMA AssignAgrees ==
  ASSUME NEW s, NEW t, NEW assgn \in Seq(STRING \X STRING), ~AssignRaises(t, assgn), Agree(s, t)
  PROVE  Agree(Assign(s, assgn), Assign(t, assgn))
<1>1. Len(assgn) \in 0..Len(assgn)
  OBVIOUS
<1>2. QED
  BY <1>1, AfterEachAgrees DEF Assign

LEMMA AssignKeeps ==
  ASSUME NEW s, NEW assgn \in Seq(STRING \X STRING),
         NEW x \in DOMAIN s, x \notin {a[1] : a \in ToSet(assgn)}
  PROVE  x \in DOMAIN Assign(s, assgn) /\ Assign(s, assgn)[x] = s[x]
<1>1. Len(assgn) \in 0..Len(assgn)
  OBVIOUS
<1>2. \A l \in 1..Len(assgn) : assgn[l][1] # x
  BY Targets
<1>3. QED
  BY <1>1, <1>2, AfterEachKeeps DEF Assign

\* The values are values there were before.
LEMMA AssignValues ==
  ASSUME NEW s, NEW assgn \in Seq(STRING \X STRING), NEW V, \A x \in DOMAIN s : s[x] \in V
  PROVE  \A x \in DOMAIN Assign(s, assgn) : Assign(s, assgn)[x] \in V
<1> DEFINE n == Len(assgn)
           S == AfterEach(s, assgn)
           Good == {k \in 0..n : \A x \in DOMAIN S[k] : S[k][x] \in V}
<1>1. n \in Nat /\ S[0] = s /\ \A k \in 1..n : S[k] = Exec(S[k - 1], assgn[k])
  BY AfterEachIs
<1>2. Assign(s, assgn) = S[n]
  BY DEF Assign
<1> HIDE DEF S
<1>3. 0 \in Good
  BY <1>1
<1>4. ASSUME NEW k \in 0..(n - 1), k \in Good PROVE k + 1 \in Good
  <2>1. k + 1 \in 1..n /\ (k + 1) - 1 = k /\ k + 1 \in 0..n
    BY <1>1
  <2>2. S[k + 1] = Exec(S[k], assgn[k + 1])
    BY <2>1, <1>1
  <2>3. \A x \in DOMAIN S[k + 1] : S[k + 1][x] \in V
    BY <2>2, <1>4 DEF Exec
  <2>4. QED
    BY <2>1, <2>3
<1>5. 0..n \subseteq Good
  <2> HIDE DEF Good, n
  <2>1. QED
    BY <1>1, <1>3, <1>4, UpTo
<1>6. n \in Good
  <2>1. n \in 0..n
    BY <1>1
  <2>2. QED
    BY <1>5, <2>1
<1>7. QED
  BY <1>2, <1>6

LEMMA AssignOrigin ==
  ASSUME NEW s, NEW assgn \in Seq(STRING \X STRING), ~AssignRaises(s, assgn),
         {a[1] : a \in ToSet(assgn)} \cap Operands = {}
  PROVE  \A b \in ToSet(assgn) : \E a \in ToSet(assgn) :
           a[1] = b[1] /\ (a[2] \in Operands => Assign(s, assgn)[b[1]] = s[a[2]])
<1>1. Len(assgn) \in 0..Len(assgn)
  OBVIOUS
<1>2. \A l \in 1..Len(assgn) : assgn[l][1] \notin Operands
  BY Targets
<1>3. \A l \in 1..Len(assgn) : \E m \in 1..Len(assgn) :
        /\ assgn[m][1] = assgn[l][1]
        /\ assgn[m][2] \in Operands => AfterEach(s, assgn)[Len(assgn)][assgn[l][1]] = s[assgn[m][2]]
  <2>1. \A l \in 1..Len(assgn) : OfOperand(s, assgn, Len(assgn), assgn[l][1])
    BY <1>1, <1>2, AfterEachOrigin
  <2>2. QED
    BY <2>1 DEF OfOperand
<1>4. \A m \in 1..Len(assgn) : assgn[m] \in ToSet(assgn)
  BY DEF ToSet
<1>5. ASSUME NEW b \in ToSet(assgn)
      PROVE  \E a \in ToSet(assgn) :
               a[1] = b[1] /\ (a[2] \in Operands => Assign(s, assgn)[b[1]] = s[a[2]])
  <2>1. PICK l \in 1..Len(assgn) : b = assgn[l]
    BY DEF ToSet
  <2>2. QED
    BY <2>1, <1>3, <1>4 DEF Assign
<1>6. QED
  BY <1>5

-----------------------------------------------------------------------------
(***************************************************************************)
(* The names a coverpoint has by itself                                    *)
(***************************************************************************)
LEMMA NamesAfterIs ==
  ASSUME NEW c, NEW X, NEW w \in Seq(X)
  PROVE  /\ NamesAfter(c, w)[0] = [r \in Regs |-> r]
         /\ \A k \in 1..Len(w) :
              NamesAfter(c, w)[k] =
                Without(Assign(Set(NamesAfter(c, w)[k - 1], w[k].opr_vals), c[k].assgn), Operands)
<1> DEFINE n == Len(w)
           id == [r \in Regs |-> r]
           Next1(k, names) == Without(Assign(Set(names, w[k].opr_vals), c[k].assgn), Operands)
           Def(f, m) == f = [k \in 0..m |-> IF k = 0 THEN id ELSE Next1(k, f[k - 1])]
           Good == {m \in Nat : \E f : Def(f, m)}
<1>1. n \in Nat
  OBVIOUS
<1>2. NamesAfter(c, w) = CHOOSE f : Def(f, n)
  BY DEF NamesAfter
<1> HIDE DEF id, Next1
<1>3. 0 \in Good
  <2>1. Def([k \in 0..0 |-> id], 0)
    OBVIOUS
  <2>2. QED
    BY <2>1
<1>4. ASSUME NEW m \in 0..(n - 1), m \in Good PROVE m + 1 \in Good
  <2>1. PICK f : Def(f, m)
    BY <1>4
  <2> DEFINE g == [k \in 0..(m + 1) |-> IF k = m + 1 THEN Next1(m + 1, f[m]) ELSE f[k]]
  <2>2. m \in Nat
    BY <1>1
  <2>3. \A k \in 0..m : f[k] = IF k = 0 THEN id ELSE Next1(k, f[k - 1])
    BY <2>1
  <2>4. \A k \in 0..(m + 1) : g[k] = IF k = 0 THEN id ELSE Next1(k, g[k - 1])
    <3> TAKE k \in 0..(m + 1)
    <3>1. CASE k = m + 1
      <4>1. g[k] = Next1(m + 1, f[m]) /\ g[m] = f[m] /\ k # 0 /\ k - 1 = m
        BY <3>1, <2>2
      <4>2. QED
        BY <4>1, <3>1
    <3>2. CASE k # m + 1 /\ k # 0
      <4>1. k \in 0..m /\ k - 1 \in 0..m
        BY <3>2, <2>2
      <4>2. g[k] = f[k] /\ g[k - 1] = f[k - 1]
        BY <4>1, <2>2
      <4>3. QED
        BY <4>1, <4>2, <3>2, <2>3
    <3>3. CASE k # m + 1 /\ k = 0
      <4>1. g[k] = f[k] /\ 0 \in 0..m
        BY <3>3, <2>2
      <4>2. QED
        BY <4>1, <3>3, <2>3
    <3>4. QED
      BY <3>1, <3>2, <3>3
  <2>5. Def(g, m + 1)
    <3>1. g = [k \in 0..(m + 1) |-> g[k]]
      OBVIOUS
    <3> HIDE DEF g
    <3>2. QED
      BY <3>1, <2>4
  <2> HIDE DEF g, Def
  <2>6. QED
    BY <2>2, <2>5
<1>5. n \in Good
  <2> HIDE DEF Good, n
  <2>1. 0..n \subseteq Good
    BY <1>1, <1>3, <1>4, UpTo
  <2>2. QED
    BY <1>1, <2>1
<1>6. \E f : Def(f, n)
  BY <1>5
<1>7. Def(NamesAfter(c, w), n)
  <2> HIDE DEF Def
  <2>1. QED
    BY <1>2, <1>6
<1>8. NamesAfter(c, w)[0] = id /\ \A k \in 1..n : NamesAfter(c, w)[k] = Next1(k, NamesAfter(c, w)[k - 1])
  BY <1>1, <1>7
<1>9. QED
  BY <1>8 DEF id, Next1

\* A further item does not change the names after the ones before it.
LEMMA NamesAfterPrefix ==
  ASSUME NEW c, NEW X, NEW w \in Seq(X), NEW x \in X
  PROVE  \A k \in 0..Len(w) : NamesAfter(c, Append(w, x))[k] = NamesAfter(c, w)[k]
<1> DEFINE n == Len(w)
           u == Append(w, x)
           M == NamesAfter(c, u)
           N == NamesAfter(c, w)
           Next1(y, k, names) == Without(Assign(Set(names, y), c[k].assgn), Operands)
           Good == {k \in 0..n : M[k] = N[k]}
<1>1. n \in Nat /\ u \in Seq(X) /\ Len(u) = n + 1 /\ \A k \in 1..n : u[k] = w[k]
  OBVIOUS
<1>2. N[0] = [r \in Regs |-> r] /\ \A k \in 1..n : N[k] = Next1(w[k].opr_vals, k, N[k - 1])
  BY NamesAfterIs
<1>3. M[0] = [r \in Regs |-> r] /\ \A k \in 1..Len(u) : M[k] = Next1(u[k].opr_vals, k, M[k - 1])
  <2> HIDE DEF u
  <2>1. QED
    BY <1>1, NamesAfterIs
<1> HIDE DEF M, N, u, Next1
<1>4. 0 \in Good
  BY <1>1, <1>2, <1>3
<1>5. ASSUME NEW k \in 0..(n - 1), k \in Good PROVE k + 1 \in Good
  <2>1. k + 1 \in 1..n /\ (k + 1) - 1 = k /\ k + 1 \in 0..n /\ k + 1 \in 1..Len(u)
    BY <1>1
  <2>2. N[k + 1] = Next1(w[k + 1].opr_vals, k + 1, N[k])
    BY <2>1, <1>2
  <2>3. M[k + 1] = Next1(u[k + 1].opr_vals, k + 1, M[k])
    BY <2>1, <1>3
  <2>4. QED
    BY <2>1, <2>2, <2>3, <1>1, <1>5
<1>6. 0..n \subseteq Good
  <2> HIDE DEF Good, n
  <2>1. QED
    BY <1>1, <1>4, <1>5, UpTo
<1>7. QED
  BY <1>6 DEF M, N, u

LEMMA NamesAfterNext ==
  ASSUME NEW c, NEW X, NEW w \in Seq(X), NEW x \in X
  PROVE  NamesAfter(c, Append(w, x))[Len(w) + 1] =
           Without(Assign(Set(NamesAfter(c, w)[Len(w)], x.opr_vals), c[Len(w) + 1].assgn), Operands)
<1>1. PICK u : u = Append(w, x)
  OBVIOUS
<1>2. u \in Seq(X) /\ Len(u) = Len(w) + 1 /\ u[Len(w) + 1] = x
  BY <1>1
<1>3. /\ NamesAfter(c, u)[0] = [r \in Regs |-> r]
      /\ \A k \in 1..Len(u) :
           NamesAfter(c, u)[k] = Without(Assign(Set(NamesAfter(c, u)[k - 1], u[k].opr_vals), c[k].assgn), Operands)
  BY <1>2, NamesAfterIs
<1>4. Len(w) + 1 \in 1..Len(u) /\ (Len(w) + 1) - 1 = Len(w) /\ Len(w) \in 0..Len(w)
  BY <1>2
<1>5. NamesAfter(c, u)[Len(w)] = NamesAfter(c, w)[Len(w)]
  BY <1>1, <1>4, NamesAfterPrefix
<1>6. QED
  BY <1>1, <1>2, <1>3, <1>4, <1>5

-----------------------------------------------------------------------------
(***************************************************************************)
(* One item                                                                *)
(***************************************************************************)
LEMMA PairNames ==
  ASSUME NEW eq \in STRING \X STRING
  PROVE  ToSet(eq) = {eq[1], eq[2]}
<1>1. eq = <<eq[1], eq[2]>>
  OBVIOUS
<1>2. DOMAIN eq = 1..2
  BY <1>1
<1>3. DOMAIN eq = {1, 2}
  BY <1>2
<1>4. QED
  BY <1>3 DEF ToSet

LEMMA ItemTypes ==
  ASSUME NEW c \in DOMAIN Window, NEW k \in DOMAIN Window[c]
  PROVE  Window[c] \in Seq(Items) /\ Window[c][k] \in Items
BY WindowAssumption

\* The operands an item names.
LEMMA NamedOperands ==
  ASSUME NEW it \in Items
  PROVE  /\ \A eq \in ToSet(it.cond) : {eq[1], eq[2]} \cap Operands \subseteq get_oprs(it)
         /\ \A a \in ToSet(it.assgn) : {a[1], a[2]} \cap Operands \subseteq get_oprs(it)
<1>1. it.cond \in Seq(STRING \X STRING) /\ it.assgn \in Seq(STRING \X STRING)
  BY DEF Items
<1>2. \A eq \in ToSet(it.cond) : eq \in STRING \X STRING
  BY <1>1 DEF ToSet
<1>3. \A a \in ToSet(it.assgn) : a \in STRING \X STRING
  BY <1>1 DEF ToSet
<1>4. \A a \in ToSet(it.cond) \cup ToSet(it.assgn) : ToSet(a) \subseteq Named(it)
  BY Zenon DEF Named
<1>5. ASSUME NEW a \in ToSet(it.cond) \cup ToSet(it.assgn)
      PROVE  {a[1], a[2]} \cap Operands \subseteq get_oprs(it)
  <2>1. ToSet(a) = {a[1], a[2]}
    BY <1>2, <1>3, PairNames
  <2>2. QED
    BY <2>1, <1>4 DEF get_oprs
<1>6. QED
  BY <1>5

LEMMA TemplateOprs ==
  ASSUME NEW i \in DOMAIN Template
  PROVE  oprs(i) \subseteq Operands /\ oprs(i) # {} /\ \A o \in oprs(i) : Values(i, o) \subseteq Regs /\ Values(i, o) # {}
<1>1. PICK o \in (SUBSET Operands) \ {{}} : Template[i] \in InstrTemplate(o) /\ \A x \in o : Values(i, x) # {}
  BY TemplateAssumption
<1>2. Template[i].op_data \in [o -> SUBSET Regs]
  BY <1>1 DEF InstrTemplate
<1>3. QED
  BY <1>1, <1>2 DEF oprs, Values

LEMMA DomainsNonempty ==
  ASSUME NEW i \in DOMAIN Template
  PROVE  \E v \in InDomains(i) : TRUE
<1> DEFINE v == [o \in oprs(i) |-> CHOOSE r \in Values(i, o) : TRUE]
<1>1. \A o \in oprs(i) : v[o] \in Values(i, o) /\ v[o] \in Regs
  <2> TAKE o \in oprs(i)
  <2>1. \E r \in Values(i, o) : TRUE
    BY TemplateOprs
  <2>2. (CHOOSE r \in Values(i, o) : TRUE) \in Values(i, o)
    BY <2>1
  <2>3. QED
    BY <2>2, TemplateOprs
<1>2. v \in InDomains(i)
  BY <1>1 DEF InDomains
<1>3. QED
  BY <1>2

LEMMA SetNames ==
  ASSUME NEW a, NEW b
  PROVE  /\ DOMAIN Set(a, b) = DOMAIN a \cup DOMAIN b
         /\ \A x \in DOMAIN b : Set(a, b)[x] = b[x]
         /\ \A x \in DOMAIN a \ DOMAIN b : Set(a, b)[x] = a[x]
BY DEF Set

LEMMA SetAgrees ==
  ASSUME NEW s, NEW t, NEW v, Agree(s, t)
  PROVE  Agree(Set(s, v), Set(t, v))
<1> SUFFICES ASSUME NEW x \in DOMAIN t \cup DOMAIN v
             PROVE  x \in DOMAIN Set(s, v) /\ Set(s, v)[x] = Set(t, v)[x]
  BY DEF Agree, Set
<1>1. CASE x \in DOMAIN v
  BY <1>1 DEF Set
<1>2. CASE x \notin DOMAIN v
  BY <1>2 DEF Agree, Set
<1>3. QED
  BY <1>1, <1>2

LEMMA BeforeItem ==
  ASSUME NEW c, NEW k, NEW a \in Nat \ {0}
  PROVE  SetBefore(c, k, a) = SetBefore(c, k, 1) \cup {c[k].assgn[b][1] : b \in 1..(a - 1)}
<1>1. 1..(1 - 1) = {}
  OBVIOUS
<1>2. {c[k].assgn[b][1] : b \in 1..(1 - 1)} = {}
  BY <1>1
<1>3. QED
  BY <1>2 DEF SetBefore

\* In scope of a self-contained coverpoint, nothing that its next item names is unknown.
LEMMA NamesKnown ==
  ASSUME NEW n \in DOMAIN Window, SelfContained(Window[n]), NEW k \in DOMAIN Window[n],
         NEW i \in Listed(Window[n][k]), NEW v \in InDomains(i),
         NEW s, Regs \cup SetBefore(Window[n], k, 1) \subseteq DOMAIN s
  PROVE  /\ i \in DOMAIN Template /\ oprs(i) \subseteq Operands /\ DOMAIN v = oprs(i)
         /\ \A eq \in ToSet(Window[n][k].cond) : Defined(eq, Set(s, v))
         /\ ~AssignRaises(Set(s, v), Window[n][k].assgn)
<1> DEFINE c == Window[n]
           it == c[k]
<1>1. c \in Seq(Items) /\ it \in Items
  BY ItemTypes
<1>2. i \in DOMAIN Template /\ get_oprs(it) \subseteq oprs(i)
  BY DEF SelfContained
<1>3. oprs(i) \subseteq Operands
  BY <1>2, TemplateOprs
<1>4. DOMAIN v = oprs(i)
  BY DEF InDomains
<1>5. DOMAIN Set(s, v) = DOMAIN s \cup oprs(i)
  BY <1>4, SetNames
<1>6. \A eq \in ToSet(it.cond) : ToSet(eq) \subseteq Regs \cup Operands \cup SetBefore(c, k, 1)
  BY DEF SelfContained
<1>7. \A a \in DOMAIN it.assgn : it.assgn[a][2] \in Regs \cup Operands \cup SetBefore(c, k, a)
  BY DEF SelfContained
<1>8. ASSUME NEW eq \in ToSet(it.cond)
      PROVE  Defined(eq, Set(s, v))
  <2>1. eq \in STRING \X STRING
    BY <1>1 DEF Items, ToSet
  <2>2. ToSet(eq) = {eq[1], eq[2]}
    BY <2>1, PairNames
  <2>3. ToSet(eq) \cap Operands \subseteq oprs(i)
    <3> HIDE DEF it
    <3>1. {eq[1], eq[2]} \cap Operands \subseteq get_oprs(it)
      BY <1>1, NamedOperands
    <3>2. QED
      BY <2>2, <3>1, <1>2
  <2>4. QED
    BY <2>3, <1>5, <1>6 DEF Defined
<1>9. ASSUME NEW a \in DOMAIN it.assgn
      PROVE  it.assgn[a][2] \in DOMAIN Set(s, v) \cup {it.assgn[b][1] : b \in 1..(a - 1)}
  <2>1. it.assgn \in Seq(STRING \X STRING)
    BY <1>1 DEF Items
  <2>2. a \in Nat \ {0}
    BY <2>1
  <2>3. SetBefore(c, k, a) = SetBefore(c, k, 1) \cup {it.assgn[b][1] : b \in 1..(a - 1)}
    BY <2>2, BeforeItem
  <2>4. {it.assgn[a][2]} \cap Operands \subseteq oprs(i)
    <3> HIDE DEF it
    <3>1. {it.assgn[a][1], it.assgn[a][2]} \cap Operands \subseteq get_oprs(it)
      <4>1. it.assgn[a] \in ToSet(it.assgn)
        BY DEF ToSet
      <4>2. QED
        BY <4>1, <1>1, NamedOperands
    <3>2. QED
      BY <3>1, <1>2
  <2>5. QED
    BY <2>3, <2>4, <1>5, <1>7
<1>10. ~AssignRaises(Set(s, v), it.assgn)
  BY <1>9 DEF AssignRaises
<1>11. QED
  BY <1>2, <1>3, <1>4, <1>8, <1>10

\* The names that the items before k + 1 set, and those that item k sets.
LEMMA BeforeNext ==
  ASSUME NEW c, NEW k \in Nat \ {0}
  PROVE  SetBefore(c, k + 1, 1) = SetBefore(c, k, 1) \cup {x[1] : x \in ToSet(c[k].assgn)}
<1> DEFINE T(j) == {x[1] : x \in ToSet(c[j].assgn)}
<1>1. \A m \in Nat : SetBefore(c, m + 1, 1) = UNION {T(j) : j \in 1..m}
  <2>1. TAKE m \in Nat
  <2>2. (m + 1) - 1 = m /\ 1..(1 - 1) = {}
    OBVIOUS
  <2>3. {c[m + 1].assgn[b][1] : b \in 1..(1 - 1)} = {}
    BY <2>2
  <2>4. QED
    BY <2>2, <2>3 DEF SetBefore
<1>2. k - 1 \in Nat /\ (k - 1) + 1 = k
  OBVIOUS
<1>3. SetBefore(c, k, 1) = UNION {T(j) : j \in 1..(k - 1)}
  BY <1>1, <1>2
<1>4. 1..k = (1..(k - 1)) \cup {k}
  OBVIOUS
<1> HIDE DEF T
<1>5. (UNION {T(j) : j \in 1..k}) = (UNION {T(j) : j \in 1..(k - 1)}) \cup T(k)
  BY <1>4
<1>6. SetBefore(c, k + 1, 1) = SetBefore(c, k, 1) \cup T(k)
  BY <1>1, <1>3, <1>5
<1>7. QED
  BY <1>6 DEF T

\* Coverpoints that assign to variables only leave the registers as they are.
LEMMA RegistersStay ==
  ASSUME VariablesOnly, NEW n \in DOMAIN Window, NEW k \in DOMAIN Window[n],
         NEW i \in DOMAIN Template, NEW v \in InDomains(i),
         NEW s, NEW names, DOMAIN names \cap Operands = {},
         DOMAIN names \cap {x[1] : x \in ToSet(Window[n][k].assgn)} = {}, Agree(s, names)
  PROVE  Agree(Assign(Set(s, v), Window[n][k].assgn), names)
<1> DEFINE a == Window[n][k].assgn
<1>1. a \in Seq(STRING \X STRING)
  BY ItemTypes DEF Items
<1>2. DOMAIN v \subseteq Operands
  BY TemplateOprs DEF InDomains
<1> SUFFICES ASSUME NEW x \in DOMAIN names
             PROVE  x \in DOMAIN Assign(Set(s, v), a) /\ Assign(Set(s, v), a)[x] = names[x]
  BY DEF Agree
<1>3. x \in DOMAIN Set(s, v) /\ Set(s, v)[x] = names[x]
  BY <1>2 DEF Agree, Set
<1>4. x \notin {y[1] : y \in ToSet(a)}
  OBVIOUS
<1>5. PICK t : t = Set(s, v)
  OBVIOUS
<1> HIDE DEF a
<1>6. x \in DOMAIN Assign(t, a) /\ Assign(t, a)[x] = t[x]
  BY <1>1, <1>3, <1>4, <1>5, AssignKeeps
<1>7. QED
  BY <1>3, <1>5, <1>6

LEMMA TargetsAreVariables ==
  ASSUME VariablesOnly, NEW n \in DOMAIN Window, NEW k \in DOMAIN Window[n]
  PROVE  {x[1] : x \in ToSet(Window[n][k].assgn)} \cap (Regs \cup Operands) = {}
BY DEF VariablesOnly

LEMMA VariablesBefore ==
  ASSUME VariablesOnly, NEW n \in DOMAIN Window, NEW k \in 1..(Len(Window[n]) + 1)
  PROVE  SetBefore(Window[n], k, 1) \cap (Regs \cup Operands) = {}
<1> DEFINE c == Window[n]
<1>1. Len(c) \in Nat /\ DOMAIN c = 1..Len(c)
  BY WindowAssumption
<1>2. \A j \in 1..(k - 1) : {x[1] : x \in ToSet(c[j].assgn)} \cap (Regs \cup Operands) = {}
  <2>1. TAKE j \in 1..(k - 1)
  <2>2. j \in DOMAIN c
    BY <1>1
  <2>3. QED
    BY <2>2, TargetsAreVariables
<1>3. 1..(1 - 1) = {}
  OBVIOUS
<1>4. {c[k].assgn[b][1] : b \in 1..(1 - 1)} = {}
  BY <1>3
<1>5. SetBefore(c, k, 1) = UNION {{x[1] : x \in ToSet(c[j].assgn)} : j \in 1..(k - 1)}
  BY <1>4 DEF SetBefore
<1>6. QED
  BY <1>2, <1>5

\* With the next item, a window still begins a self-contained coverpoint, and the
\* scope still has the names of the coverpoint by itself.
LEMMA ItemCovered ==
  ASSUME NEW n \in DOMAIN Window, SelfContained(Window[n]),
         NEW w \in Seq(Placed), Len(w) < Len(Window[n]), Begins(w, Window[n]),
         NEW N, N = NamesAfter(Window[n], w)[Len(w)],
         NEW s, Agree(s, N), Regs \cup SetBefore(Window[n], Len(w) + 1, 1) \subseteq DOMAIN N,
         NEW i \in Listed(Window[n][Len(w) + 1]), NEW v \in InDomains(i),
         Window[n][Len(w) + 1].cond = <<>> \/ Holds(Window[n][Len(w) + 1].cond, Set(s, v))
  PROVE  /\ Append(w, [instr |-> i, opr_vals |-> v]) \in Seq(Placed)
         /\ Begins(Append(w, [instr |-> i, opr_vals |-> v]), Window[n])
<1> DEFINE c == Window[n]
           k == Len(w) + 1
           it == c[k]
           x == [instr |-> i, opr_vals |-> v]
           u == Append(w, x)
<1>1. Len(w) \in Nat /\ k \in DOMAIN c /\ c \in Seq(Items) /\ k \in Nat \ {0} /\ k - 1 = Len(w)
  BY WindowAssumption
<1>2. /\ i \in DOMAIN Template /\ \A eq \in ToSet(it.cond) : Defined(eq, Set(N, v))
  <2> HIDE DEF k
  <2>1. QED
    BY <1>1, NamesKnown DEF k
<1>3. x \in Placed
  BY <1>2 DEF Placed
<1>4. u \in Seq(Placed) /\ Len(u) = k /\ u[k] = x /\ (\A j \in 1..Len(w) : u[j] = w[j])
  BY <1>3, <1>1
<1>5. \A j \in 0..Len(w) : NamesAfter(c, u)[j] = NamesAfter(c, w)[j]
  BY <1>3, NamesAfterPrefix
<1>6. NamesAfter(c, u)[k - 1] = N
  BY <1>1, <1>5
<1>7. it.cond = <<>> \/ \E eq \in ToSet(it.cond) : Defined(eq, Set(N, v)) /\ Equal(eq, Set(N, v))
  <2>1. CASE Holds(it.cond, Set(s, v))
    <3>1. PICK j \in DOMAIN it.cond : Defined(it.cond[j], Set(s, v)) /\ Equal(it.cond[j], Set(s, v))
      BY <2>1 DEF Holds
    <3>2. it.cond \in Seq(STRING \X STRING)
      <4> HIDE DEF k
      <4>1. it \in Items
        BY <1>1, ItemTypes
      <4>2. QED
        BY <4>1 DEF Items
    <3>3. PICK eq : eq = it.cond[j]
      OBVIOUS
    <3>4. eq \in ToSet(it.cond) /\ eq \in STRING \X STRING /\ ToSet(eq) = {eq[1], eq[2]}
      <4>1. eq \in ToSet(it.cond) /\ eq \in STRING \X STRING
        BY <3>2, <3>3 DEF ToSet
      <4>2. QED
        BY <4>1, PairNames
    <3>5. Agree(Set(s, v), Set(N, v))
      BY SetAgrees
    <3>6. Defined(eq, Set(N, v))
      BY <1>2, <3>4
    <3>7. Equal(eq, Set(N, v))
      BY <3>1, <3>3, <3>4, <3>5, <3>6 DEF Equal, Agree, Defined
    <3>8. QED
      BY <3>4, <3>6, <3>7
  <2>2. QED
    BY <2>1
<1> HIDE DEF u, c
<1>8. Begins(u, c)
  <2> SUFFICES ASSUME NEW j \in DOMAIN u
               PROVE  /\ u[j].instr \in Listed(c[j])
                      /\ LET t == Set(NamesAfter(c, u)[j - 1], u[j].opr_vals)
                         IN  c[j].cond = <<>> \/ \E eq \in ToSet(c[j].cond) : Defined(eq, t) /\ Equal(eq, t)
    BY DEF Begins
  <2>1. DOMAIN u = 1..k /\ DOMAIN w = 1..Len(w)
    BY <1>4
  <2>2. CASE j = k
    <3>1. u[j].instr = i /\ u[j].opr_vals = v
      BY <2>2, <1>4
    <3>2. Set(NamesAfter(c, u)[j - 1], u[j].opr_vals) = Set(N, v)
      BY <2>2, <3>1, <1>6
    <3> HIDE DEF it
    <3>3. i \in Listed(it)
      BY DEF it, c
    <3>4. QED
      BY <2>2, <3>1, <3>2, <3>3, <1>7 DEF it
  <2>3. CASE j # k
    <3>1. j \in DOMAIN w /\ u[j] = w[j] /\ j - 1 \in 0..Len(w)
      BY <2>1, <2>3, <1>1, <1>4
    <3>2. NamesAfter(c, u)[j - 1] = NamesAfter(c, w)[j - 1]
      BY <3>1, <1>5
    <3>3. Begins(w, c)
      BY DEF c
    <3>4. QED
      BY <3>1, <3>2, <3>3 DEF Begins
  <2>4. QED
    BY <2>2, <2>3
<1>9. QED
  BY <1>4, <1>8 DEF u, c

LEMMA ItemScope ==
  ASSUME VariablesOnly, NEW n \in DOMAIN Window, SelfContained(Window[n]),
         NEW w \in Seq(Placed), Len(w) < Len(Window[n]),
         NEW N, N = NamesAfter(Window[n], w)[Len(w)],
         NEW s, Agree(s, N), Regs \cup SetBefore(Window[n], Len(w) + 1, 1) \subseteq DOMAIN N,
         NEW i \in Listed(Window[n][Len(w) + 1]), NEW v \in InDomains(i),
         NEW u, u = Append(w, [instr |-> i, opr_vals |-> v]), u \in Seq(Placed)
  PROVE  LET names == NamesAfter(Window[n], u)[Len(u)]
         IN  /\ Agree(Assign(Set(s, v), Window[n][Len(w) + 1].assgn), names)
             /\ Regs \cup SetBefore(Window[n], Len(u) + 1, 1) \subseteq DOMAIN names
<1> DEFINE c == Window[n]
           k == Len(w) + 1
           a == c[k].assgn
           x == [instr |-> i, opr_vals |-> v]
           t == Set(N, v)
           names == NamesAfter(c, u)[Len(u)]
<1>1. Len(w) \in Nat /\ k \in DOMAIN c /\ c \in Seq(Items) /\ k \in Nat \ {0} /\ k - 1 = Len(w)
  BY WindowAssumption
<1>2. a \in Seq(STRING \X STRING) /\ Len(a) \in 0..Len(a)
  <2> HIDE DEF k
  <2>1. c[k] \in Items
    BY <1>1, ItemTypes
  <2>2. QED
    BY <2>1 DEF Items
<1>3. /\ i \in DOMAIN Template /\ oprs(i) \subseteq Operands /\ DOMAIN v = oprs(i)
      /\ ~AssignRaises(t, a)
  <2> HIDE DEF k
  <2>1. QED
    BY <1>1, NamesKnown DEF k
<1>4. x \in Placed
  BY <1>3 DEF Placed
<1>5. Len(u) = k /\ u[k] = x
  BY <1>1, <1>4
<1>6. names = Without(Assign(t, a), Operands)
  <2>1. NamesAfter(c, Append(w, x))[k] =
          Without(Assign(Set(NamesAfter(c, w)[Len(w)], x.opr_vals), c[k].assgn), Operands)
    BY <1>4, NamesAfterNext
  <2>2. QED
    BY <1>5, <2>1
<1>7. Agree(Assign(Set(s, v), a), Assign(t, a))
  <2>1. Agree(Set(s, v), t)
    BY SetAgrees
  <2>2. PICK g : g = Set(s, v)
    OBVIOUS
  <2> HIDE DEF t, a
  <2>3. QED
    BY <1>2, <1>3, <2>1, <2>2, AssignAgrees
<1>8. DOMAIN Assign(t, a) = DOMAIN N \cup oprs(i) \cup {y[1] : y \in ToSet(a)}
  <2>1. DOMAIN t = DOMAIN N \cup oprs(i)
    BY <1>3 DEF Set
  <2> HIDE DEF t, a
  <2>2. DOMAIN Assign(t, a) = DOMAIN t \cup {y[1] : y \in ToSet(a)}
    BY <1>2, <1>3, AssignNames
  <2>3. QED
    BY <2>1, <2>2
<1>9. DOMAIN names = (DOMAIN N \cup oprs(i) \cup {y[1] : y \in ToSet(a)}) \ Operands
  <2> HIDE DEF t, a, names
  <2>1. QED
    BY <1>6, <1>8 DEF Without
<1>10. Agree(Assign(Set(s, v), a), names)
  <2> HIDE DEF t, a, names
  <2>1. QED
    BY <1>6, <1>7 DEF Without, Agree
<1>11. Regs \cup SetBefore(c, Len(u) + 1, 1) \subseteq DOMAIN names
  <2>1. SetBefore(c, k + 1, 1) = SetBefore(c, k, 1) \cup {y[1] : y \in ToSet(a)}
    <3> HIDE DEF k
    <3>1. QED
      BY <1>1, BeforeNext
  <2>2. k \in 1..(Len(c) + 1) /\ k + 1 \in 1..(Len(c) + 1)
    BY <1>1
  <2>3. SetBefore(c, k + 1, 1) \cap Operands = {}
    <3>1. PICK m \in 1..(Len(c) + 1) : m = k + 1
      BY <2>2
    <3>2. SetBefore(c, m, 1) \cap (Regs \cup Operands) = {}
      BY VariablesBefore
    <3>3. QED
      BY <3>1, <3>2
  <2>4. Regs \cap Operands = {}
    BY TemplateAssumption
  <2>5. Regs \cup SetBefore(c, k, 1) \subseteq DOMAIN N
    OBVIOUS
  <2> HIDE DEF names, a, k, c
  <2>6. QED
    BY <1>5, <1>9, <2>1, <2>3, <2>4, <2>5
<1>12. QED
  BY <1>10, <1>11

\* A variable that was set from an operand holds a register that operand can be.
LEMMA ItemOrigin ==
  ASSUME VariablesOnly, NEW n \in DOMAIN Window, SelfContained(Window[n]),
         NEW w \in Seq(Placed), Len(w) < Len(Window[n]),
         NEW s, Regs \cup SetBefore(Window[n], Len(w) + 1, 1) \subseteq DOMAIN s,
         \A x \in SetBefore(Window[n], Len(w) + 1, 1) : SetFrom(Window[n], w, s, x),
         NEW i \in Listed(Window[n][Len(w) + 1]), NEW v \in InDomains(i),
         NEW u, u = Append(w, [instr |-> i, opr_vals |-> v]), u \in Seq(Placed),
         NEW s2, s2 = Assign(Set(s, v), Window[n][Len(w) + 1].assgn)
  PROVE  \A x \in SetBefore(Window[n], Len(u) + 1, 1) : SetFrom(Window[n], u, s2, x)
<1> DEFINE c == Window[n]
           k == Len(w) + 1
           asg == c[k].assgn
           y == [instr |-> i, opr_vals |-> v]
           t == Set(s, v)
           targets == {z[1] : z \in ToSet(asg)}
<1>1. Len(w) \in Nat /\ k \in DOMAIN c /\ c \in Seq(Items) /\ k \in Nat \ {0} /\ k - 1 = Len(w)
  BY WindowAssumption
<1>2. asg \in Seq(STRING \X STRING) /\ c[k] \in Items
  <2> HIDE DEF k
  <2>1. c[k] \in Items
    BY <1>1, ItemTypes
  <2>2. QED
    BY <2>1 DEF Items
<1>3. /\ i \in DOMAIN Template /\ oprs(i) \subseteq Operands /\ DOMAIN v = oprs(i)
      /\ ~AssignRaises(t, asg)
  <2> HIDE DEF k
  <2>1. QED
    BY <1>1, NamesKnown DEF k
<1>4. y \in Placed
  BY <1>3 DEF Placed
<1>5. Len(u) = k /\ u[k] = y /\ k \in DOMAIN u /\ \A j \in DOMAIN w : j \in DOMAIN u /\ u[j] = w[j]
  BY <1>1, <1>4
<1>6. SetBefore(c, k + 1, 1) = SetBefore(c, k, 1) \cup targets
  <2> HIDE DEF k
  <2>1. QED
    BY <1>1, BeforeNext
<1>7. targets \cap Operands = {}
  BY <1>1, TargetsAreVariables
<1>8. SetBefore(c, k, 1) \cap Operands = {}
  <2>1. PICK m \in 1..(Len(c) + 1) : m = k
    BY <1>1
  <2>2. SetBefore(c, m, 1) \cap (Regs \cup Operands) = {}
    BY VariablesBefore
  <2>3. QED
    BY <2>1, <2>2
<1>9. \A x \in SetBefore(c, k, 1) : x \in DOMAIN s /\ SetFrom(c, w, s, x)
  OBVIOUS
<1>10. get_oprs(c[k]) \subseteq oprs(i)
  BY <1>1 DEF SelfContained
<1>11. s2 = Assign(t, asg) /\ DOMAIN t = DOMAIN s \cup DOMAIN v
  BY SetNames
<1>12. \A o \in oprs(i) : t[o] \in Values(i, o)
  BY <1>3 DEF Set, InDomains
<1>13. \A x \in DOMAIN s \ DOMAIN v : x \in DOMAIN t /\ t[x] = s[x]
  BY DEF Set
<1>14. asg = c[k].assgn /\ targets = {z[1] : z \in ToSet(asg)} /\ u[k].instr = i
  BY <1>5
<1> HIDE DEF c, k, asg, y, t, targets
<1>15. ASSUME NEW x \in targets
       PROVE  SetFrom(c, u, s2, x)
  <2>1. PICK a \in ToSet(asg) : a[1] = x /\ (a[2] \in Operands => s2[x] = t[a[2]])
    <3>1. /\ {z[1] : z \in ToSet(asg)} \cap Operands = {}
          /\ asg \in Seq(STRING \X STRING) /\ ~AssignRaises(t, asg)
      BY <1>2, <1>3, <1>7, <1>14
    <3>2. PICK b \in ToSet(asg) : x = b[1]
      BY <1>14
    <3>3. \E a \in ToSet(asg) : a[1] = b[1] /\ (a[2] \in Operands => Assign(t, asg)[b[1]] = t[a[2]])
      BY <3>1, AssignOrigin
    <3>4. QED
      BY <3>2, <3>3, <1>11
  <2>2. a[2] \in Operands => a[2] \in oprs(i)
    <3>1. {a[1], a[2]} \cap Operands \subseteq get_oprs(c[k])
      BY <1>2, <1>14, NamedOperands
    <3>2. QED
      BY <3>1, <1>10
  <2>3. a[2] \in Operands => s2[x] \in Values(u[k].instr, a[2])
    BY <2>1, <2>2, <1>12, <1>14
  <2>4. QED
    BY <2>1, <2>3, <1>5, <1>14 DEF SetFrom
<1>16. ASSUME NEW x \in SetBefore(c, k, 1), x \notin targets
       PROVE  SetFrom(c, u, s2, x)
  <2>1. x \in DOMAIN t /\ t[x] = s[x]
    BY <1>3, <1>8, <1>9, <1>13
  <2>2. s2[x] = t[x]
    BY <2>1, <1>2, <1>11, <1>14, <1>16, AssignKeeps
  <2>3. SetFrom(c, w, s, x)
    BY <1>9
  <2>4. PICK j \in DOMAIN w : \E a \in ToSet(c[j].assgn) :
               a[1] = x /\ (a[2] \in Operands => s[x] \in Values(w[j].instr, a[2]))
    BY <2>3 DEF SetFrom
  <2>5. QED
    BY <2>1, <2>2, <2>4, <1>5 DEF SetFrom
<1>17. \A x \in SetBefore(c, k + 1, 1) : SetFrom(c, u, s2, x)
  BY <1>6, <1>15, <1>16
<1>18. QED
  BY <1>5, <1>17 DEF c

\* A value of its own for one operand.
LEMMA WithOperand ==
  ASSUME NEW i \in DOMAIN Template, NEW o \in oprs(i), NEW r \in Values(i, o)
  PROVE  \E v \in InDomains(i) : v[o] = r
<1>1. PICK v0 \in InDomains(i) : TRUE
  BY DomainsNonempty
<1> DEFINE v == [x \in oprs(i) |-> IF x = o THEN r ELSE v0[x]]
<1>2. \A x \in oprs(i) : v0[x] \in Values(i, x) /\ v0[x] \in Regs
  BY DEF InDomains
<1>3. r \in Regs
  BY TemplateOprs
<1>4. v \in InDomains(i)
  BY <1>2, <1>3 DEF InDomains
<1>5. v[o] = r
  OBVIOUS
<1>6. QED
  BY <1>4, <1>5

\* An operand that the item compares with a variable can be the register it holds.
LEMMA Meeting ==
  ASSUME NEW n \in DOMAIN Window, SelfContained(Window[n]),
         NEW w \in Seq(Placed), Len(w) < Len(Window[n]), Begins(w, Window[n]),
         NEW s, NEW i \in Listed(Window[n][Len(w) + 1]),
         NEW eq \in ToSet(Window[n][Len(w) + 1].cond), Meets(Window[n], Len(w) + 1, eq),
         SetFrom(Window[n], w, s, eq[2])
  PROVE  eq[1] \in oprs(i) /\ s[eq[2]] \in Values(i, eq[1])
<1> DEFINE c == Window[n]
           k == Len(w) + 1
<1>1. k \in DOMAIN c /\ c[k] \in Items /\ DOMAIN w = 1..(k - 1)
  <2>1. k \in DOMAIN c /\ DOMAIN w = 1..(k - 1)
    BY WindowAssumption
  <2> HIDE DEF k
  <2>2. QED
    BY <2>1, ItemTypes
<1>2. eq[1] \in oprs(i)
  <2>1. get_oprs(c[k]) \subseteq oprs(i)
    BY <1>1 DEF SelfContained
  <2>2. {eq[1], eq[2]} \cap Operands \subseteq get_oprs(c[k])
    BY <1>1, NamedOperands
  <2>3. eq[1] \in Operands
    BY DEF Meets
  <2>4. QED
    BY <2>1, <2>2, <2>3
<1>3. PICK j \in DOMAIN w : \E a \in ToSet(c[j].assgn) :
        a[1] = eq[2] /\ (a[2] \in Operands => s[eq[2]] \in Values(w[j].instr, a[2]))
  BY DEF SetFrom
<1>4. PICK a \in ToSet(c[j].assgn) :
        a[1] = eq[2] /\ (a[2] \in Operands => s[eq[2]] \in Values(w[j].instr, a[2]))
  BY <1>3
<1>5. j \in 1..(k - 1) /\ w[j].instr \in Listed(c[j])
  BY <1>1 DEF Begins
<1>6. a[2] \in Operands /\ Values(w[j].instr, a[2]) \subseteq Values(i, eq[1])
  BY <1>4, <1>5 DEF Meets
<1>7. QED
  BY <1>2, <1>4, <1>6

LEMMA NothingRaises ==
  ASSUME VariablesOnly, NEW n \in DOMAIN Window, SelfContained(Window[n]), Solvable(Window[n]),
         NEW w \in Seq(Placed), Len(w) < Len(Window[n]), Begins(w, Window[n]),
         Regs \cup SetBefore(Window[n], Len(w) + 1, 1) \subseteq DOMAIN scope,
         \A x \in SetBefore(Window[n], Len(w) + 1, 1) : SetFrom(Window[n], w, scope, x),
         NEW i \in Listed(Window[n][Len(w) + 1])
  PROVE  ~Raises(Window[n][Len(w) + 1], i)
<1> DEFINE c == Window[n]
           k == Len(w) + 1
           it == c[k]
<1>1. k \in DOMAIN c /\ Len(c) \in Nat /\ k \in 1..(Len(c) + 1)
  BY WindowAssumption
<1>2. i \in DOMAIN Template
  BY <1>1 DEF SelfContained
<1>3. \A v \in InDomains(i) :
        /\ \A eq \in ToSet(it.cond) : Defined(eq, Set(scope, v))
        /\ ~AssignRaises(Set(scope, v), it.assgn)
        /\ DOMAIN v = oprs(i) /\ oprs(i) \subseteq Operands
  <2>1. TAKE v \in InDomains(i)
  <2> HIDE DEF k
  <2>2. QED
    BY <1>1, NamesKnown DEF k
<1>4. \A v \in InDomains(i) : ~NameError(it.cond, Set(scope, v))
  BY <1>3 DEF NameError, ToSet
<1>5. opr_sols(it, i) # {}
  <2>1. CASE it.cond = <<>>
    <3>1. PICK v \in InDomains(i) : TRUE
      BY <1>2, DomainsNonempty
    <3>2. v \in opr_sols(it, i)
      BY <2>1, <3>1 DEF opr_sols
    <3>3. QED
      BY <3>2
  <2>2. CASE it.cond # <<>>
    <3>1. PICK eq \in ToSet(it.cond) : Meets(c, k, eq)
      BY <2>2, <1>1 DEF Solvable
    <3>2. eq[2] \in SetBefore(c, k, 1)
      BY <3>1 DEF Meets
    <3>3. eq[1] \in oprs(i) /\ scope[eq[2]] \in Values(i, eq[1])
      <4>1. PICK s : s = scope
        OBVIOUS
      <4>2. SetFrom(c, w, s, eq[2])
        BY <3>2, <4>1
      <4>3. eq[1] \in oprs(i) /\ s[eq[2]] \in Values(i, eq[1])
        BY <3>1, <4>2, Meeting
      <4>4. QED
        BY <4>1, <4>3
    <3>4. PICK v \in InDomains(i) : v[eq[1]] = scope[eq[2]]
      <4>1. PICK r : r = scope[eq[2]]
        OBVIOUS
      <4>2. PICK o : o = eq[1]
        OBVIOUS
      <4>3. \E v \in InDomains(i) : v[o] = r
        BY <1>2, <3>3, <4>1, <4>2, WithOperand
      <4>4. QED
        BY <4>1, <4>2, <4>3
    <3>5. eq[2] \notin DOMAIN v /\ eq[2] \in DOMAIN scope
      <4>1. PICK m \in 1..(Len(c) + 1) : m = k
        BY <1>1
      <4>2. SetBefore(c, m, 1) \cap (Regs \cup Operands) = {}
        BY VariablesBefore
      <4>3. QED
        BY <3>2, <4>1, <4>2, <1>3
    <3>6. Equal(eq, Set(scope, v))
      BY <3>3, <3>4, <3>5, <1>3 DEF Equal, Set
    <3>7. PICK j \in DOMAIN it.cond : it.cond[j] = eq
      BY DEF ToSet
    <3>8. Holds(it.cond, Set(scope, v))
      <4>1. \A l \in 1..(j - 1) : it.cond[l] \in ToSet(it.cond)
        <5>1. it \in Items
          <6> HIDE DEF k
          <6>1. QED
            BY <1>1, ItemTypes
        <5>2. it.cond \in Seq(STRING \X STRING)
          BY <5>1 DEF Items
        <5> HIDE DEF it
        <5>3. \A l \in 1..(j - 1) : l \in DOMAIN it.cond
          BY <5>2
        <5>4. QED
          BY <5>3 DEF ToSet
      <4> HIDE DEF it
      <4>2. QED
        BY <3>6, <3>7, <4>1, <1>3 DEF Holds
    <3>9. v \in opr_sols(it, i)
      BY <3>8 DEF opr_sols
    <3>10. QED
      BY <3>9
  <2>3. QED
    BY <2>1, <2>2
<1>6. \A v \in opr_sols(it, i) : ~AssignRaises(Set(scope, v), it.assgn)
  BY <1>3 DEF opr_sols
<1>7. QED
  BY <1>2, <1>4, <1>5, <1>6 DEF Raises

\* A self-contained item is picked from what it lists, whatever was picked before.
LEMMA PicksListed ==
  ASSUME NEW n \in DOMAIN Window, SelfContained(Window[n]), NEW k \in DOMAIN Window[n]
  PROVE  Picks(Window[n][k]) = Listed(Window[n][k]) /\ Listed(Window[n][k]) # {}
<1> DEFINE it == Window[n][k]
<1>1. Listed(it) # {} /\ Listed(it) \subseteq DOMAIN Template
  BY DEF SelfContained
<1>2. it.any \in BOOLEAN
  BY ItemTypes DEF Items
<1> HIDE DEF it
<1>3. CASE it.any
  BY <1>1, <1>3 DEF Picks, Listed, it
<1>4. CASE ~it.any
  <2>1. Listed(it) = it.data
    BY <1>4 DEF Listed
  <2>2. it.data \subseteq DOMAIN Template
    BY <1>1, <2>1
  <2>3. Picks(it) = it.data
    BY <1>4, <2>2 DEF Picks
  <2>4. QED
    BY <2>1, <2>3, <1>1 DEF it
<1>5. QED
  BY <1>2, <1>3, <1>4

-----------------------------------------------------------------------------
(***************************************************************************)
(* The inductive invariant                                                 *)
(***************************************************************************)
LEMMA CrossStart == CrossInit => CrossIInv
<1> SUFFICES ASSUME CrossInit
             PROVE  CrossIInv
  OBVIOUS
<1>1. /\ cross_comb \in Seq(DOMAIN Window) /\ each = 1 /\ scope = [r \in Regs |-> r]
      /\ solution = <<>> /\ full_solution = <<>> /\ labels = <<>>
      /\ stage \in {"solve", "written"} /\ (stage = "solve" => cross_comb # <<>>)
  BY WindowAssumption DEF CrossInit
<1>2. stage = "solve" => cross_comb[each] \in DOMAIN Window /\ 1 \in 1..Len(cross_comb)
  BY <1>1
<1>3. CrossTypeOK
  BY <1>1 DEF CrossTypeOK
<1>4. StageInv
  <2>1. stage = "solve" => Len(Covering) \in Nat
    BY <1>2, WindowAssumption DEF Covering
  <2>2. Len(cross_comb) \in Nat
    BY <1>1
  <2>3. QED
    BY <1>1, <1>2, <2>1, <2>2 DEF StageInv
<1>5. stage = "solve" => OwnVariables = {}
  <2>1. Len(solution) + 1 = 1 /\ 1..(1 - 1) = {}
    BY <1>1
  <2>2. {Covering[1].assgn[b][1] : b \in 1..(1 - 1)} = {}
    BY <2>1
  <2>3. UNION {{x[1] : x \in ToSet(Covering[j].assgn)} : j \in 1..(1 - 1)} = {}
    BY <2>1
  <2>4. QED
    BY <2>1, <2>2, <2>3 DEF OwnVariables, SetBefore
<1>6. NamesAfter(Covering, solution)[0] = [r \in Regs |-> r] /\ Len(solution) = 0
  <2>1. PICK c : c = Covering
    OBVIOUS
  <2>2. PICK w \in Seq(Placed) : w = solution
    <3>1. <<>> \in Seq(Placed)
      OBVIOUS
    <3>2. QED
      BY <1>1, <3>1, Zenon
  <2>3. NamesAfter(c, w)[0] = [r \in Regs |-> r]
    BY NamesAfterIs
  <2>4. QED
    BY <1>1, <2>1, <2>2, <2>3
<1>7. ScopeInv
  BY <1>1, <1>5, <1>6 DEF ScopeInv, Agree
<1>8. OriginInv
  BY <1>5 DEF OriginInv
<1>9. BeginsInv
  BY <1>1 DEF BeginsInv, Begins
<1>10. LabelInv /\ WindowsCover /\ NeverStuck
  BY <1>1 DEF LabelInv, WindowsCover, NeverStuck
<1>11. QED
  BY <1>3, <1>4, <1>7, <1>8, <1>9, <1>10 DEF CrossIInv

\* What is at hand while a coverpoint is solved.
LEMMA AtHand ==
  ASSUME CrossTypeOK, StageInv, Solving
  PROVE  /\ cross_comb[each] \in DOMAIN Window /\ Covering = Window[cross_comb[each]]
         /\ solution \in Seq(Placed) /\ Len(solution) \in Nat /\ Len(solution) < Len(Window[cross_comb[each]])
         /\ Len(solution) + 1 \in DOMAIN Window[cross_comb[each]]
         /\ item = Window[cross_comb[each]][Len(solution) + 1]
<1>1. cross_comb[each] \in DOMAIN Window
  BY DEF CrossTypeOK, StageInv, Solving
<1>2. Window[cross_comb[each]] \in Seq(Items)
  BY <1>1, WindowAssumption
<1>3. solution \in Seq(Placed)
  BY DEF CrossTypeOK
<1>4. QED
  BY <1>1, <1>2, <1>3 DEF Solving, Covering, item

LEMMA SolveItemKeeps ==
  ASSUME VariablesOnly, CrossIInv, SolveItem
  PROVE  CrossIInv'
<1>1. /\ CrossTypeOK /\ StageInv /\ ScopeInv /\ OriginInv /\ BeginsInv /\ LabelInv
      /\ WindowsCover /\ NeverStuck
  BY DEF CrossIInv
<1>2. Solving
  BY DEF SolveItem
<1>3. PICK n \in DOMAIN Window : n = cross_comb[each]
  BY <1>1, <1>2, AtHand
<1>4. PICK w \in Seq(Placed) : w = solution
  BY <1>1, <1>2, AtHand
<1>5. PICK s : s = scope
  OBVIOUS
<1> DEFINE c == Window[n]
           k == Len(w) + 1
<1>6. /\ Len(w) \in Nat /\ Len(w) < Len(c) /\ k \in DOMAIN c /\ Covering = c /\ item = c[k]
      /\ Len(c) \in Nat
  BY <1>1, <1>2, <1>3, <1>4, AtHand, WindowAssumption
<1>7. PICK i \in Picks(item) : ~Raises(item, i) /\ \E v \in opr_sols(item, i) :
        /\ scope' = Assign(Set(scope, v), item.assgn)
        /\ solution' = Append(solution, [instr |-> i, opr_vals |-> v])
  BY DEF SolveItem
<1>8. PICK v \in opr_sols(item, i) :
        /\ scope' = Assign(Set(scope, v), item.assgn)
        /\ solution' = Append(solution, [instr |-> i, opr_vals |-> v])
  BY <1>7
<1> DEFINE x == [instr |-> i, opr_vals |-> v]
<1>9. PICK u : u = Append(w, x)
  OBVIOUS
<1>10. PICK s2 : s2 = Assign(Set(s, v), c[k].assgn)
  OBVIOUS
<1>11. /\ v \in InDomains(i) /\ i \in DOMAIN Template
       /\ c[k].cond = <<>> \/ Holds(c[k].cond, Set(s, v))
  BY <1>5, <1>6, <1>7, <1>8 DEF opr_sols, Raises
<1>12. x \in Placed
  BY <1>11 DEF Placed
<1>13. u \in Seq(Placed) /\ Len(u) = k
  BY <1>6, <1>9, <1>12
<1>14. /\ scope' = s2 /\ solution' = u /\ Covering' = c /\ stage = "solve"
       /\ UNCHANGED <<cross_comb, stage, each, full_solution, labels>>
  <2>1. stage = "solve" /\ UNCHANGED <<cross_comb, stage, each, full_solution, labels>>
    BY DEF SolveItem, Solving
  <2>2. Covering' = Covering
    BY <2>1 DEF Covering
  <2>3. QED
    BY <2>1, <2>2, <1>4, <1>5, <1>6, <1>8, <1>9, <1>10
<1>15. c[k].assgn \in Seq(STRING \X STRING)
  <2> HIDE DEF k
  <2>1. c[k] \in Items
    BY <1>6, ItemTypes
  <2>2. QED
    BY <2>1 DEF Items
<1>16. SelfContained(c) => i \in Listed(c[k])
  <2> SUFFICES ASSUME SelfContained(c)
               PROVE  i \in Listed(c[k])
    OBVIOUS
  <2>1. PICK kk \in DOMAIN c : kk = k
    BY <1>6
  <2>2. Picks(c[kk]) = Listed(c[kk])
    BY PicksListed
  <2>3. QED
    BY <2>1, <2>2, <1>6, <1>7
<1>17. SelfContained(c) =>
         LET N == NamesAfter(c, w)[Len(w)]
         IN  Agree(s, N) /\ Regs \cup SetBefore(c, k, 1) \subseteq DOMAIN N
  BY <1>1, <1>4, <1>5, <1>6, <1>14 DEF ScopeInv, OwnVariables
<1>18. SelfContained(c) => Begins(w, c) /\ \A y \in SetBefore(c, k, 1) : SetFrom(c, w, s, y)
  BY <1>1, <1>4, <1>5, <1>6, <1>14 DEF BeginsInv, OriginInv, OwnVariables
<1>19. CrossTypeOK'
  <2>1. \A y \in DOMAIN s2 : s2[y] \in Regs
    <3>1. \A y \in DOMAIN s : s[y] \in Regs
      BY <1>1, <1>5 DEF CrossTypeOK
    <3>2. \A o \in DOMAIN v : v[o] \in Regs
      BY <1>11 DEF InDomains
    <3>3. PICK t : t = Set(s, v)
      OBVIOUS
    <3>4. \A y \in DOMAIN t : t[y] \in Regs
      BY <3>1, <3>2, <3>3 DEF Set
    <3>5. QED
      BY <3>3, <3>4, <1>10, <1>15, AssignValues
  <2>2. QED
    BY <2>1, <1>1, <1>13, <1>14 DEF CrossTypeOK
<1>20. StageInv'
  <2>1. Len(u) <= Len(c)
    BY <1>6, <1>13
  <2> HIDE DEF c
  <2>2. QED
    BY <2>1, <1>1, <1>14 DEF StageInv
<1>21. ScopeInv'
  <2>1. Agree(s2, [r \in Regs |-> r])
    <3>1. PICK names : names = [r \in Regs |-> r]
      OBVIOUS
    <3>2. Agree(s, names)
      BY <1>1, <1>5, <3>1 DEF ScopeInv
    <3>3. PICK kk \in DOMAIN c : kk = k
      BY <1>6
    <3>4. DOMAIN names \cap Operands = {}
      BY <3>1, TemplateAssumption
    <3>5. DOMAIN names \cap {y[1] : y \in ToSet(Window[n][kk].assgn)} = {}
      BY <3>1, TargetsAreVariables
    <3>6. Agree(Assign(Set(s, v), Window[n][kk].assgn), names)
      BY <3>2, <3>4, <3>5, <1>11, RegistersStay
    <3>7. QED
      BY <3>1, <3>3, <3>6, <1>10
  <2>2. SelfContained(c) =>
          LET names == NamesAfter(c, u)[Len(u)]
          IN  Agree(s2, names) /\ Regs \cup SetBefore(c, Len(u) + 1, 1) \subseteq DOMAIN names
    <3> SUFFICES ASSUME SelfContained(c)
                 PROVE  LET names == NamesAfter(c, u)[Len(u)]
                        IN  /\ Agree(s2, names)
                            /\ Regs \cup SetBefore(c, Len(u) + 1, 1) \subseteq DOMAIN names
      OBVIOUS
    <3>1. PICK N : N = NamesAfter(c, w)[Len(w)]
      OBVIOUS
    <3>2. Agree(s, N) /\ Regs \cup SetBefore(c, k, 1) \subseteq DOMAIN N
      BY <3>1, <1>17
    <3>3. QED
      BY <3>1, <3>2, <1>6, <1>9, <1>10, <1>11, <1>13, <1>16, ItemScope
  <2> HIDE DEF c
  <2>3. QED
    BY <2>1, <2>2, <1>14 DEF ScopeInv, OwnVariables
<1>22. OriginInv'
  <2>1. SelfContained(c) => \A y \in SetBefore(c, Len(u) + 1, 1) : SetFrom(c, u, s2, y)
    <3> SUFFICES ASSUME SelfContained(c)
                 PROVE  \A y \in SetBefore(c, Len(u) + 1, 1) : SetFrom(c, u, s2, y)
      OBVIOUS
    <3>1. Regs \cup SetBefore(c, k, 1) \subseteq DOMAIN s
      BY <1>17 DEF Agree
    <3>2. QED
      BY <3>1, <1>6, <1>9, <1>10, <1>11, <1>13, <1>16, <1>18, ItemOrigin
  <2> HIDE DEF c
  <2>2. QED
    BY <2>1, <1>14 DEF OriginInv, OwnVariables
<1>23. BeginsInv'
  <2>1. SelfContained(c) => Begins(u, c)
    <3> SUFFICES ASSUME SelfContained(c)
                 PROVE  Begins(u, c)
      OBVIOUS
    <3>1. PICK N : N = NamesAfter(c, w)[Len(w)]
      OBVIOUS
    <3>2. Agree(s, N) /\ Regs \cup SetBefore(c, k, 1) \subseteq DOMAIN N
      BY <3>1, <1>17
    <3>3. QED
      BY <3>1, <3>2, <1>6, <1>9, <1>11, <1>16, <1>18, ItemCovered
  <2> HIDE DEF c
  <2>2. QED
    BY <2>1, <1>14 DEF BeginsInv
<1>24. LabelInv' /\ WindowsCover' /\ NeverStuck'
  <2> HIDE DEF c
  <2>1. LabelInv'
    BY <1>1, <1>14 DEF LabelInv
  <2>2. WindowsCover'
    BY <1>1, <1>14 DEF WindowsCover
  <2>3. NeverStuck'
    BY <1>14 DEF NeverStuck
  <2>4. QED
    BY <2>1, <2>2, <2>3
<1>25. QED
  BY <1>19, <1>20, <1>21, <1>22, <1>23, <1>24 DEF CrossIInv

LEMMA ItemRaisesKeeps ==
  ASSUME VariablesOnly, CrossIInv, ItemRaises
  PROVE  CrossIInv'
<1>1. /\ CrossTypeOK /\ StageInv /\ ScopeInv /\ OriginInv /\ BeginsInv /\ LabelInv
      /\ WindowsCover /\ NeverStuck
  BY DEF CrossIInv
<1>2. /\ Solving /\ stage' = "raised" /\ stage = "solve"
      /\ UNCHANGED <<cross_comb, each, scope, instr, solution, full_solution, labels>>
  BY DEF ItemRaises, Solving
<1>3. PICK n \in DOMAIN Window : n = cross_comb[each]
  BY <1>1, <1>2, AtHand
<1>4. PICK w \in Seq(Placed) : w = solution
  BY <1>1, <1>2, AtHand
<1> DEFINE c == Window[n]
           k == Len(w) + 1
<1>5. Len(w) < Len(c) /\ k \in DOMAIN c /\ Covering = c /\ item = c[k]
  BY <1>1, <1>2, <1>3, <1>4, AtHand
<1>6. ~(SelfContained(c) /\ Solvable(c))
  <2> SUFFICES ASSUME SelfContained(c), Solvable(c)
               PROVE  FALSE
    OBVIOUS
  <2>1. Picks(item) = Listed(c[k]) /\ Listed(c[k]) # {}
    <3>1. PICK kk \in DOMAIN c : kk = k
      BY <1>5
    <3>2. Picks(c[kk]) = Listed(c[kk]) /\ Listed(c[kk]) # {}
      BY PicksListed
    <3>3. QED
      BY <3>1, <3>2, <1>5
  <2>2. Begins(w, c) /\ \A y \in SetBefore(c, k, 1) : SetFrom(c, w, scope, y)
    BY <1>1, <1>2, <1>4, <1>5 DEF BeginsInv, OriginInv, OwnVariables
  <2>3. Regs \cup SetBefore(c, k, 1) \subseteq DOMAIN scope
    BY <1>1, <1>2, <1>4, <1>5 DEF ScopeInv, Agree, OwnVariables
  <2>4. \A i \in Listed(c[k]) : ~Raises(c[k], i)
    BY <1>5, <2>2, <2>3, NothingRaises
  <2>5. QED
    BY <2>1, <2>4, <1>5 DEF ItemRaises
<1>7. Covering' = Covering
  BY <1>2 DEF Covering
<1>8. NeverStuck'
  <2> HIDE DEF c
  <2>1. QED
    BY <1>5, <1>6, <1>7 DEF NeverStuck
<1>9. CrossTypeOK' /\ LabelInv' /\ WindowsCover'
  BY <1>1, <1>2 DEF CrossTypeOK, LabelInv, WindowsCover
<1>10. StageInv'
  BY <1>1, <1>2 DEF StageInv
<1>11. ScopeInv' /\ OriginInv' /\ BeginsInv'
  BY <1>1, <1>2 DEF ScopeInv, OriginInv, BeginsInv
<1>12. QED
  BY <1>8, <1>9, <1>10, <1>11 DEF CrossIInv

LEMMA WindowSolvedKeeps ==
  ASSUME CrossIInv, WindowSolved
  PROVE  CrossIInv'
<1>1. /\ CrossTypeOK /\ StageInv /\ ScopeInv /\ OriginInv /\ BeginsInv /\ LabelInv
      /\ WindowsCover /\ NeverStuck
  BY DEF CrossIInv
<1>2. /\ stage = "solve" /\ Len(solution) = Len(Covering)
      /\ full_solution' = Append(full_solution, solution) /\ solution' = <<>>
      /\ UNCHANGED <<cross_comb, scope, instr, labels>>
      /\ \/ each < Len(cross_comb) /\ each' = each + 1 /\ stage' = stage
         \/ ~(each < Len(cross_comb)) /\ each' = 1 /\ stage' = "write"
  BY DEF WindowSolved
<1>3. /\ cross_comb \in Seq(DOMAIN Window) /\ each \in 1..Len(cross_comb)
      /\ full_solution \in Seq(Seq(Placed)) /\ solution \in Seq(Placed)
      /\ Len(full_solution) = each - 1 /\ Len(cross_comb) \in Nat /\ labels = <<>>
  BY <1>1, <1>2 DEF CrossTypeOK, StageInv
<1>4. /\ full_solution' \in Seq(Seq(Placed)) /\ Len(full_solution') = each
      /\ full_solution'[each] = solution
      /\ \A k \in 1..(each - 1) : full_solution'[k] = full_solution[k]
  BY <1>2, <1>3
<1>5. <<>> \in Seq(Placed) /\ Len(<<>>) = 0
  OBVIOUS
<1>6. CrossTypeOK'
  BY <1>1, <1>2, <1>3, <1>4, <1>5 DEF CrossTypeOK
<1>7. stage' = "solve" =>
        /\ each' \in 1..Len(cross_comb) /\ each' = each + 1
        /\ Covering' \in Seq(Items) /\ Len(solution') = 0
  <2> SUFFICES ASSUME stage' = "solve"
               PROVE  /\ each' \in 1..Len(cross_comb) /\ each' = each + 1
                      /\ Covering' \in Seq(Items) /\ Len(solution') = 0
    OBVIOUS
  <2>1. each' \in 1..Len(cross_comb) /\ each' = each + 1
    BY <1>2, <1>3
  <2>2. Covering' = Window[cross_comb[each']] /\ cross_comb[each'] \in DOMAIN Window
    BY <2>1, <1>2, <1>3 DEF Covering
  <2>3. QED
    BY <2>1, <2>2, <1>2, <1>5, WindowAssumption
<1>8. StageInv'
  <2>1. Len(labels') = 0
    BY <1>2, <1>3
  <2>2. stage' = "solve" => Len(Covering') \in Nat
    BY <1>7
  <2>3. QED
    BY <2>1, <2>2, <1>2, <1>3, <1>4, <1>7 DEF StageInv
<1>9. stage' = "solve" => OwnVariables' = {}
  <2> SUFFICES ASSUME stage' = "solve"
               PROVE  OwnVariables' = {}
    OBVIOUS
  <2>1. PICK c : c = Covering'
    OBVIOUS
  <2>2. Len(solution') + 1 = 1 /\ 1..(1 - 1) = {}
    BY <1>7
  <2>3. {c[1].assgn[b][1] : b \in 1..(1 - 1)} = {} /\ UNION {{x[1] : x \in ToSet(c[j].assgn)} : j \in 1..(1 - 1)} = {}
    BY <2>2
  <2>4. SetBefore(c, 1, 1) = {}
    BY <2>3 DEF SetBefore
  <2>5. QED
    BY <2>1, <2>2, <2>4 DEF OwnVariables
<1>10. NamesAfter(Covering', solution')[0] = [r \in Regs |-> r] /\ Len(solution') = 0
  <2>1. PICK c : c = Covering'
    OBVIOUS
  <2>2. PICK w \in Seq(Placed) : w = solution'
    BY <1>2, <1>5, Zenon
  <2>3. NamesAfter(c, w)[0] = [r \in Regs |-> r]
    BY NamesAfterIs
  <2>4. Len(solution') = 0
    BY <1>2, <1>5
  <2>5. QED
    BY <2>1, <2>2, <2>3, <2>4
<1>11. ScopeInv'
  <2>1. Agree(scope', [r \in Regs |-> r])
    BY <1>1, <1>2 DEF ScopeInv
  <2>2. Regs = DOMAIN [r \in Regs |-> r]
    OBVIOUS
  <2>3. QED
    BY <2>1, <2>2, <1>9, <1>10 DEF ScopeInv
<1>12. OriginInv'
  BY <1>9 DEF OriginInv
<1>13. BeginsInv'
  <2>1. DOMAIN solution' = {}
    BY <1>2
  <2>2. QED
    BY <2>1 DEF BeginsInv, Begins
<1>14. LabelInv'
  BY <1>2, <1>3 DEF LabelInv
<1>15. WindowsCover'
  <2> SUFFICES ASSUME NEW k \in DOMAIN full_solution', SelfContained(Window[cross_comb[k]])
               PROVE  Covers(full_solution'[k], Window[cross_comb[k]])
    BY <1>2 DEF WindowsCover
  <2>1. k \in 1..each
    BY <1>4
  <2>2. CASE k = each
    <3>1. SelfContained(Covering) /\ full_solution'[k] = solution /\ Window[cross_comb[k]] = Covering
      BY <2>2, <1>4 DEF Covering
    <3>2. Begins(solution, Covering)
      BY <3>1, <1>1, <1>2 DEF BeginsInv
    <3>3. QED
      BY <3>1, <3>2, <1>2 DEF Covers
  <2>3. CASE k # each
    <3>1. k \in 1..(each - 1) /\ k \in DOMAIN full_solution
      BY <2>1, <2>3, <1>3
    <3>2. Covers(full_solution[k], Window[cross_comb[k]])
      BY <3>1, <1>1 DEF WindowsCover
    <3>3. QED
      BY <3>1, <3>2, <1>4
  <2>4. QED
    BY <2>2, <2>3
<1>16. NeverStuck'
  BY <1>2 DEF NeverStuck
<1>17. QED
  BY <1>6, <1>8, <1>11, <1>12, <1>13, <1>14, <1>15, <1>16 DEF CrossIInv

-----------------------------------------------------------------------------
(***************************************************************************)
(* The file                                                                *)
(***************************************************************************)
LEMMA ResultsCounted ==
  ASSUME NEW w \in Seq(Placed)
  PROVE  Cardinality(rd_lst(w)) \in Nat
<1> DEFINE S == {j \in DOMAIN w : "rd" \in DOMAIN w[j].opr_vals}
           f == [k \in S |-> w[k].opr_vals["rd"]]
<1>1. IsFiniteSet(S)
  <2>1. DOMAIN w = 1..Len(w) /\ Len(w) \in Nat
    OBVIOUS
  <2>2. IsFiniteSet(1..Len(w))
    BY <2>1, FS_Interval
  <2>3. S \in SUBSET (1..Len(w))
    BY <2>1
  <2>4. QED
    BY <2>2, <2>3, FS_Subset
<1>2. f \in Surjection(S, rd_lst(w))
  BY DEF Surjection, rd_lst
<1>3. IsFiniteSet(rd_lst(w))
  <2> HIDE DEF S, f
  <2>1. QED
    BY <1>1, <1>2, FS_Surjection
<1>4. QED
  BY <1>3, FS_CardinalityType

LEMMA WriteWindowKeeps ==
  ASSUME CrossIInv, WriteWindow
  PROVE  CrossIInv'
<1>1. /\ CrossTypeOK /\ StageInv /\ ScopeInv /\ LabelInv /\ WindowsCover
  BY DEF CrossIInv
<1>2. /\ Writing /\ stage = "write" /\ each' = each + 1
      /\ UNCHANGED <<cross_comb, stage, scope, instr, solution, full_solution>>
  BY DEF WriteWindow, Writing
<1>3. PICK w : w = full_solution[each]
  OBVIOUS
<1>4. PICK sreg \in swreg(w) :
        labels' = Append(labels,
          [sreg |-> sreg, count |-> Cardinality({k \in DOMAIN labels : labels[k].sreg = sreg}),
           n |-> Cardinality(rd_lst(w))])
  BY <1>3 DEF WriteWindow
<1>5. /\ each \in 1..Len(full_solution) /\ Len(labels) = each - 1 /\ Len(full_solution) = Len(cross_comb)
      /\ labels \in Seq([sreg : Regs, count : Nat, n : Nat]) /\ w \in Seq(Placed)
      /\ Len(full_solution) \in Nat
  BY <1>1, <1>2, <1>3 DEF CrossTypeOK, StageInv, Writing
<1> DEFINE Same == {k \in DOMAIN labels : labels[k].sreg = sreg}
           x == [sreg |-> sreg, count |-> Cardinality(Same), n |-> Cardinality(rd_lst(w))]
<1>6. Cardinality(Same) \in Nat
  <2>1. DOMAIN labels = 1..Len(labels)
    BY <1>5
  <2>2. IsFiniteSet(1..Len(labels))
    BY <1>5, FS_Interval
  <2>3. Same \in SUBSET (1..Len(labels))
    BY <2>1
  <2> HIDE DEF Same
  <2>4. QED
    BY <2>2, <2>3, FS_Subset, FS_CardinalityType
<1>7. x \in [sreg : Regs, count : Nat, n : Nat]
  <2>1. sreg \in Regs
    BY TemplateAssumption DEF swreg
  <2>2. Cardinality(rd_lst(w)) \in Nat
    BY <1>5, ResultsCounted
  <2> HIDE DEF Same
  <2>3. QED
    BY <2>1, <2>2, <1>6
<1>8. /\ labels' = Append(labels, x) /\ labels' \in Seq([sreg : Regs, count : Nat, n : Nat])
      /\ Len(labels') = each /\ labels'[each] = x
      /\ \A k \in 1..(each - 1) : labels'[k] = labels[k]
  <2> HIDE DEF x
  <2>1. labels' = Append(labels, x)
    BY <1>4 DEF x
  <2>2. QED
    BY <2>1, <1>5, <1>7
<1>9. CrossTypeOK'
  BY <1>1, <1>2, <1>8 DEF CrossTypeOK
<1>10. StageInv'
  BY <1>1, <1>2, <1>5, <1>8 DEF StageInv
<1>11. ScopeInv' /\ OriginInv' /\ BeginsInv' /\ NeverStuck'
  BY <1>1, <1>2 DEF ScopeInv, OriginInv, BeginsInv, NeverStuck
<1>12. WindowsCover'
  BY <1>1, <1>2 DEF WindowsCover
<1>13. LabelInv'
  <2> SUFFICES ASSUME NEW k \in DOMAIN labels'
               PROVE  /\ labels'[k].count = Cardinality({j \in 1..(k - 1) : labels'[j].sreg = labels'[k].sreg})
                      /\ labels'[k].sreg \in swreg(full_solution[k])
    BY <1>2 DEF LabelInv
  <2>1. k \in 1..each
    BY <1>8
  <2>2. CASE k = each
    <3>1. {j \in 1..(k - 1) : labels'[j].sreg = sreg} = Same
      BY <2>2, <1>5, <1>8
    <3>2. labels'[k].sreg = sreg /\ labels'[k].count = Cardinality(Same)
      BY <2>2, <1>8
    <3>3. sreg \in swreg(full_solution[k])
      BY <2>2, <1>3
    <3>4. QED
      BY <3>1, <3>2, <3>3
  <2>3. CASE k # each
    <3>1. k \in 1..(each - 1) /\ k \in DOMAIN labels /\ labels'[k] = labels[k]
      <4>1. k \in 1..(each - 1)
        BY <2>1, <2>3, <1>5
      <4>2. k \in DOMAIN labels
        BY <4>1, <1>5
      <4>3. QED
        BY <4>1, <4>2, <1>8, Zenon
    <3>2. {j \in 1..(k - 1) : labels'[j].sreg = labels'[k].sreg} = {j \in 1..(k - 1) : labels[j].sreg = labels[k].sreg}
      BY <3>1, <1>8
    <3>3. /\ labels[k].count = Cardinality({j \in 1..(k - 1) : labels[j].sreg = labels[k].sreg})
          /\ labels[k].sreg \in swreg(full_solution[k])
      BY <3>1, <1>1 DEF LabelInv
    <3>4. QED
      BY <3>1, <3>2, <3>3
  <2>4. QED
    BY <2>2, <2>3
<1>14. QED
  BY <1>9, <1>10, <1>11, <1>12, <1>13 DEF CrossIInv

LEMMA WriteEndsKeep ==
  ASSUME CrossIInv, WriteRaises \/ FileWritten
  PROVE  CrossIInv'
<1>1. /\ CrossTypeOK /\ StageInv /\ ScopeInv /\ LabelInv /\ WindowsCover
  BY DEF CrossIInv
<1>2. /\ stage = "write" /\ stage' \in {"raised", "written"}
      /\ UNCHANGED <<cross_comb, each, scope, instr, solution, full_solution, labels>>
  BY DEF WriteRaises, FileWritten, Writing
<1>3. Len(full_solution) = Len(cross_comb) /\ Len(cross_comb) \in Nat
  BY <1>1, <1>2 DEF StageInv, CrossTypeOK
<1>4. CrossTypeOK' /\ StageInv'
  BY <1>1, <1>2 DEF CrossTypeOK, StageInv
<1>5. ScopeInv' /\ OriginInv' /\ BeginsInv' /\ LabelInv' /\ WindowsCover'
  BY <1>1, <1>2 DEF ScopeInv, OriginInv, BeginsInv, LabelInv, WindowsCover
<1>6. NeverStuck'
  BY <1>2, <1>3 DEF NeverStuck
<1>7. QED
  BY <1>4, <1>5, <1>6 DEF CrossIInv

LEMMA CrossStaysPut ==
  ASSUME CrossIInv, UNCHANGED crossVars
  PROVE  CrossIInv'
<1>1. UNCHANGED <<cross_comb, stage, each, scope, instr, solution, full_solution, labels>>
  BY DEF crossVars
<1>2. CrossTypeOK' /\ StageInv'
  BY <1>1 DEF CrossIInv, CrossTypeOK, StageInv, Covering
<1>3. ScopeInv' /\ OriginInv' /\ BeginsInv'
  BY <1>1 DEF CrossIInv, ScopeInv, OriginInv, BeginsInv, OwnVariables, Covering
<1>4. LabelInv' /\ WindowsCover' /\ NeverStuck'
  BY <1>1 DEF CrossIInv, LabelInv, WindowsCover, NeverStuck, Covering
<1>5. QED
  BY <1>2, <1>3, <1>4 DEF CrossIInv

\* Equal pointers have different counts, and no result is put into a pointer.
LEMMA RegionsAreOwn == CrossIInv => RegionsOwn
<1> SUFFICES ASSUME CrossIInv
             PROVE  RegionsOwn
  OBVIOUS
<1>1. LabelInv /\ labels \in Seq([sreg : Regs, count : Nat, n : Nat])
  BY DEF CrossIInv, CrossTypeOK
<1>2. ASSUME NEW k \in DOMAIN labels, NEW j \in 1..(k - 1)
      PROVE  <<labels[j].sreg, labels[j].count>> # <<labels[k].sreg, labels[k].count>>
  <2> SUFFICES ASSUME labels[j].sreg = labels[k].sreg
               PROVE  labels[j].count # labels[k].count
    OBVIOUS
  <2> DEFINE SamePtr(m) == {l \in 1..(m - 1) : labels[l].sreg = labels[k].sreg}
  <2>1. j \in DOMAIN labels /\ k \in Nat /\ j \in Nat
    BY <1>1
  <2>2. labels[k].count = Cardinality(SamePtr(k)) /\ labels[j].count = Cardinality(SamePtr(j))
    BY <2>1, <1>1 DEF LabelInv
  <2>3. IsFiniteSet(SamePtr(k))
    <3>1. IsFiniteSet(1..(k - 1))
      BY <2>1, FS_Interval
    <3>2. SamePtr(k) \in SUBSET (1..(k - 1))
      OBVIOUS
    <3> HIDE DEF SamePtr
    <3>3. QED
      BY <3>1, <3>2, FS_Subset
  <2>4. SamePtr(j) \in SUBSET SamePtr(k) /\ j \in SamePtr(k) /\ j \notin SamePtr(j)
    BY <2>1
  <2> HIDE DEF SamePtr
  <2>5. QED
    BY <2>2, <2>3, <2>4, FS_Subset
<1>3. ASSUME NEW k \in DOMAIN labels, labels[k].sreg \in Destroyed(full_solution[k])
      PROVE  PairDests(full_solution[k]) # {}
  <2>1. PICK w : w = full_solution[k]
    OBVIOUS
  <2>2. labels[k].sreg \notin op_vals(w)
    BY <2>1, <1>1 DEF LabelInv, swreg
  <2>3. rd_lst(w) \subseteq op_vals(w)
    BY DEF rd_lst, op_vals
  <2>4. labels[k].sreg \in Destroyed(w)
    BY <2>1, <1>3
  <2>5. QED
    BY <2>1, <2>2, <2>3, <2>4 DEF Destroyed
<1>4. QED
  BY <1>2, <1>3 DEF RegionsOwn

LEMMA CombKeeps ==
  ASSUME VariablesOnly, CrossIInv, [CombNext]_combVars
  PROVE  CrossIInv'
<1>1. CASE SolveItem
  BY <1>1, SolveItemKeeps
<1>2. CASE ItemRaises
  BY <1>2, ItemRaisesKeeps
<1>3. CASE WindowSolved
  BY <1>3, WindowSolvedKeeps
<1>4. CASE WriteWindow
  BY <1>4, WriteWindowKeeps
<1>5. CASE WriteRaises \/ FileWritten
  BY <1>5, WriteEndsKeep
<1>6. CASE UNCHANGED crossVars
  BY <1>6, CrossStaysPut
<1>7. CrossNext \/ UNCHANGED crossVars
  BY DEF CombNext, CrossFile, CsrFile, Ended, combVars
<1>8. QED
  BY <1>1, <1>2, <1>3, <1>4, <1>5, <1>6, <1>7 DEF CrossNext

(***************************************************************************)
(* Cross combinations are tested as they are meant, however the choices    *)
(* fall, if coverpoints assign to variables only: every window satisfies   *)
(* its coverpoint whatever the scope has kept of earlier ones, solvable    *)
(* coverpoints are solved, and each window has a signature region.         *)
(***************************************************************************)
THEOREM CrossCombsTested == VariablesOnly => (CombSpec => []CrossTested)
<1> SUFFICES ASSUME VariablesOnly
             PROVE  CombSpec => []CrossTested
  OBVIOUS
<1>1. CombInit => CrossIInv
  BY CrossStart DEF CombInit
<1>2. CrossIInv /\ [CombNext]_combVars => CrossIInv'
  BY CombKeeps
<1>3. CrossIInv => CrossTested
  BY RegionsAreOwn DEF CrossIInv, CrossTested
<1>4. QED
  BY <1>1, <1>2, <1>3, PTL DEF CombSpec

-----------------------------------------------------------------------------
(***************************************************************************)
(* Sequences of sequences                                                  *)
(***************************************************************************)
\* FlattenSeq puts its sequences one after the other: parts[i] is what it has
\* after i of them.
Parts(s, parts) ==
  parts = [i \in 1..Len(s) |-> IF i = 1 THEN s[i] ELSE parts[i - 1] \o s[i]]

LEMMA PartsExist ==
  ASSUME NEW s, Len(s) \in Nat
  PROVE  \E parts : Parts(s, parts)
<1> DEFINE Upto(n, f) == f = [i \in 1..n |-> IF i = 1 THEN s[i] ELSE f[i - 1] \o s[i]]
           T == {n \in Nat : \E f : Upto(n, f)}
<1>1. 0 \in T
  <2>1. Upto(0, [i \in 1..0 |-> 0])
    OBVIOUS
  <2> HIDE DEF Upto
  <2>2. QED
    BY <2>1
<1>2. ASSUME NEW n \in T
      PROVE  n + 1 \in T
  <2>1. PICK f : Upto(n, f)
    OBVIOUS
  <2> DEFINE g == [i \in 1..(n + 1) |->
                     IF i <= n THEN f[i] ELSE IF i = 1 THEN s[i] ELSE f[i - 1] \o s[i]]
             h == [i \in 1..(n + 1) |-> IF i = 1 THEN s[i] ELSE g[i - 1] \o s[i]]
  <2>2. ASSUME NEW i \in 1..(n + 1)
        PROVE  g[i] = h[i]
    <3>1. CASE i <= n
      <4>1. f[i] = IF i = 1 THEN s[i] ELSE f[i - 1] \o s[i]
        <5>1. f[i] = [k \in 1..n |-> IF k = 1 THEN s[k] ELSE f[k - 1] \o s[k]][i]
          BY <2>1, Zenon
        <5>2. i \in 1..n
          BY <3>1
        <5>3. QED
          BY <5>1, <5>2, Zenon
      <4>2. i # 1 => g[i - 1] = f[i - 1]
        BY <3>1
      <4>3. QED
        BY <3>1, <4>1, <4>2
    <3>2. CASE i = n + 1
      <4>1. i # 1 => g[i - 1] = f[i - 1]
        BY <3>2
      <4>2. QED
        BY <3>2, <4>1
    <3>3. QED
      BY <3>1, <3>2
  <2>3. g = h
    BY <2>2
  <2>4. Upto(n + 1, g)
    BY <2>3
  <2> HIDE DEF Upto, g
  <2>5. n + 1 \in Nat
    OBVIOUS
  <2>6. QED
    BY <2>4, <2>5
<1>3. Len(s) \in T
  <2> HIDE DEF T
  <2>1. 0..Len(s) \subseteq T
    BY <1>1, <1>2, UpTo
  <2>2. QED
    BY <2>1
<1>4. PICK f : Upto(Len(s), f)
  BY <1>3
<1>5. Parts(s, f)
  BY <1>4 DEF Parts
<1>6. QED
  BY <1>5

LEMMA FlattenIsParts ==
  ASSUME NEW s, Len(s) \in Nat \ {0}
  PROVE  \E parts : Parts(s, parts) /\ FlattenSeq(s) = parts[Len(s)]
<1>1. \E parts : Parts(s, parts)
  BY PartsExist
<1> DEFINE P == CHOOSE parts : Parts(s, parts)
<1>2. Parts(s, P)
  BY <1>1
<1>3. FlattenSeq(s) = P[Len(s)]
  BY DEF FlattenSeq, Parts
<1>4. QED
  BY <1>2, <1>3

LEMMA PartsPointwise ==
  ASSUME NEW s, Len(s) \in Nat, NEW parts, Parts(s, parts), NEW i \in 1..Len(s)
  PROVE  parts[i] = IF i = 1 THEN s[i] ELSE parts[i - 1] \o s[i]
<1>1. parts[i] = [k \in 1..Len(s) |-> IF k = 1 THEN s[k] ELSE parts[k - 1] \o s[k]][i]
  BY Zenon DEF Parts
<1>2. QED
  BY <1>1, Zenon

LEMMA JoinedPlace ==
  ASSUME NEW S, NEW a \in Seq(S), NEW b \in Seq(S)
  PROVE  /\ a \o b \in Seq(S) /\ Len(a \o b) = Len(a) + Len(b)
         /\ \A j \in 1..Len(a) : (a \o b)[j] = a[j]
         /\ \A j \in 1..Len(b) : (a \o b)[Len(a) + j] = b[j]
  OBVIOUS

\* base[i] elements come before those of sequence i + 1.
LEMMA FlattenPlace ==
  ASSUME NEW S, NEW s \in Seq(Seq(S))
  PROVE  /\ FlattenSeq(s) \in Seq(S)
         /\ \E base \in [0..Len(s) -> Nat] :
              /\ base[0] = 0 /\ Len(FlattenSeq(s)) = base[Len(s)]
              /\ \A i \in 1..Len(s) :
                   /\ base[i] = base[i - 1] + Len(s[i])
                   /\ \A j \in 1..Len(s[i]) : FlattenSeq(s)[base[i - 1] + j] = s[i][j]
<1>0. Len(s) \in Nat /\ \A i \in 1..Len(s) : s[i] \in Seq(S) /\ Len(s[i]) \in Nat
  OBVIOUS
<1>1. CASE Len(s) = 0
  <2>1. s = <<>> /\ FlattenSeq(s) = <<>>
    BY <1>1 DEF FlattenSeq
  <2> DEFINE base == [i \in 0..0 |-> 0]
  <2>2. base \in [0..Len(s) -> Nat] /\ base[0] = 0 /\ Len(FlattenSeq(s)) = base[Len(s)]
    BY <1>1, <2>1
  <2> HIDE DEF base
  <2>3. 1..Len(s) = {} /\ <<>> \in Seq(S)
    BY <1>1
  <2>4. QED
    BY <2>1, <2>2, <2>3
<1>2. CASE Len(s) # 0
  <2>1. PICK parts : Parts(s, parts) /\ FlattenSeq(s) = parts[Len(s)]
    BY <1>0, <1>2, FlattenIsParts
  <2> DEFINE base == [i \in 0..Len(s) |-> IF i = 0 THEN 0 ELSE Len(parts[i])]
             Good(n) == n = 0 \/ ( /\ parts[n] \in Seq(S)
                                   /\ base[n] = base[n - 1] + Len(s[n])
                                   /\ \A i \in 1..n : \A j \in 1..Len(s[i]) :
                                        base[i - 1] + j \in DOMAIN parts[n]
                                        /\ parts[n][base[i - 1] + j] = s[i][j])
             T == {n \in 0..Len(s) : Good(n)}
  <2>0. base[0] = 0 /\ \A i \in 1..Len(s) : base[i] = Len(parts[i])
    BY <1>0
  <2>9. base = [i \in 0..Len(s) |-> base[i]]
    OBVIOUS
  <2> HIDE DEF base
  <2>2. 0 \in T
    BY <1>0
  <2>3. ASSUME NEW n \in 0..(Len(s) - 1), n \in T
        PROVE  n + 1 \in T
    <3>1. n + 1 \in 1..Len(s) /\ n + 1 \in 0..Len(s) /\ n \in Nat /\ (n + 1) - 1 = n /\ n \in 0..Len(s)
      BY <1>0
    <3>2. parts[n + 1] = IF n + 1 = 1 THEN s[n + 1] ELSE parts[n] \o s[n + 1]
      <4>1. PICK k : k = n + 1
        OBVIOUS
      <4>2. k \in 1..Len(s) /\ k - 1 = n
        BY <3>1, <4>1
      <4>3. parts[k] = IF k = 1 THEN s[k] ELSE parts[k - 1] \o s[k]
        BY <1>0, <2>1, <4>2, PartsPointwise, Zenon
      <4>4. QED
        BY <4>1, <4>2, <4>3
    <3>3. CASE n = 0
      <4>1. parts[1] = s[1] /\ base[0] = 0 /\ base[1] = Len(s[1])
        BY <2>0, <3>1, <3>2, <3>3
      <4>2. s[1] \in Seq(S) /\ Len(s[1]) \in Nat /\ 1..1 = {1} /\ 1 - 1 = 0
        BY <1>0, <3>1, <3>3
      <4>3. \A j \in 1..Len(s[1]) : 0 + j \in DOMAIN parts[1] /\ parts[1][0 + j] = s[1][j]
        BY <4>1, <4>2
      <4>4. Good(1)
        BY <4>1, <4>2, <4>3
      <4>5. QED
        BY <3>1, <3>3, <4>4
    <3>4. CASE n # 0
      <4>1. Good(n) /\ n \in 1..Len(s)
        BY <2>3, <3>1, <3>4
      <4>2. PICK a, b, c : a = parts[n] /\ b = s[n + 1] /\ c = parts[n + 1]
        OBVIOUS
      <4>3. a \in Seq(S) /\ b \in Seq(S)
        <5>1. Good(n)
          BY <4>1
        <5>2. parts[n] \in Seq(S)
          BY <5>1, <3>4
        <5>3. s[n + 1] \in Seq(S)
          BY <1>0, <3>1
        <5>4. QED
          BY <4>2, <5>2, <5>3, Zenon
      <4>8. c = a \o b
        <5>1. n + 1 # 1
          BY <3>1, <3>4
        <5>2. parts[n + 1] = parts[n] \o s[n + 1]
          BY <3>2, <5>1, Zenon
        <5>3. QED
          BY <4>2, <5>2, Zenon
      <4>4. /\ c \in Seq(S) /\ Len(c) = Len(a) + Len(b)
            /\ \A j \in 1..Len(a) : c[j] = a[j]
            /\ \A j \in 1..Len(b) : c[Len(a) + j] = b[j]
        BY <4>3, <4>8, JoinedPlace
      <4>9. Len(a) \in Nat /\ Len(b) \in Nat /\ DOMAIN a = 1..Len(a) /\ DOMAIN c = 1..Len(c)
        BY <4>3, <4>4
      <4>5. ASSUME NEW i \in 1..(n + 1), NEW j \in 1..Len(s[i])
            PROVE  /\ base[i - 1] + j \in DOMAIN c
                   /\ c[base[i - 1] + j] = s[i][j]
        <5>1. CASE i \in 1..n
          <6>1. base[i - 1] + j \in DOMAIN a /\ a[base[i - 1] + j] = s[i][j]
            BY <4>1, <4>2, <3>4, <5>1
          <6>2. PICK d : d = base[i - 1] + j
            OBVIOUS
          <6>3. d \in 1..Len(a) /\ d \in 1..Len(c)
            BY <6>1, <6>2, <4>4, <4>9
          <6>4. QED
            BY <6>1, <6>2, <6>3, <4>4, <4>9
        <5>2. CASE i = n + 1
          <6>1. i - 1 = n /\ base[i - 1] = Len(a) /\ s[i] = b
            BY <5>2, <2>0, <4>1, <4>2, <3>1
          <6>2. Len(a) + j \in 1..Len(c)
            BY <6>1, <4>4, <4>9
          <6>3. QED
            BY <6>1, <6>2, <4>4, <4>9
        <5>3. QED
          BY <5>1, <5>2, <3>1
      <4>6. base[n + 1] = base[n] + Len(s[n + 1])
        <5>1. base[n] = Len(a) /\ base[n + 1] = Len(c)
          BY <2>0, <3>1, <4>1, <4>2
        <5>2. QED
          BY <5>1, <4>2, <4>4
      <4>7. QED
        BY <3>1, <4>2, <4>4, <4>5, <4>6
    <3>5. QED
      BY <3>3, <3>4
  <2>4. \A n \in 0..Len(s) : Good(n)
    <3> HIDE DEF Good
    <3>1. 0..Len(s) \subseteq T
      BY <1>0, <2>2, <2>3, UpTo
    <3>2. QED
      BY <3>1
  <2>5. base \in [0..Len(s) -> Nat]
    <3>1. ASSUME NEW i \in 0..Len(s)
          PROVE  base[i] \in Nat
      <4>1. CASE i = 0
        BY <2>0, <4>1
      <4>2. CASE i # 0
        <5>1. parts[i] \in Seq(S)
          BY <2>4, <4>2
        <5>2. QED
          BY <2>0, <5>1, <4>2
      <4>3. QED
        BY <4>1, <4>2
    <3>2. QED
      BY <2>9, <3>1
  <2>6. /\ base[0] = 0 /\ base[Len(s)] = Len(parts[Len(s)]) /\ parts[Len(s)] \in Seq(S)
        /\ \A i \in 1..Len(s) : \A j \in 1..Len(s[i]) : parts[Len(s)][base[i - 1] + j] = s[i][j]
    <3>1. Good(Len(s)) /\ base[0] = 0 /\ base[Len(s)] = Len(parts[Len(s)])
      <4>1. Len(s) \in 0..Len(s) /\ Len(s) \in 1..Len(s)
        BY <1>0, <1>2
      <4>2. base[0] = 0 /\ base[Len(s)] = Len(parts[Len(s)])
        BY <2>0, <4>1
      <4> HIDE DEF Good
      <4>3. Good(Len(s))
        BY <2>4, <4>1, Zenon
      <4>4. QED
        BY <4>2, <4>3
    <3>2. /\ parts[Len(s)] \in Seq(S)
          /\ \A i \in 1..Len(s) : \A j \in 1..Len(s[i]) : parts[Len(s)][base[i - 1] + j] = s[i][j]
      BY <3>1, <1>2, Zenon
    <3>3. QED
      BY <3>1, <3>2
  <2>7. \A i \in 1..Len(s) : base[i] = base[i - 1] + Len(s[i])
    <3>1. ASSUME NEW i \in 1..Len(s)
          PROVE  base[i] = base[i - 1] + Len(s[i])
      <4>1. Good(i) /\ i # 0
        BY <2>4, <1>0
      <4>2. QED
        BY <4>1
    <3>2. QED
      BY <3>1
  <2>8. QED
    BY <2>1, <2>5, <2>6, <2>7
<1>3. QED
  BY <1>1, <1>2

LEMMA BaseGrows ==
  ASSUME NEW n \in Nat, NEW len \in [1..n -> Nat], NEW base \in [0..n -> Nat],
         \A i \in 1..n : base[i] = base[i - 1] + len[i],
         NEW i \in 0..n, NEW j \in i..n
  PROVE  base[i] <= base[j]
<1> DEFINE T == {k \in 0..n : k >= i => base[i] <= base[k]}
<1>1. 0 \in T
  <2>1. 0 >= i => i = 0
    OBVIOUS
  <2>2. base[0] \in Nat
    OBVIOUS
  <2>3. QED
    BY <2>1, <2>2
<1>2. ASSUME NEW k \in 0..(n - 1), k \in T
      PROVE  k + 1 \in T
  <2>1. k + 1 \in 1..n /\ (k + 1) - 1 = k
    OBVIOUS
  <2>2. base[k + 1] = base[k] + len[k + 1] /\ len[k + 1] \in Nat /\ base[k] \in Nat /\ base[i] \in Nat
    BY <2>1
  <2>3. CASE k + 1 = i
    BY <2>1, <2>2, <2>3
  <2>4. CASE k + 1 # i
    BY <1>2, <2>1, <2>2, <2>4
  <2>5. QED
    BY <2>3, <2>4
<1>3. 0..n \subseteq T
  <2> HIDE DEF T
  <2>1. QED
    BY <1>1, <1>2, UpTo
<1>4. j \in T /\ j >= i
  BY <1>3
<1>5. QED
  BY <1>4

LEMMA PlaceFound ==
  ASSUME NEW n \in Nat, NEW len \in [1..n -> Nat], NEW base \in [0..n -> Nat], base[0] = 0,
         \A i \in 1..n : base[i] = base[i - 1] + len[i],
         NEW p \in 1..base[n]
  PROVE  \E i \in 1..n : base[i - 1] < p /\ p <= base[i]
<1> DEFINE T == {i \in 0..n : p <= base[i]}
<1>1. T \in SUBSET Nat /\ n \in T
  OBVIOUS
<1>2. PICK i \in T : \A k \in T : i <= k
  <2> HIDE DEF T
  <2>1. QED
    BY <1>1, LeastOf
<1>3. i \in 0..n /\ p <= base[i]
  BY <1>2
<1>4. i # 0
  BY <1>3
<1>5. i \in 1..n /\ i - 1 \in 0..n /\ i - 1 \notin T
  BY <1>2, <1>3, <1>4
<1>6. base[i] = base[i - 1] + len[i] /\ base[i - 1] \in Nat /\ len[i] \in Nat /\ ~(p <= base[i - 1])
  BY <1>5
<1>7. QED
  BY <1>3, <1>5, <1>6

-----------------------------------------------------------------------------
(***************************************************************************)
(* The registers of a solution                                             *)
(***************************************************************************)
Sols == Seq({0} \cup DOMAIN Clause)

LEMMA ClauseNotZero ==
  ASSUME NEW c \in DOMAIN Clause
  PROVE  /\ c # 0
         /\ Clause[c].csr \in Csrs \cup {None}
         /\ Clause[c].mask \in SUBSET Bits /\ Clause[c].val \in SUBSET Bits
<1>1. c \in Nat \ {0} /\ Clause[c] \in [csr : Csrs \cup {None}, mod : {None, "old", "write"}, shift : BOOLEAN,
                 mask : SUBSET Bits, val : SUBSET Bits]
  BY ClauseAssumption
<1>2. QED
  BY <1>1

LEMMA CsrRegType ==
  ASSUME NEW c \in {0} \cup DOMAIN Clause
  PROVE  CsrReg(c) \in Csrs \cup {None}
  BY ClauseNotZero DEF CsrReg

\* PlainKeys adds the registers of the clauses one by one.
KeyStep(sol, n, keys) ==
  IF sol[n] \in Used(sol) /\ CsrReg(sol[n]) \notin ToSet(keys) \cup {reg_with_mod(sol)}
  THEN Append(keys, CsrReg(sol[n])) ELSE keys
KeysUpto(sol, n, f) == f = [k \in 0..n |-> IF k = 0 THEN <<>> ELSE KeyStep(sol, k, f[k - 1])]

LEMMA KeysExist ==
  ASSUME NEW sol, Len(sol) \in Nat
  PROVE  \E f : KeysUpto(sol, Len(sol), f)
<1> DEFINE T == {n \in Nat : \E f : KeysUpto(sol, n, f)}
<1>1. 0 \in T
  <2> DEFINE f == [k \in 0..0 |-> <<>>]
             h == [k \in 0..0 |-> IF k = 0 THEN <<>> ELSE KeyStep(sol, k, f[k - 1])]
  <2>1. f = h
    OBVIOUS
  <2>2. KeysUpto(sol, 0, f)
    BY <2>1, Zenon DEF KeysUpto
  <2> HIDE DEF f
  <2>3. QED
    BY <2>2
<1>2. ASSUME NEW n \in T
      PROVE  n + 1 \in T
  <2>1. PICK f : KeysUpto(sol, n, f)
    OBVIOUS
  <2> DEFINE g == [k \in 0..(n + 1) |-> IF k <= n THEN f[k] ELSE KeyStep(sol, k, f[k - 1])]
             h == [k \in 0..(n + 1) |-> IF k = 0 THEN <<>> ELSE KeyStep(sol, k, g[k - 1])]
  <2>2. ASSUME NEW k \in 0..(n + 1)
        PROVE  g[k] = h[k]
    <3>0. n \in Nat
      OBVIOUS
    <3>1. CASE k <= n
      <4>1. f[k] = [l \in 0..n |-> IF l = 0 THEN <<>> ELSE KeyStep(sol, l, f[l - 1])][k]
        BY <2>1, Zenon DEF KeysUpto
      <4>2. k \in 0..n
        BY <3>1
      <4>3. f[k] = IF k = 0 THEN <<>> ELSE KeyStep(sol, k, f[k - 1])
        BY <4>1, <4>2, Zenon
      <4>4. k # 0 => g[k - 1] = f[k - 1]
        BY <3>0, <3>1
      <4>5. g[k] = f[k]
        BY <3>1
      <4> HIDE DEF g
      <4>6. QED
        BY <4>3, <4>4, <4>5
    <3>2. CASE k = n + 1
      <4>1. g[k - 1] = f[k - 1] /\ k # 0
        BY <3>0, <3>2
      <4>2. g[k] = KeyStep(sol, k, f[k - 1])
        BY <3>0, <3>2
      <4> HIDE DEF g
      <4>3. QED
        BY <4>1, <4>2
    <3>3. QED
      BY <3>0, <3>1, <3>2
  <2>3. g = h
    BY <2>2
  <2>4. KeysUpto(sol, n + 1, g)
    BY <2>3, Zenon DEF KeysUpto
  <2> HIDE DEF g
  <2>5. n + 1 \in Nat
    OBVIOUS
  <2>6. QED
    BY <2>4, <2>5
<1>3. Len(sol) \in T
  <2> HIDE DEF T
  <2>1. 0..Len(sol) \subseteq T
    BY <1>1, <1>2, UpTo
  <2>2. QED
    BY <2>1
<1>4. QED
  BY <1>3

LEMMA KeysPointwise ==
  ASSUME NEW sol, NEW n \in Nat, NEW f, KeysUpto(sol, n, f), NEW k \in 0..n
  PROVE  f[k] = IF k = 0 THEN <<>> ELSE KeyStep(sol, k, f[k - 1])
<1>1. f[k] = [l \in 0..n |-> IF l = 0 THEN <<>> ELSE KeyStep(sol, l, f[l - 1])][k]
  BY Zenon DEF KeysUpto
<1>2. QED
  BY <1>1, Zenon

LEMMA PlainKeysAre ==
  ASSUME NEW sol, Len(sol) \in Nat
  PROVE  \E f : KeysUpto(sol, Len(sol), f) /\ PlainKeys(sol) = f[Len(sol)]
<1>1. \E f : KeysUpto(sol, Len(sol), f)
  BY KeysExist
<1> DEFINE F == CHOOSE f : KeysUpto(sol, Len(sol), f)
<1>2. KeysUpto(sol, Len(sol), F)
  BY <1>1
<1>3. PlainKeys(sol) = F[Len(sol)]
  BY DEF PlainKeys, KeysUpto, KeyStep
<1>4. QED
  BY <1>2, <1>3

CsrsIn(sol) == {CsrReg(c) : c \in ToSet(sol)} \ {None}

LEMMA InCsrsIn ==
  ASSUME NEW sol \in Sols, NEW k \in 1..Len(sol)
  PROVE  /\ sol[k] \in ToSet(sol) /\ sol[k] \in {0} \cup DOMAIN Clause
         /\ CsrReg(sol[k]) # None => CsrReg(sol[k]) \in CsrsIn(sol)
<1>1. sol[k] \in ToSet(sol) /\ sol[k] \in {0} \cup DOMAIN Clause
  BY DEF Sols, ToSet
<1>2. QED
  BY <1>1 DEF CsrsIn

LEMMA CsrsInType ==
  ASSUME NEW sol \in Sols
  PROVE  CsrsIn(sol) \in SUBSET (Csrs \ {None})
<1>1. ToSet(sol) \in SUBSET ({0} \cup DOMAIN Clause)
  BY DEF Sols, ToSet
<1>2. QED
  BY <1>1, CsrRegType DEF CsrsIn

LEMMA RegWithMod ==
  ASSUME NEW sol \in Sols
  PROVE  reg_with_mod(sol) \in CsrsIn(sol) \cup {None}
<1> DEFINE m == {k \in DOMAIN sol : CsrReg(sol[k]) # None /\ Clause[sol[k]].mod # None}
<1>1. CASE m = {}
  BY <1>1 DEF reg_with_mod
<1>2. CASE m # {}
  <2>1. DOMAIN sol = 1..Len(sol) /\ Len(sol) \in Nat
    BY DEF Sols
  <2>2. m \in SUBSET Nat
    BY <2>1
  <2>3. \E x \in m : \A y \in m : x <= y
    <3> HIDE DEF m
    <3>1. QED
      BY <1>2, <2>2, LeastOf
  <2>4. Min(m) \in m
    <3> HIDE DEF m
    <3>1. QED
      BY <2>3 DEF Min
  <2>5. reg_with_mod(sol) = CsrReg(sol[Min(m)])
    BY <1>2 DEF reg_with_mod
  <2>6. PICK k : k = Min(m)
    OBVIOUS
  <2>7. k \in 1..Len(sol) /\ CsrReg(sol[k]) # None
    BY <2>1, <2>4, <2>6
  <2> HIDE DEF m
  <2>8. QED
    BY <2>5, <2>6, <2>7, InCsrsIn
<1>3. QED
  BY <1>1, <1>2

Distinct(s) == \A i, j \in 1..Len(s) : s[i] = s[j] => i = j

LEMMA AppendNew ==
  ASSUME NEW S, NEW s \in Seq(S), NEW x \in S, Distinct(s), x \notin ToSet(s)
  PROVE  Append(s, x) \in Seq(S) /\ Distinct(Append(s, x))
<1>1. /\ Append(s, x) \in Seq(S) /\ Len(Append(s, x)) = Len(s) + 1 /\ Len(s) \in Nat
      /\ \A k \in 1..Len(s) : Append(s, x)[k] = s[k]
      /\ Append(s, x)[Len(s) + 1] = x
  OBVIOUS
<1>2. \A k \in 1..Len(s) : s[k] # x
  BY DEF ToSet
<1>3. PICK t : t = Append(s, x)
  OBVIOUS
<1>4. ASSUME NEW i \in 1..Len(t), NEW j \in 1..Len(t), t[i] = t[j]
      PROVE  i = j
  <2>1. i \in 1..Len(s) \/ i = Len(s) + 1
    BY <1>1, <1>3
  <2>2. j \in 1..Len(s) \/ j = Len(s) + 1
    BY <1>1, <1>3
  <2>3. QED
    BY <1>1, <1>2, <1>3, <1>4, <2>1, <2>2 DEF Distinct
<1>5. QED
  BY <1>1, <1>3, <1>4 DEF Distinct

LEMMA PlainKeysType ==
  ASSUME NEW sol \in Sols
  PROVE  /\ PlainKeys(sol) \in Seq(CsrsIn(sol) \ {reg_with_mod(sol)})
         /\ Distinct(PlainKeys(sol))
<1>0. Len(sol) \in Nat
  BY DEF Sols
<1>1. PICK f : KeysUpto(sol, Len(sol), f) /\ PlainKeys(sol) = f[Len(sol)]
  BY <1>0, PlainKeysAre
<1> DEFINE S == CsrsIn(sol) \ {reg_with_mod(sol)}
           T == {n \in 0..Len(sol) : f[n] \in Seq(S) /\ Distinct(f[n])}
<1>2. 0 \in T
  <2>1. f[0] = <<>>
    <3>1. 0 \in 0..Len(sol)
      BY <1>0
    <3>2. f[0] = IF 0 = 0 THEN <<>> ELSE KeyStep(sol, 0, f[0 - 1])
      BY <1>0, <1>1, <3>1, KeysPointwise, Zenon
    <3>3. QED
      BY <3>2
  <2>2. Distinct(<<>>)
    BY DEF Distinct
  <2>3. <<>> \in Seq(S) /\ 0 \in 0..Len(sol)
    BY <1>0
  <2>4. QED
    BY <2>1, <2>2, <2>3
<1>3. ASSUME NEW n \in 0..(Len(sol) - 1), n \in T
      PROVE  n + 1 \in T
  <2>1. n + 1 \in 0..Len(sol) /\ n + 1 \in 1..Len(sol) /\ n + 1 # 0 /\ (n + 1) - 1 = n
    BY <1>0
  <2>2. f[n + 1] = KeyStep(sol, n + 1, f[n])
    BY <1>0, <1>1, <2>1, KeysPointwise
  <2>3. PICK s, x : s = f[n] /\ x = CsrReg(sol[n + 1])
    OBVIOUS
  <2>4. s \in Seq(S) /\ Distinct(s)
    BY <1>3, <2>3
  <2>5. CASE sol[n + 1] \in Used(sol) /\ x \notin ToSet(s) \cup {reg_with_mod(sol)}
    <3>1. x # None /\ x # reg_with_mod(sol) /\ x \notin ToSet(s)
      BY <2>3, <2>5 DEF Used
    <3>2. x \in S
      BY <2>1, <2>3, <3>1, InCsrsIn
    <3>3. f[n + 1] = Append(s, x)
      BY <2>2, <2>3, <2>5 DEF KeyStep
    <3> HIDE DEF S
    <3>4. f[n + 1] \in Seq(S) /\ Distinct(f[n + 1])
      BY <2>4, <3>1, <3>2, <3>3, AppendNew
    <3>5. QED
      BY <2>1, <3>4
  <2>6. CASE ~(sol[n + 1] \in Used(sol) /\ x \notin ToSet(s) \cup {reg_with_mod(sol)})
    <3>1. f[n + 1] = s
      BY <2>2, <2>3, <2>6 DEF KeyStep
    <3>2. QED
      BY <2>1, <2>4, <3>1
  <2>7. QED
    BY <2>5, <2>6
<1>4. 0..Len(sol) \subseteq T
  <2> HIDE DEF T
  <2>1. QED
    BY <1>0, <1>2, <1>3, UpTo
<1>5. Len(sol) \in T
  BY <1>0, <1>4
<1>6. QED
  BY <1>1, <1>5

LEMMA ReverseIs ==
  ASSUME NEW S, NEW s \in Seq(S)
  PROVE  /\ Reverse(s) \in Seq(S) /\ Len(Reverse(s)) = Len(s)
         /\ \A k \in 1..Len(s) : Reverse(s)[k] = s[Len(s) + 1 - k]
<1>1. Len(s) \in Nat
  OBVIOUS
<1>2. Reverse(s) = [k \in 1..Len(s) |-> s[(Len(s) - k) + 1]]
  BY DEF Reverse
<1>3. \A k \in 1..Len(s) : (Len(s) - k) + 1 = Len(s) + 1 - k /\ Len(s) + 1 - k \in 1..Len(s)
  BY <1>1
<1>4. QED
  BY <1>1, <1>2, <1>3

\* Each CSR once.
LEMMA ArrIs ==
  ASSUME NEW sol \in Sols
  PROVE  /\ reg_mask_val_arr(sol) \in Seq(CsrsIn(sol))
         /\ Distinct(reg_mask_val_arr(sol))
<1>1. PICK s : s = Reverse(PlainKeys(sol))
  OBVIOUS
<1>2. PICK r : r = reg_with_mod(sol)
  OBVIOUS
<1>3. PICK p : p = PlainKeys(sol)
  OBVIOUS
<1>4. p \in Seq(CsrsIn(sol) \ {r}) /\ Distinct(p)
  BY <1>2, <1>3, PlainKeysType
<1>5. /\ s \in Seq(CsrsIn(sol) \ {r}) /\ Len(s) = Len(p) /\ Len(p) \in Nat
      /\ \A k \in 1..Len(s) : s[k] = p[Len(p) + 1 - k]
  BY <1>1, <1>3, <1>4, ReverseIs
<1>6. Distinct(s)
  <2>1. ASSUME NEW i \in 1..Len(s), NEW j \in 1..Len(s), s[i] = s[j]
        PROVE  i = j
    <3>1. Len(p) + 1 - i \in 1..Len(p) /\ Len(p) + 1 - j \in 1..Len(p)
      BY <1>5
    <3>2. Len(p) + 1 - i = Len(p) + 1 - j
      BY <1>4, <1>5, <2>1, <3>1 DEF Distinct
    <3>3. QED
      BY <1>5, <3>2
  <2>2. QED
    BY <2>1 DEF Distinct
<1>7. r \in CsrsIn(sol) \cup {None}
  BY <1>2, RegWithMod
<1>8. reg_mask_val_arr(sol) = s \o (IF r = None THEN <<>> ELSE <<r>>)
  BY <1>1, <1>2 DEF reg_mask_val_arr
<1>9. CASE r = None
  <2>1. reg_mask_val_arr(sol) = s /\ s \in Seq(CsrsIn(sol))
    BY <1>5, <1>8, <1>9
  <2>2. QED
    BY <2>1, <1>6
<1>10. CASE r # None
  <2>1. s \o <<r>> = Append(s, r) /\ s \in Seq(CsrsIn(sol)) /\ r \in CsrsIn(sol)
    <3>1. s \in Seq(CsrsIn(sol)) /\ r \in CsrsIn(sol)
      BY <1>5, <1>7, <1>10
    <3>2. s \o <<r>> = Append(s, r)
      BY <3>1
    <3>3. QED
      BY <3>1, <3>2
  <2>2. r \notin ToSet(s)
    BY <1>5 DEF ToSet
  <2>3. Append(s, r) \in Seq(CsrsIn(sol)) /\ Distinct(Append(s, r))
    BY <1>6, <2>1, <2>2, AppendNew
  <2>4. QED
    BY <1>8, <1>10, <2>1, <2>3
<1>11. QED
  BY <1>9, <1>10

-----------------------------------------------------------------------------
(***************************************************************************)
(* The macros of an instance                                               *)
(***************************************************************************)
Fields == [csr : Csrs, mask : SUBSET Bits, val : SUBSET Bits]

LEMMA FieldType ==
  ASSUME NEW sol \in Sols, NEW r \in Csrs, NEW m
  PROVE  Field(sol, r, m) \in Seq(Fields)
<1>1. ASSUME NEW c \in With(sol, r, m)
      PROVE  Clause[c].mask \in SUBSET Bits /\ Clause[c].val \in SUBSET Bits
  <2>1. c \in ToSet(sol) /\ CsrReg(c) # None
    BY DEF With, Used
  <2>2. c \in {0} \cup DOMAIN Clause
    BY <2>1 DEF Sols, ToSet
  <2>3. c # 0
    BY <2>1 DEF CsrReg
  <2>4. QED
    BY <2>2, <2>3, ClauseNotZero
<1>2. Mask(sol, r, m) \in SUBSET Bits
  BY <1>1 DEF Mask
<1>3. Val(sol, r, m) \in SUBSET Bits
  BY <1>1 DEF Val
<1>4. PICK f : f = [csr |-> r, mask |-> Mask(sol, r, m), val |-> Val(sol, r, m)]
  OBVIOUS
<1>5. f \in Fields
  BY <1>2, <1>3, <1>4 DEF Fields
<1>6. Field(sol, r, m) = <<>> \/ Field(sol, r, m) = <<f>>
  BY <1>4 DEF Field
<1>7. PICK F : F = Fields
  OBVIOUS
<1>8. <<>> \in Seq(F) /\ <<f>> \in Seq(F)
  BY <1>5, <1>7
<1>9. QED
  BY <1>6, <1>7, <1>8

LEMMA FieldWritesType ==
  ASSUME NEW sol \in Sols, NEW r \in Csrs
  PROVE  FieldWrites(sol, r) \in Seq(Fields)
<1>1. PICK a, b, c : a = Field(sol, r, "old") /\ b = Field(sol, r, "write") /\ c = Field(sol, r, None)
  OBVIOUS
<1>2. a \in Seq(Fields) /\ b \in Seq(Fields) /\ c \in Seq(Fields)
  BY <1>1, FieldType
<1>3. a \o b \in Seq(Fields) /\ a \o c \in Seq(Fields)
  BY <1>2, JoinedPlace
<1>4. FieldWrites(sol, r) = a \o b \/ FieldWrites(sol, r) = a \o c
  BY <1>1 DEF FieldWrites
<1>5. QED
  BY <1>3, <1>4

\* A sequence given by its elements.
LEMMA SeqOfElements ==
  ASSUME NEW S, NEW n \in Nat, NEW f, f = [k \in 1..n |-> f[k]], \A k \in 1..n : f[k] \in S
  PROVE  f \in Seq(S) /\ Len(f) = n /\ DOMAIN f = 1..n
<1>1. f \in [1..n -> S]
  OBVIOUS
<1>2. QED
  BY <1>1

LEMMA ArrType ==
  ASSUME NEW sol \in Sols
  PROVE  /\ reg_mask_val_arr(sol) \in Seq(Csrs) /\ Len(reg_mask_val_arr(sol)) \in Nat
         /\ DOMAIN reg_mask_val_arr(sol) = 1..Len(reg_mask_val_arr(sol))
         /\ \A k \in 1..Len(reg_mask_val_arr(sol)) : reg_mask_val_arr(sol)[k] \in Csrs
<1>1. PICK s : s = reg_mask_val_arr(sol)
  OBVIOUS
<1>2. PICK C : C = CsrsIn(sol)
  OBVIOUS
<1>3. s \in Seq(C)
  BY <1>1, <1>2, ArrIs
<1>4. C \in SUBSET Csrs
  BY <1>2, CsrsInType
<1>5. s \in Seq(Csrs)
  BY <1>3, <1>4
<1>6. QED
  BY <1>1, <1>5

LEMMA WritesAre ==
  ASSUME NEW sol \in Sols
  PROVE  /\ CsrWrites(sol) \in Seq(Write) /\ Len(CsrWrites(sol)) \in Nat
         /\ DOMAIN CsrWrites(sol) = 1..Len(CsrWrites(sol))
         /\ \A k \in 1..Len(CsrWrites(sol)) :
              CsrWrites(sol)[k] \in Write /\ CsrWrites(sol)[k].restore_reg = k
<1>1. PICK regs : regs = reg_mask_val_arr(sol)
  OBVIOUS
<1>2. regs \in Seq(Csrs) /\ Len(regs) \in Nat /\ DOMAIN regs = 1..Len(regs) /\ \A k \in 1..Len(regs) : regs[k] \in Csrs
  BY <1>1, ArrType
<1>3. PICK s : s = [k \in DOMAIN regs |-> FieldWrites(sol, regs[k])]
  OBVIOUS
<1>4. s \in Seq(Seq(Fields))
  <2>1. \A k \in 1..Len(regs) : s[k] \in Seq(Fields)
    BY <1>2, <1>3, FieldWritesType
  <2>2. s = [k \in 1..Len(regs) |-> s[k]]
    BY <1>2, <1>3
  <2>3. QED
    BY <1>2, <2>1, <2>2, SeqOfElements
<1>5. PICK w : w = FlattenSeq(s)
  OBVIOUS
<1>6. w \in Seq(Fields)
  BY <1>4, <1>5, FlattenPlace
<1>7. PICK v : v = [k \in DOMAIN w |-> [do |-> "write", csr |-> w[k].csr, mask |-> w[k].mask,
                                        val |-> w[k].val, restore_reg |-> k]]
  OBVIOUS
<1>8. CsrWrites(sol) = v
  BY <1>1, <1>3, <1>5, <1>7 DEF CsrWrites
<1>9. Len(w) \in Nat /\ DOMAIN w = 1..Len(w)
  BY <1>6
<1>10. ASSUME NEW k \in 1..Len(w)
       PROVE  v[k] \in Write /\ v[k].restore_reg = k
  <2>1. w[k] \in Fields /\ k \in Nat
    BY <1>6, <1>9
  <2>2. v[k] = [do |-> "write", csr |-> w[k].csr, mask |-> w[k].mask, val |-> w[k].val, restore_reg |-> k]
    BY <1>7, <1>9
  <2>3. QED
    BY <2>1, <2>2 DEF Fields, Write
<1>11. v = [k \in 1..Len(w) |-> v[k]]
  BY <1>7, <1>9
<1>12. v \in Seq(Write) /\ Len(v) = Len(w) /\ DOMAIN v = 1..Len(w)
  BY <1>9, <1>10, <1>11, SeqOfElements
<1>13. QED
  BY <1>8, <1>9, <1>10, <1>12

LEMMA ReadsAre ==
  ASSUME NEW sol \in Sols, NEW first \in Nat
  PROVE  /\ CsrReads(sol, first) \in Seq(Read)
         /\ Len(CsrReads(sol, first)) = Len(reg_mask_val_arr(sol))
         /\ \A k \in 1..Len(reg_mask_val_arr(sol)) :
              CsrReads(sol, first)[k] \in Read /\ CsrReads(sol, first)[k].offset = first + k - 1
<1>1. PICK regs : regs = reg_mask_val_arr(sol)
  OBVIOUS
<1>2. Len(regs) \in Nat /\ DOMAIN regs = 1..Len(regs) /\ \A k \in 1..Len(regs) : regs[k] \in Csrs
  BY <1>1, ArrType
<1>3. PICK v : v = [k \in DOMAIN regs |-> [do |-> "read", csr |-> regs[k], offset |-> first + k - 1]]
  OBVIOUS
<1>4. CsrReads(sol, first) = v
  BY <1>1, <1>3 DEF CsrReads
<1>5. ASSUME NEW k \in 1..Len(regs)
      PROVE  v[k] \in Read /\ v[k].offset = first + k - 1
  <2>1. v[k] = [do |-> "read", csr |-> regs[k], offset |-> first + k - 1]
    BY <1>2, <1>3
  <2>2. first + k - 1 \in Nat
    OBVIOUS
  <2>3. QED
    BY <1>2, <2>1, <2>2 DEF Read
<1>6. v = [k \in 1..Len(regs) |-> v[k]]
  BY <1>2, <1>3
<1>7. v \in Seq(Read) /\ Len(v) = Len(regs)
  BY <1>2, <1>5, <1>6, SeqOfElements
<1>8. QED
  BY <1>1, <1>4, <1>5, <1>7

LEMMA RestoresAre ==
  ASSUME NEW sol \in Sols
  PROVE  /\ CsrRestores(sol) \in Seq(Restore) /\ Len(CsrRestores(sol)) = Len(CsrWrites(sol))
         /\ \A k \in 1..Len(CsrWrites(sol)) :
              /\ CsrRestores(sol)[k] \in Restore
              /\ CsrRestores(sol)[k].csr = CsrWrites(sol)[Len(CsrWrites(sol)) + 1 - k].csr
              /\ CsrRestores(sol)[k].restore_reg = Len(CsrWrites(sol)) + 1 - k
<1>1. PICK w : w = CsrWrites(sol)
  OBVIOUS
<1>2. Len(w) \in Nat /\ DOMAIN w = 1..Len(w) /\ \A k \in 1..Len(w) : w[k] \in Write
  BY <1>1, WritesAre
<1>3. PICK v : v = [k \in DOMAIN w |-> [do |-> "restore", csr |-> w[k].csr, restore_reg |-> k]]
  OBVIOUS
<1>4. CsrRestores(sol) = Reverse(v)
  BY <1>1, <1>3 DEF CsrRestores
<1>5. ASSUME NEW k \in 1..Len(w)
      PROVE  v[k] \in Restore /\ v[k].csr = w[k].csr /\ v[k].restore_reg = k
  <2>1. v[k] = [do |-> "restore", csr |-> w[k].csr, restore_reg |-> k]
    BY <1>2, <1>3
  <2>2. w[k].csr \in Csrs /\ k \in Nat
    BY <1>2 DEF Write
  <2>3. QED
    BY <2>1, <2>2 DEF Restore
<1>6. v = [k \in 1..Len(w) |-> v[k]]
  BY <1>2, <1>3
<1>7. v \in Seq(Restore) /\ Len(v) = Len(w)
  BY <1>2, <1>5, <1>6, SeqOfElements
<1>8. /\ Reverse(v) \in Seq(Restore) /\ Len(Reverse(v)) = Len(w)
      /\ \A k \in 1..Len(w) : Reverse(v)[k] = v[Len(w) + 1 - k]
  BY <1>7, ReverseIs
<1>9. ASSUME NEW k \in 1..Len(w)
      PROVE  /\ Reverse(v)[k] \in Restore
             /\ Reverse(v)[k].csr = w[Len(w) + 1 - k].csr
             /\ Reverse(v)[k].restore_reg = Len(w) + 1 - k
  <2>1. Len(w) + 1 - k \in 1..Len(w)
    BY <1>2
  <2>2. QED
    BY <1>5, <1>8, <2>1
<1>10. QED
  BY <1>1, <1>4, <1>8, <1>9

\* n writes, r reads, n restores in the opposite order.
Shape(c, n, r, first) ==
  /\ n \in Nat /\ r \in Nat /\ c \in Seq(Write \cup Read \cup Restore) /\ Len(c) = n + r + n
  /\ \A j \in 1..n : /\ c[j] \in Write /\ c[j].restore_reg = j
                     /\ c[n + r + j] \in Restore /\ c[n + r + j].restore_reg = n + 1 - j
                     /\ c[n + r + j].csr = c[n + 1 - j].csr
  /\ \A j \in 1..r : c[n + j] \in Read /\ c[n + j].offset = first + j - 1

InstanceCode(sol, first) == CsrWrites(sol) \o CsrReads(sol, first) \o CsrRestores(sol)

LEMMA CodeShape ==
  ASSUME NEW sol \in Sols, NEW first \in Nat
  PROVE  \E n \in Nat : Shape(InstanceCode(sol, first), n, Len(reg_mask_val_arr(sol)), first)
<1>0. PICK M : M = Write \cup Read \cup Restore
  OBVIOUS
<1>1. PICK w, v, u : w = CsrWrites(sol) /\ v = CsrReads(sol, first) /\ u = CsrRestores(sol)
  OBVIOUS
<1>2. PICK n, r : n = Len(w) /\ r = Len(reg_mask_val_arr(sol))
  OBVIOUS
<1>3. n \in Nat /\ r \in Nat
  BY <1>1, <1>2, WritesAre, ArrType
<1>4. w \in Seq(Write) /\ \A j \in 1..n : w[j] \in Write /\ w[j].restore_reg = j
  BY <1>1, <1>2, WritesAre
<1>5. v \in Seq(Read) /\ Len(v) = r /\ \A j \in 1..r : v[j] \in Read /\ v[j].offset = first + j - 1
  BY <1>1, <1>2, ReadsAre
<1>6. /\ u \in Seq(Restore) /\ Len(u) = n
      /\ \A j \in 1..n : u[j] \in Restore /\ u[j].csr = w[n + 1 - j].csr /\ u[j].restore_reg = n + 1 - j
  BY <1>1, <1>2, RestoresAre
<1>7. w \in Seq(M) /\ v \in Seq(M) /\ u \in Seq(M)
  BY <1>0, <1>4, <1>5, <1>6
<1>8. PICK a, c : a = w \o v /\ c = a \o u
  OBVIOUS
<1>9. /\ a \in Seq(M) /\ Len(a) = n + r
      /\ \A j \in 1..n : a[j] = w[j]
      /\ \A j \in 1..r : a[n + j] = v[j]
  <2>1. a \in Seq(M) /\ Len(a) = Len(w) + Len(v)
    BY <1>7, <1>8, JoinedPlace
  <2>2. \A j \in 1..Len(w) : a[j] = w[j]
    BY <1>7, <1>8, JoinedPlace
  <2>3. \A j \in 1..Len(v) : a[Len(w) + j] = v[j]
    BY <1>7, <1>8, JoinedPlace
  <2>4. QED
    BY <1>2, <1>5, <2>1, <2>2, <2>3
<1>10. /\ c \in Seq(M) /\ Len(c) = (n + r) + n
       /\ \A j \in 1..(n + r) : c[j] = a[j]
       /\ \A j \in 1..n : c[(n + r) + j] = u[j]
  <2>1. c \in Seq(M) /\ Len(c) = Len(a) + Len(u)
    BY <1>7, <1>8, <1>9, JoinedPlace
  <2>2. \A j \in 1..Len(a) : c[j] = a[j]
    BY <1>7, <1>8, <1>9, JoinedPlace
  <2>3. \A j \in 1..Len(u) : c[Len(a) + j] = u[j]
    BY <1>7, <1>8, <1>9, JoinedPlace
  <2>4. QED
    BY <1>6, <1>9, <2>1, <2>2, <2>3
<1>11. ASSUME NEW j \in 1..n
       PROVE  c[j] = w[j] /\ c[n + 1 - j] = w[n + 1 - j]
  <2>1. j \in 1..(n + r) /\ n + 1 - j \in 1..n /\ n + 1 - j \in 1..(n + r)
    BY <1>3
  <2>2. QED
    BY <1>9, <1>10, <2>1
<1>12. ASSUME NEW j \in 1..r
       PROVE  c[n + j] = v[j]
  <2>1. n + j \in 1..(n + r)
    BY <1>3
  <2>2. QED
    BY <1>9, <1>10, <2>1
<1>13. \A j \in 1..n : /\ c[j] \in Write /\ c[j].restore_reg = j
                      /\ c[n + r + j] \in Restore /\ c[n + r + j].restore_reg = n + 1 - j
                      /\ c[n + r + j].csr = c[n + 1 - j].csr
  BY <1>4, <1>6, <1>10, <1>11
<1>14. \A j \in 1..r : c[n + j] \in Read /\ c[n + j].offset = first + j - 1
  BY <1>5, <1>12
<1>15. Shape(c, n, r, first)
  BY <1>0, <1>3, <1>10, <1>13, <1>14 DEF Shape
<1>16. c = InstanceCode(sol, first)
  BY <1>1, <1>8 DEF InstanceCode
<1>17. QED
  BY <1>2, <1>3, <1>15, <1>16

-----------------------------------------------------------------------------
(***************************************************************************)
(* The macros of a file                                                    *)
(***************************************************************************)
Kinds == Write \cup Read \cup Restore
Lines == [inst : Nat, macro : Kinds]

\* The macros of instance i are those after macro b.
Block(c, b, i, n, r, first) ==
  /\ b \in Nat /\ n \in Nat /\ r \in Nat /\ b + n + r + n <= Len(c)
  /\ \A k \in 1..Len(c) : c[k].inst = i => k \in (b + 1)..(b + n + r + n)
  /\ \A k \in (b + 1)..(b + n + r + n) : c[k].inst = i
  /\ \A j \in 1..n : /\ c[b + j].macro \in Write /\ c[b + j].macro.restore_reg = j
                     /\ c[b + n + r + j].macro \in Restore
                     /\ c[b + n + r + j].macro.restore_reg = n + 1 - j
                     /\ c[b + n + r + j].macro.csr = c[b + n + 1 - j].macro.csr
  /\ \A j \in 1..r : c[b + n + j].macro \in Read /\ c[b + n + j].macro.offset = first + j - 1

Words(i) == Len(reg_mask_val_arr(instr_dict[i].sol))

LEMMA InstanceTypes ==
  ASSUME InstInv, NEW i \in 1..Len(instr_dict)
  PROVE  /\ instr_dict[i].sol \in Sols /\ instr_dict[i].first \in Nat
         /\ instr_dict[i].covpt \in DOMAIN csr_comb
         /\ instr_dict[i].code = InstanceCode(instr_dict[i].sol, instr_dict[i].first)
         /\ instr_dict[i].code \in Seq(Kinds) /\ Words(i) \in Nat
         /\ \E n \in Nat : Shape(instr_dict[i].code, n, Words(i), instr_dict[i].first)
<1>1. PICK d : d = instr_dict[i]
  OBVIOUS
<1>2. i \in DOMAIN instr_dict
  BY DEF InstInv
<1>8. PICK D : D = [covpt : DOMAIN csr_comb, sol : Sols, first : Nat, code : Seq(Kinds)]
  OBVIOUS
<1>9. instr_dict \in Seq(D)
  BY <1>8 DEF InstInv, Sols, Kinds
<1>10. d \in D
  BY <1>1, <1>2, <1>9
<1>3. d \in [covpt : DOMAIN csr_comb, sol : Sols, first : Nat, code : Seq(Kinds)]
  BY <1>8, <1>10
<1>4. d.code = InstanceCode(d.sol, d.first)
  BY <1>1, <1>2 DEF InstInv, InstanceCode
<1>5. Len(reg_mask_val_arr(d.sol)) \in Nat
  BY <1>3, ArrType
<1>6. \E n \in Nat : Shape(d.code, n, Len(reg_mask_val_arr(d.sol)), d.first)
  BY <1>3, <1>4, CodeShape
<1>7. QED
  BY <1>1, <1>3, <1>4, <1>5, <1>6 DEF Words

\* After macro b, c has the macros d of instance i.
Copied(c, b, d, i) == \A j \in 1..Len(d) : c[b + j] = [inst |-> i, macro |-> d[j]]

LEMMA MacrosPlaced ==
  ASSUME InstInv
  PROVE  /\ Macros \in Seq(Lines)
         /\ \E base \in [0..Len(instr_dict) -> Nat] :
              /\ base[0] = 0 /\ Len(Macros) = base[Len(instr_dict)]
              /\ \A i \in 1..Len(instr_dict) :
                   /\ base[i] = base[i - 1] + Len(instr_dict[i].code)
                   /\ Copied(Macros, base[i - 1], instr_dict[i].code, i)
<1>1. Len(instr_dict) \in Nat /\ DOMAIN instr_dict = 1..Len(instr_dict)
  BY DEF InstInv
<1>2. PICK s : s = [i \in DOMAIN instr_dict |->
                      [k \in DOMAIN instr_dict[i].code |-> [inst |-> i, macro |-> instr_dict[i].code[k]]]]
  OBVIOUS
<1>3. Macros = FlattenSeq(s)
  BY <1>2 DEF Macros
<1>4. ASSUME NEW i \in 1..Len(instr_dict)
      PROVE  /\ s[i] \in Seq(Lines) /\ Len(s[i]) = Len(instr_dict[i].code)
             /\ \A j \in 1..Len(instr_dict[i].code) :
                  s[i][j] = [inst |-> i, macro |-> instr_dict[i].code[j]]
  <2>1. PICK c : c = instr_dict[i].code
    OBVIOUS
  <2>2. c \in Seq(Kinds)
    BY <2>1, InstanceTypes
  <2>3. Len(c) \in Nat /\ DOMAIN c = 1..Len(c) /\ \A k \in 1..Len(c) : c[k] \in Kinds
    BY <2>2
  <2>4. PICK l : l = [k \in DOMAIN c |-> [inst |-> i, macro |-> c[k]]]
    OBVIOUS
  <2>5. s[i] = l
    BY <1>1, <1>2, <2>1, <2>4
  <2>6. \A k \in 1..Len(c) : l[k] = [inst |-> i, macro |-> c[k]]
    BY <2>3, <2>4
  <2>7. i \in Nat
    BY <1>1
  <2>8. \A k \in 1..Len(c) : l[k] \in Lines
    <3>1. ASSUME NEW k \in 1..Len(c)
          PROVE  l[k] \in Lines
      <4>1. c[k] \in Kinds /\ l[k] = [inst |-> i, macro |-> c[k]]
        BY <2>3, <2>6
      <4>2. QED
        BY <2>7, <4>1 DEF Lines
    <3>2. QED
      BY <3>1
  <2>9. l = [k \in 1..Len(c) |-> l[k]]
    BY <2>3, <2>4
  <2>10. l \in Seq(Lines) /\ Len(l) = Len(c)
    BY <2>3, <2>8, <2>9, SeqOfElements
  <2>11. QED
    BY <2>1, <2>5, <2>6, <2>10
<1>5. s \in Seq(Seq(Lines)) /\ Len(s) = Len(instr_dict)
  <2>1. \A i \in 1..Len(instr_dict) : s[i] \in Seq(Lines)
    BY <1>4
  <2>2. s = [i \in 1..Len(instr_dict) |-> s[i]]
    BY <1>1, <1>2
  <2>3. QED
    BY <1>1, <2>1, <2>2, SeqOfElements
<1>6. FlattenSeq(s) \in Seq(Lines)
  BY <1>5, FlattenPlace
<1>7. PICK base \in [0..Len(s) -> Nat] :
        /\ base[0] = 0 /\ Len(FlattenSeq(s)) = base[Len(s)]
        /\ \A i \in 1..Len(s) :
             /\ base[i] = base[i - 1] + Len(s[i])
             /\ \A j \in 1..Len(s[i]) : FlattenSeq(s)[base[i - 1] + j] = s[i][j]
  BY <1>5, FlattenPlace
<1>8. ASSUME NEW i \in 1..Len(instr_dict)
      PROVE  /\ base[i] = base[i - 1] + Len(instr_dict[i].code)
             /\ Copied(Macros, base[i - 1], instr_dict[i].code, i)
  <2>1. PICK d, b, l : d = instr_dict[i].code /\ b = base[i - 1] /\ l = s[i]
    OBVIOUS
  <2>2. Len(l) = Len(d) /\ \A j \in 1..Len(d) : l[j] = [inst |-> i, macro |-> d[j]]
    BY <1>4, <2>1
  <2>3. base[i] = b + Len(l) /\ \A j \in 1..Len(l) : FlattenSeq(s)[b + j] = l[j]
    BY <1>5, <1>7, <2>1
  <2>4. Copied(Macros, b, d, i)
    BY <1>3, <2>2, <2>3 DEF Copied
  <2>5. QED
    BY <2>1, <2>2, <2>3, <2>4
<1>9. QED
  BY <1>3, <1>5, <1>6, <1>7, <1>8

LEMMA InBlock ==
  ASSUME InstInv, NEW c, c = Macros, NEW p \in 1..Len(c)
  PROVE  /\ c[p].inst \in 1..Len(instr_dict)
         /\ \E b, n \in Nat : /\ Block(c, b, c[p].inst, n, Words(c[p].inst), instr_dict[c[p].inst].first)
                              /\ p \in (b + 1)..(b + n + Words(c[p].inst) + n)
<1>1. PICK N : N = Len(instr_dict)
  OBVIOUS
<1>2. N \in Nat /\ \A i \in 1..N : Len(instr_dict[i].code) \in Nat
  <2>1. N \in Nat
    BY <1>1 DEF InstInv
  <2>2. \A i \in 1..N : instr_dict[i].code \in Seq(Kinds)
    BY <1>1, InstanceTypes
  <2>3. QED
    BY <2>1, <2>2
<1>3. PICK base \in [0..N -> Nat] :
         /\ base[0] = 0 /\ Len(c) = base[N]
         /\ \A i \in 1..N : /\ base[i] = base[i - 1] + Len(instr_dict[i].code)
                            /\ Copied(c, base[i - 1], instr_dict[i].code, i)
  BY <1>1, MacrosPlaced
<1>4. PICK len : len = [i \in 1..N |-> Len(instr_dict[i].code)]
  OBVIOUS
<1>5. len \in [1..N -> Nat] /\ \A i \in 1..N : base[i] = base[i - 1] + len[i]
  BY <1>2, <1>3, <1>4
<1>21. ASSUME NEW k \in 1..Len(c)
       PROVE  \E i \in 1..N : base[i - 1] < k /\ k <= base[i]
  <2>1. k \in 1..base[N]
    BY <1>3
  <2>2. QED
    BY <1>2, <1>3, <1>5, <2>1, PlaceFound
<1>22. ASSUME NEW k \in 1..Len(c), NEW i \in 1..N, base[i - 1] < k, k <= base[i]
       PROVE  c[k].inst = i
  <2>1. PICK d, b : d = instr_dict[i].code /\ b = base[i - 1]
    OBVIOUS
  <2>2. b \in Nat /\ base[i] = b + Len(d) /\ Len(d) \in Nat /\ Copied(c, b, d, i)
    <3>1. i - 1 \in 0..N
      BY <1>2
    <3>2. QED
      BY <3>1, <1>2, <1>3, <2>1
  <2>3. k - b \in 1..Len(d) /\ b + (k - b) = k
    BY <1>22, <2>1, <2>2
  <2>4. c[b + (k - b)] = [inst |-> i, macro |-> d[k - b]]
    BY <2>2, <2>3 DEF Copied
  <2>5. QED
    BY <2>3, <2>4
<1>6. PICK i \in 1..N : base[i - 1] < p /\ p <= base[i]
  BY <1>21
<1>8. c[p].inst = i
  BY <1>6, <1>22
<1>9. PICK d, b : d = instr_dict[i].code /\ b = base[i - 1]
  OBVIOUS
<1>10. PICK r, first : r = Words(i) /\ first = instr_dict[i].first
  OBVIOUS
<1>11. PICK n \in Nat : Shape(d, n, r, first)
  BY <1>1, <1>9, <1>10, InstanceTypes
<1>12. /\ r \in Nat /\ Len(d) = n + r + n /\ b \in Nat
       /\ base[i] = b + n + r + n /\ b + n + r + n <= Len(c)
  <2>1. r \in Nat /\ Len(d) = n + r + n
    BY <1>11 DEF Shape
  <2>2. i - 1 \in 0..N /\ b \in Nat /\ base[i] = b + Len(d)
    BY <1>2, <1>3, <1>9
  <2>3. base[i] <= base[N]
    <3>1. i \in 0..N /\ N \in i..N
      BY <1>2
    <3>2. QED
      BY <3>1, <1>2, <1>5, BaseGrows
  <2>4. QED
    BY <1>3, <2>1, <2>2, <2>3
<1>13. \A k \in 1..(n + r + n) : c[b + k].inst = i /\ c[b + k].macro = d[k]
  <2>1. Copied(c, b, d, i)
    BY <1>3, <1>9
  <2>2. ASSUME NEW k \in 1..(n + r + n)
        PROVE  c[b + k].inst = i /\ c[b + k].macro = d[k]
    <3>1. k \in 1..Len(d)
      BY <1>12
    <3>2. c[b + k] = [inst |-> i, macro |-> d[k]]
      BY <2>1, <3>1, Zenon DEF Copied
    <3>3. QED
      BY <3>2
  <2>3. QED
    BY <2>2
<1>14. ASSUME NEW k \in (b + 1)..(b + n + r + n)
       PROVE  c[k].inst = i
  <2>1. k - b \in 1..(n + r + n) /\ k = b + (k - b)
    BY <1>12
  <2>2. QED
    BY <1>13, <2>1
<1>15. ASSUME NEW k \in 1..Len(c), c[k].inst = i
       PROVE  k \in (b + 1)..(b + n + r + n)
  <2>1. PICK i2 \in 1..N : base[i2 - 1] < k /\ k <= base[i2]
    BY <1>21
  <2>2. i2 = i
    BY <1>15, <1>22, <2>1
  <2>3. QED
    BY <1>9, <1>12, <2>1, <2>2
<1>16. ASSUME NEW k \in 1..n
       PROVE  /\ c[b + k].macro \in Write /\ c[b + k].macro.restore_reg = k
              /\ c[b + n + r + k].macro \in Restore
              /\ c[b + n + r + k].macro.restore_reg = n + 1 - k
              /\ c[b + n + r + k].macro.csr = c[b + n + 1 - k].macro.csr
  <2>1. /\ k \in 1..(n + r + n) /\ n + r + k \in 1..(n + r + n) /\ n + 1 - k \in 1..(n + r + n)
        /\ b + n + r + k = b + (n + r + k) /\ b + n + 1 - k = b + (n + 1 - k)
    BY <1>12
  <2>2. c[b + k].macro = d[k] /\ c[b + n + r + k].macro = d[n + r + k] /\ c[b + n + 1 - k].macro = d[n + 1 - k]
    BY <1>13, <2>1
  <2>3. /\ d[k] \in Write /\ d[k].restore_reg = k
        /\ d[n + r + k] \in Restore /\ d[n + r + k].restore_reg = n + 1 - k
        /\ d[n + r + k].csr = d[n + 1 - k].csr
    BY <1>11 DEF Shape
  <2>4. QED
    BY <2>2, <2>3
<1>17. ASSUME NEW k \in 1..r
       PROVE  c[b + n + k].macro \in Read /\ c[b + n + k].macro.offset = first + k - 1
  <2>1. n + k \in 1..(n + r + n) /\ b + n + k = b + (n + k)
    BY <1>12
  <2>2. c[b + n + k].macro = d[n + k]
    BY <1>13, <2>1
  <2>3. d[n + k] \in Read /\ d[n + k].offset = first + k - 1
    BY <1>11 DEF Shape
  <2>4. QED
    BY <2>2, <2>3
<1>18. Block(c, b, i, n, r, first)
  BY <1>12, <1>14, <1>15, <1>16, <1>17 DEF Block
<1>19. p \in (b + 1)..(b + n + r + n)
  BY <1>6, <1>9, <1>12
<1>20. QED
  BY <1>1, <1>8, <1>10, <1>12, <1>18, <1>19

LEMMA BlockMacro ==
  ASSUME NEW c, NEW b, NEW i, NEW n, NEW r, NEW first, Block(c, b, i, n, r, first),
         NEW j \in 1..(n + r + n)
  PROVE  /\ c[b + j].inst = i
         /\ j <= n => c[b + j].macro \in Write /\ c[b + j].macro.restore_reg = j
         /\ n < j /\ j <= n + r => c[b + j].macro \in Read /\ c[b + j].macro.offset = first + (j - n) - 1
         /\ n + r < j => /\ c[b + j].macro \in Restore
                         /\ c[b + j].macro.restore_reg = n + r + n + 1 - j
                         /\ c[b + j].macro.csr = c[b + (n + r + n + 1 - j)].macro.csr
<1>1. b \in Nat /\ n \in Nat /\ r \in Nat
  BY DEF Block
<1>2. c[b + j].inst = i
  <2>1. b + j \in (b + 1)..(b + n + r + n)
    BY <1>1
  <2>2. QED
    BY <2>1 DEF Block
<1>3. ASSUME j <= n
      PROVE  c[b + j].macro \in Write /\ c[b + j].macro.restore_reg = j
  <2>1. j \in 1..n
    BY <1>1, <1>3
  <2>2. QED
    BY <2>1 DEF Block
<1>4. ASSUME n < j, j <= n + r
      PROVE  c[b + j].macro \in Read /\ c[b + j].macro.offset = first + (j - n) - 1
  <2>1. j - n \in 1..r /\ b + n + (j - n) = b + j
    BY <1>1, <1>4
  <2>2. c[b + n + (j - n)].macro \in Read /\ c[b + n + (j - n)].macro.offset = first + (j - n) - 1
    BY <2>1 DEF Block
  <2>3. QED
    BY <2>1, <2>2
<1>5. ASSUME n + r < j
      PROVE  /\ c[b + j].macro \in Restore
             /\ c[b + j].macro.restore_reg = n + r + n + 1 - j
             /\ c[b + j].macro.csr = c[b + (n + r + n + 1 - j)].macro.csr
  <2>1. PICK q : q = j - n - r
    OBVIOUS
  <2>2. /\ q \in 1..n /\ b + n + r + q = b + j /\ n + 1 - q = n + r + n + 1 - j
        /\ b + n + 1 - q = b + (n + r + n + 1 - j)
    BY <1>1, <1>5, <2>1
  <2>3. /\ c[b + n + r + q].macro \in Restore
        /\ c[b + n + r + q].macro.restore_reg = n + 1 - q
        /\ c[b + n + r + q].macro.csr = c[b + n + 1 - q].macro.csr
    BY <2>2 DEF Block
  <2>4. QED
    BY <2>2, <2>3
<1>6. QED
  BY <1>2, <1>3, <1>4, <1>5

LEMMA KindOf ==
  ASSUME NEW m
  PROVE  /\ m \in Write => m.do = "write" /\ m.csr \in Csrs /\ m.mask \in SUBSET Bits /\ m.val \in SUBSET Bits
         /\ m \in Read => m.do = "read" /\ m.offset \in Nat
         /\ m \in Restore => m.do = "restore" /\ m.csr \in Csrs
  BY DEF Write, Read, Restore

\* How many writes of an instance are not restored before its j-th macro.
Depth(n, r, j) == IF j <= n THEN j - 1 ELSE IF j <= n + r + 1 THEN n ELSE n + r + n + 1 - j

LEMMA UnrestoredIs ==
  ASSUME NEW c, Len(c) \in Nat, NEW b, NEW i, NEW n, NEW r, NEW first, Block(c, b, i, n, r, first),
         NEW j \in 1..(n + r + n)
  PROVE  Unrestored(c, b + j) = (b + 1)..(b + Depth(n, r, j))
<1>1. b \in Nat /\ n \in Nat /\ r \in Nat /\ b + n + r + n <= Len(c)
  BY DEF Block
<1>2. c[b + j].inst = i
  BY BlockMacro
<1>3. PICK p : p = b + j
  OBVIOUS
<1>4. p \in Nat /\ ~(p > Len(c)) /\ p - 1 <= Len(c) /\ p - 1 \in Nat
  BY <1>1, <1>3
<1>5. ASSUME NEW what, NEW k \in Before(c, p, what)
      PROVE  /\ k - b \in 1..(j - 1) /\ k = b + (k - b) /\ k - b \in 1..(n + r + n)
             /\ c[k].macro.do = what
  <2>1. k \in 1..(p - 1) /\ c[k].inst = i /\ c[k].macro.do = what
    BY <1>2, <1>3 DEF Before
  <2>2. k \in 1..Len(c)
    BY <1>4, <2>1
  <2>3. k \in (b + 1)..(b + n + r + n)
    BY <2>1, <2>2 DEF Block
  <2>4. QED
    BY <1>1, <1>3, <2>1, <2>3
<1>6. ASSUME NEW l \in 1..(j - 1)
      PROVE  /\ b + l \in 1..(p - 1) /\ c[b + l].inst = c[p].inst /\ l \in 1..(n + r + n)
  <2>1. l \in 1..(n + r + n) /\ b + l \in 1..(p - 1)
    BY <1>1, <1>3
  <2>2. c[b + l].inst = i
    BY <2>1, BlockMacro
  <2>3. QED
    BY <1>2, <1>3, <2>1, <2>2
<1>7. ASSUME NEW k \in Unrestored(c, p)
      PROVE  k \in (b + 1)..(b + Depth(n, r, j))
  <2>1. /\ k \in Before(c, p, "write")
        /\ \A l \in Before(c, p, "restore") : c[l].macro.restore_reg # c[k].macro.restore_reg
    BY <1>4 DEF Unrestored
  <2>2. PICK m : m = k - b
    OBVIOUS
  <2>3. m \in 1..(j - 1) /\ k = b + m /\ m \in 1..(n + r + n) /\ c[b + m].macro.do = "write"
    BY <1>5, <2>1, <2>2
  <2>4. m <= n
    <3>1. n < m /\ m <= n + r => c[b + m].macro \in Read
      BY <2>3, BlockMacro
    <3>2. n + r < m => c[b + m].macro \in Restore
      BY <2>3, BlockMacro
    <3>3. ~(n < m /\ m <= n + r) /\ ~(n + r < m)
      BY <2>3, <3>1, <3>2, KindOf
    <3>4. QED
      BY <1>1, <2>3, <3>3
  <2>5. c[b + m].macro.restore_reg = m
    BY <2>3, <2>4, BlockMacro
  <2>6. j > n + r + 1 => m <= n + r + n + 1 - j
    <3>1. SUFFICES ASSUME j > n + r + 1, ~(m <= n + r + n + 1 - j)
                   PROVE  FALSE
      OBVIOUS
    <3>2. PICK l : l = n + r + n + 1 - m
      OBVIOUS
    <3>3. l \in 1..(j - 1) /\ n + r < l /\ n + r + n + 1 - l = m
      BY <1>1, <2>3, <2>4, <3>1, <3>2
    <3>4. b + l \in 1..(p - 1) /\ c[b + l].inst = c[p].inst /\ l \in 1..(n + r + n)
      BY <1>6, <3>3
    <3>5. c[b + l].macro \in Restore /\ c[b + l].macro.restore_reg = m
      BY <3>3, <3>4, BlockMacro
    <3>6. b + l \in Before(c, p, "restore")
      BY <3>4, <3>5, KindOf DEF Before
    <3>7. QED
      BY <2>1, <2>3, <2>5, <3>5, <3>6
  <2>7. m <= Depth(n, r, j)
    BY <1>1, <2>3, <2>4, <2>6 DEF Depth
  <2>8. Depth(n, r, j) \in Int
    BY <1>1 DEF Depth
  <2>9. QED
    BY <1>1, <2>3, <2>7, <2>8
<1>8. ASSUME NEW k \in (b + 1)..(b + Depth(n, r, j))
      PROVE  k \in Unrestored(c, p)
  <2>1. PICK m : m = k - b
    OBVIOUS
  <2>2. Depth(n, r, j) \in Int
    BY <1>1 DEF Depth
  <2>3. m \in Int /\ 1 <= m /\ m <= Depth(n, r, j) /\ k = b + m
    BY <1>1, <2>1, <2>2
  <2>4. /\ m \in 1..n /\ m \in 1..(j - 1) /\ m \in 1..(n + r + n)
        /\ j > n + r + 1 => m <= n + r + n + 1 - j
    BY <1>1, <2>3 DEF Depth
  <2>5. c[b + m].macro \in Write /\ c[b + m].macro.restore_reg = m
    BY <2>4, BlockMacro
  <2>6. k \in Before(c, p, "write")
    BY <1>6, <2>3, <2>4, <2>5, KindOf DEF Before
  <2>7. ASSUME NEW l \in Before(c, p, "restore")
        PROVE  c[l].macro.restore_reg # c[k].macro.restore_reg
    <3>1. PICK q : q = l - b
      OBVIOUS
    <3>2. q \in 1..(j - 1) /\ l = b + q /\ q \in 1..(n + r + n) /\ c[b + q].macro.do = "restore"
      BY <1>5, <3>1
    <3>3. n + r < q
      <4>1. q <= n => c[b + q].macro \in Write
        BY <3>2, BlockMacro
      <4>2. n < q /\ q <= n + r => c[b + q].macro \in Read
        BY <3>2, BlockMacro
      <4>3. ~(q <= n) /\ ~(n < q /\ q <= n + r)
        BY <3>2, <4>1, <4>2, KindOf
      <4>4. QED
        BY <1>1, <3>2, <4>3
    <3>4. c[b + q].macro.restore_reg = n + r + n + 1 - q
      BY <3>2, <3>3, BlockMacro
    <3>5. n + r + n + 1 - q # m
      BY <1>1, <2>4, <3>2, <3>3
    <3>6. QED
      BY <2>3, <2>5, <3>2, <3>4, <3>5
  <2>8. QED
    BY <1>4, <2>6, <2>7 DEF Unrestored
<1>9. QED
  BY <1>3, <1>7, <1>8

\* One macro further.
LEMMA NextUnrestored ==
  ASSUME InstInv, NEW c, c = Macros, NEW p \in 1..Len(c)
  PROVE  \E b, n \in Nat :
           /\ Block(c, b, c[p].inst, n, Words(c[p].inst), instr_dict[c[p].inst].first)
           /\ p - b \in 1..(n + Words(c[p].inst) + n)
           /\ Unrestored(c, p) = (b + 1)..(b + Depth(n, Words(c[p].inst), p - b))
           /\ Unrestored(c, p + 1) = (b + 1)..(b + Depth(n, Words(c[p].inst), p - b + 1))
<1>0. Len(c) \in Nat
  BY MacrosPlaced
<1>1. PICK i, r, first : i = c[p].inst /\ r = Words(i) /\ first = instr_dict[i].first
  OBVIOUS
<1>2. PICK b, n \in Nat : Block(c, b, i, n, r, first) /\ p \in (b + 1)..(b + n + r + n)
  BY <1>1, InBlock
<1>3. r \in Nat /\ b + n + r + n <= Len(c)
  BY <1>2 DEF Block
<1>4. PICK j : j = p - b
  OBVIOUS
<1>5. j \in 1..(n + r + n) /\ p = b + j /\ p + 1 = b + (j + 1)
  BY <1>2, <1>3, <1>4
<1>6. Unrestored(c, p) = (b + 1)..(b + Depth(n, r, j))
  BY <1>0, <1>2, <1>5, UnrestoredIs
<1>7. Unrestored(c, p + 1) = (b + 1)..(b + Depth(n, r, j + 1))
  <2>1. CASE j < n + r + n
    <3>1. j + 1 \in 1..(n + r + n)
      BY <1>3, <1>5, <2>1
    <3>2. QED
      BY <1>0, <1>2, <1>5, <3>1, UnrestoredIs
  <2>2. CASE j = n + r + n
    <3>1. Depth(n, r, j + 1) = 0
      BY <1>3, <1>5, <2>2 DEF Depth
    <3>2. CASE p + 1 > Len(c)
      <4>1. Unrestored(c, p + 1) = {}
        BY <3>2 DEF Unrestored
      <4>2. (b + 1)..(b + 0) = {}
        BY <1>2
      <4>3. QED
        BY <3>1, <4>1, <4>2
    <3>3. CASE ~(p + 1 > Len(c))
      <4>1. p + 1 \in 1..Len(c)
        BY <1>0, <3>3
      <4>2. c[p + 1].inst # i
        BY <1>2, <1>3, <1>5, <2>2, <4>1 DEF Block
      <4>3. PICK i2, r2, first2 : i2 = c[p + 1].inst /\ r2 = Words(i2) /\ first2 = instr_dict[i2].first
        OBVIOUS
      <4>4. PICK b2, n2 \in Nat : Block(c, b2, i2, n2, r2, first2) /\ p + 1 \in (b2 + 1)..(b2 + n2 + r2 + n2)
        BY <4>1, <4>3, InBlock
      <4>5. r2 \in Nat
        BY <4>4 DEF Block
      <4>6. p + 1 = b2 + 1
        <5>1. SUFFICES ASSUME p + 1 # b2 + 1
                       PROVE  FALSE
          OBVIOUS
        <5>2. p \in (b2 + 1)..(b2 + n2 + r2 + n2)
          BY <4>4, <4>5, <5>1
        <5>3. c[p].inst = i2
          BY <4>4, <5>2 DEF Block
        <5>4. QED
          BY <1>1, <4>2, <4>3, <5>3
      <4>7. 1 \in 1..(n2 + r2 + n2)
        BY <4>4, <4>5, <4>6
      <4>8. Unrestored(c, b2 + 1) = (b2 + 1)..(b2 + Depth(n2, r2, 1))
        <5>1. b2 \in Nat /\ n2 \in Nat /\ Block(c, b2, i2, n2, r2, first2)
          BY <4>4
        <5>2. PICK k : k = 1
          OBVIOUS
        <5>3. k \in 1..(n2 + r2 + n2)
          BY <4>7, <5>2
        <5>4. Unrestored(c, b2 + k) = (b2 + 1)..(b2 + Depth(n2, r2, k))
          BY <1>0, <5>1, <5>3, UnrestoredIs
        <5>5. QED
          BY <5>2, <5>4
      <4>9. Depth(n2, r2, 1) = 0
        BY <4>4, <4>5, <4>7 DEF Depth
      <4>10. (b2 + 1)..(b2 + 0) = {} /\ (b + 1)..(b + 0) = {}
        BY <1>2, <4>4
      <4>11. QED
        BY <3>1, <4>6, <4>8, <4>9, <4>10
    <3>4. QED
      BY <3>2, <3>3
  <2>3. QED
    BY <1>3, <1>5, <2>1, <2>2
<1>8. p - b + 1 = j + 1
  BY <1>4
<1>9. QED
  BY <1>1, <1>2, <1>4, <1>5, <1>6, <1>7, <1>8

-----------------------------------------------------------------------------
(***************************************************************************)
(* The test runs: CSRs and the registers that keep them                    *)
(***************************************************************************)
\* SavedInv before macro p of c, with the CSRs and registers given.
SavedAt(c, p, regs, kept) ==
  /\ regs \in [Csrs -> SUBSET Bits] /\ \A k \in DOMAIN kept : kept[k] \in SUBSET Bits
  /\ \A r \in Csrs : (\A k \in Unrestored(c, p) : c[k].macro.csr # r) => regs[r] = Reset[r]
  /\ \A k \in Unrestored(c, p) :
       /\ c[k].macro.restore_reg \in DOMAIN kept
       /\ (\A l \in Unrestored(c, p) : l < k => c[l].macro.csr # c[k].macro.csr)
            => kept[c[k].macro.restore_reg] = Reset[c[k].macro.csr]

LEMMA WriteKeepsSaved ==
  ASSUME InstInv, NEW c, c = Macros, NEW p \in 1..Len(c), c[p].macro.do = "write",
         NEW regs, NEW kept, SavedAt(c, p, regs, kept),
         NEW regs2, regs2 = [regs EXCEPT ![c[p].macro.csr] = (@ \ c[p].macro.mask) \cup c[p].macro.val],
         NEW kept2, kept2 = [k \in DOMAIN kept \cup {c[p].macro.restore_reg} |->
                               IF k = c[p].macro.restore_reg THEN regs[c[p].macro.csr] ELSE kept[k]]
  PROVE  SavedAt(c, p + 1, regs2, kept2)
<1>1. PICK i, r, first : i = c[p].inst /\ r = Words(i) /\ first = instr_dict[i].first
  OBVIOUS
<1>2. PICK b, n \in Nat :
        /\ Block(c, b, i, n, r, first) /\ p - b \in 1..(n + r + n)
        /\ Unrestored(c, p) = (b + 1)..(b + Depth(n, r, p - b))
        /\ Unrestored(c, p + 1) = (b + 1)..(b + Depth(n, r, p - b + 1))
  BY <1>1, NextUnrestored
<1>3. r \in Nat
  BY <1>2 DEF Block
<1>4. PICK j : j = p - b
  OBVIOUS
<1>5. j \in 1..(n + r + n) /\ p = b + j
  BY <1>2, <1>4
<1>6. PICK m : m = c[p].macro
  OBVIOUS
<1>7. j <= n /\ m \in Write /\ m.restore_reg = j
  <2>1. /\ j <= n => c[b + j].macro \in Write /\ c[b + j].macro.restore_reg = j
        /\ n < j /\ j <= n + r => c[b + j].macro \in Read
        /\ n + r < j => c[b + j].macro \in Restore
    BY <1>2, <1>5, BlockMacro
  <2>2. m \notin Read /\ m \notin Restore
    BY <1>6, KindOf
  <2>3. QED
    BY <1>2, <1>3, <1>5, <1>6, <2>1, <2>2
<1>8. m.csr \in Csrs /\ m.mask \in SUBSET Bits /\ m.val \in SUBSET Bits
  BY <1>7, KindOf
<1>9. Unrestored(c, p) = (b + 1)..(p - 1) /\ Unrestored(c, p + 1) = (b + 1)..p
  <2>1. Depth(n, r, j) = j - 1 /\ Depth(n, r, j + 1) = j
    BY <1>2, <1>3, <1>5, <1>7 DEF Depth
  <2>2. b + (j - 1) = p - 1 /\ b + j = p
    BY <1>2, <1>5
  <2>3. QED
    BY <1>2, <1>4, <2>1, <2>2
<1>20. b \in Nat /\ n \in Nat /\ j \in Nat /\ p = b + j /\ 1 <= j
  BY <1>2, <1>3, <1>5
<1>10. ASSUME NEW k \in (b + 1)..(p - 1)
       PROVE  c[k].macro.restore_reg \in DOMAIN kept /\ c[k].macro.restore_reg # j
  <2>1. k - b \in 1..(n + r + n) /\ k - b <= n /\ b + (k - b) = k /\ k - b # j
    <3>1. k - b \in Int /\ 1 <= k - b /\ k - b <= j - 1 /\ b + (k - b) = k
      BY <1>20
    <3>2. QED
      BY <1>3, <1>7, <1>20, <3>1
  <2>2. c[k].macro.restore_reg = k - b
    BY <1>2, <2>1, BlockMacro
  <2>3. QED
    BY <1>9, <2>1, <2>2 DEF SavedAt
<1>11. regs \in [Csrs -> SUBSET Bits] /\ \A k \in DOMAIN kept : kept[k] \in SUBSET Bits
  BY DEF SavedAt
<1>12. regs2 \in [Csrs -> SUBSET Bits] /\ \A r2 \in Csrs : r2 # m.csr => regs2[r2] = regs[r2]
  BY <1>6, <1>8, <1>11
<1>13. /\ j \in DOMAIN kept2 /\ kept2[j] = regs[m.csr]
       /\ \A k \in DOMAIN kept : k \in DOMAIN kept2 /\ (k # j => kept2[k] = kept[k])
       /\ \A k \in DOMAIN kept2 : kept2[k] \in SUBSET Bits
  BY <1>6, <1>7, <1>8, <1>11
<1>14. ASSUME NEW r2 \in Csrs, \A k \in (b + 1)..p : c[k].macro.csr # r2
       PROVE  regs2[r2] = Reset[r2]
  <2>1. p \in (b + 1)..p /\ \A k \in (b + 1)..(p - 1) : k \in (b + 1)..p
    BY <1>20
  <2>2. r2 # m.csr
    BY <1>6, <1>14, <2>1
  <2>3. regs[r2] = Reset[r2]
    BY <1>9, <1>14, <2>1 DEF SavedAt
  <2>4. QED
    BY <1>12, <2>2, <2>3
<1>15. ASSUME NEW k \in (b + 1)..p
       PROVE  /\ c[k].macro.restore_reg \in DOMAIN kept2
              /\ (\A l \in (b + 1)..p : l < k => c[l].macro.csr # c[k].macro.csr)
                   => kept2[c[k].macro.restore_reg] = Reset[c[k].macro.csr]
  <2>1. CASE k = p
    <3>1. c[k].macro.restore_reg = j /\ c[k].macro.csr = m.csr
      BY <1>6, <1>7, <2>1
    <3>2. ASSUME \A l \in (b + 1)..p : l < k => c[l].macro.csr # c[k].macro.csr
          PROVE  regs[m.csr] = Reset[m.csr]
      <4>1. \A l \in (b + 1)..(p - 1) : l \in (b + 1)..p /\ l < k
        BY <1>20, <2>1
      <4>2. \A l \in (b + 1)..(p - 1) : c[l].macro.csr # m.csr
        BY <3>1, <3>2, <4>1
      <4>3. QED
        BY <1>8, <1>9, <4>2 DEF SavedAt
    <3>3. QED
      BY <1>13, <3>1, <3>2
  <2>2. CASE k # p
    <3>1. k \in (b + 1)..(p - 1) /\ \A l \in (b + 1)..(p - 1) : l \in (b + 1)..p
      BY <1>20, <2>2
    <3>2. c[k].macro.restore_reg \in DOMAIN kept /\ c[k].macro.restore_reg # j
      BY <1>10, <3>1
    <3>3. (\A l \in (b + 1)..(p - 1) : l < k => c[l].macro.csr # c[k].macro.csr)
             => kept[c[k].macro.restore_reg] = Reset[c[k].macro.csr]
      BY <1>9, <3>1 DEF SavedAt
    <3>4. QED
      BY <1>13, <3>1, <3>2, <3>3
  <2>3. QED
    BY <2>1, <2>2
<1>16. PICK S : S = Unrestored(c, p + 1)
  OBVIOUS
<1>17. S = (b + 1)..p
  BY <1>9, <1>16
<1>18. \A r2 \in Csrs : (\A k \in S : c[k].macro.csr # r2) => regs2[r2] = Reset[r2]
  BY <1>14, <1>17
<1>19. \A k \in S : /\ c[k].macro.restore_reg \in DOMAIN kept2
                    /\ (\A l \in S : l < k => c[l].macro.csr # c[k].macro.csr)
                         => kept2[c[k].macro.restore_reg] = Reset[c[k].macro.csr]
  BY <1>15, <1>17
<1>21. QED
  BY <1>12, <1>13, <1>16, <1>18, <1>19 DEF SavedAt

LEMMA ReadKeepsSaved ==
  ASSUME InstInv, NEW c, c = Macros, NEW p \in 1..Len(c), c[p].macro.do = "read",
         NEW regs, NEW kept, SavedAt(c, p, regs, kept)
  PROVE  SavedAt(c, p + 1, regs, kept)
<1>1. PICK i, r, first : i = c[p].inst /\ r = Words(i) /\ first = instr_dict[i].first
  OBVIOUS
<1>2. PICK b, n \in Nat :
        /\ Block(c, b, i, n, r, first) /\ p - b \in 1..(n + r + n)
        /\ Unrestored(c, p) = (b + 1)..(b + Depth(n, r, p - b))
        /\ Unrestored(c, p + 1) = (b + 1)..(b + Depth(n, r, p - b + 1))
  BY <1>1, NextUnrestored
<1>3. r \in Nat
  BY <1>2 DEF Block
<1>4. PICK j : j = p - b
  OBVIOUS
<1>5. j \in 1..(n + r + n) /\ p = b + j
  BY <1>2, <1>4
<1>6. n < j /\ j <= n + r
  <2>1. /\ j <= n => c[b + j].macro \in Write
        /\ n + r < j => c[b + j].macro \in Restore
    BY <1>2, <1>5, BlockMacro
  <2>2. ~(j <= n) /\ ~(n + r < j)
    BY <1>5, <2>1, KindOf
  <2>3. QED
    BY <1>2, <1>3, <1>5, <2>2
<1>7. Depth(n, r, j) = n /\ Depth(n, r, j + 1) = n
  BY <1>2, <1>3, <1>5, <1>6 DEF Depth
<1>8. Unrestored(c, p + 1) = Unrestored(c, p)
  BY <1>2, <1>4, <1>7
<1>9. QED
  BY <1>8 DEF SavedAt

LEMMA RestoreKeepsSaved ==
  ASSUME InstInv, NEW c, c = Macros, NEW p \in 1..Len(c), c[p].macro.do = "restore",
         NEW regs, NEW kept, SavedAt(c, p, regs, kept),
         NEW regs2, regs2 = [regs EXCEPT ![c[p].macro.csr] = kept[c[p].macro.restore_reg]]
  PROVE  SavedAt(c, p + 1, regs2, kept)
<1>1. PICK i, r, first : i = c[p].inst /\ r = Words(i) /\ first = instr_dict[i].first
  OBVIOUS
<1>2. PICK b, n \in Nat :
        /\ Block(c, b, i, n, r, first) /\ p - b \in 1..(n + r + n)
        /\ Unrestored(c, p) = (b + 1)..(b + Depth(n, r, p - b))
        /\ Unrestored(c, p + 1) = (b + 1)..(b + Depth(n, r, p - b + 1))
  BY <1>1, NextUnrestored
<1>3. r \in Nat
  BY <1>2 DEF Block
<1>4. PICK j : j = p - b
  OBVIOUS
<1>5. j \in 1..(n + r + n) /\ p = b + j
  BY <1>2, <1>4
<1>6. PICK m : m = c[p].macro
  OBVIOUS
<1>7. PICK l : l = n + r + n + 1 - j
  OBVIOUS
\* It restores the last write that is not restored.
<1>8. n + r < j /\ m \in Restore /\ m.restore_reg = l /\ m.csr = c[b + l].macro.csr
  <2>1. /\ j <= n => c[b + j].macro \in Write
        /\ n < j /\ j <= n + r => c[b + j].macro \in Read
        /\ n + r < j => /\ c[b + j].macro \in Restore /\ c[b + j].macro.restore_reg = n + r + n + 1 - j
                        /\ c[b + j].macro.csr = c[b + (n + r + n + 1 - j)].macro.csr
    BY <1>2, <1>5, BlockMacro
  <2>2. m \notin Read /\ m \notin Write
    BY <1>6, KindOf
  <2>3. n + r < j
    <3>1. c[b + j].macro = m
      BY <1>5, <1>6
    <3>2. ~(j <= n) /\ ~(n < j /\ j <= n + r)
      BY <2>1, <2>2, <3>1
    <3>3. QED
      BY <1>2, <1>3, <1>5, <3>2
  <2>4. QED
    BY <1>5, <1>6, <1>7, <2>1, <2>3
<1>9. m.csr \in Csrs
  BY <1>8, KindOf
<1>10. l \in 1..n
  BY <1>2, <1>3, <1>5, <1>7, <1>8
<1>11. Unrestored(c, p) = (b + 1)..(b + l) /\ Unrestored(c, p + 1) = (b + 1)..(b + l - 1)
  <2>1. Depth(n, r, j) = l /\ Depth(n, r, j + 1) = l - 1
    BY <1>2, <1>3, <1>5, <1>7, <1>8 DEF Depth
  <2>2. b + (l - 1) = b + l - 1
    BY <1>2, <1>10
  <2>3. QED
    BY <1>2, <1>4, <2>1, <2>2
<1>12. PICK w : w = b + l
  OBVIOUS
<1>13. w \in (b + 1)..w /\ \A k \in (b + 1)..(w - 1) : k \in (b + 1)..w
  BY <1>2, <1>10, <1>12
<1>14. c[w].macro.restore_reg = l /\ c[w].macro.csr = m.csr /\ l \in DOMAIN kept
  <2>1. l \in 1..(n + r + n) /\ l <= n
    BY <1>3, <1>2, <1>10
  <2>2. c[b + l].macro.restore_reg = l
    BY <1>2, <2>1, BlockMacro
  <2>3. QED
    BY <1>8, <1>11, <1>12, <1>13, <2>2 DEF SavedAt
<1>15. regs \in [Csrs -> SUBSET Bits] /\ \A k \in DOMAIN kept : kept[k] \in SUBSET Bits
  BY DEF SavedAt
<1>16. /\ regs2 \in [Csrs -> SUBSET Bits] /\ regs2[m.csr] = kept[l]
       /\ \A r2 \in Csrs : r2 # m.csr => regs2[r2] = regs[r2]
  <2>1. kept[l] \in SUBSET Bits
    BY <1>14, <1>15
  <2>2. regs2 = [regs EXCEPT ![m.csr] = kept[l]]
    BY <1>6, <1>8
  <2>3. QED
    BY <1>9, <1>15, <2>1, <2>2
<1>17. ASSUME NEW r2 \in Csrs, \A k \in (b + 1)..(w - 1) : c[k].macro.csr # r2
       PROVE  regs2[r2] = Reset[r2]
  <2>1. CASE r2 = m.csr
    <3>1. \A k \in (b + 1)..w : k < w => c[k].macro.csr # c[w].macro.csr
      <4>1. \A k \in (b + 1)..w : k < w => k \in (b + 1)..(w - 1)
        BY <1>2, <1>10, <1>12
      <4>2. QED
        BY <1>14, <1>17, <2>1, <4>1
    <3>2. kept[l] = Reset[m.csr]
      BY <1>11, <1>12, <1>13, <1>14, <3>1 DEF SavedAt
    <3>3. QED
      BY <1>16, <2>1, <3>2
  <2>2. CASE r2 # m.csr
    <3>1. \A k \in (b + 1)..w : k = w \/ k \in (b + 1)..(w - 1)
      BY <1>2, <1>10, <1>12
    <3>2. \A k \in (b + 1)..w : c[k].macro.csr # r2
      BY <1>14, <1>17, <2>2, <3>1
    <3>3. regs[r2] = Reset[r2]
      BY <1>11, <1>12, <3>2 DEF SavedAt
    <3>4. QED
      BY <1>16, <2>2, <3>3
  <2>3. QED
    BY <2>1, <2>2
<1>18. ASSUME NEW k \in (b + 1)..(w - 1)
       PROVE  /\ c[k].macro.restore_reg \in DOMAIN kept
              /\ (\A k2 \in (b + 1)..(w - 1) : k2 < k => c[k2].macro.csr # c[k].macro.csr)
                   => kept[c[k].macro.restore_reg] = Reset[c[k].macro.csr]
  <2>1. k \in (b + 1)..w /\ \A k2 \in (b + 1)..w : k2 < k => k2 \in (b + 1)..(w - 1)
    BY <1>2, <1>10, <1>12
  <2>2. /\ c[k].macro.restore_reg \in DOMAIN kept
        /\ (\A k2 \in (b + 1)..w : k2 < k => c[k2].macro.csr # c[k].macro.csr)
             => kept[c[k].macro.restore_reg] = Reset[c[k].macro.csr]
    BY <1>11, <1>12, <2>1 DEF SavedAt
  <2>3. QED
    BY <2>1, <2>2
<1>19. PICK S : S = Unrestored(c, p + 1)
  OBVIOUS
<1>20. S = (b + 1)..(w - 1)
  <2>1. b + l - 1 = w - 1
    BY <1>2, <1>10, <1>12
  <2>2. Unrestored(c, p + 1) = (b + 1)..(b + l - 1)
    BY <1>11
  <2>3. QED
    BY <1>19, <2>1, <2>2, Zenon
<1>21. \A r2 \in Csrs : (\A k \in S : c[k].macro.csr # r2) => regs2[r2] = Reset[r2]
  BY <1>17, <1>20
<1>22. \A k \in S : /\ c[k].macro.restore_reg \in DOMAIN kept
                    /\ (\A k2 \in S : k2 < k => c[k2].macro.csr # c[k].macro.csr)
                         => kept[c[k].macro.restore_reg] = Reset[c[k].macro.csr]
  BY <1>18, <1>20
<1>23. QED
  BY <1>15, <1>16, <1>19, <1>21, <1>22 DEF SavedAt

-----------------------------------------------------------------------------
(***************************************************************************)
(* Expressions are over the clauses of their coverpoint                    *)
(***************************************************************************)
LEMMA LiteralType ==
  ASSUME NEW p, NEW c \in ClausesOf(p)
  PROVE  LiteralExpression(c) \in Expression(p)
<1>1. PICK S : S = ClausesOf(p)
  OBVIOUS
<1>2. <<c>> \in Seq(S) /\ <<>> \in Seq(S)
  BY <1>1
<1>3. PICK x : x = [t |-> <<c>>, f |-> <<>>]
  OBVIOUS
<1>4. x \in Solution(p)
  BY <1>1, <1>2, <1>3 DEF Solution
<1>5. PICK T : T = Solution(p)
  OBVIOUS
<1>6. <<x>> \in Seq(T)
  BY <1>4, <1>5
<1>7. QED
  BY <1>3, <1>5, <1>6 DEF LiteralExpression, Expression

LEMMA NotType ==
  ASSUME NEW p, NEW e \in Expression(p)
  PROVE  NotExpression(e) \in Expression(p)
<1>1. PICK T, s : T = Solution(p) /\ s = e.SAT
  OBVIOUS
<1>2. s \in Seq(T) /\ Len(s) \in Nat /\ DOMAIN s = 1..Len(s) /\ \A k \in 1..Len(s) : s[k] \in T
  BY <1>1 DEF Expression
<1>3. PICK v : v = [k \in DOMAIN s |-> [t |-> s[k].f, f |-> s[k].t]]
  OBVIOUS
<1>4. \A k \in 1..Len(s) : v[k] \in T
  <2>1. ASSUME NEW k \in 1..Len(s)
        PROVE  v[k] \in T
    <3>1. v[k] = [t |-> s[k].f, f |-> s[k].t]
      BY <1>2, <1>3
    <3>2. s[k].f \in Seq(ClausesOf(p)) /\ s[k].t \in Seq(ClausesOf(p))
      BY <1>1, <1>2 DEF Solution
    <3>3. QED
      BY <1>1, <3>1, <3>2 DEF Solution
  <2>2. QED
    BY <2>1
<1>5. v = [k \in 1..Len(s) |-> v[k]]
  BY <1>2, <1>3
<1>6. v \in Seq(T)
  BY <1>2, <1>4, <1>5, SeqOfElements
<1>7. NotExpression(e) = [SAT |-> v, holds |-> Worlds \ e.holds]
  BY <1>1, <1>3 DEF NotExpression
<1>8. QED
  BY <1>1, <1>6, <1>7 DEF Expression

\* The concatenations of the lists of solutions are in Solution(p).
LEMMA BothType ==
  ASSUME NEW p, NEW x \in Solution(p), NEW y \in Solution(p)
  PROVE  /\ [t |-> x.t \o y.t, f |-> x.f \o y.f] \in Solution(p)
         /\ [t |-> x.t \o y.f, f |-> x.f \o y.t] \in Solution(p)
         /\ [t |-> x.f \o y.t, f |-> x.t \o y.f] \in Solution(p)
<1>1. PICK a, b, c, d : a = x.t /\ b = x.f /\ c = y.t /\ d = y.f
  OBVIOUS
<1>2. PICK C : C = ClausesOf(p)
  OBVIOUS
<1>3. a \in Seq(C) /\ b \in Seq(C) /\ c \in Seq(C) /\ d \in Seq(C)
  BY <1>1, <1>2 DEF Solution
<1>4. a \o c \in Seq(C) /\ b \o d \in Seq(C) /\ a \o d \in Seq(C) /\ b \o c \in Seq(C)
  BY <1>3, JoinedPlace
<1>5. QED
  BY <1>1, <1>2, <1>4 DEF Solution

\* A table of sequences, flattened twice.
LEMMA FlattenTwice ==
  ASSUME NEW T, NEW m \in Nat, NEW n \in Nat, NEW s,
         NEW rows, rows = [i \in 1..m |-> FlattenSeq(s[i])],
         \A i \in 1..m : s[i] = [j \in 1..n |-> s[i][j]],
         \A i \in 1..m : \A j \in 1..n : s[i][j] \in Seq(T)
  PROVE  FlattenSeq(rows) \in Seq(T)
<1>1. ASSUME NEW i \in 1..m
      PROVE  rows[i] \in Seq(T)
  <2>1. PICK r : r = s[i]
    OBVIOUS
  <2>2. r = [j \in 1..n |-> r[j]] /\ \A j \in 1..n : r[j] \in Seq(T)
    BY <2>1
  <2>3. r \in Seq(Seq(T))
    BY <2>2, SeqOfElements
  <2>4. FlattenSeq(r) \in Seq(T)
    BY <2>3, FlattenPlace
  <2>5. QED
    BY <2>1, <2>4
<1>2. rows = [i \in 1..m |-> rows[i]]
  OBVIOUS
<1>3. rows \in Seq(Seq(T))
  BY <1>1, <1>2, SeqOfElements
<1>4. QED
  BY <1>3, FlattenPlace

LEMMA AndType ==
  ASSUME NEW p, NEW lhs \in Expression(p), NEW rhs \in Expression(p)
  PROVE  AndExpression(lhs, rhs) \in Expression(p)
<1>1. PICK T, a, b : T = Solution(p) /\ a = lhs.SAT /\ b = rhs.SAT
  OBVIOUS
<1>2. /\ a \in Seq(T) /\ Len(a) \in Nat /\ DOMAIN a = 1..Len(a) /\ \A i \in 1..Len(a) : a[i] \in T
      /\ b \in Seq(T) /\ Len(b) \in Nat /\ DOMAIN b = 1..Len(b) /\ \A i \in 1..Len(b) : b[i] \in T
  BY <1>1 DEF Expression
<1>3. PICK s : s = [i \in 1..Len(a) |-> [j \in 1..Len(b) |->
                      <<[t |-> a[i].t \o b[j].t, f |-> a[i].f \o b[j].f]>>]]
  OBVIOUS
<1>4. PICK rows : rows = [i \in 1..Len(a) |-> FlattenSeq(s[i])]
  OBVIOUS
<1>5. ASSUME NEW i \in 1..Len(a), NEW j \in 1..Len(b)
      PROVE  s[i][j] \in Seq(T)
  <2>1. PICK x : x = [t |-> a[i].t \o b[j].t, f |-> a[i].f \o b[j].f]
    OBVIOUS
  <2>2. x \in T
    BY <1>1, <1>2, <2>1, BothType
  <2>3. s[i][j] = <<x>>
    BY <1>3, <2>1
  <2>4. QED
    BY <2>2, <2>3
<1>6. \A i \in 1..Len(a) : s[i] = [j \in 1..Len(b) |-> s[i][j]]
  BY <1>3
<1>7. FlattenSeq(rows) \in Seq(T)
  BY <1>2, <1>4, <1>5, <1>6, FlattenTwice
<1>8. rows = [i \in DOMAIN a |-> FlattenSeq([j \in DOMAIN b |->
                <<[t |-> a[i].t \o b[j].t, f |-> a[i].f \o b[j].f]>>])]
  BY <1>2, <1>3, <1>4
<1>9. AndExpression(lhs, rhs) = [SAT |-> FlattenSeq(rows), holds |-> lhs.holds \cap rhs.holds]
  BY <1>1, <1>8 DEF AndExpression, Each
<1>10. lhs.holds \cap rhs.holds \in SUBSET Worlds
  BY DEF Expression
<1>11. QED
  BY <1>1, <1>7, <1>9, <1>10 DEF Expression

LEMMA OrType ==
  ASSUME NEW p, NEW lhs \in Expression(p), NEW rhs \in Expression(p)
  PROVE  OrExpression(lhs, rhs) \in Expression(p)
<1>1. PICK T, a, b : T = Solution(p) /\ a = lhs.SAT /\ b = rhs.SAT
  OBVIOUS
<1>2. /\ a \in Seq(T) /\ Len(a) \in Nat /\ DOMAIN a = 1..Len(a) /\ \A i \in 1..Len(a) : a[i] \in T
      /\ b \in Seq(T) /\ Len(b) \in Nat /\ DOMAIN b = 1..Len(b) /\ \A i \in 1..Len(b) : b[i] \in T
  BY <1>1 DEF Expression
<1>3. PICK s : s = [i \in 1..Len(a) |-> [j \in 1..Len(b) |->
                      <<[t |-> a[i].t \o b[j].f, f |-> a[i].f \o b[j].t],
                        [t |-> a[i].f \o b[j].t, f |-> a[i].t \o b[j].f],
                        [t |-> a[i].t \o b[j].t, f |-> a[i].f \o b[j].f]>>]]
  OBVIOUS
<1>4. PICK rows : rows = [i \in 1..Len(a) |-> FlattenSeq(s[i])]
  OBVIOUS
<1>5. ASSUME NEW i \in 1..Len(a), NEW j \in 1..Len(b)
      PROVE  s[i][j] \in Seq(T)
  <2>1. PICK x, y, z : /\ x = [t |-> a[i].t \o b[j].f, f |-> a[i].f \o b[j].t]
                       /\ y = [t |-> a[i].f \o b[j].t, f |-> a[i].t \o b[j].f]
                       /\ z = [t |-> a[i].t \o b[j].t, f |-> a[i].f \o b[j].f]
    OBVIOUS
  <2>2. x \in T /\ y \in T /\ z \in T
    <3>1. PICK c, d : c = a[i] /\ d = b[j]
      OBVIOUS
    <3>2. c \in Solution(p) /\ d \in Solution(p)
      BY <1>1, <1>2, <3>1
    <3>3. QED
      BY <1>1, <2>1, <3>1, <3>2, BothType, Zenon
  <2>3. s[i][j] = <<x, y, z>>
    BY <1>3, <2>1, Zenon
  <2>4. QED
    BY <2>2, <2>3
<1>6. \A i \in 1..Len(a) : s[i] = [j \in 1..Len(b) |-> s[i][j]]
  BY <1>3
<1>7. FlattenSeq(rows) \in Seq(T)
  BY <1>2, <1>4, <1>5, <1>6, FlattenTwice
<1>8. rows = [i \in DOMAIN a |-> FlattenSeq([j \in DOMAIN b |->
                <<[t |-> a[i].t \o b[j].f, f |-> a[i].f \o b[j].t],
                  [t |-> a[i].f \o b[j].t, f |-> a[i].t \o b[j].f],
                  [t |-> a[i].t \o b[j].t, f |-> a[i].f \o b[j].f]>>])]
  BY <1>2, <1>3, <1>4
<1>9. OrExpression(lhs, rhs) = [SAT |-> FlattenSeq(rows), holds |-> lhs.holds \cup rhs.holds]
  BY <1>1, <1>8 DEF OrExpression, Each
<1>10. lhs.holds \cup rhs.holds \in SUBSET Worlds
  BY DEF Expression
<1>11. QED
  BY <1>1, <1>7, <1>9, <1>10 DEF Expression

\* The text of a clause has the clause in it.
LEMMA WordInText ==
  ASSUME NEW c \in DOMAIN Clause
  PROVE  \E k \in DOMAIN Text(c) : Text(c)[k] = Word(c)
<1>1. PICK w, l, r, e : w = Word(c) /\ l = Sym("(") /\ r = Sym(")") /\ e = End(c)
  OBVIOUS
<1>2. PICK S : S = {w, l, r, e}
  OBVIOUS
<1>3. PICK n : n = IF Clause[c].mod = None THEN <<w>> ELSE <<w, l, w, r>>
  OBVIOUS
<1>4. n \in Seq(S) /\ Len(n) >= 1 /\ n[1] = w /\ Len(n) \in Nat
  <2>1. <<w>> \in Seq(S) /\ Len(<<w>>) = 1 /\ <<w>>[1] = w
    BY <1>2
  <2>2. <<w, l, w, r>> \in Seq(S) /\ Len(<<w, l, w, r>>) = 4 /\ <<w, l, w, r>>[1] = w
    BY <1>2
  <2>3. QED
    BY <1>3, <2>1, <2>2
<1>5. <<l>> \in Seq(S) /\ <<r>> \in Seq(S) /\ <<e>> \in Seq(S) /\ Len(<<l>>) = 1
  BY <1>2
<1>6. PICK u : u = (<<l>> \o n) \o <<r>>
  OBVIOUS
<1>7. u \in Seq(S) /\ Len(u) >= 2 /\ u[2] = w
  <2>1. PICK v : v = <<l>> \o n
    OBVIOUS
  <2>2. v \in Seq(S) /\ Len(v) = 1 + Len(n) /\ \A j \in 1..Len(n) : v[1 + j] = n[j]
    BY <1>4, <1>5, <2>1, JoinedPlace
  <2>3. v[2] = w /\ Len(v) >= 2
    <3>1. 1 \in 1..Len(n) /\ 1 + 1 = 2
      BY <1>4
    <3>2. v[1 + 1] = n[1]
      BY <2>2, <3>1
    <3>3. QED
      BY <1>4, <2>2, <3>1, <3>2
  <2>4. u \in Seq(S) /\ Len(u) = Len(v) + Len(<<r>>) /\ \A j \in 1..Len(v) : u[j] = v[j]
    BY <1>5, <1>6, <2>1, <2>2, JoinedPlace
  <2>5. Len(<<r>>) = 1 /\ Len(v) \in Nat /\ 2 \in 1..Len(v)
    BY <2>2, <2>3
  <2>6. QED
    BY <2>3, <2>4, <2>5
<1>8. PICK m : m = IF Clause[c].shift THEN u ELSE n
  OBVIOUS
<1>9. m \in Seq(S) /\ \E k \in 1..Len(m) : m[k] = w
  <2>1. 1 \in 1..Len(n)
    BY <1>4
  <2>2. 2 \in 1..Len(u)
    BY <1>7
  <2>3. QED
    BY <1>4, <1>7, <1>8, <2>1, <2>2
<1>10. PICK k \in 1..Len(m) : m[k] = w
  BY <1>9
<1>11. PICK t : t = m \o <<e>>
  OBVIOUS
<1>12. t \in Seq(S) /\ Len(t) = Len(m) + Len(<<e>>) /\ t[k] = w
  BY <1>5, <1>9, <1>10, <1>11, JoinedPlace
<1>13. k \in DOMAIN t
  BY <1>9, <1>10, <1>12
<1>14. Text(c) = t
  BY <1>1, <1>3, <1>6, <1>8, <1>11 DEF Text
<1>15. QED
  BY <1>1, <1>12, <1>13, <1>14

LEMMA RecognisedType ==
  ASSUME NEW p, NEW text \in Seq(ToSet(Covpt[p].toks))
  PROVE  Recognised(text) \in ClausesOf(p)
<1>1. CASE \E c \in DOMAIN Clause : Text(c) = text
  <2>1. PICK c : c = Recognised(text)
    OBVIOUS
  <2>2. c \in DOMAIN Clause /\ Text(c) = text
    BY <1>1, <2>1 DEF Recognised
  <2>3. PICK k \in DOMAIN text : text[k] = Word(c)
    BY <2>2, WordInText
  <2>4. PICK S : S = ToSet(Covpt[p].toks)
    OBVIOUS
  <2>5. text[k] \in S
    BY <2>4
  <2>6. Word(c) \in ToSet(Covpt[p].toks) /\ Word(c).of = c
    BY <2>3, <2>4, <2>5 DEF Word
  <2>7. QED
    BY <2>1, <2>6 DEF ClausesOf
<1>2. CASE ~ \E c \in DOMAIN Clause : Text(c) = text
  BY <1>2 DEF Recognised, ClausesOf
<1>3. QED
  BY <1>1, <1>2

LEMMA StackOps ==
  ASSUME NEW S, NEW s \in Seq(S)
  PROVE  /\ \A x \in S : Append(s, x) \in Seq(S) /\ Append(s, x) # <<>>
         /\ s # <<>> => Front(s) \in Seq(S) /\ Last(s) \in S
         /\ \A n \in Nat : n <= Len(s) => SubSeq(s, 1, Len(s) - n) \in Seq(S)
<1>1. Len(s) \in Nat
  OBVIOUS
<1>2. ASSUME NEW n \in Nat, n <= Len(s)
      PROVE  SubSeq(s, 1, Len(s) - n) \in Seq(S)
  <2>1. Len(s) - n \in Nat /\ Len(s) - n <= Len(s)
    BY <1>1, <1>2
  <2>2. PICK m : m = Len(s) - n
    OBVIOUS
  <2>3. \A k \in 1..m : s[k] \in S
    BY <2>1, <2>2
  <2>4. SubSeq(s, 1, m) \in Seq(S)
    BY <2>1, <2>2, <2>3
  <2>5. QED
    BY <2>2, <2>4
<1>3. ASSUME s # <<>>
      PROVE  Front(s) \in Seq(S) /\ Last(s) \in S
  <2>1. Len(s) >= 1
    BY <1>1, <1>3
  <2>2. SubSeq(s, 1, Len(s) - 1) \in Seq(S)
    BY <1>2, <2>1
  <2>3. s[Len(s)] \in S
    BY <1>1, <2>1
  <2>4. QED
    BY <2>2, <2>3 DEF Front, Last
<1>4. ASSUME NEW x \in S
      PROVE  Append(s, x) \in Seq(S) /\ Append(s, x) # <<>>
  <2>1. Append(s, x) \in Seq(S) /\ Len(Append(s, x)) = Len(s) + 1
    OBVIOUS
  <2>2. Len(Append(s, x)) # 0 /\ Len(<<>>) = 0
    BY <1>1, <2>1
  <2>3. QED
    BY <2>1, <2>2
<1>5. QED
  BY <1>2, <1>3, <1>4

\* ParseTypeOK while coverpoint p is read.
Stacks(p, ops, exprs, clause) ==
  /\ ops \in Seq({"("} \cup OPS) /\ exprs \in Seq(Expression(p))
  /\ clause \in Seq(ToSet(Covpt[p].toks))

LEMMA CovptType ==
  ASSUME NEW list \in CsrCombs, NEW i \in DOMAIN list
  PROVE  /\ list[i] \in DOMAIN Covpt /\ DOMAIN list = 1..Len(list) /\ Len(list) \in Nat
         /\ Covpt[list[i]].toks \in Seq(Lexeme)
         /\ \A t \in ToSet(Covpt[list[i]].toks) : t \in Lexeme
<1>1. list \in Seq(DOMAIN Covpt)
  BY CovptAssumption
<1>2. list[i] \in DOMAIN Covpt /\ DOMAIN list = 1..Len(list) /\ Len(list) \in Nat
  BY <1>1
<1>3. PICK s : s = Covpt[list[i]].toks
  OBVIOUS
<1>4. s \in Seq(Lexeme)
  BY <1>2, <1>3, CovptAssumption
<1>5. \A t \in ToSet(s) : t \in Lexeme
  BY <1>4 DEF ToSet
<1>6. QED
  BY <1>2, <1>3, <1>4, <1>5

LEMMA PushType ==
  ASSUME NEW p, NEW exprs \in Seq(Expression(p)), NEW clause \in Seq(ToSet(Covpt[p].toks))
  PROVE  Append(exprs, LiteralExpression(Recognised(clause))) \in Seq(Expression(p))
<1>1. LiteralExpression(Recognised(clause)) \in Expression(p)
  BY RecognisedType, LiteralType
<1>2. QED
  BY <1>1, StackOps

\* A step that goes on with the same coverpoint.
LEMMA SameCovpt ==
  ASSUME ParseTypeOK, phase \in Reading, UNCHANGED <<csr_comb, covpt, invalid>>,
         pos' \in Nat \ {0}, phase' \in Reading \cup {"solve"},
         bracket_depth' \in Int, clause_index' \in Nat \ {0},
         Stacks(csr_comb[covpt], operator_stack, clause_stack, current_clause)
           => Stacks(csr_comb[covpt], operator_stack', clause_stack', current_clause'),
         phase' = "operator" => pos' \in DOMAIN toks /\ toks[pos'].sym \in OPS,
         phase' = "solve" => clause_stack' # <<>>
  PROVE  ParseTypeOK'
<1>1. Stacks(csr_comb[covpt], operator_stack, clause_stack, current_clause)
  BY DEF ParseTypeOK, Stacks, toks
<1>2. Stacks(csr_comb[covpt], operator_stack', clause_stack', current_clause')
  BY <1>1
<1>3. toks' = toks
  BY DEF toks
<1>4. phase' \in Reading \cup {"solve"} =>
        /\ covpt' \in DOMAIN csr_comb'
        /\ bracket_depth' \in Int /\ clause_index' \in Nat \ {0}
        /\ operator_stack' \in Seq({"("} \cup OPS)
        /\ clause_stack' \in Seq(Expression(csr_comb'[covpt']))
        /\ current_clause' \in Seq(ToSet(toks'))
  BY <1>2, <1>3 DEF ParseTypeOK, Stacks, toks
<1>5. phase' = "operator" => pos' \in DOMAIN toks' /\ tok' \in OPS
  BY <1>3 DEF tok
<1>6. /\ csr_comb' \in CsrCombs
      /\ covpt' \in 1..(Len(csr_comb') + 1) /\ pos' \in Nat \ {0}
      /\ phase' \in Reading \cup {"solve", "write_test", "run", "done"}
      /\ invalid' \subseteq DOMAIN csr_comb'
  BY DEF ParseTypeOK
<1>7. QED
  BY <1>4, <1>5, <1>6 DEF ParseTypeOK

\* The next coverpoint.
LEMMA NextCovptType ==
  ASSUME ParseTypeOK, phase \in Reading \cup {"solve"}, NextCovpt, invalid' \subseteq invalid \cup {covpt}
  PROVE  ParseTypeOK'
<1>1. PICK list, i : list = csr_comb /\ i = covpt
  OBVIOUS
<1>2. list \in CsrCombs /\ i \in DOMAIN list /\ invalid \subseteq DOMAIN list
  BY <1>1 DEF ParseTypeOK
<1>3. DOMAIN list = 1..Len(list) /\ Len(list) \in Nat
  BY <1>2, CovptType
<1>4. /\ csr_comb' = list /\ covpt' = i + 1 /\ pos' = 1 /\ bracket_depth' = 0
      /\ operator_stack' = <<>> /\ clause_stack' = <<>> /\ clause_index' = 1 /\ current_clause' = <<>>
      /\ phase' = IF i < Len(list) THEN "scan" ELSE "write_test"
  BY <1>1 DEF NextCovpt
<1>5. /\ covpt' \in 1..(Len(list) + 1) /\ pos' \in Nat \ {0}
      /\ phase' \in Reading \cup {"solve", "write_test", "run", "done"}
      /\ invalid' \subseteq DOMAIN csr_comb'
      /\ phase' \in Reading \cup {"solve"} => covpt' \in DOMAIN csr_comb'
      /\ bracket_depth' \in Int /\ clause_index' \in Nat \ {0}
      /\ phase' # "operator" /\ phase' # "solve"
  BY <1>1, <1>2, <1>3, <1>4 DEF Reading
<1>6. \A S : <<>> \in Seq(S)
  OBVIOUS
<1>7. /\ operator_stack' \in Seq({"("} \cup OPS)
      /\ clause_stack' \in Seq(Expression(csr_comb'[covpt']))
      /\ current_clause' \in Seq(ToSet(toks'))
  BY <1>4, <1>6
<1>8. QED
  BY <1>2, <1>4, <1>5, <1>7 DEF ParseTypeOK

LEMMA ReadingType ==
  ASSUME ParseTypeOK, phase \in Reading
  PROVE  /\ pos \in Nat \ {0} /\ bracket_depth \in Int /\ clause_index \in Nat \ {0}
         /\ Stacks(csr_comb[covpt], operator_stack, clause_stack, current_clause)
         /\ pos <= Len(toks) => /\ pos \in DOMAIN toks
                                /\ Append(current_clause, toks[pos]) \in Seq(ToSet(toks))
         /\ Append(operator_stack, "(") \in Seq({"("} \cup OPS)
         /\ Append(clause_stack, LiteralExpression(Recognised(current_clause)))
              \in Seq(Expression(csr_comb[covpt]))
         /\ operator_stack # <<>> => Front(operator_stack) \in Seq({"("} \cup OPS)
         /\ <<>> \in Seq(ToSet(toks))
<1>1. /\ pos \in Nat \ {0} /\ bracket_depth \in Int /\ clause_index \in Nat \ {0}
      /\ csr_comb \in CsrCombs /\ covpt \in DOMAIN csr_comb
  BY DEF ParseTypeOK
<1>2. PICK p, s : p = csr_comb[covpt] /\ s = toks
  OBVIOUS
<1>3. Stacks(p, operator_stack, clause_stack, current_clause)
  BY <1>2 DEF ParseTypeOK, Stacks, toks
<1>4. s \in Seq(Lexeme) /\ s = Covpt[p].toks
  BY <1>1, <1>2, CovptType DEF toks
<1>5. ASSUME pos <= Len(s)
      PROVE  pos \in DOMAIN s /\ Append(current_clause, s[pos]) \in Seq(ToSet(s))
  <2>1. pos \in DOMAIN s
    BY <1>1, <1>4, <1>5
  <2>2. s[pos] \in ToSet(s)
    BY <2>1 DEF ToSet
  <2>3. current_clause \in Seq(ToSet(s))
    BY <1>3, <1>4 DEF Stacks
  <2>4. QED
    BY <2>1, <2>2, <2>3, StackOps
<1>6. Append(operator_stack, "(") \in Seq({"("} \cup OPS)
  BY <1>3, StackOps DEF Stacks
<1>7. Append(clause_stack, LiteralExpression(Recognised(current_clause))) \in Seq(Expression(p))
  BY <1>3, PushType DEF Stacks
<1>8. operator_stack # <<>> => Front(operator_stack) \in Seq({"("} \cup OPS)
  BY <1>3, StackOps DEF Stacks
<1>9. <<>> \in Seq(ToSet(s))
  OBVIOUS
<1>10. QED
  BY <1>1, <1>2, <1>3, <1>5, <1>6, <1>7, <1>8, <1>9

LEMMA TokensKeep ==
  ASSUME ParseTypeOK, OpenBracket \/ CloseInClause \/ CloseAfterClause \/ CloseGroup \/ TextToken
  PROVE  ParseTypeOK'
<1>1. PICK p : p = csr_comb[covpt]
  OBVIOUS
<1>2. phase = "scan" /\ phase \in Reading /\ pos <= Len(toks)
  BY DEF OpenBracket, CloseInClause, CloseAfterClause, CloseGroup, TextToken, HasToken, Reading
<1>3. pos \in Nat \ {0} /\ bracket_depth \in Int /\ clause_index \in Nat \ {0}
  BY <1>2, ReadingType
<1>4. /\ UNCHANGED <<csr_comb, covpt, invalid, clause_index>>
      /\ pos' = pos \/ pos' = pos + 1
      /\ \/ bracket_depth' = bracket_depth \/ bracket_depth' = bracket_depth + 1
         \/ bracket_depth' = bracket_depth - 1
      /\ phase' \in {"scan", "ended", "close"}
  BY <1>2 DEF OpenBracket, CloseInClause, CloseAfterClause, CloseGroup, TextToken
<1>5. /\ pos' \in Nat \ {0} /\ bracket_depth' \in Int /\ clause_index' \in Nat \ {0}
      /\ phase' \in Reading \cup {"solve"} /\ phase' # "operator" /\ phase' # "solve"
  BY <1>3, <1>4 DEF Reading
<1>6. /\ operator_stack' = operator_stack \/ operator_stack' = Append(operator_stack, "(")
      /\ \/ clause_stack' = clause_stack
         \/ clause_stack' = Append(clause_stack, LiteralExpression(Recognised(current_clause)))
      /\ current_clause' = current_clause \/ current_clause' = Append(current_clause, toks[pos])
  BY DEF OpenBracket, CloseInClause, CloseAfterClause, CloseGroup, TextToken, PushLiteral
<1>7. Stacks(p, operator_stack', clause_stack', current_clause')
  <2>1. operator_stack' \in Seq({"("} \cup OPS)
    BY <1>2, <1>6, ReadingType DEF Stacks
  <2>2. clause_stack' \in Seq(Expression(p))
    BY <1>1, <1>2, <1>6, ReadingType DEF Stacks
  <2>3. current_clause' \in Seq(ToSet(Covpt[p].toks))
    BY <1>1, <1>2, <1>6, ReadingType DEF Stacks, toks
  <2>4. QED
    BY <2>1, <2>2, <2>3 DEF Stacks
<1>8. QED
  BY <1>1, <1>2, <1>4, <1>5, <1>7, SameCovpt

LEMMA EndsKeep ==
  ASSUME ParseTypeOK, Operator \/ EndOfTokens \/ PushOperator \/ GroupDone \/ ClauseDone \/ Parsed
  PROVE  ParseTypeOK'
<1>1. PICK p : p = csr_comb[covpt]
  OBVIOUS
<1>2. phase \in Reading
  BY DEF Operator, EndOfTokens, PushOperator, GroupDone, ClauseDone, Parsed, HasToken, Reading
<1>3. pos \in Nat \ {0} /\ bracket_depth \in Int /\ clause_index \in Nat \ {0}
  BY <1>2, ReadingType
<1>4. /\ UNCHANGED <<csr_comb, covpt, invalid, bracket_depth>>
      /\ pos' = pos \/ pos' = pos + 1 \/ pos' = 1
      /\ clause_index' = clause_index \/ clause_index' = clause_index + 1
      /\ phase' \in {"operator", "final", "scan", "solve"}
  BY DEF Operator, EndOfTokens, PushOperator, GroupDone, ClauseDone, Parsed
<1>5. /\ pos' \in Nat \ {0} /\ bracket_depth' \in Int /\ clause_index' \in Nat \ {0}
      /\ phase' \in Reading \cup {"solve"}
  BY <1>3, <1>4 DEF Reading
<1>6. phase' = "operator" => pos' \in DOMAIN toks /\ toks[pos'].sym \in OPS
  <2>1. SUFFICES ASSUME phase' = "operator"
                 PROVE  pos' \in DOMAIN toks /\ toks[pos'].sym \in OPS
    OBVIOUS
  <2>2. Operator
    BY <2>1 DEF EndOfTokens, PushOperator, GroupDone, ClauseDone, Parsed
  <2>3. pos' = pos /\ pos <= Len(toks) /\ toks[pos].sym \in OPS
    BY <2>2 DEF Operator, HasToken, tok
  <2>4. pos \in DOMAIN toks
    BY <1>2, <2>3, ReadingType
  <2>5. QED
    BY <2>3, <2>4
<1>7. phase' = "solve" => clause_stack' # <<>>
  BY DEF Operator, EndOfTokens, PushOperator, GroupDone, ClauseDone, Parsed
<1>8. /\ \/ clause_stack' = clause_stack
         \/ clause_stack' = Append(clause_stack, LiteralExpression(Recognised(current_clause)))
      /\ current_clause' = current_clause \/ current_clause' = <<>>
  BY DEF Operator, EndOfTokens, PushOperator, GroupDone, ClauseDone, Parsed, PushLiteral
<1>9. operator_stack' \in Seq({"("} \cup OPS)
  <2>1. operator_stack \in Seq({"("} \cup OPS)
    BY <1>2, ReadingType DEF Stacks
  <2>2. CASE PushOperator
    <3>1. phase = "operator" /\ operator_stack' = Append(operator_stack, tok)
      BY <2>2 DEF PushOperator
    <3>2. tok \in {"("} \cup OPS
      BY <3>1 DEF ParseTypeOK
    <3>3. QED
      BY <2>1, <3>1, <3>2, StackOps
  <2>3. CASE GroupDone \/ ClauseDone
    <3>1. operator_stack # <<>> /\ operator_stack' = Front(operator_stack)
      BY <2>3 DEF GroupDone, ClauseDone
    <3>2. QED
      BY <1>2, <3>1, ReadingType
  <2>4. CASE Operator \/ EndOfTokens \/ Parsed
    <3>1. operator_stack' = operator_stack
      BY <2>4 DEF Operator, EndOfTokens, Parsed
    <3>2. QED
      BY <2>1, <3>1
  <2>5. QED
    BY <2>2, <2>3, <2>4
<1>10. Stacks(p, operator_stack', clause_stack', current_clause')
  <2>1. clause_stack' \in Seq(Expression(p))
    BY <1>1, <1>2, <1>8, ReadingType DEF Stacks
  <2>2. current_clause' \in Seq(ToSet(Covpt[p].toks))
    BY <1>1, <1>2, <1>8, ReadingType DEF Stacks, toks
  <2>3. QED
    BY <1>9, <2>1, <2>2 DEF Stacks
<1>11. QED
  BY <1>1, <1>2, <1>4, <1>5, <1>6, <1>7, <1>10, SameCovpt

LEMMA ApplyKeeps ==
  ASSUME ParseTypeOK, Apply
  PROVE  ParseTypeOK'
<1>1. PICK p : p = csr_comb[covpt]
  OBVIOUS
<1>2. operator_stack # <<>> /\ phase \in Reading
  BY DEF Apply, Popping, Reading
<1>3. pos \in Nat \ {0} /\ bracket_depth \in Int /\ clause_index \in Nat \ {0}
  BY <1>2, ReadingType
<1>4. UNCHANGED <<csr_comb, covpt, phase, pos, bracket_depth, clause_index, current_clause, invalid>>
  BY DEF Apply
<1>5. /\ pos' \in Nat \ {0} /\ bracket_depth' \in Int /\ clause_index' \in Nat \ {0}
      /\ phase' \in Reading \cup {"solve"} /\ phase' # "solve"
  BY <1>2, <1>3, <1>4 DEF Reading
<1>6. phase' = "operator" => pos' \in DOMAIN toks /\ toks[pos'].sym \in OPS
  BY <1>4 DEF ParseTypeOK, tok
<1>7. PICK exprs, n : exprs = clause_stack /\ n = Arity
  OBVIOUS
<1>8. exprs \in Seq(Expression(p)) /\ Len(exprs) \in Nat /\ n \in {1, 2} /\ n <= Len(exprs)
  <2>1. exprs \in Seq(Expression(p))
    BY <1>1, <1>2, <1>7, ReadingType DEF Stacks
  <2>2. n \in {1, 2} /\ n <= Len(exprs)
    <3>1. Len(clause_stack) >= Arity /\ Arity \in {1, 2}
      BY DEF Apply, Arity
    <3>2. Len(exprs) \in Nat
      BY <2>1
    <3>3. QED
      BY <1>7, <3>1, <3>2
  <2>3. QED
    BY <2>1, <2>2
<1>9. ASSUME NEW k \in {1, 2}, k <= n
      PROVE  Operand(k) \in Expression(p)
  <2>1. Len(exprs) + 1 - k \in 1..Len(exprs)
    BY <1>8, <1>9
  <2>2. exprs[Len(exprs) + 1 - k] \in Expression(p)
    BY <1>8, <2>1
  <2>3. QED
    BY <1>7, <2>2 DEF Operand
<1>10. \E e \in Expression(p) : clause_stack' = Append(SubSeq(exprs, 1, Len(exprs) - n), e)
  <2>1. CASE Last(operator_stack) = "not"
    <3>1. NotExpression(Operand(1)) \in Expression(p)
      BY <1>8, <1>9, NotType
    <3>2. clause_stack' = Append(SubSeq(exprs, 1, Len(exprs) - n), NotExpression(Operand(1)))
      BY <1>7, <2>1 DEF Apply
    <3>3. QED
      BY <3>1, <3>2
  <2>2. CASE Last(operator_stack) # "not"
    <3>1. n = 2
      BY <1>7, <2>2 DEF Arity
    <3>2. Operand(1) \in Expression(p) /\ Operand(2) \in Expression(p)
      BY <1>9, <3>1
    <3>3. AndExpression(Operand(2), Operand(1)) \in Expression(p)
      BY <3>2, AndType
    <3>4. OrExpression(Operand(2), Operand(1)) \in Expression(p)
      BY <3>2, OrType
    <3>5. \/ clause_stack' = Append(SubSeq(exprs, 1, Len(exprs) - n), AndExpression(Operand(2), Operand(1)))
          \/ clause_stack' = Append(SubSeq(exprs, 1, Len(exprs) - n), OrExpression(Operand(2), Operand(1)))
      BY <1>7, <2>2 DEF Apply
    <3>6. QED
      BY <3>3, <3>4, <3>5
  <2>3. QED
    BY <2>1, <2>2
<1>11. clause_stack' \in Seq(Expression(p))
  <2>1. PICK S : S = Expression(p)
    OBVIOUS
  <2>2. SubSeq(exprs, 1, Len(exprs) - n) \in Seq(S)
    BY <1>8, <2>1, StackOps
  <2>3. QED
    BY <1>10, <2>1, <2>2, StackOps
<1>12. operator_stack' \in Seq({"("} \cup OPS)
  <2>1. operator_stack' = Front(operator_stack)
    BY DEF Apply
  <2>2. QED
    BY <1>2, <2>1, ReadingType
<1>13. Stacks(p, operator_stack', clause_stack', current_clause')
  BY <1>1, <1>2, <1>4, <1>11, <1>12, ReadingType DEF Stacks
<1>14. QED
  BY <1>1, <1>2, <1>4, <1>5, <1>6, <1>13, SameCovpt

LEMMA ParseKeeps ==
  ASSUME ParseTypeOK, Parse
  PROVE  ParseTypeOK'
<1>1. CASE Reject
  <2>1. phase \in Reading
    BY <1>1 DEF Reject, IndexError, Popping, HasToken, Reading
  <2>2. NextCovpt /\ invalid' \subseteq invalid \cup {covpt}
    BY <1>1 DEF Reject
  <2>3. QED
    BY <2>1, <2>2, NextCovptType
<1>2. QED
  BY <1>1, TokensKeep, EndsKeep, ApplyKeeps DEF Parse

-----------------------------------------------------------------------------
(***************************************************************************)
(* The instances                                                           *)
(***************************************************************************)
LEMMA ClausesType ==
  ASSUME NEW list \in CsrCombs, NEW i \in DOMAIN list
  PROVE  ClausesOf(list[i]) \in SUBSET ({0} \cup DOMAIN Clause)
<1>1. ASSUME NEW t \in ToSet(Covpt[list[i]].toks)
      PROVE  t.of \in {0} \cup DOMAIN Clause
  <2>1. t \in Lexeme
    BY CovptType
  <2>2. QED
    BY <2>1 DEF Lexeme
<1>2. QED
  BY <1>1 DEF ClausesOf

LEMMA SolutionType ==
  ASSUME ParseTypeOK, phase = "solve", pos <= Len(bool_expr.SAT)
  PROVE  /\ covpt \in DOMAIN csr_comb
         /\ bool_expr.SAT[pos].t \in Seq(ClausesOf(csr_comb[covpt]))
         /\ bool_expr.SAT[pos].t \in Sols
<1>1. /\ csr_comb \in CsrCombs /\ covpt \in DOMAIN csr_comb /\ pos \in Nat \ {0}
      /\ clause_stack \in Seq(Expression(csr_comb[covpt])) /\ clause_stack # <<>>
  BY DEF ParseTypeOK
<1>2. PICK p, e : p = csr_comb[covpt] /\ e = bool_expr
  OBVIOUS
<1>3. e \in Expression(p)
  BY <1>1, <1>2, StackOps DEF bool_expr
<1>4. e.SAT \in Seq(Solution(p))
  BY <1>3 DEF Expression
<1>5. PICK s : s = e.SAT[pos]
  OBVIOUS
<1>6. s \in Solution(p)
  BY <1>1, <1>2, <1>4, <1>5
<1>7. s.t \in Seq(ClausesOf(p))
  BY <1>6 DEF Solution
<1>8. ClausesOf(p) \in SUBSET ({0} \cup DOMAIN Clause)
  BY <1>1, <1>2, ClausesType
<1>9. s.t \in Seq({0} \cup DOMAIN Clause)
  BY <1>7, <1>8
<1>10. QED
  BY <1>1, <1>2, <1>5, <1>7, <1>9 DEF Sols

\* The set of the elements of a sequence is finite.
LEMMA ElementsFinite ==
  ASSUME NEW S, NEW s \in Seq(S)
  PROVE  IsFiniteSet(ToSet(s))
<1>1. Len(s) \in Nat /\ DOMAIN s = 1..Len(s) /\ IsFiniteSet(1..Len(s))
  BY FS_Interval
<1>2. [k \in 1..Len(s) |-> s[k]] \in Surjection(1..Len(s), ToSet(s))
  BY <1>1 DEF Surjection, ToSet
<1>3. QED
  BY <1>1, <1>2, FS_Surjection

LEMMA CsrsOfFinite ==
  ASSUME csr_comb \in CsrCombs, NEW i \in DOMAIN csr_comb
  PROVE  IsFiniteSet(CsrsOf(i))
<1>1. PICK L : L = Lexemes(i)
  OBVIOUS
<1>2. IsFiniteSet(L)
  <2>1. Covpt[csr_comb[i]].toks \in Seq(Lexeme)
    BY CovptType
  <2>2. QED
    BY <1>1, <2>1, ElementsFinite DEF Lexemes
<1>3. PICK T : T = {CsrReg(t.of) : t \in L}
  OBVIOUS
<1>4. [t \in L |-> CsrReg(t.of)] \in Surjection(L, T)
  BY <1>3 DEF Surjection
<1>5. IsFiniteSet(T)
  BY <1>2, <1>4, FS_Surjection
<1>6. CsrsOf(i) \in SUBSET T
  BY <1>1, <1>3 DEF CsrsOf
<1>7. QED
  BY <1>5, <1>6, FS_Subset

\* An instance of a coverpoint that names one register takes one word at most.
LEMMA OneWord ==
  ASSUME csr_comb \in CsrCombs, NEW i \in DOMAIN csr_comb, OneCsr(i),
         NEW sol \in Seq(ClausesOf(csr_comb[i])), sol \in Sols
  PROVE  Len(reg_mask_val_arr(sol)) <= 1
<1>1. PICK arr, C : arr = reg_mask_val_arr(sol) /\ C = CsrsIn(sol)
  OBVIOUS
<1>2. arr \in Seq(C) /\ Distinct(arr)
  BY <1>1, ArrIs
<1>3. C \in SUBSET CsrsOf(i)
  <2> SUFFICES ASSUME NEW r \in CsrsIn(sol)
               PROVE  r \in CsrsOf(i)
    BY <1>1
  <2>1. PICK c \in ToSet(sol) : r = CsrReg(c) /\ r # None
    BY DEF CsrsIn
  <2>2. c \in ClausesOf(csr_comb[i])
    BY <2>1 DEF ToSet
  <2>3. c # 0
    BY <2>1 DEF CsrReg
  <2>4. PICK t \in Lexemes(i) : c = t.of
    BY <2>2, <2>3 DEF ClausesOf, Lexemes
  <2>5. QED
    BY <2>1, <2>4 DEF CsrsOf
<1>4. IsFiniteSet(CsrsOf(i)) /\ Cardinality(CsrsOf(i)) <= 1
  BY CsrsOfFinite DEF OneCsr
<1>5. SUFFICES ASSUME ~(Len(arr) <= 1)
               PROVE  FALSE
  BY <1>1
<1>6. 1 \in 1..Len(arr) /\ 2 \in 1..Len(arr) /\ Len(arr) \in Nat
  BY <1>2, <1>5
<1>7. arr[1] \in C /\ arr[2] \in C /\ arr[1] # arr[2]
  BY <1>2, <1>6 DEF Distinct
<1>8. PICK a, b : a = arr[1] /\ b = arr[2]
  OBVIOUS
<1>9. {a, b} \in SUBSET CsrsOf(i) /\ a # b
  BY <1>3, <1>7, <1>8
<1>10. PICK A, B, K : A = {a} /\ B = A \cup {b} /\ K = CsrsOf(i)
  OBVIOUS
<1>11. Cardinality(B) = 2
  <2>1. IsFiniteSet(A) /\ Cardinality(A) = 1 /\ b \notin A
    BY <1>9, <1>10, FS_Singleton
  <2>2. Cardinality(A \cup {b}) = Cardinality(A) + 1
    BY <2>1, FS_AddElement
  <2>3. QED
    BY <1>10, <2>1, <2>2
<1>12. B \in SUBSET K /\ IsFiniteSet(K) /\ Cardinality(K) <= 1
  BY <1>4, <1>9, <1>10
<1>13. Cardinality(B) <= Cardinality(K) /\ Cardinality(K) \in Nat
  BY <1>12, FS_Subset, FS_CardinalityType
<1>14. QED
  BY <1>11, <1>12, <1>13

LEMMA AddedInstance ==
  ASSUME ParseTypeOK, InstInv, AddInstance
  PROVE  InstInv'
<1>1. PICK sol : sol = bool_expr.SAT[pos].t
  OBVIOUS
<1>2. PICK r, d, N : r = Len(reg_mask_val_arr(sol)) /\ d = Instance(sol) /\ N = Len(instr_dict)
  OBVIOUS
<1>3. /\ phase = "solve" /\ pos <= Len(bool_expr.SAT)
      /\ instr_dict' = Append(instr_dict, d) /\ offset' = offset + r /\ csr_comb' = csr_comb
  BY <1>1, <1>2 DEF AddInstance
<1>4. covpt \in DOMAIN csr_comb /\ sol \in Seq(ClausesOf(csr_comb[covpt])) /\ sol \in Sols /\ csr_comb \in CsrCombs
  BY <1>1, <1>3, SolutionType DEF ParseTypeOK
<1>5. r \in Nat /\ offset \in Nat /\ N \in Nat /\ DOMAIN instr_dict = 1..N
  BY <1>2, <1>4, ArrType DEF InstInv
<1>6. PICK D : D = [covpt : DOMAIN csr_comb, sol : Seq({0} \cup DOMAIN Clause), first : Nat,
                    code : Seq(Write \cup Read \cup Restore)]
  OBVIOUS
<1>7. /\ d \in D /\ d.covpt = covpt /\ d.sol = sol /\ d.first = offset
      /\ d.code = CsrWrites(sol) \o CsrReads(sol, offset) \o CsrRestores(sol)
  <2>1. PICK code1 : code1 = InstanceCode(sol, offset)
    OBVIOUS
  <2>2. code1 \in Seq(Write \cup Read \cup Restore)
    BY <1>4, <1>5, <2>1, CodeShape DEF Shape
  <2>3. d = [covpt |-> covpt, sol |-> sol, first |-> offset, code |-> code1]
    BY <1>2, <2>1 DEF Instance, InstanceCode
  <2>4. sol \in Seq({0} \cup DOMAIN Clause)
    BY <1>4 DEF Sols
  <2>5. d \in D
    BY <1>4, <1>5, <1>6, <2>2, <2>3, <2>4
  <2>6. QED
    BY <2>1, <2>3, <2>5 DEF InstanceCode
<1>8. instr_dict \in Seq(D)
  BY <1>6 DEF InstInv
<1>9. /\ instr_dict' \in Seq(D) /\ Len(instr_dict') = N + 1 /\ DOMAIN instr_dict' = 1..(N + 1)
      /\ instr_dict'[N + 1] = d /\ \A i \in 1..N : instr_dict'[i] = instr_dict[i]
  BY <1>2, <1>3, <1>5, <1>7, <1>8
<1>10. ASSUME NEW i \in 1..(N + 1)
       PROVE  LET e == instr_dict'[i] IN
         /\ e.sol \in Seq(ClausesOf(csr_comb'[e.covpt]))
         /\ e.code = CsrWrites(e.sol) \o CsrReads(e.sol, e.first) \o CsrRestores(e.sol)
         /\ e.first + Len(reg_mask_val_arr(e.sol)) <=
              IF i < N + 1 THEN instr_dict'[i + 1].first ELSE offset'
  <2>1. CASE i = N + 1
    <3>1. instr_dict'[i] = d /\ ~(i < N + 1)
      BY <1>5, <1>9, <2>1
    <3>2. d.first + Len(reg_mask_val_arr(d.sol)) <= offset'
      BY <1>2, <1>3, <1>5, <1>7
    <3>3. QED
      BY <1>3, <1>4, <1>7, <3>1, <3>2
  <2>2. CASE i # N + 1
    <3>1. i \in 1..N /\ i < N + 1 /\ i + 1 \in 1..(N + 1)
      BY <1>5, <2>2
    <3>2. PICK e : e = instr_dict[i]
      OBVIOUS
    <3>3. /\ instr_dict'[i] = e
          /\ e.sol \in Seq(ClausesOf(csr_comb[e.covpt]))
          /\ e.code = CsrWrites(e.sol) \o CsrReads(e.sol, e.first) \o CsrRestores(e.sol)
          /\ e.first + Len(reg_mask_val_arr(e.sol)) <= IF i < N THEN instr_dict[i + 1].first ELSE offset
      BY <1>2, <1>5, <1>9, <3>1, <3>2 DEF InstInv
    <3>4. instr_dict'[i + 1].first = IF i < N THEN instr_dict[i + 1].first ELSE offset
      <4>1. CASE i < N
        <5>1. i + 1 \in 1..N
          BY <1>5, <3>1, <4>1
        <5>2. QED
          BY <1>9, <4>1, <5>1
      <4>2. CASE ~(i < N)
        <5>1. i + 1 = N + 1
          BY <1>5, <3>1, <4>2
        <5>2. QED
          BY <1>7, <1>9, <4>2, <5>1
      <4>3. QED
        BY <4>1, <4>2
    <3>5. QED
      BY <1>3, <3>1, <3>3, <3>4
  <2>3. QED
    BY <2>1, <2>2
<1>11. ASSUME \A i \in DOMAIN csr_comb : OneCsr(i)
       PROVE  offset' <= N + 1
  <2>1. r <= 1
    BY <1>2, <1>4, <1>11, OneWord
  <2>2. offset <= N
    BY <1>2, <1>11 DEF InstInv
  <2>3. QED
    BY <1>3, <1>5, <2>1, <2>2
<1>12. \A i \in DOMAIN csr_comb : OneCsr(i)' <=> OneCsr(i)
  BY <1>3 DEF OneCsr, CsrsOf, Lexemes
<1>13. offset' \in Nat
  BY <1>3, <1>5
<1>14. (\A i \in DOMAIN csr_comb' : OneCsr(i)') => offset' <= Len(instr_dict')
  BY <1>3, <1>9, <1>11, <1>12
<1>15. QED
  BY <1>3, <1>6, <1>9, <1>10, <1>13, <1>14 DEF InstInv

LEMMA InstKept ==
  ASSUME InstInv, UNCHANGED <<csr_comb, instr_dict, offset>>
  PROVE  InstInv'
<1>1. \A i \in DOMAIN csr_comb : OneCsr(i)' <=> OneCsr(i)
  BY DEF OneCsr, CsrsOf, Lexemes
<1>2. QED
  BY <1>1 DEF InstInv

-----------------------------------------------------------------------------
(***************************************************************************)
(* The steps of the generator and of the test                              *)
(***************************************************************************)
LEMMA CsrStart == Init => CsrIInv
<1> SUFFICES ASSUME Init
             PROVE  CsrIInv
  OBVIOUS
<1>1. /\ csr_comb \in CsrCombs /\ covpt = 1 /\ pos = 1 /\ bracket_depth = 0
      /\ phase = IF csr_comb = <<>> THEN "write_test" ELSE "scan"
      /\ operator_stack = <<>> /\ clause_stack = <<>>
      /\ clause_index = 1 /\ current_clause = <<>> /\ invalid = {}
      /\ instr_dict = <<>> /\ offset = 0 /\ csr = Reset /\ saved = <<>> /\ signature = [w \in {} |-> 0]
  BY DEF Init, ParseInit
<1>2. csr_comb \in Seq(DOMAIN Covpt)
  BY <1>1, CovptAssumption
<1>3. covpt \in 1..(Len(csr_comb) + 1) /\ (phase = "scan" => covpt \in DOMAIN csr_comb)
  BY <1>1, <1>2
<1>4. \A S : <<>> \in Seq(S)
  OBVIOUS
<1>5. ParseTypeOK
  BY <1>1, <1>3, <1>4 DEF ParseTypeOK, Reading
<1>6. InstInv
  <2>1. Len(instr_dict) = 0 /\ DOMAIN instr_dict = {}
    BY <1>1
  <2>2. instr_dict \in Seq([covpt : DOMAIN csr_comb, sol : Seq({0} \cup DOMAIN Clause), first : Nat,
                          code : Seq(Write \cup Read \cup Restore)])
    BY <1>1, <1>4
  <2>3. QED
    BY <1>1, <2>1, <2>2 DEF InstInv
<1>7. DOMAIN saved = {} /\ DOMAIN signature = {} /\ csr \in [Csrs -> SUBSET Bits]
  BY <1>1, ResetAssumption
<1>8. phase \notin {"run", "done"}
  BY <1>1
<1>9. CodeInv /\ SavedInv /\ ReadInv /\ DoneInv
  BY <1>1, <1>7, <1>8 DEF CodeInv, SavedInv, ReadInv, DoneInv
<1>10. QED
  BY <1>5, <1>6, <1>9 DEF CsrIInv

LEMMA NotRunning ==
  ASSUME SavedInv, ReadInv, phase \notin {"run", "done"}, phase' \notin {"run", "done"}, UNCHANGED runVars
  PROVE  CodeInv' /\ SavedInv' /\ ReadInv' /\ DoneInv'
<1>1. csr' = csr /\ saved' = saved /\ signature' = signature
  BY DEF runVars
<1>2. csr = Reset /\ csr \in [Csrs -> SUBSET Bits] /\ \A k \in DOMAIN saved : saved[k] \in SUBSET Bits
  BY DEF SavedInv
<1>3. DOMAIN signature = {}
  BY DEF ReadInv
<1>4. QED
  BY <1>1, <1>2, <1>3 DEF CodeInv, SavedInv, ReadInv, DoneInv

LEMMA ParsePhase ==
  ASSUME ParseTypeOK, Parse
  PROVE  phase \notin {"run", "done"} /\ phase' \notin {"run", "done"} /\ csr_comb' = csr_comb
<1>1. CASE OpenBracket \/ CloseInClause \/ CloseAfterClause \/ CloseGroup \/ TextToken
  BY <1>1 DEF OpenBracket, CloseInClause, CloseAfterClause, CloseGroup, TextToken, HasToken
<1>2. CASE Operator \/ EndOfTokens \/ PushOperator \/ GroupDone \/ ClauseDone \/ Parsed
  BY <1>2 DEF Operator, EndOfTokens, PushOperator, GroupDone, ClauseDone, Parsed, HasToken
<1>3. CASE Apply
  BY <1>3 DEF Apply, Popping
<1>4. CASE Reject
  BY <1>4 DEF Reject, IndexError, NextCovpt, HasToken, Popping
<1>5. QED
  BY <1>1, <1>2, <1>3, <1>4 DEF Parse

LEMMA ParseStepKeeps ==
  ASSUME CsrIInv, Parse, UNCHANGED <<genVars, code, filled, at, runVars>>
  PROVE  CsrIInv'
<1>1. ParseTypeOK /\ InstInv /\ SavedInv /\ ReadInv
  BY DEF CsrIInv
<1>2. ParseTypeOK'
  BY <1>1, ParseKeeps
<1>3. phase \notin {"run", "done"} /\ phase' \notin {"run", "done"} /\ csr_comb' = csr_comb
  BY <1>1, ParsePhase
<1>4. InstInv'
  BY <1>1, <1>3, InstKept DEF genVars
<1>5. UNCHANGED runVars
  OBVIOUS
<1>6. CodeInv' /\ SavedInv' /\ ReadInv' /\ DoneInv'
  BY <1>1, <1>3, <1>5, NotRunning
<1>7. QED
  BY <1>2, <1>4, <1>6 DEF CsrIInv

LEMMA AddInstanceKeeps ==
  ASSUME CsrIInv, AddInstance
  PROVE  CsrIInv'
<1>1. ParseTypeOK /\ InstInv /\ SavedInv /\ ReadInv
  BY DEF CsrIInv
<1>2. /\ phase = "solve" /\ pos' = pos + 1
      /\ UNCHANGED <<csr_comb, covpt, phase, bracket_depth, operator_stack, clause_stack,
                     clause_index, current_clause, invalid, runVars>>
  BY DEF AddInstance
<1>3. ParseTypeOK'
  <2>1. pos' \in Nat \ {0}
    BY <1>1, <1>2 DEF ParseTypeOK
  <2>2. toks' = toks /\ phase' # "operator"
    BY <1>2 DEF toks
  <2>3. QED
    BY <1>1, <1>2, <2>1, <2>2 DEF ParseTypeOK
<1>4. InstInv'
  BY <1>1, AddedInstance
<1>5. UNCHANGED runVars /\ phase \notin {"run", "done"} /\ phase' \notin {"run", "done"}
  BY <1>2
<1>6. CodeInv' /\ SavedInv' /\ ReadInv' /\ DoneInv'
  BY <1>1, <1>5, NotRunning
<1>7. QED
  BY <1>3, <1>4, <1>6 DEF CsrIInv

LEMMA AllAddedKeeps ==
  ASSUME CsrIInv, AllAdded
  PROVE  CsrIInv'
<1>1. ParseTypeOK /\ InstInv /\ SavedInv /\ ReadInv
  BY DEF CsrIInv
<1>2. phase = "solve" /\ NextCovpt /\ UNCHANGED <<invalid, instr_dict, offset, runVars>>
  BY DEF AllAdded, genVars
<1>3. ParseTypeOK'
  BY <1>1, <1>2, NextCovptType
<1>4. csr_comb' = csr_comb /\ phase' \notin {"run", "done"} /\ phase \notin {"run", "done"}
  BY <1>2 DEF NextCovpt
<1>5. InstInv'
  BY <1>1, <1>2, <1>4, InstKept
<1>6. UNCHANGED runVars
  BY <1>2
<1>7. CodeInv' /\ SavedInv' /\ ReadInv' /\ DoneInv'
  BY <1>1, <1>4, <1>6, NotRunning
<1>8. QED
  BY <1>3, <1>5, <1>7 DEF CsrIInv

LEMMA SavedIs == SavedInv <=>
  /\ csr \in [Csrs -> SUBSET Bits] /\ \A k \in DOMAIN saved : saved[k] \in SUBSET Bits
  /\ phase \notin {"run", "done"} => csr = Reset
  /\ phase \in {"run", "done"} => SavedAt(code, at, csr, saved)
  BY DEF SavedInv, SavedAt

LEMMA SavedThen ==
  ASSUME SavedAt(code', at', csr', saved'), phase' \in {"run", "done"}
  PROVE  SavedInv'
  BY DEF SavedInv, SavedAt, Unrestored, Before

LEMMA WriteTestKeeps ==
  ASSUME CsrIInv, WriteTest
  PROVE  CsrIInv'
<1>1. ParseTypeOK /\ InstInv /\ SavedInv /\ ReadInv
  BY DEF CsrIInv
<1>2. /\ phase = "write_test" /\ phase' = "run" /\ at' = 1 /\ code' = Macros /\ filled' = Len(instr_dict)
      /\ UNCHANGED <<csr_comb, covpt, pos, bracket_depth, operator_stack, clause_stack, clause_index,
                     current_clause, invalid, instr_dict, offset, csr, saved, signature>>
  BY DEF WriteTest, parserVars, genVars, runVars
<1>3. ParseTypeOK'
  BY <1>1, <1>2 DEF ParseTypeOK, Reading
<1>4. InstInv'
  BY <1>1, <1>2, InstKept
<1>5. Macros' = Macros
  BY <1>2 DEF Macros
<1>6. Len(Macros) \in Nat
  BY <1>1, MacrosPlaced
<1>7. CodeInv'
  BY <1>2, <1>5, <1>6 DEF CodeInv
<1>8. SavedInv'
  <2>1. csr = Reset /\ csr \in [Csrs -> SUBSET Bits] /\ \A k \in DOMAIN saved : saved[k] \in SUBSET Bits
    BY <1>1, <1>2 DEF SavedInv
  <2>2. \A what : Before(Macros, 1, what) = {}
    BY DEF Before
  <2>3. Unrestored(Macros, 1) = {}
    BY <2>2 DEF Unrestored
  <2>4. SavedAt(Macros, 1, csr, saved)
    BY <2>1, <2>3 DEF SavedAt
  <2>5. SavedAt(code', at', csr', saved')
    BY <1>2, <2>4
  <2>6. QED
    BY <1>2, <2>5, SavedThen
<1>9. ReadInv'
  <2>1. DOMAIN signature' = {} /\ at' - 1 = 0
    BY <1>1, <1>2 DEF ReadInv
  <2>2. 1..(at' - 1) = {}
    BY <2>1
  <2>3. QED
    BY <2>1, <2>2 DEF ReadInv
<1>10. DoneInv'
  BY <1>2 DEF DoneInv
<1>11. QED
  BY <1>3, <1>4, <1>7, <1>8, <1>9, <1>10 DEF CsrIInv

\* A macro of the test is executed.
LEMMA MacroKeeps ==
  ASSUME CsrIInv, phase = "run", at <= Len(code), at' = at + 1,
         UNCHANGED <<parseVars, genVars, code, filled>>,
         SavedAt(code, at + 1, csr', saved'),
         DOMAIN signature' = DOMAIN signature \cup (IF macro.do = "read" THEN {macro.offset} ELSE {})
  PROVE  CsrIInv'
<1>1. ParseTypeOK /\ InstInv /\ CodeInv /\ ReadInv
  BY DEF CsrIInv
<1>2. UNCHANGED <<csr_comb, covpt, phase, pos, bracket_depth, operator_stack, clause_stack, clause_index,
                  current_clause, invalid, instr_dict, offset, code, filled>>
  BY DEF parseVars, parserVars, genVars
<1>3. ParseTypeOK'
  BY <1>1, <1>2 DEF ParseTypeOK, Reading
<1>4. InstInv'
  BY <1>1, <1>2, InstKept
<1>5. Macros' = Macros
  BY <1>2 DEF Macros
<1>6. code = Macros /\ filled = Len(instr_dict) /\ at \in 1..(Len(code) + 1) /\ Len(code) \in Nat
  BY <1>1, MacrosPlaced DEF CodeInv
<1>7. CodeInv'
  <2>1. at + 1 \in 1..(Len(code) + 1)
    BY <1>6
  <2>2. QED
    BY <1>2, <1>5, <1>6, <2>1 DEF CodeInv
<1>8. SavedInv'
  BY <1>2, SavedThen
<1>9. ReadInv'
  <2>1. PICK c, p : c = code /\ p = at
    OBVIOUS
  <2> DEFINE Reads(n) == {l \in 1..(n - 1) : c[l].macro.do = "read"}
             Offsets(K) == {c[k].macro.offset : k \in K}
             ReadsTo(n) == Offsets(Reads(n))
  <2>2. DOMAIN signature = ReadsTo(p)
    BY <1>1, <2>1 DEF ReadInv
  <2>3. ReadsTo(p + 1) = ReadsTo(p) \cup (IF c[p].macro.do = "read" THEN {c[p].macro.offset} ELSE {})
    <3>1. PICK S, T : S = Reads(p) /\ T = Reads(p + 1)
      OBVIOUS
    <3>2. p \in Nat
      BY <1>6, <2>1
    <3>3. \A l : l \in 1..(p + 1 - 1) <=> l \in 1..(p - 1) \/ l = p
      BY <1>6, <2>1
    <3>4. \A l : l \in T <=> l \in S \/ (l = p /\ c[p].macro.do = "read")
      BY <3>1, <3>3
    <3>5. ReadsTo(p) = Offsets(S) /\ ReadsTo(p + 1) = Offsets(T)
      <4> HIDE DEF Reads, Offsets
      <4>1. QED
        BY <3>1
    <3> HIDE DEF ReadsTo
    <3>6. CASE c[p].macro.do = "read"
      <4>1. T = S \cup {p}
        BY <3>4, <3>6
      <4>2. QED
        BY <3>5, <3>6, <4>1
    <3>7. CASE c[p].macro.do # "read"
      <4>1. T = S
        BY <3>4, <3>7
      <4>2. QED
        BY <3>5, <3>7, <4>1
    <3>8. QED
      BY <3>6, <3>7
  <2>4. DOMAIN signature' = ReadsTo(p + 1)
    BY <2>1, <2>2, <2>3 DEF macro
  <2>5. QED
    BY <1>2, <2>1, <2>4 DEF ReadInv
<1>10. DoneInv'
  BY <1>2 DEF DoneInv
<1>11. QED
  BY <1>3, <1>4, <1>7, <1>8, <1>9, <1>10 DEF CsrIInv

LEMMA RunKeeps ==
  ASSUME CsrIInv, WRITE_TO_CSR_FIELD_W_MASK \/ READ_CSR_REG_AND_UPD_SIG \/ RESTORE_CSR_REG
  PROVE  CsrIInv'
<1>1. InstInv /\ CodeInv /\ SavedInv
  BY DEF CsrIInv
<1>2. /\ phase = "run" /\ at <= Len(code) /\ at' = at + 1
      /\ UNCHANGED <<parseVars, genVars, code, filled>>
  BY DEF WRITE_TO_CSR_FIELD_W_MASK, READ_CSR_REG_AND_UPD_SIG, RESTORE_CSR_REG, Executing
<1>3. PICK c, p : c = code /\ p = at
  OBVIOUS
<1>4. c = Macros /\ p \in 1..Len(c)
  <2>1. code = Macros /\ at \in 1..(Len(code) + 1) /\ Len(code) \in Nat
    BY <1>1, <1>2, MacrosPlaced DEF CodeInv
  <2>2. QED
    BY <1>2, <1>3, <2>1
<1>5. SavedAt(c, p, csr, saved)
  BY <1>1, <1>2, <1>3, SavedIs
<1>6. CASE WRITE_TO_CSR_FIELD_W_MASK
  <2>1. /\ c[p].macro.do = "write"
        /\ csr' = [csr EXCEPT ![c[p].macro.csr] = (@ \ c[p].macro.mask) \cup c[p].macro.val]
        /\ saved' = [k \in DOMAIN saved \cup {c[p].macro.restore_reg} |->
                       IF k = c[p].macro.restore_reg THEN csr[c[p].macro.csr] ELSE saved[k]]
        /\ signature' = signature
    BY <1>3, <1>6 DEF WRITE_TO_CSR_FIELD_W_MASK, Executing, macro
  <2>2. SavedAt(c, p + 1, csr', saved')
    BY <1>1, <1>4, <1>5, <2>1, WriteKeepsSaved
  <2>3. DOMAIN signature' = DOMAIN signature \cup (IF macro.do = "read" THEN {macro.offset} ELSE {})
    BY <1>3, <2>1 DEF macro
  <2>4. QED
    BY <1>2, <1>3, <2>2, <2>3, MacroKeeps
<1>7. CASE READ_CSR_REG_AND_UPD_SIG
  <2>1. c[p].macro.do = "read" /\ csr' = csr /\ saved' = saved
    BY <1>3, <1>7 DEF READ_CSR_REG_AND_UPD_SIG, Executing, macro
  <2>2. SavedAt(c, p + 1, csr', saved')
    BY <1>1, <1>4, <1>5, <2>1, ReadKeepsSaved
  <2>3. DOMAIN signature' = DOMAIN signature \cup (IF macro.do = "read" THEN {macro.offset} ELSE {})
    BY <1>7 DEF READ_CSR_REG_AND_UPD_SIG, Executing
  <2>4. QED
    BY <1>2, <1>3, <2>2, <2>3, MacroKeeps
<1>8. CASE RESTORE_CSR_REG
  <2>1. /\ c[p].macro.do = "restore" /\ saved' = saved /\ signature' = signature
        /\ csr' = [csr EXCEPT ![c[p].macro.csr] = saved[c[p].macro.restore_reg]]
    BY <1>3, <1>8 DEF RESTORE_CSR_REG, Executing, macro
  <2>2. SavedAt(c, p + 1, csr', saved')
    BY <1>1, <1>4, <1>5, <2>1, RestoreKeepsSaved
  <2>3. DOMAIN signature' = DOMAIN signature \cup (IF macro.do = "read" THEN {macro.offset} ELSE {})
    BY <1>3, <2>1 DEF macro
  <2>4. QED
    BY <1>2, <1>3, <2>2, <2>3, MacroKeeps
<1>9. QED
  BY <1>6, <1>7, <1>8

LEMMA HaltKeeps ==
  ASSUME CsrIInv, Halt
  PROVE  CsrIInv'
<1>1. ParseTypeOK /\ InstInv /\ CodeInv /\ SavedInv /\ ReadInv
  BY DEF CsrIInv
<1>2. /\ phase = "run" /\ at > Len(code) /\ phase' = "done"
      /\ UNCHANGED <<csr_comb, covpt, pos, bracket_depth, operator_stack, clause_stack, clause_index,
                  current_clause, invalid, instr_dict, offset, code, filled, at, csr, saved, signature>>
  BY DEF Halt, parserVars, genVars, runVars
<1>3. ParseTypeOK'
  BY <1>1, <1>2 DEF ParseTypeOK, Reading
<1>4. InstInv'
  BY <1>1, <1>2, InstKept
<1>5. Macros' = Macros
  BY <1>2 DEF Macros
<1>6. code = Macros /\ filled = Len(instr_dict) /\ at \in 1..(Len(code) + 1) /\ Len(code) \in Nat
  BY <1>1, <1>2, MacrosPlaced DEF CodeInv
<1>7. CodeInv' /\ DoneInv'
  BY <1>2, <1>5, <1>6 DEF CodeInv, DoneInv
<1>8. SavedInv'
  BY <1>1, <1>2, SavedIs, SavedThen
<1>9. ReadInv'
  BY <1>1, <1>2 DEF ReadInv
<1>10. QED
  BY <1>3, <1>4, <1>7, <1>8, <1>9 DEF CsrIInv

LEMMA CsrStaysPut ==
  ASSUME CsrIInv, UNCHANGED vars
  PROVE  CsrIInv'
<1>1. ParseTypeOK /\ InstInv /\ CodeInv /\ SavedInv /\ ReadInv /\ DoneInv
  BY DEF CsrIInv
<1>2. UNCHANGED <<csr_comb, covpt, phase, pos, bracket_depth, operator_stack, clause_stack, clause_index,
                  current_clause, invalid, instr_dict, offset, code, filled, at, csr, saved, signature>>
  BY DEF vars, parseVars, parserVars, genVars, runVars
<1>3. ParseTypeOK'
  <2>1. toks' = toks /\ tok' = tok
    BY <1>2 DEF toks, tok
  <2>2. QED
    BY <1>1, <1>2, <2>1 DEF ParseTypeOK
<1>4. InstInv'
  BY <1>1, <1>2, InstKept
<1>5. Macros' = Macros
  BY <1>2 DEF Macros
<1>6. CodeInv' /\ DoneInv'
  BY <1>1, <1>2, <1>5 DEF CodeInv, DoneInv
<1>7. SavedInv'
  BY <1>1, <1>2, SavedIs, SavedThen, NotRunning DEF SavedInv
<1>8. ReadInv'
  BY <1>1, <1>2 DEF ReadInv
<1>9. QED
  BY <1>3, <1>4, <1>6, <1>7, <1>8 DEF CsrIInv

LEMMA CsrKeeps ==
  ASSUME CsrIInv, [Next]_vars
  PROVE  CsrIInv'
<1>1. CASE Parse /\ UNCHANGED <<genVars, code, filled, at, runVars>>
  BY <1>1, ParseStepKeeps
<1>2. CASE AddInstance \/ AllAdded \/ WriteTest
  BY <1>2, AddInstanceKeeps, AllAddedKeeps, WriteTestKeeps
<1>3. CASE WRITE_TO_CSR_FIELD_W_MASK \/ READ_CSR_REG_AND_UPD_SIG \/ RESTORE_CSR_REG
  BY <1>3, RunKeeps
<1>4. CASE Halt
  BY <1>4, HaltKeeps
<1>5. CASE UNCHANGED vars
  BY <1>5, CsrStaysPut
<1>6. QED
  BY <1>1, <1>2, <1>3, <1>4, <1>5 DEF Next, Stopped

\* Before the first macro of an instance, and after the last of all, every
\* write is restored.
LEMMA RestoredBetween ==
  ASSUME InstInv, NEW c, c = Macros, NEW p \in 1..(Len(c) + 1),
         ~(p \in 2..Len(c) /\ c[p].inst = c[p - 1].inst)
  PROVE  Unrestored(c, p) = {}
<1>1. Len(c) \in Nat
  BY MacrosPlaced
<1>2. CASE p > Len(c)
  BY <1>2 DEF Unrestored
<1>3. CASE ~(p > Len(c))
  <2>1. p \in 1..Len(c)
    BY <1>1, <1>3
  <2>2. PICK i, r, first : i = c[p].inst /\ r = Words(i) /\ first = instr_dict[i].first
    OBVIOUS
  <2>3. PICK b, n \in Nat : Block(c, b, i, n, r, first) /\ p \in (b + 1)..(b + n + r + n)
    BY <2>1, <2>2, InBlock
  <2>4. r \in Nat
    BY <2>3 DEF Block
  <2>5. p = b + 1
    <3> SUFFICES ASSUME p # b + 1
                 PROVE  FALSE
      OBVIOUS
    <3>1. p - 1 \in (b + 1)..(b + n + r + n) /\ p \in 2..Len(c)
      BY <1>1, <2>1, <2>3, <2>4
    <3>2. c[p - 1].inst = i
      BY <2>3, <3>1 DEF Block
    <3>3. QED
      BY <2>2, <3>1, <3>2
  <2>6. PICK j : j = 1
    OBVIOUS
  <2>7. j \in 1..(n + r + n) /\ p = b + j /\ Depth(n, r, j) = 0
    BY <2>3, <2>4, <2>5, <2>6 DEF Depth
  <2>8. Unrestored(c, p) = (b + 1)..(b + Depth(n, r, j))
    BY <1>1, <2>3, <2>7, UnrestoredIs
  <2>9. (b + 1)..(b + 0) = {}
    BY <2>3
  <2>10. QED
    BY <2>7, <2>8, <2>9
<1>4. QED
  BY <1>2, <1>3

LEMMA InstancesRestore == CsrIInv => CsrsRestored
<1> SUFFICES ASSUME CsrIInv, phase \in {"run", "done"},
                    ~(at \in 2..Len(code) /\ code[at].inst = code[at - 1].inst)
             PROVE  csr = Reset
  BY DEF CsrsRestored
<1>1. InstInv /\ CodeInv /\ SavedInv
  BY DEF CsrIInv
<1>2. PICK c, p : c = code /\ p = at
  OBVIOUS
<1>3. c = Macros /\ p \in 1..(Len(c) + 1)
  BY <1>1, <1>2 DEF CodeInv
<1>4. Unrestored(c, p) = {}
  BY <1>1, <1>2, <1>3, RestoredBetween
<1>5. csr \in [Csrs -> SUBSET Bits] /\ \A r \in Csrs : csr[r] = Reset[r]
  BY <1>1, <1>2, <1>4 DEF SavedInv
<1>6. QED
  BY <1>5, ResetAssumption

-----------------------------------------------------------------------------
(***************************************************************************)
(* The words of the signature                                              *)
(***************************************************************************)
\* Intervals that are given one after the other do not overlap.
LEMMA EndsGrow ==
  ASSUME NEW N \in Nat, NEW f \in [1..N -> Nat], NEW w \in [1..N -> Nat], NEW total \in Nat,
         \A i \in 1..N : f[i] + w[i] <= IF i < N THEN f[i + 1] ELSE total,
         NEW i \in 1..N
  PROVE  /\ \A j \in 1..N : i < j => f[i] + w[i] <= f[j]
         /\ f[i] + w[i] <= total
<1>1. ASSUME NEW j \in 1..N, i < j
      PROVE  f[i] + w[i] <= f[j]
  <2> DEFINE S == {d \in 0..(N - i - 1) : f[i] + w[i] <= f[i + 1 + d]}
  <2>1. N - i - 1 \in Nat /\ j - i - 1 \in 0..(N - i - 1)
    BY <1>1
  <2>2. 0 \in S
    <3>1. i < N /\ i + 1 + 0 = i + 1
      BY <1>1
    <3>2. QED
      BY <2>1, <3>1
  <2>3. ASSUME NEW d \in 0..(N - i - 1 - 1), d \in S
        PROVE  d + 1 \in S
    <3>1. PICK k : k = i + 1 + d
      OBVIOUS
    <3>2. k \in 1..N /\ k < N /\ k + 1 \in 1..N /\ i + 1 + (d + 1) = k + 1 /\ d + 1 \in 0..(N - i - 1)
      BY <2>1, <3>1
    <3>3. f[k] + w[k] <= f[k + 1]
      BY <3>2
    <3>4. f[i] + w[i] <= f[k]
      BY <2>3, <3>1
    <3>5. f[i] \in Nat /\ w[i] \in Nat /\ f[k] \in Nat /\ w[k] \in Nat /\ f[k + 1] \in Nat
      BY <3>2
    <3>6. f[i] + w[i] <= f[k + 1]
      BY <3>3, <3>4, <3>5
    <3>7. QED
      BY <3>2, <3>6
  <2>4. 0..(N - i - 1) \subseteq S
    <3>1. PICK n : n = N - i - 1
      OBVIOUS
    <3>2. n \in Nat /\ 0 \in S /\ \A d \in 0..(n - 1) : d \in S => d + 1 \in S
      BY <2>1, <2>2, <2>3, <3>1
    <3> HIDE DEF S
    <3>3. 0..n \subseteq S
      BY <3>2, UpTo
    <3>4. QED
      BY <3>1, <3>3
  <2>5. i + 1 + (j - i - 1) = j
    OBVIOUS
  <2>6. QED
    BY <2>1, <2>4, <2>5
<1>2. f[i] + w[i] <= total
  <2>1. CASE i = N
    BY <2>1
  <2>2. CASE i # N
    <3>1. N \in 1..N /\ i < N
      BY <2>2
    <3>2. f[i] + w[i] <= f[N] /\ f[N] + w[N] <= total
      BY <1>1, <3>1
    <3>3. f[i] \in Nat /\ w[i] \in Nat /\ f[N] \in Nat /\ w[N] \in Nat
      BY <3>1
    <3>4. QED
      BY <3>2, <3>3
  <2>3. QED
    BY <2>1, <2>2
<1>3. QED
  BY <1>1, <1>2

LEMMA WordsApart ==
  ASSUME InstInv, NEW i \in 1..Len(instr_dict)
  PROVE  /\ \A j \in 1..Len(instr_dict) :
              i < j => instr_dict[i].first + Words(i) <= instr_dict[j].first
         /\ instr_dict[i].first + Words(i) <= offset
<1>1. PICK N, f, w, total : /\ N = Len(instr_dict) /\ total = offset
                            /\ f = [k \in 1..N |-> instr_dict[k].first]
                            /\ w = [k \in 1..N |-> Words(k)]
  OBVIOUS
<1>2. N \in Nat /\ DOMAIN instr_dict = 1..N /\ total \in Nat
  BY <1>1 DEF InstInv
<1>3. \A k \in 1..N : instr_dict[k].first \in Nat /\ Words(k) \in Nat
  BY <1>1, InstanceTypes
<1>4. f \in [1..N -> Nat] /\ w \in [1..N -> Nat]
  BY <1>1, <1>3
<1>5. ASSUME NEW k \in 1..N
      PROVE  f[k] + w[k] <= IF k < N THEN f[k + 1] ELSE total
  <2>1. instr_dict[k].first + Words(k) <= IF k < N THEN instr_dict[k + 1].first ELSE total
    BY <1>1, <1>2 DEF InstInv, Words
  <2>2. k < N => k + 1 \in 1..N
    BY <1>2
  <2>3. QED
    BY <1>1, <2>1, <2>2
<1>6. /\ \A j \in 1..N : i < j => f[i] + w[i] <= f[j]
      /\ f[i] + w[i] <= total
  <2>1. i \in 1..N
    BY <1>1, Zenon
  <2>2. \A k \in 1..N : f[k] + w[k] <= IF k < N THEN f[k + 1] ELSE total
    BY <1>5, Zenon
  <2>3. QED
    BY <1>2, <1>4, <2>1, <2>2, EndsGrow, Zenon
<1>7. QED
  BY <1>1, <1>6

\* The words that instance i reads to.
LEMMA ReadWithin ==
  ASSUME InstInv, NEW c, c = Macros, NEW p \in 1..Len(c), c[p].macro.do = "read",
         NEW i, i = c[p].inst
  PROVE  /\ i \in 1..Len(instr_dict) /\ c[p].macro.offset \in Nat
         /\ instr_dict[i].first <= c[p].macro.offset
         /\ c[p].macro.offset < instr_dict[i].first + Words(i)
         /\ \A q \in 1..Len(c) : c[q].inst = i /\ c[q].macro.do = "read"
              => c[p].macro.offset - p = c[q].macro.offset - q
<1>1. PICK r, first : r = Words(i) /\ first = instr_dict[i].first
  OBVIOUS
<1>2. i \in 1..Len(instr_dict)
  BY InBlock
<1>3. PICK b, n \in Nat : Block(c, b, i, n, r, first) /\ p \in (b + 1)..(b + n + r + n)
  BY <1>1, InBlock
<1>4. r \in Nat /\ first \in Nat
  BY <1>1, <1>2, InstanceTypes
<1>5. ASSUME NEW q \in 1..Len(c), c[q].inst = i, c[q].macro.do = "read"
      PROVE  /\ c[q].macro.offset \in Nat /\ first <= c[q].macro.offset
             /\ c[q].macro.offset < first + r /\ q \in Nat
             /\ c[q].macro.offset - q = first - b - n - 1
  <2>1. PICK j : j = q - b
    OBVIOUS
  <2>2. q \in (b + 1)..(b + n + r + n)
    BY <1>3, <1>5 DEF Block
  <2>3. j \in 1..(n + r + n) /\ q = b + j
    BY <1>3, <1>4, <2>1, <2>2
  <2>4. /\ j <= n => c[b + j].macro \in Write
        /\ n < j /\ j <= n + r => c[b + j].macro.offset = first + (j - n) - 1
        /\ n + r < j => c[b + j].macro \in Restore
    BY <1>3, <2>3, BlockMacro
  <2>5. ~(j <= n) /\ ~(n + r < j)
    BY <1>5, <2>3, <2>4, KindOf
  <2>6. n < j /\ j <= n + r
    BY <1>3, <1>4, <2>3, <2>5
  <2>7. c[q].macro.offset = first + (j - n) - 1
    BY <2>3, <2>4, <2>6
  <2>8. PICK o : o = c[q].macro.offset
    OBVIOUS
  <2>9. o = first + (j - n) - 1 /\ b \in Nat /\ n \in Nat /\ r \in Nat /\ first \in Nat /\ j \in Nat
    BY <1>3, <1>4, <2>3, <2>7, <2>8
  <2>10. o \in Nat /\ first <= o /\ o < first + r /\ q \in Nat /\ o - q = first - b - n - 1
    BY <2>3, <2>6, <2>9
  <2>11. QED
    BY <2>8, <2>10
<1>6. QED
  BY <1>1, <1>2, <1>5

LEMMA ReadsApart ==
  ASSUME InstInv, NEW c, c = Macros, NEW p \in 1..Len(c), NEW q \in 1..Len(c),
         c[p].macro.do = "read", c[q].macro.do = "read", c[p].macro.offset = c[q].macro.offset
  PROVE  p = q
<1>1. PICK i, j, o : i = c[p].inst /\ j = c[q].inst /\ o = c[p].macro.offset
  OBVIOUS
<1>2. /\ i \in 1..Len(instr_dict) /\ o \in Nat
      /\ instr_dict[i].first <= o /\ o < instr_dict[i].first + Words(i)
      /\ c[q].inst = i => o - p = c[q].macro.offset - q
  BY <1>1, ReadWithin
<1>3. /\ j \in 1..Len(instr_dict)
      /\ instr_dict[j].first <= o /\ o < instr_dict[j].first + Words(j)
  BY <1>1, ReadWithin
<1>4. PICK f, e, g, h : /\ f = instr_dict[i].first /\ e = Words(i)
                        /\ g = instr_dict[j].first /\ h = Words(j)
  OBVIOUS
<1>5. f \in Nat /\ e \in Nat /\ g \in Nat /\ h \in Nat
  BY <1>2, <1>3, <1>4, InstanceTypes
<1>6. (i < j => f + e <= g) /\ (j < i => g + h <= f)
  BY <1>2, <1>3, <1>4, WordsApart
<1>7. ~(i < j) /\ ~(j < i)
  <2>1. o < f + e /\ g <= o /\ o < g + h /\ f <= o /\ o \in Nat
    BY <1>2, <1>3, <1>4
  <2>2. ~(f + e <= g) /\ ~(g + h <= f)
    BY <1>5, <2>1
  <2>3. QED
    BY <1>6, <2>2
<1>8. Len(instr_dict) \in Nat
  BY DEF InstInv
<1>9. i = j
  BY <1>2, <1>3, <1>7, <1>8
<1>10. p \in Nat /\ q \in Nat
  BY MacrosPlaced
<1>11. QED
  BY <1>1, <1>2, <1>9, <1>10

LEMMA ReadsAreKept == CsrIInv => ReadsSaved
<1> SUFFICES ASSUME CsrIInv, phase = "done"
             PROVE  /\ Cardinality(DOMAIN signature) = Cardinality({k \in DOMAIN code : code[k].macro.do = "read"})
                    /\ (\A i \in DOMAIN csr_comb : OneCsr(i)) => DOMAIN signature \subseteq 0..(filled - 1)
  BY DEF ReadsSaved
<1>1. InstInv /\ CodeInv /\ ReadInv /\ at = Len(code) + 1
  BY DEF CsrIInv, DoneInv
<1>2. PICK c : c = code
  OBVIOUS
<1>3. c = Macros /\ filled = Len(instr_dict) /\ Len(c) \in Nat /\ DOMAIN c = 1..Len(c) /\ offset \in Nat
  <2>1. code = Macros /\ filled = Len(instr_dict)
    BY <1>1 DEF CodeInv
  <2>2. Macros \in Seq(Lines)
    BY <1>1, MacrosPlaced
  <2>3. QED
    BY <1>1, <1>2, <2>1, <2>2 DEF InstInv
<1>4. PICK K, D : K = {k \in 1..Len(c) : c[k].macro.do = "read"} /\ D = DOMAIN signature
  OBVIOUS
<1>5. D = {c[k].macro.offset : k \in K}
  <2>1. at - 1 = Len(c)
    BY <1>1, <1>2, <1>3
  <2>2. QED
    BY <1>1, <1>2, <1>4, <2>1 DEF ReadInv
<1>6. IsFiniteSet(K)
  <2>1. PICK n : n = Len(c)
    OBVIOUS
  <2>2. n \in Int /\ IsFiniteSet(1..n) /\ K \in SUBSET (1..n)
    BY <1>3, <1>4, <2>1, FS_Interval
  <2>3. QED
    BY <2>2, FS_Subset
<1>7. [k \in K |-> c[k].macro.offset] \in Surjection(K, D)
  BY <1>5 DEF Surjection
<1>8. [k \in K |-> c[k].macro.offset] \in Injection(K, D)
  <2>1. \A k, l \in K : c[k].macro.offset = c[l].macro.offset => k = l
    BY <1>1, <1>3, <1>4, ReadsApart
  <2>2. QED
    BY <1>5, <2>1 DEF Injection, IsInjective
<1>9. Cardinality(D) = Cardinality(K)
  BY <1>6, <1>7, <1>8, FS_Surjection
<1>10. ASSUME \A i \in DOMAIN csr_comb : OneCsr(i), NEW o \in D
       PROVE  o \in 0..(filled - 1)
  <2>1. PICK k \in K : o = c[k].macro.offset
    BY <1>5
  <2>2. PICK i : i = c[k].inst
    OBVIOUS
  <2>3. i \in 1..Len(instr_dict) /\ o \in Nat /\ o < instr_dict[i].first + Words(i)
    BY <1>1, <1>3, <1>4, <2>1, <2>2, ReadWithin
  <2>4. instr_dict[i].first + Words(i) <= offset /\ instr_dict[i].first \in Nat /\ Words(i) \in Nat
    BY <1>1, <2>3, WordsApart, InstanceTypes
  <2>5. offset <= filled /\ filled \in Nat
    BY <1>1, <1>3, <1>10 DEF InstInv
  <2>6. PICK e : e = instr_dict[i].first + Words(i)
    OBVIOUS
  <2>7. e \in Nat /\ o < e /\ e <= offset
    BY <2>3, <2>4, <2>6
  <2>8. QED
    BY <1>3, <2>3, <2>5, <2>7
<1>11. {k \in DOMAIN code : code[k].macro.do = "read"} = K
  BY <1>2, <1>3, <1>4
<1>12. QED
  BY <1>4, <1>9, <1>10, <1>11

-----------------------------------------------------------------------------
LEMMA CsrCombStart == CombInit => CsrIInv
  BY CsrStart DEF CombInit

LEMMA CsrCombKeeps ==
  ASSUME CsrIInv, [CombNext]_combVars
  PROVE  CsrIInv'
<1>1. [Next]_vars
  BY DEF CombNext, CrossFile, CsrFile, Ended, combVars
<1>2. QED
  BY <1>1, CsrKeeps

(***************************************************************************)
(* Each instance leaves the CSRs as it found them, whatever coverpoints    *)
(* there are: also if it writes one of them twice, because the restore     *)
(* macros come in the opposite order.                                      *)
(***************************************************************************)
THEOREM CsrsAreRestored == CombSpec => []CsrsRestored
<1>1. CombInit => CsrIInv
  BY CsrCombStart
<1>2. CsrIInv /\ [CombNext]_combVars => CsrIInv'
  BY CsrCombKeeps
<1>3. CsrIInv => CsrsRestored
  BY InstancesRestore
<1>4. QED
  BY <1>1, <1>2, <1>3, PTL DEF CombSpec

(***************************************************************************)
(* No read overwrites a word of the signature, and if each coverpoint      *)
(* names one CSR the words that write_test reserves are enough.            *)
(***************************************************************************)
THEOREM ReadsAreSaved == CombSpec => []ReadsSaved
<1>1. CombInit => CsrIInv
  BY CsrCombStart
<1>2. CsrIInv /\ [CombNext]_combVars => CsrIInv'
  BY CsrCombKeeps
<1>3. CsrIInv => ReadsSaved
  BY ReadsAreKept
<1>4. QED
  BY <1>1, <1>2, <1>3, PTL DEF CombSpec

-----------------------------------------------------------------------------
(***************************************************************************)
(* A positive coverpoint is covered                                        *)
(***************************************************************************)
\* What is in one of the sequences is in the flattened one.
LEMMA FlattenHas ==
  ASSUME NEW S, NEW s \in Seq(Seq(S)), NEW i \in 1..Len(s), NEW j \in 1..Len(s[i])
  PROVE  \E m \in 1..Len(FlattenSeq(s)) : FlattenSeq(s)[m] = s[i][j]
<1>1. PICK N : N = Len(s)
  OBVIOUS
<1>2. N \in Nat /\ \A k \in 1..N : s[k] \in Seq(S) /\ Len(s[k]) \in Nat
  BY <1>1
<1>3. PICK base \in [0..Len(s) -> Nat] :
        /\ base[0] = 0 /\ Len(FlattenSeq(s)) = base[Len(s)]
        /\ \A k \in 1..Len(s) :
             /\ base[k] = base[k - 1] + Len(s[k])
             /\ \A l \in 1..Len(s[k]) : FlattenSeq(s)[base[k - 1] + l] = s[k][l]
  BY FlattenPlace
<1>4. PICK len : len = [k \in 1..N |-> Len(s[k])]
  OBVIOUS
<1>5. /\ len \in [1..N -> Nat] /\ base \in [0..N -> Nat] /\ Len(FlattenSeq(s)) = base[N]
      /\ \A k \in 1..N : base[k] = base[k - 1] + len[k]
  BY <1>1, <1>2, <1>3, <1>4
<1>6. i \in 0..N /\ N \in i..N /\ i \in 1..N /\ i - 1 \in 0..N
  BY <1>1, <1>2
<1>7. base[i] <= base[N]
  BY <1>2, <1>5, <1>6, BaseGrows
<1>8. base[i] = base[i - 1] + Len(s[i]) /\ FlattenSeq(s)[base[i - 1] + j] = s[i][j]
  BY <1>3
<1>9. PICK b, l, e, f : b = base[i - 1] /\ l = Len(s[i]) /\ e = base[i] /\ f = base[N]
  OBVIOUS
<1>17. base \in [0..N -> Nat]
  BY <1>5
<1>14. b \in Nat /\ e \in Nat /\ f \in Nat
  <2>1. \A k \in 0..N : base[k] \in Nat
    BY <1>17
  <2>2. N \in 0..N
    BY <1>2
  <2>3. QED
    BY <1>6, <1>9, <2>1, <2>2
<1>15. l \in Nat /\ j \in 1..l
  BY <1>2, <1>6, <1>9
<1>16. e = b + l /\ e <= f
  BY <1>7, <1>8, <1>9
<1>10. PICK m : m = b + j
  OBVIOUS
<1>13. m \in 1..f
  BY <1>10, <1>14, <1>15, <1>16
<1>11. m \in 1..Len(FlattenSeq(s))
  BY <1>5, <1>9, <1>13
<1>12. QED
  BY <1>8, <1>9, <1>10, <1>11

\* A table of sequences, its rows flattened.
Table(T, m, n, s, rows) ==
  /\ m \in Nat /\ n \in Nat /\ rows = [i \in 1..m |-> FlattenSeq(s[i])]
  /\ \A i \in 1..m : s[i] = [j \in 1..n |-> s[i][j]]
  /\ \A i \in 1..m : \A j \in 1..n : s[i][j] \in Seq(T)

LEMMA FlattenTwiceHas ==
  ASSUME NEW T, NEW m, NEW n, NEW s, NEW rows, Table(T, m, n, s, rows),
         NEW i \in 1..m, NEW j \in 1..n, NEW k \in 1..Len(s[i][j])
  PROVE  \E h \in DOMAIN FlattenSeq(rows) : FlattenSeq(rows)[h] = s[i][j][k]
<1>1. ASSUME NEW a \in 1..m
      PROVE  s[a] \in Seq(Seq(T)) /\ Len(s[a]) = n /\ rows[a] \in Seq(T)
  <2>1. PICK r : r = s[a]
    OBVIOUS
  <2>2. n \in Nat /\ r = [b \in 1..n |-> r[b]] /\ \A b \in 1..n : r[b] \in Seq(T)
    BY <2>1 DEF Table
  <2>3. r \in Seq(Seq(T)) /\ Len(r) = n
    BY <2>2, SeqOfElements
  <2>4. FlattenSeq(r) \in Seq(T)
    BY <2>3, FlattenPlace
  <2>5. QED
    BY <2>1, <2>3, <2>4 DEF Table
<1>2. m \in Nat /\ rows = [a \in 1..m |-> rows[a]] /\ \A a \in 1..m : rows[a] = FlattenSeq(s[a])
  BY DEF Table
<1>0. \A a \in 1..m : rows[a] \in Seq(T)
  BY <1>1
<1>3. rows \in Seq(Seq(T)) /\ Len(rows) = m
  BY ONLY <1>0, <1>2, SeqOfElements
<1>4. PICK r, x : r = s[i] /\ x = s[i][j]
  OBVIOUS
<1>5. r \in Seq(Seq(T)) /\ j \in 1..Len(r) /\ k \in 1..Len(r[j]) /\ r[j] = x
  BY <1>1, <1>4
<1>6. PICK l \in 1..Len(FlattenSeq(r)) : FlattenSeq(r)[l] = x[k]
  BY <1>5, FlattenHas
<1>7. rows[i] = FlattenSeq(r) /\ i \in 1..Len(rows) /\ l \in 1..Len(rows[i])
  BY <1>2, <1>3, <1>4, <1>6
<1>8. PICK h \in 1..Len(FlattenSeq(rows)) : FlattenSeq(rows)[h] = rows[i][l]
  BY ONLY <1>3, <1>7, FlattenHas
<1>9. FlattenSeq(rows) \in Seq(T)
  BY <1>3, FlattenPlace
<1>10. h \in DOMAIN FlattenSeq(rows)
  BY <1>8, <1>9
<1>11. QED
  BY <1>4, <1>6, <1>7, <1>8, <1>10

\* The clauses of t are in S, and whenever they are true the expression is.
Serves(t, S, holds) ==
  ToSet(t) \subseteq S /\ \A V \in Worlds : ToSet(t) \subseteq V => V \in holds

\* For whatever makes e true there is a solution of which no clause is false;
\* one solution asks for no clause to be false.
Solves(e) ==
  /\ {} \notin e.holds
  /\ \E k \in DOMAIN e.SAT : e.SAT[k].f = <<>>
  /\ \A S \in e.holds : \E k \in DOMAIN e.SAT : Serves(e.SAT[k].t, S, e.holds)

LEMMA LiteralSolves ==
  ASSUME NEW c
  PROVE  Solves(LiteralExpression(c))
<1>1. PICK e, x : e = LiteralExpression(c) /\ x = [t |-> <<c>>, f |-> <<>>]
  OBVIOUS
<1>2. e.SAT = <<x>> /\ e.holds = {V \in Worlds : c \in V}
  BY <1>1 DEF LiteralExpression
<1>3. 1 \in DOMAIN e.SAT /\ e.SAT[1] = x
  BY <1>2
<1>4. x.f = <<>> /\ x.t = <<c>> /\ ToSet(<<c>>) = {c}
  BY <1>1 DEF ToSet
<1>5. \A S \in e.holds : Serves(x.t, S, e.holds)
  BY <1>2, <1>4 DEF Serves
<1>6. {} \notin e.holds
  BY <1>2
<1>7. QED
  BY <1>1, <1>3, <1>4, <1>5, <1>6 DEF Solves

\* What is in a concatenation.
LEMMA JoinedSet ==
  ASSUME NEW S, NEW a \in Seq(S), NEW b \in Seq(S)
  PROVE  ToSet(a \o b) = ToSet(a) \cup ToSet(b)
<1>1. PICK c : c = a \o b
  OBVIOUS
<1>2. /\ c \in Seq(S) /\ Len(c) = Len(a) + Len(b)
      /\ \A j \in 1..Len(a) : c[j] = a[j]
      /\ \A j \in 1..Len(b) : c[Len(a) + j] = b[j]
  BY <1>1, JoinedPlace
<1>3. Len(a) \in Nat /\ Len(b) \in Nat /\ DOMAIN a = 1..Len(a) /\ DOMAIN b = 1..Len(b) /\ DOMAIN c = 1..Len(c)
  BY <1>2
<1>4. ASSUME NEW x \in ToSet(c)
      PROVE  x \in ToSet(a) \cup ToSet(b)
  <2>1. PICK k \in 1..Len(c) : c[k] = x
    BY <1>3 DEF ToSet
  <2>2. CASE k <= Len(a)
    <3>1. k \in 1..Len(a)
      BY <1>3, <2>2
    <3>2. a[k] = x
      BY <1>2, <2>1, <3>1
    <3>3. QED
      BY <1>3, <3>1, <3>2 DEF ToSet
  <2>3. CASE k > Len(a)
    <3>1. PICK j : j = k - Len(a)
      OBVIOUS
    <3>2. j \in 1..Len(b) /\ k = Len(a) + j
      BY <1>2, <1>3, <2>3, <3>1
    <3>3. b[j] = x
      BY <1>2, <2>1, <3>2
    <3>4. QED
      BY <1>3, <3>2, <3>3 DEF ToSet
  <2>4. QED
    BY <1>2, <1>3, <2>2, <2>3
<1>5. ASSUME NEW x \in ToSet(a)
      PROVE  x \in ToSet(c)
  <2>1. PICK k \in 1..Len(a) : a[k] = x
    BY <1>3 DEF ToSet
  <2>2. k \in 1..Len(c) /\ c[k] = x
    BY <1>2, <1>3, <2>1
  <2>3. QED
    BY <1>3, <2>2 DEF ToSet
<1>6. ASSUME NEW x \in ToSet(b)
      PROVE  x \in ToSet(c)
  <2>1. PICK k \in 1..Len(b) : b[k] = x
    BY <1>3 DEF ToSet
  <2>2. Len(a) + k \in 1..Len(c) /\ c[Len(a) + k] = x
    BY <1>2, <1>3, <2>1
  <2>3. QED
    BY <1>3, <2>2 DEF ToSet
<1>7. QED
  BY <1>1, <1>4, <1>5, <1>6

LEMMA ServesBoth ==
  ASSUME NEW C, NEW t \in Seq(C), NEW u \in Seq(C), NEW S, NEW G, NEW H,
         Serves(t, S, G), Serves(u, S, H)
  PROVE  Serves(t \o u, S, G \cap H)
<1>1. ToSet(t \o u) = ToSet(t) \cup ToSet(u)
  BY JoinedSet
<1>2. QED
  BY <1>1 DEF Serves

LEMMA AndSolves ==
  ASSUME NEW p, NEW lhs \in Expression(p), NEW rhs \in Expression(p), Solves(lhs), Solves(rhs)
  PROVE  Solves(AndExpression(lhs, rhs))
<1>1. PICK T, a, b : T = Solution(p) /\ a = lhs.SAT /\ b = rhs.SAT
  OBVIOUS
<1>2. /\ a \in Seq(T) /\ Len(a) \in Nat /\ DOMAIN a = 1..Len(a) /\ \A i \in 1..Len(a) : a[i] \in T
      /\ b \in Seq(T) /\ Len(b) \in Nat /\ DOMAIN b = 1..Len(b) /\ \A i \in 1..Len(b) : b[i] \in T
  BY <1>1 DEF Expression
<1>3. PICK s : s = [i \in 1..Len(a) |-> [j \in 1..Len(b) |->
                      <<[t |-> a[i].t \o b[j].t, f |-> a[i].f \o b[j].f]>>]]
  OBVIOUS
<1>4. PICK rows : rows = [i \in 1..Len(a) |-> FlattenSeq(s[i])]
  OBVIOUS
<1>5. ASSUME NEW i \in 1..Len(a), NEW j \in 1..Len(b)
      PROVE  /\ s[i][j] \in Seq(T)
             /\ s[i][j][1] = [t |-> a[i].t \o b[j].t, f |-> a[i].f \o b[j].f] /\ 1 \in 1..Len(s[i][j])
  <2>1. PICK x : x = [t |-> a[i].t \o b[j].t, f |-> a[i].f \o b[j].f]
    OBVIOUS
  <2>2. x \in T
    BY <1>1, <1>2, <2>1, BothType
  <2>3. s[i][j] = <<x>>
    BY <1>3, <2>1
  <2>4. QED
    BY <2>1, <2>2, <2>3
<1>6. \A i \in 1..Len(a) : s[i] = [j \in 1..Len(b) |-> s[i][j]]
  BY <1>3
<1>7. ASSUME NEW i \in 1..Len(a), NEW j \in 1..Len(b)
      PROVE  \E h \in DOMAIN FlattenSeq(rows) :
               FlattenSeq(rows)[h] = [t |-> a[i].t \o b[j].t, f |-> a[i].f \o b[j].f]
  <2>1. PICK k : k = 1
    OBVIOUS
  <2>2. k \in 1..Len(s[i][j]) /\ s[i][j][k] = [t |-> a[i].t \o b[j].t, f |-> a[i].f \o b[j].f]
    BY <1>5, <2>1
  <2>3. \A k1 \in 1..Len(a) : \A k2 \in 1..Len(b) : s[k1][k2] \in Seq(T)
    BY <1>5
  <2>4. \E h \in DOMAIN FlattenSeq(rows) : FlattenSeq(rows)[h] = s[i][j][k]
    <3>1. PICK m, n : m = Len(a) /\ n = Len(b)
      OBVIOUS
    <3>2. Table(T, m, n, s, rows)
      BY <1>2, <1>4, <1>6, <2>3, <3>1 DEF Table
    <3>3. i \in 1..m /\ j \in 1..n /\ k \in 1..Len(s[i][j])
      BY <2>2, <3>1
    <3>4. QED
      BY ONLY <3>2, <3>3, FlattenTwiceHas
  <2>5. QED
    BY <2>2, <2>4
<1>8. rows = [i \in DOMAIN a |-> FlattenSeq([j \in DOMAIN b |->
                <<[t |-> a[i].t \o b[j].t, f |-> a[i].f \o b[j].f]>>])]
  BY <1>2, <1>3, <1>4
<1>9. PICK e, sat : e = AndExpression(lhs, rhs) /\ sat = FlattenSeq(rows)
  OBVIOUS
<1>10. e.SAT = sat /\ e.holds = lhs.holds \cap rhs.holds
  BY <1>1, <1>8, <1>9 DEF AndExpression, Each
<1>11. ASSUME NEW i \in 1..Len(a)
       PROVE  a[i].t \in Seq(ClausesOf(p)) /\ a[i].f \in Seq(ClausesOf(p))
  BY <1>1, <1>2 DEF Solution
<1>12. ASSUME NEW j \in 1..Len(b)
       PROVE  b[j].t \in Seq(ClausesOf(p)) /\ b[j].f \in Seq(ClausesOf(p))
  BY <1>1, <1>2 DEF Solution
<1>13. \E h \in DOMAIN sat : sat[h].f = <<>>
  <2>1. PICK i \in 1..Len(a), j \in 1..Len(b) : a[i].f = <<>> /\ b[j].f = <<>>
    BY <1>1, <1>2 DEF Solves
  <2>2. PICK h \in DOMAIN sat : sat[h] = [t |-> a[i].t \o b[j].t, f |-> a[i].f \o b[j].f]
    BY <1>7, <1>9
  <2>3. <<>> \o <<>> = <<>>
    OBVIOUS
  <2>4. QED
    BY <2>1, <2>2, <2>3
<1>14. ASSUME NEW S \in e.holds
       PROVE  \E h \in DOMAIN sat : Serves(sat[h].t, S, e.holds)
  <2>1. PICK i \in 1..Len(a), j \in 1..Len(b) :
          Serves(a[i].t, S, lhs.holds) /\ Serves(b[j].t, S, rhs.holds)
    BY <1>1, <1>2, <1>10 DEF Solves
  <2>2. PICK h \in DOMAIN sat : sat[h] = [t |-> a[i].t \o b[j].t, f |-> a[i].f \o b[j].f]
    BY <1>7, <1>9
  <2>3. PICK x, y, C : x = a[i].t /\ y = b[j].t /\ C = ClausesOf(p)
    OBVIOUS
  <2>4. x \in Seq(C) /\ y \in Seq(C)
    BY <1>11, <1>12, <2>3
  <2>5. Serves(x \o y, S, lhs.holds \cap rhs.holds)
    <3>1. Serves(x, S, lhs.holds) /\ Serves(y, S, rhs.holds)
      BY <2>1, <2>3
    <3>2. QED
      BY ONLY <2>4, <3>1, ServesBoth
  <2>6. sat[h].t = x \o y
    <3>1. PICK u, v : u = a[i].t \o b[j].t /\ v = a[i].f \o b[j].f
      OBVIOUS
    <3>2. sat[h] = [t |-> u, f |-> v]
      BY ONLY <2>2, <3>1
    <3>3. u = x \o y
      BY ONLY <2>3, <3>1
    <3>4. QED
      BY ONLY <3>2, <3>3
  <2>7. Serves(sat[h].t, S, e.holds)
    BY <1>10, <2>5, <2>6, Zenon
  <2>8. QED
    BY <2>7
<1>15. {} \notin e.holds
  BY <1>10 DEF Solves
<1>16. QED
  BY <1>9, <1>10, <1>13, <1>14, <1>15 DEF Solves

LEMMA OrSolves ==
  ASSUME NEW p, NEW lhs \in Expression(p), NEW rhs \in Expression(p), Solves(lhs), Solves(rhs)
  PROVE  Solves(OrExpression(lhs, rhs))
<1>1. PICK T, a, b : T = Solution(p) /\ a = lhs.SAT /\ b = rhs.SAT
  OBVIOUS
<1>2. /\ a \in Seq(T) /\ Len(a) \in Nat /\ DOMAIN a = 1..Len(a) /\ \A i \in 1..Len(a) : a[i] \in T
      /\ b \in Seq(T) /\ Len(b) \in Nat /\ DOMAIN b = 1..Len(b) /\ \A i \in 1..Len(b) : b[i] \in T
  BY <1>1 DEF Expression
<1>3. PICK s : s = [i \in 1..Len(a) |-> [j \in 1..Len(b) |->
                      <<[t |-> a[i].t \o b[j].f, f |-> a[i].f \o b[j].t],
                        [t |-> a[i].f \o b[j].t, f |-> a[i].t \o b[j].f],
                        [t |-> a[i].t \o b[j].t, f |-> a[i].f \o b[j].f]>>]]
  OBVIOUS
<1>4. PICK rows : rows = [i \in 1..Len(a) |-> FlattenSeq(s[i])]
  OBVIOUS
<1>5. ASSUME NEW i \in 1..Len(a), NEW j \in 1..Len(b)
      PROVE  /\ s[i][j] \in Seq(T) /\ Len(s[i][j]) = 3
             /\ s[i][j][1] = [t |-> a[i].t \o b[j].f, f |-> a[i].f \o b[j].t]
             /\ s[i][j][2] = [t |-> a[i].f \o b[j].t, f |-> a[i].t \o b[j].f]
             /\ s[i][j][3] = [t |-> a[i].t \o b[j].t, f |-> a[i].f \o b[j].f]
  <2>1. PICK x, y, z : /\ x = [t |-> a[i].t \o b[j].f, f |-> a[i].f \o b[j].t]
                       /\ y = [t |-> a[i].f \o b[j].t, f |-> a[i].t \o b[j].f]
                       /\ z = [t |-> a[i].t \o b[j].t, f |-> a[i].f \o b[j].f]
    OBVIOUS
  <2>2. x \in T /\ y \in T /\ z \in T
    <3>1. PICK c, d : c = a[i] /\ d = b[j]
      OBVIOUS
    <3>2. c \in Solution(p) /\ d \in Solution(p)
      BY <1>1, <1>2, <3>1
    <3>3. QED
      BY <1>1, <2>1, <3>1, <3>2, BothType, Zenon
  <2>3. s[i][j] = <<x, y, z>>
    BY <1>3, <2>1, Zenon
  <2>4. <<x, y, z>> \in Seq(T) /\ Len(<<x, y, z>>) = 3
    BY <2>2
  <2>5. <<x, y, z>>[1] = x /\ <<x, y, z>>[2] = y /\ <<x, y, z>>[3] = z
    OBVIOUS
  <2>6. QED
    BY <2>1, <2>3, <2>4, <2>5, Zenon
<1>6. \A i \in 1..Len(a) : s[i] = [j \in 1..Len(b) |-> s[i][j]]
  BY <1>3
<1>7. ASSUME NEW i \in 1..Len(a), NEW j \in 1..Len(b), NEW k \in 1..3
      PROVE  \E h \in DOMAIN FlattenSeq(rows) : FlattenSeq(rows)[h] = s[i][j][k]
  <2>1. k \in 1..Len(s[i][j])
    BY <1>5
  <2>2. \A k1 \in 1..Len(a) : \A k2 \in 1..Len(b) : s[k1][k2] \in Seq(T)
    BY <1>5
  <2>3. PICK m, n : m = Len(a) /\ n = Len(b)
    OBVIOUS
  <2>4. Table(T, m, n, s, rows)
    BY <1>2, <1>4, <1>6, <2>2, <2>3 DEF Table
  <2>5. i \in 1..m /\ j \in 1..n /\ k \in 1..Len(s[i][j])
    BY <2>1, <2>3
  <2>6. QED
    BY ONLY <2>4, <2>5, FlattenTwiceHas
<1>8. rows = [i \in DOMAIN a |-> FlattenSeq([j \in DOMAIN b |->
                <<[t |-> a[i].t \o b[j].f, f |-> a[i].f \o b[j].t],
                  [t |-> a[i].f \o b[j].t, f |-> a[i].t \o b[j].f],
                  [t |-> a[i].t \o b[j].t, f |-> a[i].f \o b[j].f]>>])]
  BY <1>2, <1>3, <1>4
<1>9. PICK e, sat : e = OrExpression(lhs, rhs) /\ sat = FlattenSeq(rows)
  OBVIOUS
<1>10. e.SAT = sat /\ e.holds = lhs.holds \cup rhs.holds
  BY <1>1, <1>8, <1>9 DEF OrExpression, Each
<1>11. ASSUME NEW i \in 1..Len(a)
       PROVE  a[i].t \in Seq(ClausesOf(p)) /\ a[i].f \in Seq(ClausesOf(p))
  BY <1>1, <1>2 DEF Solution
<1>12. ASSUME NEW j \in 1..Len(b)
       PROVE  b[j].t \in Seq(ClausesOf(p)) /\ b[j].f \in Seq(ClausesOf(p))
  BY <1>1, <1>2 DEF Solution
<1>13. PICK i0 \in 1..Len(a), j0 \in 1..Len(b) : a[i0].f = <<>> /\ b[j0].f = <<>>
  BY <1>1, <1>2 DEF Solves
<1>14. \E h \in DOMAIN sat : sat[h].f = <<>>
  <2>1. PICK h \in DOMAIN sat : sat[h] = s[i0][j0][3]
    BY <1>7, <1>9
  <2>2. sat[h] = [t |-> a[i0].t \o b[j0].t, f |-> a[i0].f \o b[j0].f]
    BY <1>5, <2>1
  <2>3. <<>> \o <<>> = <<>>
    OBVIOUS
  <2>4. QED
    BY <1>13, <2>2, <2>3
<1>15. ASSUME NEW S \in lhs.holds
       PROVE  \E h \in DOMAIN sat : Serves(sat[h].t, S, e.holds)
  <2>1. PICK i \in 1..Len(a) : Serves(a[i].t, S, lhs.holds)
    BY <1>1, <1>2 DEF Solves
  <2>2. PICK h \in DOMAIN sat : sat[h] = s[i][j0][1]
    BY <1>7, <1>9
  <2>3. sat[h] = [t |-> a[i].t \o b[j0].f, f |-> a[i].f \o b[j0].t]
    BY <1>5, <2>2
  <2>4. PICK x, C : x = a[i].t /\ C = ClausesOf(p)
    OBVIOUS
  <2>5. x \in Seq(C) /\ x \o <<>> = x
    BY <1>11, <2>4
  <2>6. sat[h].t = x
    BY <1>13, <2>3, <2>4, <2>5
  <2>7. Serves(x, S, e.holds)
    BY <1>10, <2>1, <2>4 DEF Serves
  <2>8. QED
    BY <2>6, <2>7
<1>16. ASSUME NEW S \in rhs.holds
       PROVE  \E h \in DOMAIN sat : Serves(sat[h].t, S, e.holds)
  <2>1. PICK j \in 1..Len(b) : Serves(b[j].t, S, rhs.holds)
    BY <1>1, <1>2 DEF Solves
  <2>2. PICK h \in DOMAIN sat : sat[h] = s[i0][j][2]
    BY <1>7, <1>9
  <2>3. sat[h] = [t |-> a[i0].f \o b[j].t, f |-> a[i0].t \o b[j].f]
    BY <1>5, <2>2
  <2>4. PICK x, C : x = b[j].t /\ C = ClausesOf(p)
    OBVIOUS
  <2>5. x \in Seq(C) /\ <<>> \o x = x
    BY <1>12, <2>4
  <2>6. sat[h].t = x
    BY <1>13, <2>3, <2>4, <2>5
  <2>7. Serves(x, S, e.holds)
    BY <1>10, <2>1, <2>4 DEF Serves
  <2>8. QED
    BY <2>6, <2>7
<1>17. {} \notin e.holds
  BY <1>10 DEF Solves
<1>18. QED
  BY <1>9, <1>10, <1>14, <1>15, <1>16, <1>17 DEF Solves

\* The operators of a coverpoint without a negation, and its expressions.
Binary == {"(", "and", "or"}
Soluble(p) == {e \in Expression(p) : Solves(e)}

\* While a coverpoint without a negation is read, its expressions are solved.
SolvedStacks ==
  phase \in Reading \cup {"solve"} /\ Positive(covpt) =>
    operator_stack \in Seq(Binary) /\ clause_stack \in Seq(Soluble(csr_comb[covpt]))

LEMMA PushSolves ==
  ASSUME NEW p, NEW exprs \in Seq(Soluble(p)), NEW clause \in Seq(ToSet(Covpt[p].toks))
  PROVE  Append(exprs, LiteralExpression(Recognised(clause))) \in Seq(Soluble(p))
<1>1. PICK e, X : e = LiteralExpression(Recognised(clause)) /\ X = Soluble(p)
  OBVIOUS
<1>2. e \in Expression(p)
  BY <1>1, RecognisedType, LiteralType
<1>3. Solves(e)
  BY <1>1, LiteralSolves
<1>4. e \in X
  BY <1>1, <1>2, <1>3 DEF Soluble
<1>5. exprs \in Seq(X)
  BY <1>1
<1>6. Append(exprs, e) \in Seq(X)
  BY <1>4, <1>5
<1>7. QED
  BY <1>1, <1>6

\* A step that goes on with the same coverpoint.
LEMMA SameSolving ==
  ASSUME SolvedStacks, phase \in Reading \cup {"solve"}, UNCHANGED <<csr_comb, covpt>>,
         operator_stack \in Seq(Binary) /\ clause_stack \in Seq(Soluble(csr_comb[covpt])) /\ Positive(covpt)
           => operator_stack' \in Seq(Binary) /\ clause_stack' \in Seq(Soluble(csr_comb[covpt]))
  PROVE  SolvedStacks'
<1>1. Positive(covpt)' <=> Positive(covpt)
  BY DEF Positive, Lexemes
<1>2. QED
  BY <1>1 DEF SolvedStacks

LEMMA NextSolving ==
  ASSUME NextCovpt
  PROVE  SolvedStacks'
<1>1. operator_stack' = <<>> /\ clause_stack' = <<>>
  BY DEF NextCovpt
<1>2. \A S : <<>> \in Seq(S)
  OBVIOUS
<1>3. QED
  BY <1>1, <1>2 DEF SolvedStacks

LEMMA TokensSolve ==
  ASSUME ParseTypeOK, SolvedStacks,
         \/ OpenBracket \/ CloseInClause \/ CloseAfterClause \/ CloseGroup \/ TextToken
         \/ Operator \/ EndOfTokens \/ PushOperator \/ GroupDone \/ ClauseDone \/ Parsed
  PROVE  SolvedStacks'
<1>1. PICK p : p = csr_comb[covpt]
  OBVIOUS
<1>2. phase \in Reading
  BY DEF OpenBracket, CloseInClause, CloseAfterClause, CloseGroup, TextToken, HasToken, Reading,
         Operator, EndOfTokens, PushOperator, GroupDone, ClauseDone, Parsed
<1>3. UNCHANGED <<csr_comb, covpt>>
  BY DEF OpenBracket, CloseInClause, CloseAfterClause, CloseGroup, TextToken,
         Operator, EndOfTokens, PushOperator, GroupDone, ClauseDone, Parsed
<1>4. \/ clause_stack' = clause_stack
      \/ clause_stack' = Append(clause_stack, LiteralExpression(Recognised(current_clause)))
  BY DEF OpenBracket, CloseInClause, CloseAfterClause, CloseGroup, TextToken,
         Operator, EndOfTokens, PushOperator, GroupDone, ClauseDone, Parsed, PushLiteral
<1>5. \/ operator_stack' = operator_stack \/ operator_stack' = Append(operator_stack, "(")
      \/ operator_stack # <<>> /\ operator_stack' = Front(operator_stack)
      \/ PushOperator
  BY DEF OpenBracket, CloseInClause, CloseAfterClause, CloseGroup, TextToken,
         Operator, EndOfTokens, GroupDone, ClauseDone, Parsed
<1>6. ASSUME operator_stack \in Seq(Binary), clause_stack \in Seq(Soluble(p)), Positive(covpt)
      PROVE  operator_stack' \in Seq(Binary) /\ clause_stack' \in Seq(Soluble(p))
  <2>1. clause_stack' \in Seq(Soluble(p))
    <3>1. current_clause \in Seq(ToSet(Covpt[p].toks))
      BY <1>1, <1>2, ReadingType DEF Stacks
    <3>2. Append(clause_stack, LiteralExpression(Recognised(current_clause))) \in Seq(Soluble(p))
      BY ONLY <1>6, <3>1, PushSolves
    <3>3. QED
      BY <1>4, <1>6, <3>2
  <2>2. CASE operator_stack' = operator_stack
    BY <1>6, <2>1, <2>2
  <2>3. CASE operator_stack' = Append(operator_stack, "(")
    <3>1. "(" \in Binary
      BY DEF Binary
    <3>2. Append(operator_stack, "(") \in Seq(Binary)
      BY ONLY <1>6, <3>1, StackOps
    <3>3. QED
      BY <2>1, <2>3, <3>2
  <2>4. CASE operator_stack # <<>> /\ operator_stack' = Front(operator_stack)
    <3>1. Front(operator_stack) \in Seq(Binary)
      BY ONLY <1>6, <2>4, StackOps
    <3>2. QED
      BY <2>1, <2>4, <3>1
  <2>5. CASE PushOperator
    <3>1. phase = "operator" /\ operator_stack' = Append(operator_stack, tok)
      BY <2>5 DEF PushOperator
    <3>2. pos \in DOMAIN toks /\ tok \in OPS
      BY <3>1 DEF ParseTypeOK
    <3>3. toks[pos] \in Lexemes(covpt)
      BY <3>2 DEF Lexemes, toks, ToSet
    <3>4. tok # "not"
      BY <1>6, <3>3 DEF Positive, tok
    <3>5. tok \in Binary
      BY <3>2, <3>4 DEF OPS, Binary
    <3>6. Append(operator_stack, tok) \in Seq(Binary)
      BY ONLY <1>6, <3>5, StackOps
    <3>7. QED
      BY <2>1, <3>1, <3>6
  <2>6. QED
    BY <1>5, <2>2, <2>3, <2>4, <2>5
<1>7. QED
  BY <1>1, <1>2, <1>3, <1>6, SameSolving

LEMMA ApplySolves ==
  ASSUME ParseTypeOK, SolvedStacks, Apply
  PROVE  SolvedStacks'
<1>1. PICK p : p = csr_comb[covpt]
  OBVIOUS
<1>2. operator_stack # <<>> /\ phase \in Reading
  BY DEF Apply, Popping, Reading
<1>3. UNCHANGED <<csr_comb, covpt>>
  BY DEF Apply
<1>4. PICK exprs, n, X : exprs = clause_stack /\ n = Arity /\ X = Soluble(p)
  OBVIOUS
<1>5. ASSUME operator_stack \in Seq(Binary), exprs \in Seq(X)
      PROVE  operator_stack' \in Seq(Binary) /\ clause_stack' \in Seq(X)
  <2>1. Front(operator_stack) \in Seq(Binary) /\ Last(operator_stack) \in Binary
    BY ONLY <1>2, <1>5, StackOps
  <2>2. Last(operator_stack) # "not"
    BY <2>1 DEF Binary
  <2>3. n = 2 /\ Len(exprs) \in Nat /\ Len(exprs) >= n
    BY <1>4, <1>5, <2>2 DEF Apply, Arity
  <2>4. PICK l : l = Len(exprs)
    OBVIOUS
  <2>5. l + 1 - 1 \in 1..l /\ l + 1 - 2 \in 1..l
    BY <2>3, <2>4
  <2>6. exprs[l + 1 - 1] \in X /\ exprs[l + 1 - 2] \in X
    BY <1>5, <2>4, <2>5
  <2>7. PICK x, y : x = Operand(1) /\ y = Operand(2)
    OBVIOUS
  <2>8. x \in X /\ y \in X
    BY <1>4, <2>4, <2>6, <2>7 DEF Operand
  <2>9. x \in Expression(p) /\ Solves(x) /\ y \in Expression(p) /\ Solves(y)
    BY <1>4, <2>8 DEF Soluble
  <2>10. AndExpression(y, x) \in X
    <3>1. AndExpression(y, x) \in Expression(p)
      BY ONLY <2>9, AndType
    <3>2. Solves(AndExpression(y, x))
      BY ONLY <2>9, AndSolves
    <3>3. QED
      BY <1>4, <3>1, <3>2 DEF Soluble
  <2>11. OrExpression(y, x) \in X
    <3>1. OrExpression(y, x) \in Expression(p)
      BY ONLY <2>9, OrType
    <3>2. Solves(OrExpression(y, x))
      BY ONLY <2>9, OrSolves
    <3>3. QED
      BY <1>4, <3>1, <3>2 DEF Soluble
  <2>12. PICK s : s = SubSeq(exprs, 1, l - n)
    OBVIOUS
  <2>13. s \in Seq(X)
    <3>1. n \in Nat /\ n <= Len(exprs)
      BY <2>3
    <3>2. SubSeq(exprs, 1, Len(exprs) - n) \in Seq(X)
      BY ONLY <1>5, <3>1, StackOps
    <3>3. QED
      BY <2>4, <2>12, <3>2
  <2>14. \/ clause_stack' = Append(s, AndExpression(y, x))
         \/ clause_stack' = Append(s, OrExpression(y, x))
    BY <1>4, <2>2, <2>4, <2>7, <2>12 DEF Apply
  <2>15. Append(s, AndExpression(y, x)) \in Seq(X) /\ Append(s, OrExpression(y, x)) \in Seq(X)
    BY ONLY <2>10, <2>11, <2>13, StackOps
  <2>16. operator_stack' = Front(operator_stack)
    BY DEF Apply
  <2>17. QED
    BY <2>1, <2>14, <2>15, <2>16
<1>6. QED
  BY <1>1, <1>2, <1>3, <1>4, <1>5, SameSolving

LEMMA ParseSolves ==
  ASSUME ParseTypeOK, SolvedStacks, Parse
  PROVE  SolvedStacks'
<1>1. Reject => NextCovpt
  BY DEF Reject
<1>2. QED
  BY <1>1, NextSolving, TokensSolve, ApplySolves DEF Parse

\* For whatever makes coverpoint i true, an instance is written that asks for
\* no more.
IsServed(i) ==
  LET holds == Covpt[csr_comb[i]].holds
  IN  /\ {} \notin holds
      /\ \A S \in holds : \E d \in DOMAIN instr_dict : Serves(instr_dict[d].sol, S, holds)

\* The solutions become instances, one coverpoint after the other.
ServedInv ==
  /\ phase \notin Reading \cup {"solve"} => covpt = Len(csr_comb) + 1
  /\ phase = "solve" => \A k \in DOMAIN bool_expr.SAT :
       k < pos => \E d \in DOMAIN instr_dict : instr_dict[d].sol = bool_expr.SAT[k].t
  /\ \A i \in DOMAIN csr_comb \ invalid :
       i < covpt /\ Positive(i) /\ IsExpression(Covpt[csr_comb[i]]) => IsServed(i)

\* What csr_comb() goes on with keeps its instances.
InstancesStay ==
  /\ csr_comb' = csr_comb
  /\ \A d \in DOMAIN instr_dict : d \in DOMAIN instr_dict' /\ instr_dict'[d].sol = instr_dict[d].sol

LEMMA ServedStays ==
  ASSUME InstancesStay, NEW i
  PROVE  /\ IsServed(i) => IsServed(i)'
         /\ Positive(i)' <=> Positive(i)
<1>1. Positive(i)' <=> Positive(i)
  BY DEF Positive, Lexemes, InstancesStay
<1>2. ASSUME IsServed(i)
      PROVE  IsServed(i)'
  <2>1. PICK H : H = Covpt[csr_comb[i]].holds
    OBVIOUS
  <2>2. H = Covpt[csr_comb'[i]].holds
    BY <2>1 DEF InstancesStay
  <2>3. {} \notin H /\ \A S \in H : \E d \in DOMAIN instr_dict : Serves(instr_dict[d].sol, S, H)
    BY <1>2, <2>1 DEF IsServed
  <2>4. ASSUME NEW S \in H
        PROVE  \E d \in DOMAIN instr_dict' : Serves(instr_dict'[d].sol, S, H)
    <3>1. PICK d \in DOMAIN instr_dict : Serves(instr_dict[d].sol, S, H)
      BY <2>3
    <3>2. d \in DOMAIN instr_dict' /\ instr_dict'[d].sol = instr_dict[d].sol
      BY DEF InstancesStay
    <3>3. Serves(instr_dict'[d].sol, S, H)
      BY <3>1, <3>2
    <3>4. QED
      BY <3>2, <3>3
  <2>5. QED
    BY <2>2, <2>3, <2>4 DEF IsServed
<1>3. QED
  BY <1>1, <1>2

\* What has been served stays so.
LEMMA ServedBefore ==
  ASSUME ServedInv, InstancesStay, invalid \subseteq invalid',
         NEW i \in DOMAIN csr_comb' \ invalid', i < covpt, Positive(i)', IsExpression(Covpt[csr_comb'[i]])
  PROVE  IsServed(i)'
<1>1. csr_comb' = csr_comb
  BY DEF InstancesStay
<1>2. i \in DOMAIN csr_comb \ invalid /\ IsExpression(Covpt[csr_comb[i]])
  BY <1>1
<1>3. Positive(i)
  BY ServedStays
<1>4. IsServed(i)
  BY <1>2, <1>3 DEF ServedInv
<1>5. QED
  BY <1>4, ServedStays

LEMMA NextServed ==
  ASSUME ParseTypeOK, ServedInv, phase \in Reading \cup {"solve"}, NextCovpt, instr_dict' = instr_dict,
         invalid \subseteq invalid',
         covpt \notin invalid' /\ Positive(covpt) /\ IsExpression(Covpt[csr_comb[covpt]]) => IsServed(covpt)
  PROVE  ServedInv'
<1>1. PICK list, i : list = csr_comb /\ i = covpt
  OBVIOUS
<1>2. list \in CsrCombs /\ i \in DOMAIN list
  BY <1>1 DEF ParseTypeOK
<1>3. DOMAIN list = 1..Len(list) /\ Len(list) \in Nat
  BY <1>2, CovptType
<1>4. csr_comb' = list /\ covpt' = i + 1 /\ phase' = IF i < Len(list) THEN "scan" ELSE "write_test"
  BY <1>1 DEF NextCovpt
<1>5. InstancesStay
  BY <1>1, <1>4 DEF InstancesStay
<1>6. phase' \notin Reading \cup {"solve"} => covpt' = Len(csr_comb') + 1
  BY <1>2, <1>3, <1>4 DEF Reading
<1>7. phase' # "solve"
  BY <1>4
<1>8. ASSUME NEW j \in DOMAIN csr_comb' \ invalid', j < covpt', Positive(j)', IsExpression(Covpt[csr_comb'[j]])
      PROVE  IsServed(j)'
  <2>1. j < covpt \/ j = covpt
    <3>1. j \in 1..Len(list) /\ j < i + 1 /\ i \in 1..Len(list)
      BY <1>2, <1>3, <1>4, <1>8
    <3>2. j < i \/ j = i
      BY <1>3, <3>1
    <3>3. QED
      BY <1>1, <3>2
  <2>2. CASE j < covpt
    BY <1>5, <1>8, <2>2, ServedBefore
  <2>3. CASE j = covpt
    <3>1. IsExpression(Covpt[csr_comb[covpt]])
      BY <1>1, <1>4, <1>8, <2>3
    <3>2. Positive(covpt)
      BY <1>5, <1>8, <2>3, ServedStays
    <3>3. IsServed(covpt)
      BY <1>8, <2>3, <3>1, <3>2
    <3>4. QED
      BY <1>5, <2>3, <3>3, ServedStays
  <2>4. QED
    BY <2>1, <2>2, <2>3
<1>9. QED
  BY <1>6, <1>7, <1>8 DEF ServedInv

\* Parse does not take the coverpoints out of the phases of csr_comb().
LEMMA ParseServes ==
  ASSUME ParseTypeOK, ServedInv, Parse, instr_dict' = instr_dict
  PROVE  ServedInv'
<1>1. CASE Reject
  <2>1. phase \in Reading
    BY <1>1 DEF Reject, IndexError, Popping, HasToken, Reading
  <2>2. NextCovpt /\ invalid' = invalid \cup {covpt}
    BY <1>1 DEF Reject
  <2>3. QED
    BY <2>1, <2>2, NextServed
<1>2. CASE ~Reject
  <2>1. /\ UNCHANGED <<csr_comb, covpt, invalid>>
        /\ phase' \in Reading \cup {"solve"}
        /\ phase' = "solve" => pos' = 1
    <3>1. CASE OpenBracket \/ CloseInClause \/ CloseAfterClause \/ CloseGroup \/ TextToken
      BY <3>1 DEF OpenBracket, CloseInClause, CloseAfterClause, CloseGroup, TextToken, HasToken, Reading
    <3>2. CASE Operator \/ EndOfTokens \/ PushOperator \/ GroupDone \/ ClauseDone \/ Parsed
      BY <3>2 DEF Operator, EndOfTokens, PushOperator, GroupDone, ClauseDone, Parsed, HasToken, Reading
    <3>3. CASE Apply
      BY <3>3 DEF Apply, Popping, Reading
    <3>4. QED
      BY <1>2, <3>1, <3>2, <3>3 DEF Parse
  <2>2. InstancesStay
    BY <2>1 DEF InstancesStay
  <2>3. phase' = "solve" => \A k \in DOMAIN bool_expr'.SAT :
          k < pos' => \E d \in DOMAIN instr_dict' : instr_dict'[d].sol = bool_expr'.SAT[k].t
    <3> SUFFICES ASSUME phase' = "solve", NEW k \in DOMAIN bool_expr'.SAT, k < pos'
                 PROVE  FALSE
      OBVIOUS
    <3>1. Parsed
      <4>1. ~(OpenBracket \/ CloseInClause \/ CloseAfterClause \/ CloseGroup \/ TextToken)
        BY DEF OpenBracket, CloseInClause, CloseAfterClause, CloseGroup, TextToken, HasToken
      <4>2. ~(Operator \/ EndOfTokens \/ PushOperator \/ GroupDone \/ ClauseDone)
        BY DEF Operator, EndOfTokens, PushOperator, GroupDone, ClauseDone
      <4>3. ~Apply
        BY DEF Apply, Popping
      <4>4. QED
        BY <1>2, <4>1, <4>2, <4>3 DEF Parse
    <3>2. clause_stack' \in Seq(Expression(csr_comb[covpt])) /\ clause_stack' # <<>>
      <4>1. clause_stack' = clause_stack /\ clause_stack # <<>> /\ phase \in Reading
        BY <3>1 DEF Parsed, Reading
      <4>2. QED
        BY <4>1, ReadingType DEF Stacks
    <3>3. Last(clause_stack') \in Expression(csr_comb[covpt])
      BY ONLY <3>2, StackOps
    <3>4. bool_expr'.SAT \in Seq(Solution(csr_comb[covpt]))
      BY <3>3 DEF bool_expr, Expression
    <3>5. k \in Nat \ {0}
      BY <3>4
    <3>6. QED
      BY <2>1, <3>5
  <2>4. \A i \in DOMAIN csr_comb' \ invalid' :
          i < covpt' /\ Positive(i)' /\ IsExpression(Covpt[csr_comb'[i]]) => IsServed(i)'
    BY <2>1, <2>2, ServedBefore
  <2>5. QED
    BY <2>1, <2>3, <2>4 DEF ServedInv
<1>3. QED
  BY <1>1, <1>2

LEMMA AddInstanceServes ==
  ASSUME ParseTypeOK, InstInv, ServedInv, AddInstance
  PROVE  ServedInv'
<1>1. /\ phase = "solve" /\ pos' = pos + 1 /\ pos <= Len(bool_expr.SAT)
      /\ UNCHANGED <<csr_comb, covpt, phase, clause_stack, invalid>>
  BY DEF AddInstance
<1>2. PICK x : x = Instance(bool_expr.SAT[pos].t)
  OBVIOUS
<1>3. instr_dict' = Append(instr_dict, x) /\ x.sol = bool_expr.SAT[pos].t
  BY <1>2 DEF AddInstance, Instance
<1>4. Len(instr_dict) \in Nat /\ DOMAIN instr_dict = 1..Len(instr_dict)
  BY DEF InstInv
<1>5. /\ DOMAIN instr_dict' = 1..(Len(instr_dict) + 1)
      /\ \A d \in 1..Len(instr_dict) : instr_dict'[d] = instr_dict[d]
      /\ instr_dict'[Len(instr_dict) + 1] = x
  BY <1>3 DEF InstInv
<1>6. InstancesStay
  BY <1>1, <1>4, <1>5 DEF InstancesStay
<1>7. bool_expr' = bool_expr
  BY <1>1 DEF bool_expr
<1>8. ASSUME NEW k \in DOMAIN bool_expr.SAT, k < pos + 1
      PROVE  \E d \in DOMAIN instr_dict' : instr_dict'[d].sol = bool_expr.SAT[k].t
  <2>1. bool_expr.SAT \in Seq(Solution(csr_comb[covpt])) /\ pos \in Nat
    <3>1. clause_stack \in Seq(Expression(csr_comb[covpt])) /\ clause_stack # <<>> /\ pos \in Nat
      BY <1>1 DEF ParseTypeOK
    <3>2. Last(clause_stack) \in Expression(csr_comb[covpt])
      BY ONLY <3>1, StackOps
    <3>3. QED
      BY <3>1, <3>2 DEF bool_expr, Expression
  <2>2. k \in Nat
    BY <2>1
  <2>3. k < pos \/ k = pos
    BY <1>8, <2>1, <2>2
  <2>4. CASE k < pos
    <3>1. PICK d \in DOMAIN instr_dict : instr_dict[d].sol = bool_expr.SAT[k].t
      BY <1>1, <2>4 DEF ServedInv
    <3>2. d \in DOMAIN instr_dict' /\ instr_dict'[d].sol = instr_dict[d].sol
      BY <1>6 DEF InstancesStay
    <3>3. QED
      BY <3>1, <3>2
  <2>5. CASE k = pos
    <3>1. PICK d : d = Len(instr_dict) + 1
      OBVIOUS
    <3>2. d \in DOMAIN instr_dict' /\ instr_dict'[d] = x
      BY <1>4, <1>5, <3>1
    <3>3. QED
      BY <1>3, <2>5, <3>2
  <2>6. QED
    BY <2>3, <2>4, <2>5
<1>9. phase' = "solve" => \A k \in DOMAIN bool_expr'.SAT :
        k < pos' => \E d \in DOMAIN instr_dict' : instr_dict'[d].sol = bool_expr'.SAT[k].t
  BY <1>1, <1>7, <1>8
<1>10. \A i \in DOMAIN csr_comb' \ invalid' :
         i < covpt' /\ Positive(i)' /\ IsExpression(Covpt[csr_comb'[i]]) => IsServed(i)'
  BY <1>1, <1>6, ServedBefore
<1>11. phase' \in Reading \cup {"solve"}
  BY <1>1
<1>12. QED
  BY <1>9, <1>10, <1>11 DEF ServedInv

LEMMA AllAddedServes ==
  ASSUME ParseTypeOK, SolvedStacks, ServedInv, AllAdded,
         IsExpression(Covpt[csr_comb[covpt]]) => bool_expr.holds = Covpt[csr_comb[covpt]].holds
  PROVE  ServedInv'
<1>1. phase = "solve" /\ pos > Len(bool_expr.SAT) /\ NextCovpt /\ invalid' = invalid /\ instr_dict' = instr_dict
  BY DEF AllAdded, genVars
<1>2. ASSUME Positive(covpt), IsExpression(Covpt[csr_comb[covpt]])
      PROVE  IsServed(covpt)
  <2>1. PICK e, X : e = bool_expr /\ X = Soluble(csr_comb[covpt])
    OBVIOUS
  <2>2. clause_stack \in Seq(X) /\ clause_stack # <<>> /\ pos \in Nat
    BY <1>1, <1>2, <2>1 DEF SolvedStacks, ParseTypeOK
  <2>3. Last(clause_stack) \in X
    BY ONLY <2>2, StackOps
  <2>4. e \in Expression(csr_comb[covpt]) /\ Solves(e)
    BY <2>1, <2>3 DEF bool_expr, Soluble
  <2>5. e.SAT \in Seq(Solution(csr_comb[covpt])) /\ Len(e.SAT) \in Nat
    BY <2>4 DEF Expression
  <2>6. \A k \in DOMAIN e.SAT : k < pos
    <3>1. \A k \in DOMAIN e.SAT : k \in 1..Len(e.SAT)
      BY <2>5
    <3>2. Len(e.SAT) < pos
      BY <1>1, <2>1, <2>2, <2>5
    <3>3. QED
      BY <2>2, <2>5, <3>1, <3>2
  <2>7. PICK H : H = Covpt[csr_comb[covpt]].holds
    OBVIOUS
  <2>8. e.holds = H
    BY <1>2, <2>1, <2>7
  <2>9. ASSUME NEW S \in H
        PROVE  \E d \in DOMAIN instr_dict : Serves(instr_dict[d].sol, S, H)
    <3>1. PICK k \in DOMAIN e.SAT : Serves(e.SAT[k].t, S, H)
      BY <2>4, <2>8 DEF Solves
    <3>2. PICK d \in DOMAIN instr_dict : instr_dict[d].sol = e.SAT[k].t
      BY <1>1, <2>1, <2>6 DEF ServedInv
    <3>3. QED
      BY <3>1, <3>2
  <2>10. {} \notin H
    BY <2>4, <2>8 DEF Solves
  <2>11. QED
    BY <2>7, <2>9, <2>10 DEF IsServed
<1>3. QED
  BY <1>1, <1>2, NextServed

\* The other steps change nothing of it.
LEMMA ServedOn ==
  ASSUME ServedInv, phase \notin Reading \cup {"solve"}, phase' \notin Reading \cup {"solve"},
         UNCHANGED <<csr_comb, covpt, invalid, instr_dict>>
  PROVE  ServedInv'
<1>1. InstancesStay
  BY DEF InstancesStay
<1>2. \A i \in DOMAIN csr_comb' \ invalid' :
        i < covpt' /\ Positive(i)' /\ IsExpression(Covpt[csr_comb'[i]]) => IsServed(i)'
  BY <1>1, ServedBefore
<1>3. covpt' = Len(csr_comb') + 1 /\ phase' # "solve"
  BY DEF ServedInv
<1>4. QED
  BY <1>2, <1>3 DEF ServedInv

-----------------------------------------------------------------------------
(***************************************************************************)
(* What the writes of a realisable solution write                          *)
(***************************************************************************)
\* A CSR used without a modifier is among the keys.
LEMMA KeysHave ==
  ASSUME NEW sol \in Sols, NEW k \in 1..Len(sol), sol[k] \in Used(sol), CsrReg(sol[k]) # reg_with_mod(sol)
  PROVE  CsrReg(sol[k]) \in ToSet(PlainKeys(sol))
<1>0. Len(sol) \in Nat
  BY DEF Sols
<1>1. PICK f : KeysUpto(sol, Len(sol), f) /\ PlainKeys(sol) = f[Len(sol)]
  BY <1>0, PlainKeysAre
<1>2. PICK S : S = CsrsIn(sol)
  OBVIOUS
<1> DEFINE T == {n \in 0..Len(sol) : /\ f[n] \in Seq(S)
                                     /\ k <= n => CsrReg(sol[k]) \in ToSet(f[n])}
<1>3. 0 \in T
  <2>1. f[0] = <<>>
    <3>1. 0 \in 0..Len(sol)
      BY <1>0
    <3>2. f[0] = IF 0 = 0 THEN <<>> ELSE KeyStep(sol, 0, f[0 - 1])
      BY <1>0, <1>1, <3>1, KeysPointwise, Zenon
    <3>3. QED
      BY <3>2
  <2>2. <<>> \in Seq(S) /\ 0 \in 0..Len(sol) /\ ~(k <= 0)
    BY <1>0
  <2>3. QED
    BY <2>1, <2>2
<1>4. ASSUME NEW n \in 0..(Len(sol) - 1), n \in T
      PROVE  n + 1 \in T
  <2>1. n + 1 \in 0..Len(sol) /\ n + 1 \in 1..Len(sol) /\ n + 1 # 0 /\ (n + 1) - 1 = n
    BY <1>0
  <2>2. f[n + 1] = KeyStep(sol, n + 1, f[n])
    BY <1>0, <1>1, <2>1, KeysPointwise
  <2>3. PICK s, x, t : s = f[n] /\ x = CsrReg(sol[n + 1]) /\ t = Append(s, x)
    OBVIOUS
  <2>4. s \in Seq(S) /\ (k <= n => CsrReg(sol[k]) \in ToSet(s))
    BY <1>4, <2>3
  <2>5. k <= n + 1 <=> k <= n \/ k = n + 1
    BY <1>0
  <2>6. CASE sol[n + 1] \in Used(sol) /\ x \notin ToSet(s) \cup {reg_with_mod(sol)}
    <3>1. x # None
      BY <2>3, <2>6 DEF Used
    <3>2. x \in S
      BY <1>2, <2>1, <2>3, <3>1, InCsrsIn
    <3>3. f[n + 1] = t
      BY <2>2, <2>3, <2>6 DEF KeyStep
    <3>4. t = s \o <<x>> /\ <<x>> \in Seq(S) /\ ToSet(<<x>>) = {x}
      BY <2>3, <2>4, <3>2 DEF ToSet
    <3>5. t \in Seq(S) /\ ToSet(t) = ToSet(s) \cup {x}
      <4>1. PICK y : y = <<x>>
        OBVIOUS
      <4>2. y \in Seq(S) /\ ToSet(y) = {x} /\ t = s \o y
        BY ONLY <3>4, <4>1
      <4>3. s \in Seq(S)
        BY <2>4
      <4>4. s \o y \in Seq(S) /\ ToSet(s \o y) = ToSet(s) \cup ToSet(y)
        BY ONLY <4>2, <4>3, JoinedSet, JoinedPlace
      <4>5. QED
        BY ONLY <4>2, <4>4
    <3>6. k <= n + 1 => CsrReg(sol[k]) \in ToSet(t)
      BY <2>3, <2>4, <2>5, <3>5
    <3>7. QED
      BY <2>1, <3>3, <3>5, <3>6
  <2>7. CASE ~(sol[n + 1] \in Used(sol) /\ x \notin ToSet(s) \cup {reg_with_mod(sol)})
    <3>1. f[n + 1] = s
      BY <2>2, <2>3, <2>7 DEF KeyStep
    <3>2. k = n + 1 => CsrReg(sol[k]) \in ToSet(s)
      BY <2>3, <2>7
    <3>3. QED
      BY <2>1, <2>4, <2>5, <3>1, <3>2
  <2>8. QED
    BY <2>6, <2>7
<1>5. 0..Len(sol) \subseteq T
  <2> HIDE DEF T
  <2>1. QED
    BY <1>0, <1>3, <1>4, UpTo
<1>6. Len(sol) \in T /\ k <= Len(sol)
  BY <1>0, <1>5
<1>7. QED
  BY <1>1, <1>6

\* The CSR with the modifier is the last one, and each CSR used is there.
LEMMA ArrHas ==
  ASSUME NEW sol \in Sols, NEW arr, arr = reg_mask_val_arr(sol), NEW n, n = Len(arr)
  PROVE  /\ \A c \in Used(sol) : \E k \in 1..n : arr[k] = CsrReg(c)
         /\ reg_with_mod(sol) # None => n >= 1 /\ arr[n] = reg_with_mod(sol)
<1>1. PICK p, s, r, C : /\ p = PlainKeys(sol) /\ s = Reverse(p) /\ r = reg_with_mod(sol)
                        /\ C = CsrsIn(sol)
  OBVIOUS
<1>2. p \in Seq(C \ {r})
  BY <1>1, PlainKeysType
<1>3. /\ s \in Seq(C \ {r}) /\ Len(s) = Len(p) /\ Len(p) \in Nat
      /\ \A k \in 1..Len(s) : s[k] = p[Len(p) + 1 - k]
  BY <1>1, <1>2, ReverseIs
<1>4. r \in C \cup {None}
  BY <1>1, RegWithMod
<1>5. arr = s \o (IF r = None THEN <<>> ELSE <<r>>)
  BY <1>1 DEF reg_mask_val_arr
<1>6. s \in Seq(C)
  BY <1>3
<1>7. /\ \A k \in 1..Len(s) : k \in 1..n /\ arr[k] = s[k]
      /\ r # None => n >= 1 /\ arr[n] = r
  <2>1. CASE r = None
    <3>1. arr = s
      BY <1>5, <1>6, <2>1
    <3>2. QED
      BY <2>1, <3>1
  <2>2. CASE r # None
    <3>1. arr = s \o <<r>> /\ <<r>> \in Seq(C) /\ Len(<<r>>) = 1 /\ <<r>>[1] = r
      BY <1>4, <1>5, <2>2
    <3>2. PICK l : l = <<r>>
      OBVIOUS
    <3>3. l \in Seq(C) /\ Len(l) = 1 /\ l[1] = r /\ arr = s \o l
      BY <3>1, <3>2
    <3>4. /\ Len(arr) = Len(s) + Len(l)
          /\ \A j \in 1..Len(s) : arr[j] = s[j]
          /\ \A j \in 1..Len(l) : arr[Len(s) + j] = l[j]
      BY <1>6, <3>3, JoinedPlace
    <3>5. n = Len(s) + 1 /\ arr[Len(s) + 1] = r
      <4>1. 1 \in 1..Len(l)
        BY <3>3
      <4>2. arr[Len(s) + 1] = l[1]
        BY <3>4, <4>1
      <4>3. QED
        BY <3>3, <3>4, <4>2
    <3>6. QED
      BY <1>3, <3>4, <3>5
  <2>3. QED
    BY <2>1, <2>2
<1>8. ASSUME NEW c \in Used(sol)
      PROVE  \E k \in 1..n : arr[k] = CsrReg(c)
  <2>1. c \in ToSet(sol) /\ CsrReg(c) # None
    BY DEF Used
  <2>2. PICK k \in 1..Len(sol) : sol[k] = c
    BY <2>1 DEF Sols, ToSet
  <2>3. CASE CsrReg(c) = r
    <3>1. n >= 1 /\ arr[n] = r
      BY <1>7, <2>1, <2>3
    <3>2. n \in Nat
      BY ArrType
    <3>3. n \in 1..n
      BY <3>1, <3>2
    <3>4. QED
      BY <2>3, <3>1, <3>3
  <2>4. CASE CsrReg(c) # r
    <3>1. CsrReg(c) \in ToSet(p)
      BY <1>1, <2>2, <2>4, KeysHave
    <3>2. PICK j \in 1..Len(p) : p[j] = CsrReg(c)
      BY <1>2, <3>1 DEF ToSet
    <3>3. PICK h : h = Len(p) + 1 - j
      OBVIOUS
    <3>4. h \in 1..Len(s) /\ Len(p) + 1 - h = j
      BY <1>3, <3>3
    <3>5. s[h] = p[j]
      BY <1>3, <3>4
    <3>6. QED
      BY <1>7, <3>2, <3>4, <3>5
  <2>5. QED
    BY <2>3, <2>4
<1>9. QED
  BY <1>1, <1>7, <1>8

\* All of a realisable solution is used.
LEMMA AllUsed ==
  ASSUME NEW sol \in Sols, Realisable(ToSet(sol))
  PROVE  /\ Used(sol) = ToSet(sol)
         /\ \A c \in ToSet(sol) :
              /\ c \in DOMAIN Clause /\ CsrReg(c) \in Csrs /\ CsrReg(c) # None
              /\ Clause[c].mod # None => CsrReg(c) = reg_with_mod(sol)
<1> DEFINE S == ToSet(sol)
           m == {k \in DOMAIN sol : CsrReg(sol[k]) # None /\ Clause[sol[k]].mod # None}
<1>1. S \subseteq {0} \cup DOMAIN Clause /\ DOMAIN sol = 1..Len(sol) /\ Len(sol) \in Nat
  BY DEF Sols, ToSet
<1>2. ASSUME NEW c \in S
      PROVE  c \in DOMAIN Clause /\ CsrReg(c) \in Csrs /\ CsrReg(c) # None
  <2>1. c \in DOMAIN Clause /\ CsrReg(c) # None
    BY <1>1 DEF Realisable
  <2>2. QED
    BY <2>1, CsrRegType
<1>3. ASSUME NEW c \in S, Clause[c].mod # None
      PROVE  CsrReg(c) = reg_with_mod(sol)
  <2>1. PICK k \in DOMAIN sol : sol[k] = c
    BY DEF ToSet
  <2>2. k \in m
    BY <1>2, <1>3, <2>1
  <2>3. m \in SUBSET Nat
    BY <1>1
  <2>4. \E x \in m : \A y \in m : x <= y
    <3> HIDE DEF m
    <3>1. QED
      BY <2>2, <2>3, LeastOf
  <2>5. Min(m) \in m
    <3> HIDE DEF m
    <3>1. QED
      BY <2>4 DEF Min
  <2>6. reg_with_mod(sol) = CsrReg(sol[Min(m)])
    BY <2>2 DEF reg_with_mod
  <2>7. PICK h : h = Min(m)
    OBVIOUS
  <2>8. h \in DOMAIN sol /\ Clause[sol[h]].mod # None
    BY <2>5, <2>7
  <2>9. sol[h] \in S
    BY <2>8 DEF ToSet
  <2>10. CsrReg(c) = CsrReg(sol[h])
    BY <1>3, <2>8, <2>9 DEF Realisable
  <2> HIDE DEF m
  <2>11. QED
    BY <2>6, <2>7, <2>10
<1>4. Used(sol) = S
  BY <1>2, <1>3 DEF Used
<1>5. QED
  BY <1>2, <1>3, <1>4

\* The field that is written for a clause has the value it asks for.
LEMMA FieldAgrees ==
  ASSUME NEW sol \in Sols, Realisable(ToSet(sol)), NEW c \in ToSet(sol),
         NEW r, r = CsrReg(c), NEW m, m = Clause[c].mod
  PROVE  /\ Mask(sol, r, m) # {} /\ Clause[c].mask \subseteq Mask(sol, r, m)
         /\ Val(sol, r, m) \cap Clause[c].mask = Clause[c].val
<1>1. c \in With(sol, r, m)
  BY AllUsed DEF With
<1>2. Clause[c].mask # {} /\ Clause[c].val \subseteq Clause[c].mask
  BY DEF Realisable
<1>3. Clause[c].mask \subseteq Mask(sol, r, m)
  BY <1>1 DEF Mask
<1>4. Clause[c].val \subseteq Val(sol, r, m)
  BY <1>1 DEF Val
<1>5. ASSUME NEW b \in Val(sol, r, m), b \in Clause[c].mask
      PROVE  b \in Clause[c].val
  <2>1. PICK d \in With(sol, r, m) : b \in Clause[d].val
    BY DEF Val
  <2>2. d \in ToSet(sol) /\ CsrReg(d) = CsrReg(c) /\ Clause[d].mod = Clause[c].mod
    BY <2>1 DEF With, Used
  <2>3. Clause[c].val \cap Clause[d].mask = Clause[d].val \cap Clause[c].mask
    BY <2>2 DEF Realisable
  <2>4. QED
    BY <1>5, <2>1, <2>3
<1>6. QED
  BY <1>2, <1>3, <1>4, <1>5

\* The field of register r written under modifier m.
FieldOf(sol, r, m) == [csr |-> r, mask |-> Mask(sol, r, m), val |-> Val(sol, r, m)]

\* Which fields of a CSR are written: the old value, if there is one, before the
\* one that remains.
LEMMA FieldsOfClause ==
  ASSUME NEW sol \in Sols, Realisable(ToSet(sol)), NEW c \in ToSet(sol),
         NEW r, r = CsrReg(c), NEW m, m = Clause[c].mod, NEW w, w = FieldWrites(sol, r)
  PROVE  /\ Len(w) \in Nat /\ Len(w) >= 1
         /\ m # "old" => w[Len(w)] = FieldOf(sol, r, m)
         /\ m = "old" => Len(w) = 2 /\ w[1] = FieldOf(sol, r, m)
<1>1. ASSUME NEW d \in ToSet(sol), CsrReg(d) = r, Clause[d].mod # "old"
      PROVE  \/ Len(w) = 1 /\ w[1] = FieldOf(sol, r, Clause[d].mod) /\ Mask(sol, r, "old") = {}
             \/ Len(w) = 2 /\ w[1] = FieldOf(sol, r, "old") /\ w[2] = FieldOf(sol, r, Clause[d].mod)
  <2>1. PICK k : k = Clause[d].mod
    OBVIOUS
  <2>2. k \in {None, "write"}
    <3>1. d \in DOMAIN Clause
      BY AllUsed
    <3>2. Clause[d].mod \in {None, "old", "write"}
      BY <3>1, ClauseAssumption
    <3>3. QED
      BY <1>1, <2>1, <3>2
  <2>3. Mask(sol, r, k) # {}
    BY <1>1, <2>1, FieldAgrees
  <2>4. k = None => Mask(sol, r, "write") = {}
    <3> SUFFICES ASSUME k = None, NEW b \in Mask(sol, r, "write")
                 PROVE  FALSE
      OBVIOUS
    <3>1. PICK e \in With(sol, r, "write") : b \in Clause[e].mask
      BY DEF Mask
    <3>2. e \in ToSet(sol) /\ CsrReg(e) = CsrReg(d) /\ Clause[e].mod = "write"
      BY <1>1, <3>1 DEF With, Used
    <3>3. {Clause[d].mod, Clause[e].mod} # {None, "write"}
      BY <1>1, <3>2 DEF Realisable
    <3>4. QED
      BY <2>1, <3>2, <3>3
  <2>5. w = Field(sol, r, "old") \o Field(sol, r, k)
    BY <2>2, <2>3, <2>4 DEF FieldWrites
  <2>6. PICK x, y : x = FieldOf(sol, r, k) /\ y = FieldOf(sol, r, "old")
    OBVIOUS
  <2>7. Field(sol, r, k) = <<x>>
    BY <2>3, <2>6 DEF Field, FieldOf
  <2>8. CASE Mask(sol, r, "old") = {}
    <3>1. Field(sol, r, "old") = <<>>
      BY <2>8 DEF Field
    <3>2. <<>> \o <<x>> = <<x>> /\ Len(<<x>>) = 1 /\ <<x>>[1] = x
      OBVIOUS
    <3>3. Len(w) = 1 /\ w[1] = x
      BY <2>5, <2>7, <3>1, <3>2
    <3>4. QED
      BY <2>1, <2>6, <2>8, <3>3
  <2>9. CASE Mask(sol, r, "old") # {}
    <3>1. Field(sol, r, "old") = <<y>>
      BY <2>6, <2>9 DEF Field, FieldOf
    <3>2. PICK S, t, u, v : S = {x, y} /\ t = <<y>> /\ u = <<x>> /\ v = t \o u
      OBVIOUS
    <3>3. t \in Seq(S) /\ u \in Seq(S) /\ Len(t) = 1 /\ Len(u) = 1 /\ t[1] = y /\ u[1] = x
      BY <3>2
    <3>4. /\ Len(v) = Len(t) + Len(u)
          /\ \A j \in 1..Len(t) : v[j] = t[j]
          /\ \A j \in 1..Len(u) : v[Len(t) + j] = u[j]
      BY <3>2, <3>3, JoinedPlace
    <3>5. Len(v) = 2 /\ v[1] = y /\ v[2] = x
      BY ONLY <3>3, <3>4
    <3>6. w = v
      BY <2>5, <2>7, <3>1, <3>2
    <3>7. QED
      BY <2>1, <2>6, <3>5, <3>6
  <2>10. QED
    BY <2>8, <2>9
<1>2. CASE m # "old"
  <2>1. PICK x, y : x = FieldOf(sol, r, m) /\ y = FieldOf(sol, r, "old")
    OBVIOUS
  <2>2. Len(w) \in {1, 2} /\ w[Len(w)] = x
    <3>1. PICK d \in ToSet(sol) : d = c
      OBVIOUS
    <3>2. CsrReg(d) = r /\ Clause[d].mod # "old" /\ Clause[d].mod = m
      BY <1>2, <3>1
    <3>3. \/ Len(w) = 1 /\ w[1] = FieldOf(sol, r, Clause[d].mod)
          \/ Len(w) = 2 /\ w[2] = FieldOf(sol, r, Clause[d].mod)
      BY <1>1, <3>2, Zenon
    <3>4. FieldOf(sol, r, Clause[d].mod) = x
      BY <2>1, <3>2
    <3>5. QED
      BY ONLY <3>3, <3>4
  <2>3. QED
    BY <1>2, <2>1, <2>2
<1>3. CASE m = "old"
  <2>1. PICK d \in ToSet(sol) : CsrReg(d) = r /\ Clause[d].mod # "old"
    BY <1>3 DEF Realisable
  <2>2. PICK x, y : x = FieldOf(sol, r, Clause[d].mod) /\ y = FieldOf(sol, r, "old")
    OBVIOUS
  <2>3. Mask(sol, r, "old") # {}
    BY <1>3, FieldAgrees
  <2>4. Len(w) = 2 /\ w[1] = y
    BY <1>1, <2>1, <2>2, <2>3
  <2>5. QED
    BY <1>3, <2>2, <2>4
<1>4. QED
  BY <1>2, <1>3

-----------------------------------------------------------------------------
(***************************************************************************)
(* Where the writes for a clause are                                       *)
(***************************************************************************)
\* All writes for a register are to it.
LEMMA FieldCsr ==
  ASSUME NEW sol \in Sols, NEW r \in Csrs, NEW w, w = FieldWrites(sol, r)
  PROVE  \A j \in 1..Len(w) : w[j].csr = r
<1>1. PICK F : F = {f \in Fields : f.csr = r}
  OBVIOUS
<1>2. ASSUME NEW m
      PROVE  Field(sol, r, m) \in Seq(F)
  <2>1. PICK f : f = [csr |-> r, mask |-> Mask(sol, r, m), val |-> Val(sol, r, m)]
    OBVIOUS
  <2>2. CASE Mask(sol, r, m) = {}
    <3>1. Field(sol, r, m) = <<>>
      BY <2>2 DEF Field
    <3>2. QED
      BY <3>1
  <2>3. CASE Mask(sol, r, m) # {}
    <3>1. PICK l : l = Field(sol, r, m)
      OBVIOUS
    <3>2. l = <<f>>
      BY <2>1, <2>3, <3>1 DEF Field
    <3>3. l \in Seq(Fields)
      BY <3>1, FieldType
    <3>4. f \in Fields
      BY <3>2, <3>3
    <3>5. f \in F
      BY <1>1, <2>1, <3>4
    <3>6. QED
      BY ONLY <3>1, <3>2, <3>5
  <2>4. QED
    BY <2>2, <2>3
<1>3. PICK a, b, c : a = Field(sol, r, "old") /\ b = Field(sol, r, "write") /\ c = Field(sol, r, None)
  OBVIOUS
<1>4. a \in Seq(F) /\ b \in Seq(F) /\ c \in Seq(F)
  BY <1>2, <1>3
<1>5. a \o b \in Seq(F) /\ a \o c \in Seq(F)
  BY <1>4, JoinedPlace
<1>6. w = a \o b \/ w = a \o c
  BY <1>3 DEF FieldWrites
<1>7. w \in Seq(F)
  BY <1>5, <1>6
<1>8. QED
  BY <1>1, <1>7

\* The writes of register arr[k] are those after number base[k - 1].
Spread(sol, arr, base) ==
  /\ base \in [0..Len(arr) -> Nat] /\ base[0] = 0 /\ Len(CsrWrites(sol)) = base[Len(arr)]
  /\ \A k \in 1..Len(arr) :
       /\ Len(FieldWrites(sol, arr[k])) \in Nat
       /\ base[k] = base[k - 1] + Len(FieldWrites(sol, arr[k]))
       /\ \A j \in 1..Len(FieldWrites(sol, arr[k])) :
            /\ CsrWrites(sol)[base[k - 1] + j].csr = FieldWrites(sol, arr[k])[j].csr
            /\ CsrWrites(sol)[base[k - 1] + j].mask = FieldWrites(sol, arr[k])[j].mask
            /\ CsrWrites(sol)[base[k - 1] + j].val = FieldWrites(sol, arr[k])[j].val

LEMMA WritesPlaced ==
  ASSUME NEW sol \in Sols, NEW arr, arr = reg_mask_val_arr(sol)
  PROVE  \E base : Spread(sol, arr, base)
<1>2. arr \in Seq(Csrs) /\ Len(arr) \in Nat /\ DOMAIN arr = 1..Len(arr) /\ \A k \in 1..Len(arr) : arr[k] \in Csrs
  BY ArrType
<1>3. PICK s : s = [k \in DOMAIN arr |-> FieldWrites(sol, arr[k])]
  OBVIOUS
<1>4. s \in Seq(Seq(Fields)) /\ Len(s) = Len(arr) /\ \A k \in 1..Len(arr) : s[k] = FieldWrites(sol, arr[k]) /\ s[k] \in Seq(Fields)
  <2>1. \A k \in 1..Len(arr) : s[k] = FieldWrites(sol, arr[k]) /\ s[k] \in Seq(Fields)
    BY <1>2, <1>3, FieldWritesType
  <2>2. s = [k \in 1..Len(arr) |-> s[k]]
    BY <1>2, <1>3
  <2>3. QED
    BY <1>2, <2>1, <2>2, SeqOfElements
<1>5. PICK w : w = FlattenSeq(s)
  OBVIOUS
<1>6. w \in Seq(Fields) /\ Len(w) \in Nat /\ DOMAIN w = 1..Len(w)
  BY <1>4, <1>5, FlattenPlace
<1>7. PICK v : v = [k \in DOMAIN w |-> [do |-> "write", csr |-> w[k].csr, mask |-> w[k].mask,
                                        val |-> w[k].val, restore_reg |-> k]]
  OBVIOUS
<1>8. CsrWrites(sol) = v
  BY <1>3, <1>5, <1>7 DEF CsrWrites
<1>9. PICK base \in [0..Len(s) -> Nat] :
        /\ base[0] = 0 /\ Len(FlattenSeq(s)) = base[Len(s)]
        /\ \A i \in 1..Len(s) :
             /\ base[i] = base[i - 1] + Len(s[i])
             /\ \A j \in 1..Len(s[i]) : FlattenSeq(s)[base[i - 1] + j] = s[i][j]
  BY <1>4, FlattenPlace
<1>10. Len(v) = Len(w) /\ \A k \in 1..Len(w) : v[k].csr = w[k].csr /\ v[k].mask = w[k].mask /\ v[k].val = w[k].val
  BY <1>6, <1>7
<1>11. ASSUME NEW k \in 1..Len(arr)
       PROVE  /\ Len(FieldWrites(sol, arr[k])) \in Nat
              /\ base[k] = base[k - 1] + Len(FieldWrites(sol, arr[k]))
              /\ \A j \in 1..Len(FieldWrites(sol, arr[k])) :
                   /\ v[base[k - 1] + j].csr = FieldWrites(sol, arr[k])[j].csr
                   /\ v[base[k - 1] + j].mask = FieldWrites(sol, arr[k])[j].mask
                   /\ v[base[k - 1] + j].val = FieldWrites(sol, arr[k])[j].val
  <2>1. PICK f, b : f = FieldWrites(sol, arr[k]) /\ b = base[k - 1]
    OBVIOUS
  <2>2. s[k] = f /\ f \in Seq(Fields) /\ Len(f) \in Nat
    BY <1>4, <2>1
  <2>3. base[k] = b + Len(f) /\ \A j \in 1..Len(f) : w[b + j] = f[j]
    BY <1>4, <1>5, <1>9, <2>1, <2>2
  <2>4. b \in Nat /\ base[k] <= base[Len(arr)]
    <3>1. k - 1 \in 0..Len(arr) /\ k \in 0..Len(arr) /\ Len(arr) \in k..Len(arr)
      BY <1>2
    <3>2. b \in Nat
      BY <1>4, <1>9, <2>1, <3>1
    <3>3. PICK len : len = [h \in 1..Len(arr) |-> Len(s[h])]
      OBVIOUS
    <3>4. len \in [1..Len(arr) -> Nat] /\ \A h \in 1..Len(arr) : base[h] = base[h - 1] + len[h]
      BY <1>4, <1>9, <3>3
    <3>5. base \in [0..Len(arr) -> Nat]
      BY <1>4, <1>9
    <3>6. base[k] <= base[Len(arr)]
      BY <1>2, <3>1, <3>4, <3>5, BaseGrows
    <3>7. QED
      BY <3>2, <3>6
  <2>5. ASSUME NEW j \in 1..Len(f)
        PROVE  v[b + j].csr = f[j].csr /\ v[b + j].mask = f[j].mask /\ v[b + j].val = f[j].val
    <3>1. Len(w) = base[Len(arr)]
      BY <1>4, <1>5, <1>9
    <3>2. b + j \in 1..Len(w)
      BY <1>6, <2>2, <2>3, <2>4, <3>1
    <3>3. QED
      BY <1>10, <2>3, <3>2
  <2>6. QED
    BY <2>1, <2>2, <2>3, <2>5
<1>12. base \in [0..Len(arr) -> Nat] /\ base[0] = 0 /\ Len(v) = base[Len(arr)]
  BY <1>4, <1>5, <1>9, <1>10
<1>13. Spread(sol, arr, base)
  BY <1>8, <1>11, <1>12 DEF Spread
<1>14. QED
  BY <1>13

\* Which register a write is to.
LEMMA WriteOf ==
  ASSUME NEW sol \in Sols, NEW arr, arr = reg_mask_val_arr(sol), NEW base, Spread(sol, arr, base),
         NEW w, w = CsrWrites(sol), NEW l \in 1..Len(w)
  PROVE  \E k \in 1..Len(arr) : base[k - 1] < l /\ l <= base[k] /\ w[l].csr = arr[k]
<1>1. Len(arr) \in Nat /\ \A k \in 1..Len(arr) : arr[k] \in Csrs
  BY ArrType
<1>2. PICK len : len = [k \in 1..Len(arr) |-> Len(FieldWrites(sol, arr[k]))]
  OBVIOUS
<1>3. len \in [1..Len(arr) -> Nat] /\ \A k \in 1..Len(arr) : base[k] = base[k - 1] + len[k]
  BY <1>2 DEF Spread
<1>4. base \in [0..Len(arr) -> Nat] /\ base[0] = 0 /\ l \in 1..base[Len(arr)]
  BY DEF Spread
<1>5. PICK k \in 1..Len(arr) : base[k - 1] < l /\ l <= base[k]
  BY <1>1, <1>3, <1>4, PlaceFound
<1>6. PICK f, b, j : f = FieldWrites(sol, arr[k]) /\ b = base[k - 1] /\ j = l - b
  OBVIOUS
<1>7. b \in Nat
  <2>1. k - 1 \in 0..Len(arr)
    BY <1>1
  <2>2. QED
    BY <1>4, <1>6, <2>1
<1>8. Len(f) \in Nat /\ base[k] = b + Len(f) /\ \A h \in 1..Len(f) : w[b + h].csr = f[h].csr
  BY <1>6 DEF Spread
<1>9. j \in 1..Len(f) /\ b + j = l
  BY <1>4, <1>5, <1>6, <1>7, <1>8
<1>10. f[j].csr = arr[k]
  BY <1>1, <1>6, <1>9, FieldCsr
<1>11. QED
  BY <1>5, <1>8, <1>9, <1>10

\* The write that gives clause c the field it asks for.
WrittenFor(c, w, q) ==
  /\ q \in 1..Len(w) /\ w[q].csr = CsrReg(c)
  /\ Clause[c].mask \subseteq w[q].mask /\ w[q].val \cap Clause[c].mask = Clause[c].val
  /\ Clause[c].mod # "old" => \A l \in (q + 1)..Len(w) : w[l].csr # CsrReg(c)
  /\ Clause[c].mod # None => w[Len(w)].csr = CsrReg(c)
  /\ Clause[c].mod = "old" => q = Len(w) - 1

LEMMA ClauseWritten ==
  ASSUME NEW sol \in Sols, Realisable(ToSet(sol)), NEW c \in ToSet(sol), NEW w, w = CsrWrites(sol)
  PROVE  \E q : WrittenFor(c, w, q)
<1>1. PICK arr, r, m : arr = reg_mask_val_arr(sol) /\ r = CsrReg(c) /\ m = Clause[c].mod
  OBVIOUS
<1>2. PICK base : Spread(sol, arr, base)
  BY <1>1, WritesPlaced
<1>3. PICK N : N = Len(arr)
  OBVIOUS
<1>4. N \in Nat /\ (\A k \in 1..N : arr[k] \in Csrs) /\ Distinct(arr)
  BY <1>1, <1>3, ArrType, ArrIs
<1>5. r \in Csrs /\ r # None /\ c \in Used(sol) /\ (m # None => r = reg_with_mod(sol))
  BY <1>1, AllUsed
<1>6. PICK k \in 1..N : arr[k] = r
  BY <1>1, <1>3, <1>5, ArrHas
<1>7. PICK f, b : f = FieldWrites(sol, r) /\ b = base[k - 1]
  OBVIOUS
<1>8. /\ base \in [0..N -> Nat] /\ base[0] = 0 /\ Len(w) = base[N]
      /\ Len(f) \in Nat /\ base[k] = b + Len(f)
      /\ \A j \in 1..Len(f) : w[b + j].csr = f[j].csr /\ w[b + j].mask = f[j].mask /\ w[b + j].val = f[j].val
  BY <1>2, <1>3, <1>6, <1>7 DEF Spread
<1>9. b \in Nat
  <2>1. k - 1 \in 0..N
    BY <1>4
  <2>2. QED
    BY <1>7, <1>8, <2>1
<1>10. /\ Len(f) >= 1
       /\ m # "old" => f[Len(f)] = FieldOf(sol, r, m)
       /\ m = "old" => Len(f) = 2 /\ f[1] = FieldOf(sol, r, m)
  BY <1>1, <1>7, FieldsOfClause
<1>11. base[k] <= Len(w) /\ Len(w) \in Nat
  <2>1. PICK len : len = [h \in 1..N |-> Len(FieldWrites(sol, arr[h]))]
    OBVIOUS
  <2>2. len \in [1..N -> Nat] /\ \A h \in 1..N : base[h] = base[h - 1] + len[h]
    BY <1>2, <1>3, <2>1 DEF Spread
  <2>3. k \in 0..N /\ N \in k..N /\ N \in 0..N
    BY <1>4
  <2>4. base[k] <= base[N]
    BY <1>4, <1>8, <2>2, <2>3, BaseGrows
  <2>5. QED
    BY <1>8, <2>3, <2>4
<1>12. ASSUME NEW l \in 1..Len(w), w[l].csr = r
       PROVE  b < l /\ l <= base[k]
  <2>1. PICK h \in 1..N : base[h - 1] < l /\ l <= base[h] /\ w[l].csr = arr[h]
    <3>1. arr = reg_mask_val_arr(sol) /\ Spread(sol, arr, base)
      BY <1>1, <1>2
    <3>2. \E h \in 1..Len(arr) : base[h - 1] < l /\ l <= base[h] /\ w[l].csr = arr[h]
      BY <3>1, WriteOf
    <3>3. QED
      BY <1>3, <3>2
  <2>2. h = k
    BY <1>3, <1>4, <1>6, <1>12, <2>1 DEF Distinct
  <2>3. QED
    BY <1>7, <2>1, <2>2
<1>13. m # None => Len(w) = base[k] /\ w[Len(w)].csr = r
  <2>1. SUFFICES ASSUME m # None
                 PROVE  Len(w) = base[k] /\ w[Len(w)].csr = r
    OBVIOUS
  <2>2. N >= 1 /\ arr[N] = r
    BY <1>1, <1>3, <1>5, <2>1, ArrHas
  <2>3. k = N
    BY <1>3, <1>4, <1>6, <2>2 DEF Distinct
  <2>4. Len(w) = b + Len(f) /\ Len(f) \in 1..Len(f)
    BY <1>8, <1>10, <2>3
  <2>5. f[Len(f)].csr = r
    BY <1>5, <1>7, <2>4, FieldCsr
  <2>6. w[b + Len(f)].csr = f[Len(f)].csr
    BY <1>8, <2>4
  <2>7. QED
    BY <1>8, <2>3, <2>4, <2>5, <2>6
<1>14. ASSUME NEW j \in 1..Len(f), f[j] = FieldOf(sol, r, m)
       PROVE  /\ b + j \in 1..Len(w) /\ w[b + j].csr = r
              /\ Clause[c].mask \subseteq w[b + j].mask /\ w[b + j].val \cap Clause[c].mask = Clause[c].val
  <2>1. b + j \in 1..Len(w)
    BY <1>8, <1>9, <1>11
  <2>2. w[b + j].csr = r /\ w[b + j].mask = Mask(sol, r, m) /\ w[b + j].val = Val(sol, r, m)
    BY <1>8, <1>14 DEF FieldOf
  <2>3. Clause[c].mask \subseteq Mask(sol, r, m) /\ Val(sol, r, m) \cap Clause[c].mask = Clause[c].val
    BY <1>1, FieldAgrees
  <2>4. QED
    BY <2>1, <2>2, <2>3
<1>15. CASE m # "old"
  <2>1. PICK j : j = Len(f)
    OBVIOUS
  <2>2. j \in 1..Len(f) /\ f[j] = FieldOf(sol, r, m) /\ b + j = base[k]
    BY <1>8, <1>10, <1>15, <2>1
  <2>3. PICK q : q = b + j
    OBVIOUS
  <2>4. ASSUME NEW l \in (q + 1)..Len(w)
        PROVE  w[l].csr # r
    <3>1. l \in 1..Len(w) /\ ~(l <= base[k])
      BY <1>8, <1>9, <1>11, <2>2, <2>3
    <3>2. QED
      BY <1>12, <3>1
  <2>5. WrittenFor(c, w, q)
    BY <1>1, <1>13, <1>14, <1>15, <2>2, <2>3, <2>4 DEF WrittenFor
  <2>6. QED
    BY <2>5
<1>16. CASE m = "old"
  <2>1. PICK j : j = 1
    OBVIOUS
  <2>2. j \in 1..Len(f) /\ f[j] = FieldOf(sol, r, m) /\ m # None
    <3>1. m # None
      BY <1>16 DEF None
    <3>2. QED
      BY <1>10, <1>16, <2>1, <3>1
  <2>3. PICK q : q = b + j
    OBVIOUS
  <2>4. q = Len(w) - 1
    <3>1. Len(w) = base[k] /\ base[k] = b + 2
      BY <1>8, <1>10, <1>13, <1>16, <2>2
    <3>2. QED
      BY <1>9, <2>1, <2>3, <3>1
  <2>5. WrittenFor(c, w, q)
    BY <1>1, <1>13, <1>14, <1>16, <2>2, <2>3, <2>4 DEF WrittenFor
  <2>6. QED
    BY <2>5
<1>17. QED
  BY <1>15, <1>16

-----------------------------------------------------------------------------
(***************************************************************************)
(* After the last write of an instance its clauses hold                    *)
(***************************************************************************)
\* The CSR has the field that macro m writes.
Holding(regs, m) == regs[m.csr] \cap m.mask = m.val \cap m.mask

\* The last write to each CSR before number p of the writes w is in force.
InForce(regs, w, p) ==
  \A q \in 1..(p - 1) : (\A l \in (q + 1)..(p - 1) : w[l].csr # w[q].csr) => Holding(regs, w[q])

After(regs, m) == [regs EXCEPT ![m.csr] = (@ \ m.mask) \cup m.val]

LEMMA Realised ==
  ASSUME NEW sol \in Sols, Realisable(ToSet(sol)), NEW w, w = CsrWrites(sol),
         NEW last, last = Len(w), NEW regs \in [Csrs -> SUBSET Bits], InForce(regs, w, last)
  PROVE  ToSet(sol) \subseteq True(regs, After(regs, w[last]), w[last].csr)
<1>1. Len(w) \in Nat /\ \A k \in 1..Len(w) : w[k] \in Write
  BY WritesAre
<1>2. SUFFICES ASSUME NEW c \in ToSet(sol)
               PROVE  c \in True(regs, After(regs, w[last]), w[last].csr)
  OBVIOUS
<1>3. PICK q : WrittenFor(c, w, q)
  BY ClauseWritten
<1>4. PICK r, m, x, y : r = CsrReg(c) /\ m = Clause[c].mod /\ x = w[last] /\ y = w[q]
  OBVIOUS
<1>5. c \in DOMAIN Clause /\ r \in Csrs /\ r # None
  BY <1>4, AllUsed
<1>6. /\ q \in 1..last /\ y.csr = r
      /\ Clause[c].mask \subseteq y.mask /\ y.val \cap Clause[c].mask = Clause[c].val
      /\ m # "old" => \A l \in (q + 1)..last : w[l].csr # r
      /\ m # None => x.csr = r
      /\ m = "old" => q = last - 1
  BY <1>3, <1>4 DEF WrittenFor
<1>7. x \in Write /\ x.csr \in Csrs /\ last \in 1..last /\ last \in Nat
  <2>1. last \in 1..last /\ last \in Nat
    BY <1>1, <1>6
  <2>2. x \in Write
    BY <1>1, <1>4, <2>1
  <2>3. QED
    BY <2>1, <2>2, KindOf
<1>8. PICK regs2 : regs2 = After(regs, x)
  OBVIOUS
<1>9. /\ regs2[x.csr] = (regs[x.csr] \ x.mask) \cup x.val
      /\ \A s \in Csrs : s # x.csr => regs2[s] = regs[s]
  BY <1>7, <1>8 DEF After
<1>10. ASSUME q < last, \A l \in (q + 1)..(last - 1) : w[l].csr # r
       PROVE  regs[r] \cap Clause[c].mask = Clause[c].val
  <2>1. q \in 1..(last - 1)
    BY <1>6, <1>7, <1>10
  <2>2. \A l \in (q + 1)..(last - 1) : w[l].csr # w[q].csr
    BY <1>4, <1>6, <1>10
  <2>3. Holding(regs, y)
    BY <1>4, <2>1, <2>2 DEF InForce
  <2>4. regs[r] \cap y.mask = y.val \cap y.mask
    BY <1>6, <2>3 DEF Holding
  <2>5. QED
    BY ONLY <1>6, <2>4
<1>11. CASE m = "old"
  <2>1. q < last /\ (q + 1)..(last - 1) = {}
    BY <1>6, <1>7, <1>11
  <2>2. regs[r] \cap Clause[c].mask = Clause[c].val
    BY <1>10, <2>1
  <2>3. m # None
    BY <1>11 DEF None
  <2>4. QED
    BY <1>4, <1>5, <1>6, <1>11, <2>2, <2>3 DEF True
<1>12. CASE m # "old"
  <2>1. regs2[r] \cap Clause[c].mask = Clause[c].val
    <3>1. CASE q = last
      <4>1. x = y
        BY <1>4, <3>1
      <4>2. regs2[r] = (regs[r] \ y.mask) \cup y.val
        BY <1>6, <1>9, <4>1
      <4>3. QED
        BY ONLY <1>6, <4>2
    <3>2. CASE q # last
      <4>1. q < last /\ last \in (q + 1)..last /\ \A l \in (q + 1)..(last - 1) : l \in (q + 1)..last
        BY <1>6, <1>7, <3>2
      <4>2. regs[r] \cap Clause[c].mask = Clause[c].val
        BY <1>6, <1>10, <1>12, <4>1
      <4>3. x.csr # r
        BY <1>4, <1>6, <1>12, <4>1
      <4>4. QED
        BY <1>5, <1>9, <4>2, <4>3
    <3>3. QED
      BY <3>1, <3>2
  <2>2. QED
    BY <1>4, <1>5, <1>6, <1>8, <1>12, <2>1 DEF True
<1>13. QED
  BY <1>11, <1>12

\* A realisable solution with a clause is written.
LEMMA SomeWrite ==
  ASSUME NEW sol \in Sols, Realisable(ToSet(sol)), ToSet(sol) # {}
  PROVE  Len(CsrWrites(sol)) \in Nat /\ Len(CsrWrites(sol)) >= 1
<1>1. PICK c \in ToSet(sol) : TRUE
  OBVIOUS
<1>2. PICK w : w = CsrWrites(sol)
  OBVIOUS
<1>3. PICK q : WrittenFor(c, w, q)
  BY <1>2, ClauseWritten
<1>4. q \in 1..Len(w) /\ Len(w) \in Nat
  BY <1>2, <1>3, WritesAre DEF WrittenFor
<1>5. QED
  BY <1>2, <1>4

-----------------------------------------------------------------------------
(***************************************************************************)
(* The writes of an instance in the file                                   *)
(***************************************************************************)
LEMMA CodeWrites ==
  ASSUME NEW sol \in Sols, NEW first \in Nat, NEW w, w = CsrWrites(sol),
         NEW c, c = InstanceCode(sol, first)
  PROVE  /\ Len(w) \in Nat /\ Len(c) \in Nat /\ Len(w) <= Len(c)
         /\ \A j \in 1..Len(w) : c[j] = w[j]
         /\ \A j \in 1..Len(c) : c[j].do = "write" => j <= Len(w)
<1>0. PICK M : M = Write \cup Read \cup Restore
  OBVIOUS
<1>1. PICK v, u, a : v = CsrReads(sol, first) /\ u = CsrRestores(sol) /\ a = w \o v
  OBVIOUS
<1>2. w \in Seq(Write) /\ v \in Seq(Read) /\ u \in Seq(Restore)
  BY <1>1, WritesAre, ReadsAre, RestoresAre
<1>3. w \in Seq(M) /\ v \in Seq(M) /\ u \in Seq(M)
  BY <1>0, <1>2
<1>4. /\ a \in Seq(M) /\ Len(a) = Len(w) + Len(v)
      /\ \A j \in 1..Len(w) : a[j] = w[j]
      /\ \A j \in 1..Len(v) : a[Len(w) + j] = v[j]
  BY <1>1, <1>3, JoinedPlace
<1>5. c = a \o u
  BY <1>1 DEF InstanceCode
<1>6. /\ c \in Seq(M) /\ Len(c) = Len(a) + Len(u)
      /\ \A j \in 1..Len(a) : c[j] = a[j]
      /\ \A j \in 1..Len(u) : c[Len(a) + j] = u[j]
  <2>1. a \in Seq(M) /\ u \in Seq(M)
    BY <1>3, <1>4
  <2>2. /\ a \o u \in Seq(M) /\ Len(a \o u) = Len(a) + Len(u)
        /\ \A j \in 1..Len(a) : (a \o u)[j] = a[j]
        /\ \A j \in 1..Len(u) : (a \o u)[Len(a) + j] = u[j]
    BY ONLY <2>1, JoinedPlace
  <2>3. QED
    BY ONLY <1>5, <2>2
<1>7. Len(w) \in Nat /\ Len(v) \in Nat /\ Len(u) \in Nat /\ Len(a) \in Nat /\ Len(c) \in Nat
  BY <1>3, <1>4, <1>6
<1>8. ASSUME NEW j \in 1..Len(w)
      PROVE  c[j] = w[j]
  <2>1. j \in 1..Len(a)
    BY <1>4, <1>7
  <2>2. QED
    BY <1>4, <1>6, <2>1
<1>9. ASSUME NEW j \in 1..Len(c), ~(j <= Len(w))
      PROVE  c[j].do # "write"
  <2>1. CASE j <= Len(a)
    <3>1. PICK k : k = j - Len(w)
      OBVIOUS
    <3>2. k \in 1..Len(v) /\ Len(w) + k = j /\ j \in 1..Len(a)
      BY <1>4, <1>7, <1>9, <2>1, <3>1
    <3>3. c[j] = v[k]
      BY <1>4, <1>6, <3>2
    <3>4. v[k] \in Read
      BY <1>2, <3>2
    <3>5. QED
      BY <3>3, <3>4, KindOf
  <2>2. CASE ~(j <= Len(a))
    <3>1. PICK k : k = j - Len(a)
      OBVIOUS
    <3>2. k \in 1..Len(u) /\ Len(a) + k = j
      BY <1>6, <1>7, <2>2, <3>1
    <3>3. c[j] = u[k]
      BY <1>6, <3>2
    <3>4. u[k] \in Restore
      BY <1>2, <3>2
    <3>5. QED
      BY <3>3, <3>4, KindOf
  <2>3. QED
    BY <2>1, <2>2
<1>10. QED
  BY <1>4, <1>6, <1>7, <1>8, <1>9

\* The writes of instance i are w, and they are after macro b.
WritesAt(c, b, w, i) ==
  /\ b \in Nat /\ Len(w) \in Nat /\ b + Len(w) <= Len(c)
  /\ \A j \in 1..Len(w) : c[b + j].inst = i /\ c[b + j].macro = w[j]
  /\ \A k \in 1..Len(c) : c[k].inst = i /\ c[k].macro.do = "write" => k \in (b + 1)..(b + Len(w))

LEMMA InstanceWrites ==
  ASSUME InstInv, NEW c, c = Macros, NEW i \in 1..Len(instr_dict), NEW w, w = CsrWrites(instr_dict[i].sol)
  PROVE  \E b : WritesAt(c, b, w, i)
<1>1. PICK N : N = Len(instr_dict)
  OBVIOUS
<1>2. N \in Nat /\ \A h \in 1..N : Len(instr_dict[h].code) \in Nat
  <2>1. N \in Nat
    BY <1>1 DEF InstInv
  <2>2. \A h \in 1..N : instr_dict[h].code \in Seq(Kinds)
    BY <1>1, InstanceTypes
  <2>3. QED
    BY <2>1, <2>2
<1>3. PICK base \in [0..N -> Nat] :
         /\ base[0] = 0 /\ Len(c) = base[N]
         /\ \A h \in 1..N : /\ base[h] = base[h - 1] + Len(instr_dict[h].code)
                            /\ Copied(c, base[h - 1], instr_dict[h].code, h)
  BY <1>1, MacrosPlaced
<1>4. PICK len : len = [h \in 1..N |-> Len(instr_dict[h].code)]
  OBVIOUS
<1>5. len \in [1..N -> Nat] /\ \A h \in 1..N : base[h] = base[h - 1] + len[h]
  BY <1>2, <1>3, <1>4
<1>6. PICK d, b, sol, first : d = instr_dict[i].code /\ b = base[i - 1] /\ sol = instr_dict[i].sol /\ first = instr_dict[i].first
  OBVIOUS
<1>7. sol \in Sols /\ first \in Nat /\ d = InstanceCode(sol, first)
  BY <1>6, InstanceTypes
<1>8. /\ Len(w) \in Nat /\ Len(d) \in Nat /\ Len(w) <= Len(d)
      /\ \A j \in 1..Len(w) : d[j] = w[j]
      /\ \A j \in 1..Len(d) : d[j].do = "write" => j <= Len(w)
  BY <1>6, <1>7, CodeWrites
<1>9. /\ b \in Nat /\ base[i] = b + Len(d) /\ base[i] <= Len(c)
  <2>1. i \in 0..N /\ N \in i..N /\ i - 1 \in 0..N
    BY <1>1, <1>2
  <2>2. base[i] <= base[N]
    BY <1>2, <1>5, <2>1, BaseGrows
  <2>3. QED
    BY <1>1, <1>3, <1>6, <2>1, <2>2
<1>10. ASSUME NEW j \in 1..Len(d)
       PROVE  c[b + j].inst = i /\ c[b + j].macro = d[j]
  <2>1. Copied(c, b, d, i)
    BY <1>1, <1>3, <1>6
  <2>2. c[b + j] = [inst |-> i, macro |-> d[j]]
    BY <2>1, Zenon DEF Copied
  <2>3. QED
    BY <2>2
<1>11. ASSUME NEW k \in 1..Len(c), c[k].inst = i
       PROVE  k - b \in 1..Len(d) /\ b + (k - b) = k
  <2>1. k \in 1..base[N]
    BY <1>3
  <2>2. PICK h \in 1..N : base[h - 1] < k /\ k <= base[h]
    BY <1>2, <1>3, <1>5, <2>1, PlaceFound
  <2>3. PICK e, g, j : e = instr_dict[h].code /\ g = base[h - 1] /\ j = k - g
    OBVIOUS
  <2>4. g \in Nat /\ base[h] = g + Len(e) /\ Len(e) \in Nat /\ Copied(c, g, e, h)
    <3>1. h - 1 \in 0..N
      BY <1>2
    <3>2. QED
      BY <1>2, <1>3, <2>3, <3>1
  <2>5. j \in 1..Len(e) /\ g + j = k
    <3>1. g < k /\ k <= base[h] /\ k \in Int /\ j = k - g
      BY <2>2, <2>3
    <3>2. QED
      BY ONLY <2>4, <3>1
  <2>6. c[g + j] = [inst |-> h, macro |-> e[j]]
    BY <2>4, <2>5, Zenon DEF Copied
  <2>7. h = i
    BY <1>11, <2>5, <2>6
  <2>8. QED
    BY <1>6, <2>3, <2>4, <2>5, <2>7
<1>12. ASSUME NEW k \in 1..Len(c), c[k].inst = i, c[k].macro.do = "write"
       PROVE  k \in (b + 1)..(b + Len(w))
  <2>1. PICK j : j = k - b
    OBVIOUS
  <2>2. j \in 1..Len(d) /\ b + j = k
    BY <1>11, <1>12, <2>1
  <2>3. d[j].do = "write"
    BY <1>10, <1>12, <2>2
  <2>4. j <= Len(w)
    BY <1>8, <2>2, <2>3
  <2>5. QED
    BY <1>8, <1>9, <2>2, <2>4
<1>13. ASSUME NEW j \in 1..Len(w)
       PROVE  c[b + j].inst = i /\ c[b + j].macro = w[j]
  <2>1. j \in 1..Len(d)
    BY <1>8
  <2>2. QED
    BY <1>8, <1>10, <2>1
<1>14. b + Len(w) <= Len(c) /\ Len(w) \in Nat
  <2>1. Len(c) = base[N] /\ base[N] \in Nat
    BY <1>2, <1>3
  <2>2. QED
    BY <1>8, <1>9, <2>1
<1>15. WritesAt(c, b, w, i)
  BY <1>9, <1>12, <1>13, <1>14 DEF WritesAt
<1>16. QED
  BY <1>15

-----------------------------------------------------------------------------
(***************************************************************************)
(* The test runs: the fields written, and the coverpoints hit              *)
(***************************************************************************)
\* Before macro p of c the last write of its instance to each CSR is in force.
Sustained(c, p, regs) ==
  \A k \in Before(c, p, "write") :
    (\A l \in Before(c, p, "write") : l > k => c[l].macro.csr # c[k].macro.csr)
      => Holding(regs, c[k].macro)

WrittenInv == phase = "run" /\ at <= Len(code) /\ macro.do = "write" => Sustained(code, at, csr)

\* An instance's last write, and the clauses it is there for.
LastWrite(c, k) ==
  c[k].macro.do = "write" /\ \A l \in 1..Len(c) : c[l].inst = c[k].inst /\ c[l].macro.do = "write" => l <= k
Asked(k) == ToSet(Inst(k).sol)

\* Once an instance is written, each coverpoint that its clauses make true is hit.
HitInv ==
  phase \in {"run", "done"} =>
    \A k \in 1..(at - 1) : LastWrite(code, k) /\ Realisable(Asked(k)) =>
      \A i \in DOMAIN csr_comb :
        (\A V \in Worlds : Asked(k) \subseteq V => V \in Covpt[csr_comb[i]].holds) => i \in hit

LEMMA MacroAt ==
  ASSUME InstInv, NEW c, c = Macros, NEW p \in 1..Len(c)
  PROVE  /\ c[p].inst \in 1..Len(instr_dict) /\ instr_dict[c[p].inst].sol \in Sols
         /\ c[p].macro.do = "write" => c[p].macro \in Write
<1>1. c[p].inst \in 1..Len(instr_dict)
  BY InBlock
<1>2. c \in Seq(Lines)
  BY MacrosPlaced
<1>3. c[p] \in Lines
  BY <1>2
<1>4. c[p].macro \in Kinds
  BY <1>3 DEF Lines
<1>5. c[p].macro.do = "write" => c[p].macro \in Write
  BY <1>4, KindOf DEF Kinds
<1>6. QED
  BY <1>1, <1>5, InstanceTypes

\* Nothing of its instance is written before a write that does not follow one.
LEMMA FirstWrite ==
  ASSUME InstInv, NEW c, c = Macros, NEW p \in 1..Len(c), c[p].macro.do = "write",
         p > 1 => c[p - 1].macro.do # "write" \/ c[p - 1].inst # c[p].inst
  PROVE  Before(c, p, "write") = {}
<1>1. PICK i, w : i = c[p].inst /\ w = CsrWrites(instr_dict[i].sol)
  OBVIOUS
<1>2. i \in 1..Len(instr_dict)
  BY <1>1, MacroAt
<1>3. PICK b : WritesAt(c, b, w, i)
  BY <1>1, <1>2, InstanceWrites
<1>4. b \in Nat /\ Len(w) \in Nat /\ b + Len(w) <= Len(c) /\ Len(c) \in Nat
  BY <1>3, MacrosPlaced DEF WritesAt
<1>5. \A k \in 1..Len(c) : c[k].inst = i /\ c[k].macro.do = "write" => k \in (b + 1)..(b + Len(w))
  BY <1>3 DEF WritesAt
<1>6. p \in (b + 1)..(b + Len(w))
  BY <1>1, <1>5
<1>7. p = b + 1
  <2>1. SUFFICES ASSUME p # b + 1
                 PROVE  FALSE
    OBVIOUS
  <2>2. PICK j : j = p - 1 - b
    OBVIOUS
  <2>3. j \in 1..Len(w) /\ b + j = p - 1 /\ p > 1
    BY <1>4, <1>6, <2>1, <2>2
  <2>4. c[b + j].inst = i /\ c[b + j].macro = w[j]
    BY <1>3, <2>3 DEF WritesAt
  <2>5. w[j] \in Write
    BY <1>1, <1>2, <2>3, InstanceTypes, WritesAre
  <2>6. c[p - 1].inst = i /\ c[p - 1].macro.do = "write"
    BY <2>3, <2>4, <2>5, KindOf
  <2>7. QED
    BY <1>1, <2>3, <2>6
<1>8. ASSUME NEW k \in Before(c, p, "write")
      PROVE  FALSE
  <2>1. k \in 1..(p - 1) /\ c[k].inst = i /\ c[k].macro.do = "write"
    BY <1>1 DEF Before
  <2>2. k \in 1..Len(c)
    BY <1>4, <2>1
  <2>3. k \in (b + 1)..(b + Len(w))
    BY <1>5, <2>1, <2>2
  <2>4. QED
    BY <1>4, <1>7, <2>1, <2>3
<1>9. QED
  BY <1>8

LEMMA WriteSustains ==
  ASSUME InstInv, NEW c, c = Macros, NEW p \in 1..Len(c), c[p].macro.do = "write",
         c[p + 1].inst = c[p].inst, NEW regs \in [Csrs -> SUBSET Bits], Sustained(c, p, regs)
  PROVE  Sustained(c, p + 1, After(regs, c[p].macro))
<1>1. PICK m, regs2 : m = c[p].macro /\ regs2 = After(regs, m)
  OBVIOUS
<1>2. m \in Write /\ m.csr \in Csrs
  BY <1>1, MacroAt, KindOf
<1>3. /\ regs2[m.csr] = (regs[m.csr] \ m.mask) \cup m.val
      /\ \A r \in Csrs : r # m.csr => regs2[r] = regs[r]
  BY <1>1, <1>2 DEF After
<1>4. Len(c) \in Nat
  BY MacrosPlaced
<1>5. ASSUME NEW k
      PROVE  k \in Before(c, p + 1, "write") <=> k \in Before(c, p, "write") \/ k = p
  <2>1. k \in 1..((p + 1) - 1) <=> k \in 1..(p - 1) \/ k = p
    BY <1>4
  <2>2. QED
    BY <2>1 DEF Before
<1>6. ASSUME NEW k \in Before(c, p + 1, "write"),
             \A l \in Before(c, p + 1, "write") : l > k => c[l].macro.csr # c[k].macro.csr
      PROVE  Holding(regs2, c[k].macro)
  <2>1. CASE k = p
    <3>1. regs2[m.csr] \cap m.mask = m.val \cap m.mask
      BY <1>3
    <3>2. QED
      BY <1>1, <2>1, <3>1 DEF Holding
  <2>2. CASE k # p
    <3>1. k \in Before(c, p, "write")
      BY <1>5, <2>2
    <3>2. k \in 1..(p - 1) /\ c[k].macro.do = "write"
      BY <3>1 DEF Before
    <3>3. k \in 1..Len(c) /\ p > k
      BY <1>4, <3>2
    <3>4. c[k].macro.csr \in Csrs
      BY <3>2, <3>3, MacroAt, KindOf
    <3>5. c[k].macro.csr # m.csr
      BY <1>1, <1>5, <1>6, <3>3
    <3>6. Holding(regs, c[k].macro)
      BY <1>5, <1>6, <3>1 DEF Sustained
    <3>7. QED
      BY <1>3, <3>4, <3>5, <3>6 DEF Holding
  <2>3. QED
    BY <2>1, <2>2
<1>7. QED
  BY <1>1, <1>6 DEF Sustained

LEMMA LastWriteRealises ==
  ASSUME InstInv, NEW c, c = Macros, NEW p \in 1..Len(c), LastWrite(c, p),
         NEW sol, sol = instr_dict[c[p].inst].sol, Realisable(ToSet(sol)),
         NEW regs \in [Csrs -> SUBSET Bits], Sustained(c, p, regs)
  PROVE  ToSet(sol) \subseteq True(regs, After(regs, c[p].macro), c[p].macro.csr)
<1>1. PICK i, w, last : i = c[p].inst /\ w = CsrWrites(sol) /\ last = Len(w)
  OBVIOUS
<1>2. i \in 1..Len(instr_dict) /\ sol \in Sols
  BY <1>1, MacroAt
<1>3. PICK b : WritesAt(c, b, w, i)
  BY <1>1, <1>2, InstanceWrites
<1>4. /\ b \in Nat /\ last \in Nat /\ b + last <= Len(c) /\ Len(c) \in Nat
      /\ \A j \in 1..last : c[b + j].inst = i /\ c[b + j].macro = w[j]
      /\ \A k \in 1..Len(c) : c[k].inst = i /\ c[k].macro.do = "write" => k \in (b + 1)..(b + last)
  <2>1. /\ b \in Nat /\ Len(w) \in Nat /\ b + Len(w) <= Len(c)
        /\ \A j \in 1..Len(w) : c[b + j].inst = i /\ c[b + j].macro = w[j]
        /\ \A k \in 1..Len(c) : c[k].inst = i /\ c[k].macro.do = "write" => k \in (b + 1)..(b + Len(w))
    BY <1>3 DEF WritesAt
  <2>2. Len(c) \in Nat
    BY MacrosPlaced
  <2>3. last = Len(w)
    BY <1>1
  <2>4. QED
    BY ONLY <2>1, <2>2, <2>3
<1>5. ASSUME NEW j \in 1..last
      PROVE  /\ b + j \in 1..Len(c) /\ c[b + j].inst = i
             /\ c[b + j].macro = w[j] /\ c[b + j].macro.do = "write"
  <2>1. w[j] \in Write
    BY <1>1, <1>2, WritesAre
  <2>2. b + j \in 1..Len(c)
    BY <1>4
  <2>3. QED
    BY <1>4, <2>1, <2>2, KindOf
<1>6. p = b + last /\ last \in 1..last
  <2>1. p \in (b + 1)..(b + last)
    BY <1>1, <1>4 DEF LastWrite
  <2>2. last \in 1..last
    BY <1>4, <2>1
  <2>3. b + last <= p
    BY <1>1, <1>5, <2>2 DEF LastWrite
  <2>4. QED
    BY <1>4, <2>1, <2>2, <2>3
<1>7. ASSUME NEW q \in 1..(last - 1), \A l \in (q + 1)..(last - 1) : w[l].csr # w[q].csr
      PROVE  Holding(regs, w[q])
  <2>1. PICK k : k = b + q
    OBVIOUS
  <2>2. q \in 1..last /\ k \in 1..(p - 1)
    BY <1>4, <1>6, <2>1
  <2>3. c[k].inst = c[p].inst /\ c[k].macro = w[q] /\ c[k].macro.do = "write"
    BY <1>1, <1>5, <2>1, <2>2
  <2>4. k \in Before(c, p, "write")
    BY <2>2, <2>3 DEF Before
  <2>5. ASSUME NEW l \in Before(c, p, "write"), l > k
        PROVE  c[l].macro.csr # c[k].macro.csr
    <3>1. l \in 1..(p - 1) /\ c[l].inst = i /\ c[l].macro.do = "write"
      BY <1>1 DEF Before
    <3>2. l \in 1..Len(c)
      BY <1>4, <3>1
    <3>3. l \in (b + 1)..(b + last)
      BY <1>4, <3>1, <3>2
    <3>4. PICK h : h = l - b
      OBVIOUS
    <3>5. h \in (q + 1)..(last - 1) /\ h \in 1..last /\ b + h = l
      BY <1>4, <1>6, <2>1, <2>5, <3>1, <3>3, <3>4
    <3>6. c[l].macro = w[h]
      BY <1>5, <3>5
    <3>7. w[h].csr # w[q].csr
      BY <1>7, <3>5
    <3>8. QED
      BY <2>3, <3>6, <3>7
  <2>6. Holding(regs, c[k].macro)
    BY <2>4, <2>5 DEF Sustained
  <2>7. QED
    BY <2>3, <2>6
<1>8. InForce(regs, w, last)
  BY <1>7 DEF InForce
<1>9. ToSet(sol) \subseteq True(regs, After(regs, w[last]), w[last].csr)
  BY <1>1, <1>2, <1>8, Realised
<1>10. c[p].macro = w[last]
  BY <1>5, <1>6
<1>11. QED
  BY <1>9, <1>10

\* Macros that are executed keep these invariants.
LEMMA RunHits ==
  ASSUME CsrIInv, WrittenInv, HitInv,
         WRITE_TO_CSR_FIELD_W_MASK \/ READ_CSR_REG_AND_UPD_SIG \/ RESTORE_CSR_REG
  PROVE  WrittenInv' /\ HitInv'
<1>1. InstInv /\ CodeInv /\ SavedInv
  BY DEF CsrIInv
<1>2. /\ phase = "run" /\ phase' = "run" /\ at <= Len(code) /\ at' = at + 1
      /\ UNCHANGED <<csr_comb, code, instr_dict>>
  BY DEF WRITE_TO_CSR_FIELD_W_MASK, READ_CSR_REG_AND_UPD_SIG, RESTORE_CSR_REG, Executing, parseVars, genVars
<1>3. PICK c, p, m : c = code /\ p = at /\ m = code[at].macro
  OBVIOUS
<1>4. c = Macros /\ p \in 1..Len(c) /\ Len(c) \in Nat
  <2>1. code = Macros /\ at \in 1..(Len(code) + 1) /\ Len(code) \in Nat
    BY <1>1, <1>2, MacrosPlaced DEF CodeInv
  <2>2. QED
    BY <1>2, <1>3, <2>1
<1>5. csr \in [Csrs -> SUBSET Bits]
  BY <1>1 DEF SavedInv
<1>6. /\ m.do = "write" => /\ csr' = After(csr, m)
                           /\ hit' = hit \cup {i \in DOMAIN csr_comb : True(csr, csr', m.csr) \in Covpt[csr_comb[i]].holds}
      /\ hit \subseteq hit'
  <2>1. CASE WRITE_TO_CSR_FIELD_W_MASK
    BY <1>3, <2>1 DEF WRITE_TO_CSR_FIELD_W_MASK, macro, After
  <2>2. CASE READ_CSR_REG_AND_UPD_SIG \/ RESTORE_CSR_REG
    BY <1>3, <2>2 DEF READ_CSR_REG_AND_UPD_SIG, RESTORE_CSR_REG, Executing, macro
  <2>3. QED
    BY <2>1, <2>2
<1>7. m.do = "write" => Sustained(c, p, csr)
  BY <1>2, <1>3 DEF WrittenInv, macro
<1>8. ASSUME p + 1 <= Len(c), c[p + 1].macro.do = "write"
      PROVE  Sustained(c, p + 1, csr')
  <2>1. CASE m.do = "write" /\ c[p + 1].inst = c[p].inst
    BY <1>1, <1>3, <1>4, <1>5, <1>6, <1>7, <2>1, WriteSustains
  <2>2. CASE ~(m.do = "write" /\ c[p + 1].inst = c[p].inst)
    <3>1. PICK q : q = p + 1
      OBVIOUS
    <3>2. q \in 1..Len(c) /\ q - 1 = p
      BY <1>4, <1>8, <3>1
    <3>3. Before(c, q, "write") = {}
      <4>1. c[q].macro.do = "write"
        BY <1>8, <3>1
      <4>2. c[q - 1].macro.do # "write" \/ c[q - 1].inst # c[q].inst
        BY <1>3, <2>2, <3>1, <3>2
      <4>3. QED
        BY <1>1, <1>4, <3>2, <4>1, <4>2, FirstWrite
    <3>4. QED
      BY <3>1, <3>3 DEF Sustained
  <2>3. QED
    BY <2>1, <2>2
<1>9. WrittenInv'
  <2>1. macro' = c[p + 1].macro
    BY <1>2, <1>3 DEF macro
  <2>2. code' = c /\ at' = p + 1
    BY <1>2, <1>3
  <2>3. ASSUME at' <= Len(code'), macro'.do = "write"
        PROVE  Sustained(code', at', csr')
    BY <1>8, <2>1, <2>2, <2>3
  <2>4. WrittenInv' <=> (phase' = "run" /\ at' <= Len(code') /\ macro'.do = "write" => Sustained(code', at', csr'))
    BY DEF WrittenInv, Sustained, Before
  <2>5. QED
    BY <2>3, <2>4
<1>10. ASSUME NEW k \in 1..p, LastWrite(c, k), Realisable(Asked(k)), NEW i \in DOMAIN csr_comb,
              \A V \in Worlds : Asked(k) \subseteq V => V \in Covpt[csr_comb[i]].holds
       PROVE  i \in hit'
  <2>1. CASE k = p
    <3>1. m.do = "write"
      BY <1>3, <1>10, <2>1 DEF LastWrite
    <3>2. PICK sol, V : sol = instr_dict[c[p].inst].sol /\ V = True(csr, After(csr, m), m.csr)
      OBVIOUS
    <3>3. Asked(k) = ToSet(sol)
      BY <1>3, <2>1, <3>2 DEF Asked, Inst
    <3>4. Sustained(c, p, csr) /\ LastWrite(c, p) /\ Realisable(ToSet(sol))
      BY <1>7, <1>10, <2>1, <3>1, <3>3
    <3>5. ToSet(sol) \subseteq True(csr, After(csr, c[p].macro), c[p].macro.csr)
      BY <1>1, <1>4, <1>5, <3>2, <3>4, LastWriteRealises
    <3>6. Asked(k) \subseteq V /\ V \in Worlds
      BY <1>3, <3>2, <3>3, <3>5 DEF True, Worlds
    <3>7. V \in Covpt[csr_comb[i]].holds
      BY <1>10, <3>6
    <3>8. QED
      BY <1>6, <3>1, <3>2, <3>7
  <2>2. CASE k # p
    <3>1. k \in 1..(at - 1)
      BY <1>3, <1>4, <2>2
    <3>2. LastWrite(code, k)
      BY <1>3, <1>10
    <3>3. i \in hit
      BY <1>2, <1>10, <3>1, <3>2 DEF HitInv
    <3>4. QED
      BY <1>6, <3>3
  <2>3. QED
    BY <2>1, <2>2
<1>11. HitInv'
  <2>1. code' = c /\ at' - 1 = p /\ csr_comb' = csr_comb
    BY <1>2, <1>3, <1>4
  <2>2. \A k : Asked(k)' = Asked(k)
    BY <1>2 DEF Asked, Inst
  <2>3. HitInv' <=> (phase' \in {"run", "done"} =>
          \A k \in 1..(at' - 1) : LastWrite(code', k) /\ Realisable(Asked(k)') =>
            \A i \in DOMAIN csr_comb' :
              (\A V \in Worlds : Asked(k)' \subseteq V => V \in Covpt[csr_comb'[i]].holds) => i \in hit')
    BY DEF HitInv, LastWrite
  <2>4. QED
    BY <1>10, <2>1, <2>2, <2>3
<1>12. QED
  BY <1>9, <1>11

\* So does the start of the test; Halt and the steps before it change nothing.
LEMMA StartHits ==
  ASSUME CsrIInv, WriteTest
  PROVE  WrittenInv' /\ HitInv'
<1>1. InstInv
  BY DEF CsrIInv
<1>2. PICK c : c = Macros
  OBVIOUS
<1>3. phase' = "run" /\ at' = 1 /\ code' = c
  BY <1>2 DEF WriteTest
<1>4. ASSUME 1 <= Len(c), c[1].macro.do = "write"
      PROVE  Sustained(c, 1, csr')
  <2>1. Len(c) \in Nat
    BY <1>1, <1>2, MacrosPlaced
  <2>2. PICK q : q = 1
    OBVIOUS
  <2>3. q \in 1..Len(c) /\ ~(q > 1) /\ c[q].macro.do = "write"
    BY <1>4, <2>1, <2>2
  <2>4. Before(c, q, "write") = {}
    BY <1>1, <1>2, <2>3, FirstWrite
  <2>5. QED
    BY <2>2, <2>4 DEF Sustained
<1>5. WrittenInv'
  <2>1. macro' = c[1].macro
    BY <1>3 DEF macro
  <2>2. WrittenInv' <=> (phase' = "run" /\ at' <= Len(code') /\ macro'.do = "write" => Sustained(code', at', csr'))
    BY DEF WrittenInv, Sustained, Before
  <2>3. QED
    BY <1>3, <1>4, <2>1, <2>2
<1>6. HitInv'
  <2>1. 1..(at' - 1) = {}
    BY <1>3
  <2>2. QED
    BY <2>1 DEF HitInv
<1>7. QED
  BY <1>5, <1>6

LEMMA SameHits ==
  ASSUME WrittenInv, HitInv, UNCHANGED <<csr_comb, code, at, csr, hit, instr_dict>>,
         phase' = phase \/ (phase = "run" /\ phase' = "done")
  PROVE  WrittenInv' /\ HitInv'
<1>1. macro' = macro /\ \A k : Asked(k)' = Asked(k)
  BY DEF macro, Asked, Inst
<1>2. WrittenInv'
  BY <1>1 DEF WrittenInv, Sustained, Before
<1>3. HitInv'
  BY <1>1 DEF HitInv, LastWrite
<1>4. QED
  BY <1>2, <1>3

\* What a coverpoint that is read is found to mean.
Meant == phase = "solve" /\ IsExpression(Covpt[csr_comb[covpt]]) => bool_expr.holds = Covpt[csr_comb[covpt]].holds

CoverInv == SolvedStacks /\ ServedInv /\ WrittenInv /\ HitInv

LEMMA CoverStart ==
  ASSUME Init
  PROVE  CoverInv
<1>1. /\ csr_comb \in CsrCombs /\ covpt = 1 /\ invalid = {} /\ operator_stack = <<>> /\ clause_stack = <<>>
      /\ phase = IF csr_comb = <<>> THEN "write_test" ELSE "scan"
  BY DEF Init, ParseInit
<1>2. phase \notin {"run", "done", "solve"}
  BY <1>1
<1>3. \A S : <<>> \in Seq(S)
  OBVIOUS
<1>4. SolvedStacks
  BY <1>1, <1>3 DEF SolvedStacks
<1>5. csr_comb \in Seq(DOMAIN Covpt)
  BY <1>1, CovptAssumption
<1>6. ServedInv
  <2>1. phase \notin Reading \cup {"solve"} => covpt = Len(csr_comb) + 1
    BY <1>1 DEF Reading
  <2>2. \A i \in DOMAIN csr_comb \ invalid : ~(i < covpt)
    BY <1>1, <1>5
  <2>3. QED
    BY <1>2, <2>1, <2>2 DEF ServedInv
<1>7. WrittenInv /\ HitInv
  BY <1>2 DEF WrittenInv, HitInv
<1>8. QED
  BY <1>4, <1>6, <1>7 DEF CoverInv

LEMMA CoverKeeps ==
  ASSUME CsrIInv, Meant, CoverInv, [Next]_vars
  PROVE  CoverInv'
<1>1. ParseTypeOK /\ InstInv /\ SolvedStacks /\ ServedInv /\ WrittenInv /\ HitInv
  BY DEF CsrIInv, CoverInv
<1>2. CASE Parse /\ UNCHANGED <<genVars, code, filled, at, runVars>>
  <2>1. phase' \notin {"run", "done"}
    BY <1>1, <1>2, ParsePhase
  <2>2. instr_dict' = instr_dict
    BY <1>2 DEF genVars
  <2>3. SolvedStacks' /\ ServedInv'
    BY <1>1, <1>2, <2>2, ParseSolves, ParseServes
  <2>4. QED
    BY <2>1, <2>3 DEF CoverInv, WrittenInv, HitInv
<1>3. CASE AddInstance
  <2>1. phase = "solve" /\ UNCHANGED <<csr_comb, covpt, phase, operator_stack, clause_stack>>
    BY <1>3 DEF AddInstance
  <2>2. SolvedStacks'
    BY <1>1, <2>1, SameSolving
  <2>3. ServedInv'
    BY <1>1, <1>3, AddInstanceServes
  <2>4. QED
    BY <2>1, <2>2, <2>3 DEF CoverInv, WrittenInv, HitInv
<1>4. CASE AllAdded
  <2>1. NextCovpt /\ phase = "solve"
    BY <1>4 DEF AllAdded
  <2>2. phase' \notin {"run", "done"}
    BY <2>1 DEF NextCovpt
  <2>3. SolvedStacks'
    BY <2>1, NextSolving
  <2>4. ServedInv'
    BY <1>1, <1>4, <2>1, AllAddedServes DEF Meant
  <2>5. QED
    BY <2>2, <2>3, <2>4 DEF CoverInv, WrittenInv, HitInv
<1>5. ASSUME phase \notin Reading \cup {"solve"}, phase' \notin Reading \cup {"solve"},
             UNCHANGED <<csr_comb, covpt, invalid, instr_dict>>
      PROVE  SolvedStacks' /\ ServedInv'
  <2>1. ServedInv'
    BY <1>1, <1>5, ServedOn
  <2>2. SolvedStacks'
    BY <1>5 DEF SolvedStacks
  <2>3. QED
    BY <2>1, <2>2
<1>6. CASE WriteTest
  <2>1. /\ phase = "write_test" /\ phase' = "run"
        /\ UNCHANGED <<csr_comb, covpt, invalid, instr_dict>>
    BY <1>6 DEF WriteTest, genVars
  <2>2. SolvedStacks' /\ ServedInv'
    BY <1>5, <2>1 DEF Reading
  <2>3. QED
    BY <1>6, <2>2, StartHits DEF CoverInv
<1>7. CASE WRITE_TO_CSR_FIELD_W_MASK \/ READ_CSR_REG_AND_UPD_SIG \/ RESTORE_CSR_REG
  <2>1. phase = "run" /\ UNCHANGED <<csr_comb, covpt, phase, invalid, instr_dict>>
    BY <1>7 DEF WRITE_TO_CSR_FIELD_W_MASK, READ_CSR_REG_AND_UPD_SIG, RESTORE_CSR_REG, Executing, parseVars, genVars
  <2>2. SolvedStacks' /\ ServedInv'
    BY <1>5, <2>1 DEF Reading
  <2>3. QED
    BY <1>1, <1>7, <2>2, RunHits DEF CoverInv
<1>8. CASE Halt
  <2>1. /\ phase = "run" /\ phase' = "done"
        /\ UNCHANGED <<csr_comb, covpt, invalid, instr_dict, code, at, csr, hit>>
    BY <1>8 DEF Halt, genVars, runVars
  <2>2. SolvedStacks' /\ ServedInv'
    BY <1>5, <2>1 DEF Reading
  <2>3. QED
    BY <1>1, <2>1, <2>2, SameHits DEF CoverInv
<1>9. CASE UNCHANGED vars
  <2>1. UNCHANGED <<csr_comb, covpt, phase, pos, bracket_depth, operator_stack, clause_stack, clause_index,
                    current_clause, invalid, instr_dict, code, at, csr, hit>>
    BY <1>9 DEF vars, parseVars, parserVars, genVars, runVars
  <2>2. WrittenInv' /\ HitInv'
    <3>1. UNCHANGED <<csr_comb, code, at, csr, hit, instr_dict>>
      BY <2>1
    <3>2. phase' = phase \/ (phase = "run" /\ phase' = "done")
      BY <2>1
    <3>3. QED
      BY <1>1, <3>1, <3>2, SameHits
  <2>3. bool_expr' = bool_expr
    BY <2>1 DEF bool_expr
  <2>4. InstancesStay
    BY <2>1 DEF InstancesStay
  <2>5. ServedInv'
    <3>1. \A i \in DOMAIN csr_comb' \ invalid' :
            i < covpt' /\ Positive(i)' /\ IsExpression(Covpt[csr_comb'[i]]) => IsServed(i)'
      BY <1>1, <2>1, <2>4, ServedBefore
    <3>2. QED
      BY <1>1, <2>1, <2>3, <3>1 DEF ServedInv
  <2>6. SolvedStacks'
    <3>1. Positive(covpt)' <=> Positive(covpt)
      BY <2>1 DEF Positive, Lexemes
    <3>2. QED
      BY <1>1, <2>1, <3>1 DEF SolvedStacks
  <2>7. QED
    BY <2>2, <2>5, <2>6 DEF CoverInv
<1>10. QED
  BY <1>2, <1>3, <1>4, <1>6, <1>7, <1>8, <1>9 DEF Next, Stopped

-----------------------------------------------------------------------------
(***************************************************************************)
(* In the end                                                              *)
(***************************************************************************)
\* The sets of clauses that make a coverpoint true, none of them superfluous.
Smallest(holds) == {S \in holds : \A T \in holds : T \subseteq S => T = S}

SmallestCovered ==
  phase = "done" => \A i \in DOMAIN csr_comb \ invalid :
    LET p == Covpt[csr_comb[i]]
    IN  Positive(i) /\ IsExpression(p) /\ (\E S \in Smallest(p.holds) : Realisable(S)) => i \in hit

LEMMA SmallestHit ==
  ASSUME CsrIInv, CoverInv
  PROVE  SmallestCovered
<1> SUFFICES ASSUME phase = "done", NEW i \in DOMAIN csr_comb \ invalid, Positive(i),
                    IsExpression(Covpt[csr_comb[i]]),
                    NEW S \in Smallest(Covpt[csr_comb[i]].holds), Realisable(S)
             PROVE  i \in hit
  BY DEF SmallestCovered
<1>1. PICK H : H = Covpt[csr_comb[i]].holds
  OBVIOUS
<1>2. S \in H /\ \A T \in H : T \subseteq S => T = S
  BY <1>1 DEF Smallest
<1>3. ParseTypeOK /\ InstInv /\ CodeInv /\ DoneInv /\ ServedInv /\ HitInv
  BY DEF CsrIInv, CoverInv
<1>4. csr_comb \in CsrCombs /\ i \in DOMAIN csr_comb
  BY <1>3 DEF ParseTypeOK
<1>5. H \subseteq Worlds /\ i \in 1..Len(csr_comb) /\ Len(csr_comb) \in Nat
  <2>1. csr_comb \in Seq(DOMAIN Covpt)
    BY <1>4, CovptAssumption
  <2>2. i \in 1..Len(csr_comb) /\ Len(csr_comb) \in Nat /\ csr_comb[i] \in DOMAIN Covpt
    BY <1>4, <2>1
  <2>3. QED
    BY <1>1, <2>2, CovptAssumption
<1>6. i < covpt
  <2>1. covpt = Len(csr_comb) + 1
    BY <1>3 DEF ServedInv, Reading
  <2>2. QED
    BY <1>5, <2>1
<1>7. IsServed(i)
  BY <1>3, <1>6 DEF ServedInv
<1>8. {} \notin H /\ \E d \in DOMAIN instr_dict : Serves(instr_dict[d].sol, S, H)
  BY <1>1, <1>2, <1>7 DEF IsServed
<1>9. PICK d \in DOMAIN instr_dict : Serves(instr_dict[d].sol, S, H)
  BY <1>8
<1>10. PICK sol, w : sol = instr_dict[d].sol /\ w = CsrWrites(sol)
  OBVIOUS
<1>11. ToSet(sol) \subseteq S /\ \A V \in Worlds : ToSet(sol) \subseteq V => V \in H
  BY <1>9, <1>10 DEF Serves
<1>12. ToSet(sol) = S /\ ToSet(sol) # {}
  <2>1. ToSet(sol) \in Worlds
    BY <1>2, <1>5, <1>11 DEF Worlds
  <2>2. ToSet(sol) \in H
    BY <1>11, <2>1
  <2>3. QED
    BY <1>2, <1>8, <1>11, <2>2
<1>13. d \in 1..Len(instr_dict)
  BY <1>3 DEF InstInv
<1>14. sol \in Sols
  BY <1>3, <1>10, <1>13, InstanceTypes
<1>15. PICK c : c = code
  OBVIOUS
<1>16. c = Macros /\ at = Len(c) + 1 /\ Len(c) \in Nat
  <2>1. code = Macros /\ at = Len(code) + 1
    BY <1>3 DEF CodeInv, DoneInv
  <2>2. QED
    BY <1>3, <1>15, <2>1, MacrosPlaced
<1>17. PICK b : WritesAt(c, b, w, d)
  BY <1>3, <1>10, <1>13, <1>16, InstanceWrites
<1>18. PICK k, last : last = Len(w) /\ k = b + last
  OBVIOUS
<1>19. last \in Nat /\ last >= 1 /\ w[last] \in Write
  <2>1. Len(w) \in Nat /\ Len(w) >= 1
    BY <1>10, <1>12, <1>14, SomeWrite
  <2>2. \A j \in 1..Len(w) : w[j] \in Write
    BY <1>10, <1>14, WritesAre
  <2>3. QED
    BY <1>18, <2>1, <2>2
<1>20. /\ k \in 1..Len(c) /\ k \in 1..(at - 1) /\ c[k].inst = d /\ c[k].macro = w[last]
       /\ \A l \in 1..Len(c) : c[l].inst = d /\ c[l].macro.do = "write" => l <= k
  <2>1. /\ b \in Nat /\ b + last <= Len(c)
        /\ \A j \in 1..last : c[b + j].inst = d /\ c[b + j].macro = w[j]
        /\ \A l \in 1..Len(c) : c[l].inst = d /\ c[l].macro.do = "write" => l \in (b + 1)..(b + last)
    <3>1. /\ b \in Nat /\ b + Len(w) <= Len(c)
          /\ \A j \in 1..Len(w) : c[b + j].inst = d /\ c[b + j].macro = w[j]
          /\ \A l \in 1..Len(c) : c[l].inst = d /\ c[l].macro.do = "write" => l \in (b + 1)..(b + Len(w))
      BY <1>17 DEF WritesAt
    <3>2. QED
      BY ONLY <1>18, <3>1
  <2>2. k \in 1..Len(c) /\ k \in 1..(at - 1) /\ last \in 1..last
    BY <1>16, <1>18, <1>19, <2>1
  <2>3. c[k].inst = d /\ c[k].macro = w[last]
    BY <1>18, <2>1, <2>2
  <2>4. ASSUME NEW l \in 1..Len(c), c[l].inst = d, c[l].macro.do = "write"
        PROVE  l <= k
    <3>1. l \in (b + 1)..(b + last)
      BY <2>1, <2>4
    <3>2. QED
      BY <1>18, <1>19, <2>1, <3>1
  <2>5. QED
    BY <2>2, <2>3, <2>4
<1>21. LastWrite(code, k)
  <2>1. c[k].macro.do = "write"
    BY <1>19, <1>20, KindOf
  <2>2. QED
    BY <1>15, <1>20, <2>1 DEF LastWrite
<1>22. Asked(k) = S
  BY <1>10, <1>12, <1>15, <1>20 DEF Asked, Inst
<1>23. \A V \in Worlds : Asked(k) \subseteq V => V \in Covpt[csr_comb[i]].holds
  BY <1>1, <1>11, <1>12, <1>22
<1>24. QED
  BY <1>3, <1>4, <1>20, <1>21, <1>22, <1>23 DEF HitInv
=============================================================================
