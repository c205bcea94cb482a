--------------------------- MODULE RunSuiteProofs ---------------------------
(***************************************************************************)
(* Proofs about RunSuite, for suites of any size, any values of LIMIT and  *)
(* any number of runs.                                                     *)
(***************************************************************************)
EXTENDS RunSuite, FiniteSetTheorems, TLAPS

-----------------------------------------------------------------------------
\* The elements of a list.
LEMMA SeqElements ==
  ASSUME NEW S, NEW s \in Seq(S)
  PROVE  \A k \in 1..Len(s) : s[k] \in S
  OBVIOUS

\* The tests a run takes from a suite: its first ones, all of them or LIMIT.
LEMMA TakenIs ==
  ASSUME limit \in Nat, NEW S, NEW s \in Seq(S)
  PROVE  /\ Order!Taken(s) \in Seq(S)
         /\ Len(Order!Taken(s)) = IF limit = 0 \/ limit > Len(s) THEN Len(s) ELSE limit
         /\ \A i \in 1..Len(Order!Taken(s)) : Order!Taken(s)[i] = s[i]
<1>1. CASE limit = 0 \/ limit > Len(s)
  BY <1>1 DEF Order!Taken
<1>2. CASE ~ (limit = 0 \/ limit > Len(s))
  <2>1. Order!Taken(s) = SubSeq(s, 1, limit)
    BY <1>2 DEF Order!Taken
  <2>2. QED
    BY <1>2, <2>1
<1>3. QED
  BY <1>1, <1>2

\* The values of the constants and of the variables that count.
LEMMA Typing ==
  ASSUME TypeOK
  PROVE  /\ limit \in Nat /\ n \in Nat
         /\ Rv32 \in Seq(Tests) /\ Rv64 \in Seq(Tests)
         /\ suite = 1 => Suites[suite] = Rv32
         /\ suite = 2 => Suites[suite] = Rv64
<1>1. limit \in Nat
  <2>1. limit \in Limits \cup {0}
    BY DEF TypeOK
  <2>2. QED
    BY <2>1, LimitAssumption
<1>2. Rv32 \in Seq(Tests) /\ Rv64 \in Seq(Tests)
  BY TestAssumption DEF Tests
<1>3. /\ suite = 1 => Suites[suite] = Rv32
      /\ suite = 2 => Suites[suite] = Rv64
  BY DEF Suites
<1>4. n \in Nat
  <2>1. n \in 0..Len(Suites[suite]) /\ suite \in {1, 2}
    BY DEF TypeOK
  <2>2. Len(Suites[suite]) \in Nat
    BY <2>1, <1>2, <1>3
  <2>3. QED
    BY <2>1, <2>2
<1>5. QED
  BY <1>1, <1>2, <1>3, <1>4

\* All tests that a run takes, in order.
LEMMA DueIs ==
  ASSUME TypeOK
  PROVE  /\ Order!Due \in Seq(Tests)
         /\ Len(Order!Due) = Len(Order!Taken(Rv32)) + Len(Order!Taken(Rv64))
         /\ Len(Order!Taken(Rv32)) \in Nat /\ Len(Order!Taken(Rv64)) \in Nat
         /\ \A i \in 1..Len(Order!Taken(Rv32)) :
              Order!Due[i] = Rv32[i] /\ i \in 1..Len(Rv32)
         /\ \A i \in 1..Len(Order!Taken(Rv64)) :
              Order!Due[Len(Order!Taken(Rv32)) + i] = Rv64[i] /\ i \in 1..Len(Rv64)
<1> DEFINE a == Order!Taken(Rv32)
           b == Order!Taken(Rv64)
<1>1. limit \in Nat /\ Rv32 \in Seq(Tests) /\ Rv64 \in Seq(Tests)
  BY Typing
<1>2. /\ a \in Seq(Tests) /\ Len(a) <= Len(Rv32)
      /\ \A i \in 1..Len(a) : a[i] = Rv32[i]
  BY <1>1, TakenIs
<1>3. /\ b \in Seq(Tests) /\ Len(b) <= Len(Rv64)
      /\ \A i \in 1..Len(b) : b[i] = Rv64[i]
  BY <1>1, TakenIs
<1>4. Order!Due = a \o b
  BY DEF Order!Due
<1> HIDE DEF a, b
<1>5. /\ a \o b \in Seq(Tests) /\ Len(a \o b) = Len(a) + Len(b)
      /\ Len(a) \in Nat /\ Len(b) \in Nat
      /\ \A i \in 1..Len(a) : (a \o b)[i] = a[i]
      /\ \A i \in 1..Len(b) : (a \o b)[Len(a) + i] = b[i]
  BY <1>2, <1>3
<1>6. Len(Rv32) \in Nat /\ Len(Rv64) \in Nat
  BY <1>1
<1>7. /\ \A i \in 1..Len(a) : i \in 1..Len(Rv32)
      /\ \A i \in 1..Len(b) : i \in 1..Len(Rv64)
  BY <1>2, <1>3, <1>5, <1>6
<1>8. QED
  BY <1>2, <1>3, <1>4, <1>5, <1>7 DEF a, b

\* No test is due twice: each suite lists a test once, and the suites differ
\* in the register width.
LEMMA DueOnce ==
  ASSUME TypeOK, NEW i \in 1..Len(Order!Due), NEW j \in 1..Len(Order!Due),
         Order!Due[i] = Order!Due[j]
  PROVE  i = j
<1> DEFINE a == Len(Order!Taken(Rv32))
           b == Len(Order!Taken(Rv64))
<1>1. /\ Len(Order!Due) = a + b /\ a \in Nat /\ b \in Nat
      /\ \A k \in 1..a : Order!Due[k] = Rv32[k] /\ k \in 1..Len(Rv32)
      /\ \A k \in 1..b : Order!Due[a + k] = Rv64[k] /\ k \in 1..Len(Rv64)
  BY DueIs
<1>2. /\ \A k \in 1..Len(Rv32) : Rv32[k].xlen = 32
      /\ \A k \in 1..Len(Rv64) : Rv64[k].xlen = 64
  <2>1. /\ \A k \in 1..Len(Rv32) : Rv32[k] \in [xlen : {32}, page : STRING, name : STRING]
        /\ \A k \in 1..Len(Rv64) : Rv64[k] \in [xlen : {64}, page : STRING, name : STRING]
    BY TestAssumption, SeqElements, Zenon
  <2>2. QED
    BY <2>1
<1> HIDE DEF a, b
<1>3. CASE i \in 1..a /\ j \in 1..a
  BY <1>1, <1>3, TestAssumption
<1>4. CASE i \notin 1..a /\ j \notin 1..a
  <2>1. i - a \in 1..b /\ j - a \in 1..b /\ a + (i - a) = i /\ a + (j - a) = j
    BY <1>1, <1>4
  <2> DEFINE p == i - a
             q == j - a
  <2>2. Order!Due[a + p] = Rv64[p] /\ Order!Due[a + q] = Rv64[q]
        /\ p \in 1..Len(Rv64) /\ q \in 1..Len(Rv64)
    <3>1. p \in 1..b /\ q \in 1..b
      BY <2>1
    <3> HIDE DEF p, q
    <3>2. QED
      BY <3>1, <1>1
  <2>3. Rv64[p] = Rv64[q]
    BY <2>1, <2>2
  <2>4. p = q
    <3> HIDE DEF p, q
    <3>1. QED
      BY <2>2, <2>3, TestAssumption
  <2>5. QED
    BY <2>1, <2>4
<1>5. ASSUME NEW k \in 1..a, NEW l \in 1..Len(Order!Due), l \notin 1..a
      PROVE  Order!Due[k] # Order!Due[l]
  <2> DEFINE q == l - a
  <2>1. q \in 1..b /\ a + q = l
    BY <1>1, <1>5
  <2> HIDE DEF q
  <2>2. Order!Due[l] = Rv64[q] /\ q \in 1..Len(Rv64)
    BY <2>1, <1>1
  <2>3. Order!Due[k] = Rv32[k] /\ k \in 1..Len(Rv32)
    BY <1>1
  <2>4. QED
    BY <2>2, <2>3, <1>2
<1>6. QED
  BY <1>3, <1>4, <1>5

\* A test that is worked on is the one due after the rows written; one whose
\* files are being kept is the one of the last row.
LEMMA TestIsDue ==
  ASSUME TypeOK, OrderInv, pc \in Working \cup Keeping
  PROVE  LET k == Len(rows) + (IF pc \in Working THEN 1 ELSE 0)
         IN  k \in 1..Len(Order!Due) /\ Test = Order!Due[k] /\ Test \in Tests
<1> DEFINE a == Len(Order!Taken(Rv32))
           b == Len(Order!Taken(Rv64))
           k == Len(rows) + (IF pc \in Working THEN 1 ELSE 0)
<1>1. /\ Len(Order!Due) = a + b /\ a \in Nat /\ b \in Nat
      /\ \A i \in 1..a : Order!Due[i] = Rv32[i] /\ i \in 1..Len(Rv32)
      /\ \A i \in 1..b : Order!Due[a + i] = Rv64[i] /\ i \in 1..Len(Rv64)
      /\ Order!Due \in Seq(Tests)
  BY DueIs
<1>2. pc \notin Over /\ pc # "test"
  BY DEF Working, Keeping, Over
<1>3. n \in Nat /\ n > 0 /\ n <= Len(Order!Taken(Suites[suite]))
  BY <1>2, Typing DEF OrderInv
<1>4. Len(rows) = Before + n - (IF pc \in Working THEN 1 ELSE 0) /\ Len(rows) \in Nat
  <2>1. Len(rows) = Before + n - (IF pc \in Working THEN 1 ELSE 0)
    BY <1>2 DEF OrderInv
  <2>2. rows \in Seq([test : Tests, verdict : Verdicts])
    BY DEF TypeOK
  <2>3. QED
    BY <2>1, <2>2
<1>5. (suite = 1 /\ Before = 0) \/ (suite = 2 /\ Before = a)
  BY DEF Before, TypeOK
<1>6. k = Before + n
  BY <1>1, <1>3, <1>4, <1>5
<1>7. CASE suite = 1
  <2>1. Suites[suite] = Rv32 /\ k = n /\ n \in 1..a
    BY <1>1, <1>3, <1>5, <1>6, <1>7, Typing
  <2> HIDE DEF a, b, k
  <2>2. n \in 1..Len(Order!Due)
    BY <1>1, <2>1
  <2>3. Test = Order!Due[n]
    BY <1>1, <2>1 DEF Test
  <2>4. Order!Due[n] \in Tests
    BY <1>1, <2>2
  <2>5. QED
    BY <2>1, <2>2, <2>3, <2>4 DEF k
<1>8. CASE suite = 2
  <2>1. Suites[suite] = Rv64
    BY <1>8, Typing
  <2>2. k = a + n /\ n \in 1..b
    <3>1. n <= b /\ Before = a
      BY <1>3, <1>5, <1>8, <2>1
    <3> HIDE DEF a, b, k
    <3>2. QED
      BY <1>1, <1>3, <1>6, <3>1
  <2> HIDE DEF a, b, k
  <2>3. k \in 1..Len(Order!Due)
    BY <1>1, <2>2
  <2>4. Test = Order!Due[k]
    BY <1>1, <2>1, <2>2 DEF Test
  <2>5. Order!Due[k] \in Tests
    BY <1>1, <2>3
  <2>6. QED
    BY <2>3, <2>4, <2>5 DEF k
<1>9. QED
  BY <1>7, <1>8 DEF TypeOK

\* A suite is left when all the tests taken from it have been begun.
LEMMA LastTestIs ==
  ASSUME TypeOK, n <= Len(Order!Taken(Suites[suite]))
  PROVE  LastTest <=> n = Len(Order!Taken(Suites[suite]))
<1> DEFINE s == Suites[suite]
<1>1. limit \in Nat /\ n \in Nat
  BY Typing
<1>2. s \in Seq(Tests)
  BY Typing DEF TypeOK
<1>3. n \in 0..Len(s)
  BY DEF TypeOK
<1>4. Len(Order!Taken(s)) = IF limit = 0 \/ limit > Len(s) THEN Len(s) ELSE limit
  BY <1>1, <1>2, TakenIs
<1>5. LastTest <=> n = Len(s) \/ (limit > 0 /\ n + 1 > limit)
  BY DEF LastTest, BeyondLimit
<1>6. n <= Len(Order!Taken(s)) /\ Len(s) \in Nat
  BY <1>2
<1>7. QED
  <2> HIDE DEF s
  <2>1. LastTest <=> n = Len(Order!Taken(s))
    BY <1>1, <1>3, <1>4, <1>5, <1>6
  <2>2. QED
    BY <2>1 DEF s

\* The order of the tests is fixed while LIMIT is.
LEMMA SameDue ==
  ASSUME UNCHANGED limit
  PROVE  /\ Order!Due' = Order!Due
         /\ (Order!Taken(Rv32))' = Order!Taken(Rv32)
         /\ UNCHANGED suite =>
              (Order!Taken(Suites[suite]))' = Order!Taken(Suites[suite])
  BY DEF Order!Due, Order!Taken, Suites

\* A command that writes no row and stays with its test keeps the order.
LEMMA OrderKept ==
  ASSUME TypeOK, OrderInv, UNCHANGED <<place, rows>>,
         \/ pc' \in Over
         \/ pc \in Working /\ pc' \in Working
         \/ pc \in Keeping /\ pc' \in Keeping \cup {"test"}
  PROVE  OrderInv'
<1>1. UNCHANGED <<limit, suite, n, rows>>
  BY DEF place
<1>2. /\ Order!Due' = Order!Due
      /\ (Order!Taken(Rv32))' = Order!Taken(Rv32)
      /\ (Order!Taken(Suites[suite]))' = Order!Taken(Suites[suite])
  BY <1>1, SameDue
<1>3. Before' = Before
  BY <1>1, <1>2 DEF Before
<1>4. pc' \notin Over =>
        /\ pc \notin Over /\ pc # "test"
        /\ (pc \in Working <=> pc' \in Working)
  BY DEF Working, Keeping, Over
<1>5. QED
  BY <1>1, <1>2, <1>3, <1>4 DEF OrderInv

\* A file put into a directory, and the others.
LEMMA PutIs ==
  ASSUME NEW d, NEW name, NEW file
  PROVE  /\ DOMAIN Put(d, name, file) = DOMAIN d \cup {name}
         /\ Put(d, name, file)[name] = file
         /\ \A f \in DOMAIN d : f # name => Put(d, name, file)[f] = d[f]
  BY DEF Put

\* Writing a scratch file adds no other one.
LEMMA PutScratch ==
  ASSUME NEW d, DOMAIN d \subseteq Scratch, NEW name \in Scratch, NEW file
  PROVE  DOMAIN Put(d, name, file) \subseteq Scratch
<1>1. DOMAIN Put(d, name, file) = DOMAIN d \cup {name}
  BY DEF Put
<1>2. QED
  BY <1>1

\* Scratch files written for a test belong to it.
LEMMA PutOwn ==
  ASSUME NEW d, NEW name, NEW text, \A f \in DOMAIN d : d[f].of = Test
  PROVE  \A f \in DOMAIN Put(d, name, File(text)) : Put(d, name, File(text))[f].of = Test
<1> DEFINE file == File(text)
<1>1. file.of = Test
  BY DEF File
<1> HIDE DEF file
<1>2. \A f \in DOMAIN Put(d, name, file) : Put(d, name, file)[f].of = Test
  <2>1. /\ DOMAIN Put(d, name, file) = DOMAIN d \cup {name}
        /\ Put(d, name, file)[name] = file
        /\ \A f \in DOMAIN d : f # name => Put(d, name, file)[f] = d[f]
    BY DEF Put
  <2>2. QED
    BY <1>1, <2>1
<1>3. QED
  BY <1>2 DEF file

\* The names under which files are kept tell all tests apart.
LEMMA KeyOwn ==
  ASSUME NEW t \in Tests, NEW u \in Tests, NEW a, NEW b, Key(a, t) = Key(b, u)
  PROVE  t = u
<1>1. /\ \A i \in 1..Len(Rv32) : Rv32[i] \in [xlen : {32}, page : STRING, name : STRING]
      /\ \A i \in 1..Len(Rv64) : Rv64[i] \in [xlen : {64}, page : STRING, name : STRING]
  BY TestAssumption, SeqElements, Zenon
<1>2. t \in [xlen : {32, 64}, page : STRING, name : STRING]
      /\ u \in [xlen : {32, 64}, page : STRING, name : STRING]
  BY <1>1, TestAssumption DEF Tests
<1>3. t.xlen = u.xlen /\ t.page = u.page /\ t.name = u.name
  BY DEF Key
<1>4. QED
  BY <1>2, <1>3

\* What the tools show of the current test concerns no row written before.
LEMMA ShownElsewhere ==
  ASSUME TypeOK, OrderInv, RowsTrue, pc \in Working, UNCHANGED rows,
         NEW v \in Verdicts, shown' = [shown EXCEPT ![Test] = v]
  PROVE  /\ RowsTrue'
         /\ shown'[Test] = v
         /\ shown' \in [Tests -> Verdicts \cup {"nothing"}]
<1>1. /\ Len(rows) + 1 \in 1..Len(Order!Due)
      /\ Test = Order!Due[Len(rows) + 1] /\ Test \in Tests
  BY TestIsDue
<1>2. Len(rows) \in Nat /\ DOMAIN rows = 1..Len(rows)
  <2>1. rows \in Seq([test : Tests, verdict : Verdicts])
    BY DEF TypeOK
  <2>2. QED
    BY <2>1
<1>3. shown \in [Tests -> Verdicts \cup {"nothing"}]
  BY DEF TypeOK
<1>4. ASSUME NEW i \in DOMAIN rows
      PROVE  rows[i].test # Test
  <2> DEFINE k == Len(rows) + 1
  <2>1. i \in 1..Len(Order!Due) /\ i # k /\ k \in 1..Len(Order!Due)
    <3>1. Len(Order!Due) \in Nat
      BY DueIs
    <3>2. QED
      BY <1>1, <1>2, <1>4, <3>1 DEF OrderInv
  <2> HIDE DEF k
  <2>2. Order!Due[i] # Order!Due[k]
    BY <2>1, DueOnce
  <2>3. rows[i].test = Order!Due[i]
    BY DEF OrderInv
  <2>4. QED
    BY <1>1, <2>2, <2>3 DEF k
<1>5. RowsTrue'
  <2>1. \A i \in DOMAIN rows : rows[i].verdict = shown'[rows[i].test]
    BY <1>3, <1>4 DEF RowsTrue
  <2>2. QED
    BY <2>1 DEF RowsTrue
<1>6. QED
  BY <1>1, <1>3, <1>5

-----------------------------------------------------------------------------
THEOREM InitInv == Init => IInv
<1> SUFFICES ASSUME Init PROVE IInv
  OBVIOUS
<1>1. /\ run = 0 /\ pc = "idle" /\ limit = 0 /\ suite = 1 /\ n = 0
      /\ verdict = "" /\ rc = 0 /\ tmp = NoFiles /\ kept = NoFiles
      /\ shown = [t \in Tests |-> "nothing"]
  BY DEF Init
<1>2. /\ Len(rows) = 0 /\ DOMAIN rows = {}
      /\ rows \in Seq([test : Tests, verdict : Verdicts])
  <2>1. rows = <<>>
    BY DEF Init
  <2>2. QED
    BY <2>1
<1>3. TypeOK
  <2>1. n \in 0..Len(Suites[suite])
    <3>1. Len(Rv32) \in Nat
      BY TestAssumption
    <3>2. Suites[suite] = Rv32 /\ n = 0
      BY DEF Init, Suites
    <3>3. QED
      BY <3>1, <3>2
  <2>2. rows \in Seq([test : Tests, verdict : Verdicts])
    BY <1>2
  <2>3. DOMAIN tmp = {}
    BY <1>1 DEF NoFiles
  <2>4. run \in 0..MaxRuns
    <3>1. MaxRuns \in Nat /\ run = 0
      BY LimitAssumption DEF Init
    <3>2. QED
      BY <3>1
  <2>5. pc \in PCs
    BY <1>1 DEF PCs, Over
  <2>6. shown \in [Tests -> Verdicts \cup {"nothing"}]
    BY <1>1
  <2>7. QED
    BY <1>1, <2>1, <2>2, <2>3, <2>4, <2>5, <2>6 DEF TypeOK
<1>4. OrderInv
  <2>1. Len(Order!Due) \in Nat
    <3>1. Order!Due \in Seq(Tests)
      BY <1>3, DueIs
    <3>2. QED
      BY <3>1
  <2>2. pc \in Over
    BY <1>1 DEF Over
  <2>3. Len(rows) <= Len(Order!Due)
    BY <1>2, <2>1
  <2>4. QED
    BY <1>2, <2>2, <2>3 DEF OrderInv
<1>5. FilesInv /\ ShownInv
  BY <1>1 DEF FilesInv, ShownInv, Working, Keeping
<1>6. RowsTrue
  BY <1>2 DEF RowsTrue
<1>7. KeptIsOwn
  BY <1>1 DEF KeptIsOwn, NoFiles
<1>8. QED
  BY <1>3, <1>4, <1>5, <1>6, <1>7 DEF IInv

\* A run starts over with an empty results.tsv.
LEMMA StartInv == IInv /\ Start => IInv'
<1> SUFFICES ASSUME IInv, Start PROVE IInv'
  OBVIOUS
<1>1. TypeOK /\ KeptIsOwn
  BY DEF IInv
<1>2. limit' \in Limits /\ limit' \in Nat /\ run' \in 0..MaxRuns
  <2>1. run \in 0..MaxRuns
    BY <1>1 DEF TypeOK
  <2>2. run' = run + 1 /\ run < MaxRuns /\ limit' \in Limits
    BY DEF Start
  <2>3. MaxRuns \in Nat /\ Limits \subseteq Nat
    BY LimitAssumption
  <2>4. QED
    BY <2>1, <2>2, <2>3
<1>3. rows' = <<>> /\ n' = 0 /\ suite' = 1 /\ pc' = "test"
  BY DEF Start
<1>4. Len(rows') = 0 /\ DOMAIN rows' = {}
  BY <1>3
<1>5. TypeOK'
  <2>1. n' \in 0..Len(Suites[suite]')
    BY <1>3, TestAssumption DEF Suites
  <2>2. rows' \in Seq([test : Tests, verdict : Verdicts])
    BY <1>3
  <2>3. shown' \in [Tests -> Verdicts \cup {"nothing"}]
    BY DEF Start
  <2>4. QED
    BY <1>1, <1>2, <1>3, <2>1, <2>2, <2>3 DEF TypeOK, Start, PCs
<1>6. OrderInv'
  <2>1. ASSUME NEW S, NEW s \in Seq(S)
        PROVE  (Order!Taken(s))' \in Seq(S) /\ Len((Order!Taken(s))') \in Nat
    <3>1. CASE limit' = 0 \/ limit' > Len(s)
      <4>1. (Order!Taken(s))' = s
        BY <3>1 DEF Order!Taken
      <4>2. QED
        BY <4>1
    <3>2. CASE ~ (limit' = 0 \/ limit' > Len(s))
      <4>1. (Order!Taken(s))' = SubSeq(s, 1, limit')
        BY <3>2 DEF Order!Taken
      <4>2. limit' \in Nat /\ Len(s) \in Nat /\ limit' <= Len(s)
        BY <1>2, <3>2
      <4> DEFINE k == limit'
      <4> HIDE DEF k
      <4>3. k \in Nat /\ k <= Len(s)
        BY <4>2 DEF k
      <4>4. SubSeq(s, 1, k) \in Seq(S) /\ Len(SubSeq(s, 1, k)) = k
        BY <4>3
      <4>5. QED
        BY <4>1, <4>3, <4>4 DEF k
    <3>3. QED
      BY <3>1, <3>2
  <2>2. Rv32 \in Seq(Tests) /\ Rv64 \in Seq(Tests)
    BY <1>1, Typing
  <2>3. Len((Order!Taken(Rv32))') \in Nat /\ Order!Due' \in Seq(Tests)
    BY <2>1, <2>2 DEF Order!Due
  <2>4. Len(Order!Due') \in Nat
    BY <2>3
  <2>5. (Order!Taken(Suites[suite]))' = (Order!Taken(Rv32))'
    BY <1>3 DEF Order!Taken, Suites
  <2>6. Before' = 0 /\ pc' \notin Working
    BY <1>3 DEF Before, Working
  <2>7. /\ Len(rows') <= Len(Order!Due')
        /\ n' <= Len((Order!Taken(Suites[suite]))')
        /\ Len(rows') = Before' + n' - 0
    BY <1>3, <1>4, <2>3, <2>4, <2>5, <2>6
  <2>8. pc' = "test"
    BY <1>3
  <2>9. QED
    BY <1>4, <2>6, <2>7, <2>8 DEF OrderInv
<1>7. FilesInv' /\ ShownInv'
  BY <1>3 DEF FilesInv, ShownInv, Working, Keeping
<1>8. RowsTrue'
  BY <1>4 DEF RowsTrue
<1>9. KeptIsOwn'
  BY <1>1 DEF KeptIsOwn, Start
<1>10. QED
  BY <1>5, <1>6, <1>7, <1>8, <1>9 DEF IInv

\* The next test begins with an empty scratch directory.
LEMMA NextTestInv == IInv /\ NextTest => IInv'
<1> SUFFICES ASSUME IInv, NextTest PROVE IInv'
  OBVIOUS
<1>1. TypeOK /\ OrderInv /\ RowsTrue /\ KeptIsOwn
  BY DEF IInv
<1>2. /\ pc = "test" /\ ~ LastTest /\ n' = n + 1 /\ pc' = "gcc" /\ tmp' = NoFiles
      /\ UNCHANGED <<run, limit, suite, verdict, rc, rows, kept, shown>>
  BY DEF NextTest
<1>3. n \in Nat /\ Suites[suite]' = Suites[suite]
  BY <1>1, <1>2, Typing DEF Suites
<1>4. n <= Len(Order!Taken(Suites[suite])) /\ Len(rows) = Before + n
  <2>1. pc \notin Over /\ pc \notin Working
    BY <1>2 DEF Over, Working
  <2>2. /\ n <= Len(Order!Taken(Suites[suite]))
        /\ Len(rows) = Before + n - 0
    BY <1>1, <2>1 DEF OrderInv
  <2>3. Before \in Nat
    <3>1. Len(Order!Taken(Rv32)) \in Nat
      BY <1>1, DueIs
    <3>2. QED
      BY <3>1 DEF Before
  <2>4. QED
    BY <1>3, <2>2, <2>3
<1>5. n < Len(Order!Taken(Suites[suite]))
      /\ Len(Order!Taken(Suites[suite])) <= Len(Suites[suite])
      /\ Len(Suites[suite]) \in Nat
  <2> DEFINE s == Suites[suite]
  <2>1. n # Len(Order!Taken(s))
    BY <1>1, <1>2, <1>4, LastTestIs
  <2>2. s \in Seq(Tests) /\ limit \in Nat
    BY <1>1, Typing DEF TypeOK
  <2>3. /\ Order!Taken(s) \in Seq(Tests)
        /\ Len(Order!Taken(s)) = IF limit = 0 \/ limit > Len(s) THEN Len(s) ELSE limit
    BY <2>2, TakenIs
  <2> HIDE DEF s
  <2>4. Len(Order!Taken(s)) \in Nat /\ Len(s) \in Nat
    BY <2>2, <2>3
  <2>5. n <= Len(Order!Taken(s))
    BY <1>4 DEF s
  <2>6. QED
    BY <1>3, <2>1, <2>2, <2>3, <2>4, <2>5 DEF s
<1>6. TypeOK'
  <2>1. n' \in 0..Len(Suites[suite]')
    <3>1. Len(Suites[suite]) \in Nat /\ n + 1 <= Len(Suites[suite])
      <4>1. n \in 0..Len(Suites[suite]) /\ n # Len(Suites[suite])
        BY <1>1, <1>2 DEF TypeOK, LastTest
      <4>2. QED
        BY <1>3, <1>5, <4>1
    <3>2. QED
      BY <1>2, <1>3, <3>1
  <2>2. pc' \in PCs /\ DOMAIN tmp' = {}
    BY <1>2 DEF PCs, NoFiles
  <2>3. QED
    BY <1>1, <1>2, <2>1, <2>2 DEF TypeOK
<1>7. OrderInv'
  <2>1. /\ Order!Due' = Order!Due /\ Before' = Before
        /\ (Order!Taken(Suites[suite]))' = Order!Taken(Suites[suite])
    BY <1>2, SameDue DEF Before
  <2>2. Before \in Nat /\ Len(Order!Taken(Suites[suite])) \in Nat
    <3>1. Len(Order!Taken(Rv32)) \in Nat /\ Len(Order!Taken(Rv64)) \in Nat
      BY <1>1, DueIs
    <3>2. Suites[suite] = Rv32 \/ Suites[suite] = Rv64
      BY <1>1, Typing DEF TypeOK
    <3>3. QED
      BY <3>1, <3>2 DEF Before
  <2>3. n' <= Len(Order!Taken(Suites[suite])) /\ n' > 0 /\ Len(rows') = Before + n' - 1
    BY <1>2, <1>3, <1>4, <1>5, <2>2
  <2>4. pc' \in Working
    BY <1>2 DEF Working
  <2>5. QED
    BY <1>1, <1>2, <2>1, <2>3, <2>4 DEF OrderInv
<1>8. FilesInv' /\ ShownInv'
  BY <1>2 DEF FilesInv, ShownInv, NoFiles
<1>9. RowsTrue' /\ KeptIsOwn'
  BY <1>1, <1>2 DEF RowsTrue, KeptIsOwn
<1>10. QED
  BY <1>6, <1>7, <1>8, <1>9 DEF IInv

\* A suite ends with its last test or at the limit.
LEMMA NextSuiteInv == IInv /\ NextSuite => IInv'
<1> SUFFICES ASSUME IInv, NextSuite PROVE IInv'
  OBVIOUS
<1>1. TypeOK /\ OrderInv /\ RowsTrue /\ KeptIsOwn
  BY DEF IInv
<1>2. /\ pc = "test" /\ LastTest
      /\ UNCHANGED <<run, limit, verdict, rc, rows, tmp, kept, shown>>
  BY DEF NextSuite
<1>3. n \in Nat /\ Rv64 \in Seq(Tests)
  BY <1>1, Typing
<1>4. \/ suite = 1 /\ suite' = 2 /\ n' = 0 /\ pc' = "test"
      \/ suite = 2 /\ pc' = "ended" /\ UNCHANGED <<suite, n>>
  BY <1>1, <1>2 DEF NextSuite, TypeOK
<1>5. Order!Due' = Order!Due /\ (Order!Taken(Rv32))' = Order!Taken(Rv32)
  BY <1>2, SameDue
<1>6. TypeOK'
  <2>1. n' \in 0..Len(Suites[suite]')
    <3>1. CASE suite' = 2 /\ n' = 0
      <4>1. Suites[suite]' = Rv64 /\ Len(Rv64) \in Nat
        BY <1>3, <3>1 DEF Suites
      <4>2. QED
        BY <3>1, <4>1
    <3>2. CASE UNCHANGED <<suite, n>>
      BY <1>1, <3>2 DEF TypeOK, Suites
    <3>3. QED
      BY <1>4, <3>1, <3>2
  <2>2. pc' \in PCs /\ suite' \in {1, 2}
    BY <1>4 DEF PCs, Over
  <2>3. QED
    BY <1>1, <1>2, <2>1, <2>2 DEF TypeOK
<1>7. OrderInv'
  <2>1. CASE suite = 1
    <3>1. Before = 0 /\ Before' = Len(Order!Taken(Rv32)) /\ n' = 0 /\ pc' = "test"
      BY <1>4, <1>5, <2>1 DEF Before
    <3>2. Suites[suite] = Rv32 /\ pc \notin Over /\ pc \notin Working
      BY <1>2, <2>1 DEF Suites, Over, Working
    <3>3. n = Len(Order!Taken(Rv32))
      BY <1>1, <1>2, <3>2, LastTestIs DEF OrderInv
    <3>4. Len(rows) = Before + n - 0
      BY <1>1, <3>2 DEF OrderInv
    <3>5. Len(rows') = Before' + n' - 0
      BY <1>2, <1>3, <3>1, <3>3, <3>4
    <3>6. (Order!Taken(Suites[suite]))' = (Order!Taken(Rv64))'
      BY <1>4, <2>1 DEF Suites, Order!Taken
    <3>7. (Order!Taken(Rv64))' = Order!Taken(Rv64)
      BY <1>2 DEF Order!Taken
    <3>8. n' <= Len((Order!Taken(Suites[suite]))')
      <4>1. Len(Order!Taken(Rv64)) \in Nat
        BY <1>1, DueIs
      <4>2. QED
        BY <3>1, <3>6, <3>7, <4>1
    <3>9. pc' \notin Working
      BY <3>1 DEF Working
    <3>10. QED
      BY <1>1, <1>2, <1>5, <3>1, <3>5, <3>8, <3>9 DEF OrderInv
  <2>2. CASE suite = 2
    <3>1. pc' \in Over
      BY <1>4, <2>2 DEF Over
    <3>2. QED
      BY <1>1, <1>2, <1>5, <3>1 DEF OrderInv
  <2>3. QED
    BY <1>4, <2>1, <2>2
<1>8. FilesInv' /\ ShownInv'
  BY <1>4 DEF FilesInv, ShownInv, Working, Keeping
<1>9. RowsTrue' /\ KeptIsOwn'
  BY <1>1, <1>2 DEF RowsTrue, KeptIsOwn
<1>10. QED
  BY <1>6, <1>7, <1>8, <1>9 DEF IInv

\* A tool that succeeds leaves its product in the scratch directory.
LEMMA ToolOkInv ==
  ASSUME IInv, NEW tool \in Working, NEW product \in {"pp", "o", "elf"},
         NEW next \in {"as", "ld", "sim"}, ToolOk(tool, product, next)
  PROVE  IInv'
<1>1. TypeOK /\ OrderInv /\ FilesInv /\ RowsTrue /\ KeptIsOwn
  BY DEF IInv
<1>2. PICK warning : tmp' = Put(Put(tmp, "err", File(warning)), product, File(product))
  BY DEF ToolOk
<1>3. pc = tool /\ pc' = next /\ UNCHANGED <<place, verdict, rc, rows, kept, shown>>
  BY DEF ToolOk
<1>4. UNCHANGED <<run, limit, suite, n>> /\ Test' = Test /\ Suites[suite]' = Suites[suite]
  BY <1>3 DEF place, Test, Suites
<1>5. TypeOK'
  <2>1. DOMAIN tmp' \subseteq Scratch
    <3>1. DOMAIN tmp \subseteq Scratch /\ "err" \in Scratch /\ product \in Scratch
      BY <1>1 DEF TypeOK, Scratch
    <3>2. DOMAIN Put(tmp, "err", File(warning)) \subseteq Scratch
      BY <3>1, PutScratch
    <3>3. QED
      BY <1>2, <3>1, <3>2, PutScratch
  <2>2. pc' \in PCs
    BY <1>3 DEF PCs
  <2>3. QED
    BY <1>1, <1>3, <1>4, <2>1, <2>2 DEF TypeOK
<1>6. OrderInv'
  <2>1. pc \in Working /\ pc' \in Working
    BY <1>3 DEF Working
  <2>2. UNCHANGED <<place, rows>>
    BY <1>3
  <2>3. QED
    BY <1>1, <2>1, <2>2, OrderKept
<1>7. FilesInv'
  <2>1. \A f \in DOMAIN tmp : tmp[f].of = Test
    BY <1>1, <1>3 DEF FilesInv
  <2> DEFINE d == Put(tmp, "err", File(warning))
  <2>2. \A f \in DOMAIN d : d[f].of = Test
    BY <2>1, PutOwn
  <2> HIDE DEF d
  <2>3. \A f \in DOMAIN Put(d, product, File(product)) :
          Put(d, product, File(product))[f].of = Test
    BY <2>2, PutOwn
  <2>4. QED
    BY <1>2, <1>4, <2>3 DEF FilesInv, d
<1>8. ShownInv'
  BY <1>3 DEF ShownInv
<1>9. RowsTrue' /\ KeptIsOwn'
  BY <1>1, <1>3 DEF RowsTrue, KeptIsOwn
<1>10. QED
  BY <1>5, <1>6, <1>7, <1>8, <1>9 DEF IInv

\* A tool that fails decides the verdict.
LEMMA ToolFailsInv ==
  ASSUME IInv, NEW tool \in Working, NEW v \in Verdicts, ToolFails(tool, v)
  PROVE  IInv'
<1>1. TypeOK /\ OrderInv /\ FilesInv /\ RowsTrue /\ KeptIsOwn
  BY DEF IInv
<1>2. /\ pc = tool /\ pc' = "row" /\ verdict' = v
      /\ tmp' = Put(tmp, "err", File("errors"))
      /\ shown' = [shown EXCEPT ![Test] = v]
      /\ UNCHANGED <<place, rc, rows, kept>>
  BY DEF ToolFails
<1>3. UNCHANGED <<run, limit, suite, n>> /\ Test' = Test /\ Suites[suite]' = Suites[suite]
  BY <1>2 DEF place, Test, Suites
<1>4. RowsTrue' /\ shown'[Test] = v /\ shown' \in [Tests -> Verdicts \cup {"nothing"}]
  BY <1>1, <1>2, ShownElsewhere
<1>5. TypeOK'
  <2>1. DOMAIN tmp' \subseteq Scratch
    <3>1. DOMAIN tmp \subseteq Scratch /\ "err" \in Scratch
      BY <1>1 DEF TypeOK, Scratch
    <3>2. QED
      BY <1>2, <3>1, PutScratch
  <2>2. pc' \in PCs
    BY <1>2 DEF PCs
  <2>3. QED
    BY <1>1, <1>2, <1>3, <1>4, <2>1, <2>2 DEF TypeOK
<1>6. OrderInv'
  <2>1. pc \in Working /\ pc' \in Working
    BY <1>2 DEF Working
  <2>2. UNCHANGED <<place, rows>>
    BY <1>2
  <2>3. QED
    BY <1>1, <2>1, <2>2, OrderKept
<1>7. FilesInv'
  <2>1. \A f \in DOMAIN tmp : tmp[f].of = Test
    BY <1>1, <1>2 DEF FilesInv
  <2>2. \A f \in DOMAIN Put(tmp, "err", File("errors")) :
          Put(tmp, "err", File("errors"))[f].of = Test
    BY <2>1, PutOwn
  <2>3. QED
    BY <1>2, <1>3, <2>2 DEF FilesInv
<1>8. ShownInv'
  BY <1>2, <1>3, <1>4 DEF ShownInv
<1>9. KeptIsOwn'
  BY <1>1, <1>2 DEF KeptIsOwn
<1>10. QED
  BY <1>4, <1>5, <1>6, <1>7, <1>8, <1>9 DEF IInv

\* The simulator ends, by itself or by the timeout.
LEMMA SimEndInv ==
  ASSUME IInv, pc \in {"sim", "hung"}, NEW log, NEW code \in {0, 1, Killed},
         NEW signature \in BOOLEAN, SimEnd(log, code, signature),
         shown' = [shown EXCEPT ![Test] = VerdictOf(log, code)]
  PROVE  IInv'
<1>1. TypeOK /\ OrderInv /\ FilesInv /\ RowsTrue /\ KeptIsOwn
  BY DEF IInv
<1> DEFINE v == VerdictOf(log, code)
           d == Put(tmp, "log", File(log))
<1>2. /\ rc' = code /\ pc' = "judge"
      /\ tmp' = IF signature THEN Put(d, "sig", File("sig")) ELSE d
      /\ UNCHANGED <<place, verdict, rows, kept>>
  BY DEF SimEnd
<1>3. UNCHANGED <<run, limit, suite, n>> /\ Test' = Test /\ Suites[suite]' = Suites[suite]
  BY <1>2 DEF place, Test, Suites
<1>4. pc \in Working /\ pc' \in Working /\ pc' \in PCs
  BY <1>2 DEF Working, PCs
<1>5. v \in Verdicts
  BY DEF VerdictOf, Verdicts
<1>6. RowsTrue' /\ shown'[Test] = v /\ shown' \in [Tests -> Verdicts \cup {"nothing"}]
  <2> HIDE DEF v
  <2>1. shown' = [shown EXCEPT ![Test] = v]
    BY DEF v
  <2>2. QED
    BY <1>1, <1>2, <1>4, <1>5, <2>1, ShownElsewhere
<1>7. /\ DOMAIN d \subseteq Scratch /\ DOMAIN tmp' \subseteq Scratch
      /\ "log" \in DOMAIN tmp' /\ tmp'["log"] = File(log)
  <2>1. DOMAIN tmp \subseteq Scratch /\ "log" \in Scratch /\ "sig" \in Scratch
    BY <1>1 DEF TypeOK, Scratch
  <2>2. DOMAIN d \subseteq Scratch
    BY <2>1, PutScratch
  <2>3. "log" \in DOMAIN d /\ d["log"] = File(log)
    BY DEF Put
  <2> HIDE DEF d
  <2>4. DOMAIN Put(d, "sig", File("sig")) \subseteq Scratch
    BY <2>1, <2>2, PutScratch
  <2>5. /\ "log" \in DOMAIN Put(d, "sig", File("sig"))
        /\ Put(d, "sig", File("sig"))["log"] = d["log"]
    BY <2>3 DEF Put
  <2>6. QED
    BY <1>2, <2>2, <2>3, <2>4, <2>5
<1>8. TypeOK'
  <2> HIDE DEF d
  <2>1. QED
    BY <1>1, <1>2, <1>3, <1>4, <1>6, <1>7 DEF TypeOK
<1>9. OrderInv'
  <2>1. UNCHANGED <<place, rows>>
    BY <1>2
  <2>2. QED
    BY <1>1, <1>4, <2>1, OrderKept
<1>10. FilesInv'
  <2>1. \A f \in DOMAIN tmp : tmp[f].of = Test
    BY <1>1, <1>4 DEF FilesInv
  <2>2. \A f \in DOMAIN d : d[f].of = Test
    BY <2>1, PutOwn
  <2> HIDE DEF d
  <2>3. \A f \in DOMAIN Put(d, "sig", File("sig")) : Put(d, "sig", File("sig"))[f].of = Test
    BY <2>2, PutOwn
  <2>4. QED
    BY <1>2, <1>3, <2>2, <2>3 DEF FilesInv
<1>11. ShownInv'
  <2>1. tmp'["log"].text = log
    BY <1>7 DEF File
  <2>2. pc' # "row" /\ "log" \in DOMAIN tmp'
    BY <1>2, <1>7
  <2>3. VerdictOf(tmp["log"].text, rc)' = shown'[Test']
    BY <1>2, <1>3, <1>6, <2>1 DEF VerdictOf
  <2>4. QED
    BY <2>2, <2>3 DEF ShownInv
<1>12. KeptIsOwn'
  BY <1>1, <1>2 DEF KeptIsOwn
<1>13. QED
  BY <1>6, <1>8, <1>9, <1>10, <1>11, <1>12 DEF IInv

\* The verdict is what the simulator has shown.
LEMMA JudgeInv == IInv /\ Judge => IInv'
<1> SUFFICES ASSUME IInv, Judge PROVE IInv'
  OBVIOUS
<1>1. TypeOK /\ OrderInv /\ FilesInv /\ ShownInv /\ RowsTrue /\ KeptIsOwn
  BY DEF IInv
<1>2. /\ pc = "judge" /\ pc' = "row" /\ verdict' = VerdictOf(tmp["log"].text, rc)
      /\ UNCHANGED <<place, rc, rows, tmp, kept, shown>>
  BY DEF Judge
<1>3. UNCHANGED <<run, limit, suite, n>> /\ Test' = Test /\ Suites[suite]' = Suites[suite]
  BY <1>2 DEF place, Test, Suites
<1>4. verdict' \in Verdicts
  BY <1>2 DEF VerdictOf, Verdicts
<1>5. pc \in Working /\ pc' \in Working /\ pc' \in PCs
  BY <1>2 DEF Working, PCs
<1>6. TypeOK'
  BY <1>1, <1>2, <1>3, <1>4, <1>5 DEF TypeOK
<1>7. OrderInv'
  <2>1. UNCHANGED <<place, rows>>
    BY <1>2
  <2>2. QED
    BY <1>1, <1>5, <2>1, OrderKept
<1>8. FilesInv'
  BY <1>1, <1>2, <1>3, <1>5 DEF FilesInv
<1>9. ShownInv'
  BY <1>1, <1>2, <1>3 DEF ShownInv
<1>10. RowsTrue' /\ KeptIsOwn'
  BY <1>1, <1>2 DEF RowsTrue, KeptIsOwn
<1>11. QED
  BY <1>6, <1>7, <1>8, <1>9, <1>10 DEF IInv

\* A row is the next one due.
LEMMA AppendRowIs ==
  ASSUME IInv, AppendRow
  PROVE  /\ Len(rows) \in Nat /\ Len(rows) + 1 <= Len(Order!Due)
         /\ Test = Order!Due[Len(rows) + 1] /\ Test \in Tests
         /\ verdict \in Verdicts /\ verdict = shown[Test]
         /\ rows' \in Seq([test : Tests, verdict : Verdicts])
         /\ Len(rows') = Len(rows) + 1
         /\ \A i \in 1..Len(rows) : rows'[i] = rows[i]
         /\ rows'[Len(rows) + 1] = [test |-> Test, verdict |-> verdict]
         /\ DOMAIN rows = 1..Len(rows) /\ DOMAIN rows' = 1..(Len(rows) + 1)
<1>1. TypeOK /\ OrderInv /\ ShownInv
  BY DEF IInv
<1>2. pc = "row" /\ rows' = Append(rows, [test |-> Test, verdict |-> verdict])
  BY DEF AppendRow
<1>3. pc \in Working
  BY <1>2 DEF Working
<1>4. /\ Len(rows) + 1 \in 1..Len(Order!Due)
      /\ Test = Order!Due[Len(rows) + 1] /\ Test \in Tests
  BY <1>1, <1>3, TestIsDue
<1>5. verdict = shown[Test] /\ verdict \in Verdicts
  <2>1. verdict = shown[Test]
    BY <1>1, <1>2 DEF ShownInv
  <2>2. verdict \in Verdicts \cup {""} /\ shown \in [Tests -> Verdicts \cup {"nothing"}]
    BY <1>1 DEF TypeOK
  <2>3. QED
    BY <1>4, <2>1, <2>2 DEF Verdicts
<1> DEFINE R == [test : Tests, verdict : Verdicts]
           r == [test |-> Test, verdict |-> verdict]
<1>6. rows \in Seq(R) /\ r \in R
  BY <1>1, <1>4, <1>5 DEF TypeOK
<1>7. rows' = Append(rows, r)
  BY <1>2
<1>8. Len(Order!Due) \in Nat
  <2>1. Order!Due \in Seq(Tests)
    BY <1>1, DueIs
  <2>2. QED
    BY <2>1
<1> HIDE DEF R, r
<1>9. /\ Len(rows) \in Nat /\ rows' \in Seq(R) /\ Len(rows') = Len(rows) + 1
      /\ \A i \in 1..Len(rows) : rows'[i] = rows[i]
      /\ rows'[Len(rows) + 1] = r
      /\ DOMAIN rows = 1..Len(rows) /\ DOMAIN rows' = 1..(Len(rows) + 1)
  BY <1>6, <1>7
<1>10. Len(rows) + 1 <= Len(Order!Due)
  BY <1>4, <1>8, <1>9
<1>11. QED
  BY <1>4, <1>5, <1>9, <1>10 DEF R, r

LEMMA AppendRowInv == IInv /\ AppendRow => IInv'
<1> SUFFICES ASSUME IInv, AppendRow PROVE IInv'
  OBVIOUS
<1>1. TypeOK /\ OrderInv /\ FilesInv /\ RowsTrue /\ KeptIsOwn
  BY DEF IInv
<1>2. /\ pc = "row" /\ UNCHANGED <<place, verdict, rc, tmp, kept, shown>>
      /\ pc' = IF verdict = "PASS" THEN "keep_sig" ELSE "keep_err"
  BY DEF AppendRow
<1>3. UNCHANGED <<run, limit, suite, n>> /\ Test' = Test /\ Suites[suite]' = Suites[suite]
  BY <1>2 DEF place, Test, Suites
<1>4. pc \in Working /\ pc \notin Over /\ pc' \in Keeping /\ pc' \notin Working
      /\ pc' \in PCs /\ pc' # "judge" /\ pc' # "row"
  BY <1>2 DEF Working, Keeping, Over, PCs
<1> DEFINE m == Len(rows) + 1
<1>5. /\ Len(rows) \in Nat /\ m <= Len(Order!Due)
      /\ Test = Order!Due[m]
      /\ verdict = shown[Test]
      /\ rows' \in Seq([test : Tests, verdict : Verdicts])
      /\ Len(rows') = m
      /\ \A i \in 1..Len(rows) : rows'[i] = rows[i]
      /\ rows'[m] = [test |-> Test, verdict |-> verdict]
      /\ DOMAIN rows = 1..Len(rows) /\ DOMAIN rows' = 1..m
  BY AppendRowIs
<1>6. \A i \in DOMAIN rows' : i = m \/ (i \in DOMAIN rows /\ rows'[i] = rows[i])
  BY <1>5
<1>7. TypeOK'
  BY <1>1, <1>2, <1>3, <1>4, <1>5 DEF TypeOK
<1>8. OrderInv'
  <2>1. /\ Order!Due' = Order!Due /\ Before' = Before
        /\ (Order!Taken(Suites[suite]))' = Order!Taken(Suites[suite])
    BY <1>3, SameDue DEF Before
  <2>2. /\ n <= Len(Order!Taken(Suites[suite])) /\ n > 0
        /\ Len(rows) = Before + n - 1
    BY <1>1, <1>2, <1>4 DEF OrderInv
  <2>3. Before \in Nat /\ n \in Nat
    <3>1. Len(Order!Taken(Rv32)) \in Nat
      BY <1>1, DueIs
    <3>2. QED
      BY <1>1, <3>1, Typing DEF Before
  <2>4. Len(rows') = Before + n - 0
    BY <1>5, <2>2, <2>3
  <2>5. \A i \in DOMAIN rows' : rows'[i].test = Order!Due[i]
    <3> HIDE DEF m
    <3>1. rows'[m].test = Order!Due[m]
      BY <1>5
    <3>2. \A i \in DOMAIN rows : rows[i].test = Order!Due[i]
      BY <1>1 DEF OrderInv
    <3>3. QED
      BY <1>6, <3>1, <3>2
  <2>6. Len(rows') <= Len(Order!Due')
    BY <1>5, <2>1
  <2>7. QED
    BY <1>3, <1>4, <2>1, <2>2, <2>4, <2>5, <2>6 DEF OrderInv
<1>9. FilesInv'
  BY <1>1, <1>2, <1>3, <1>4 DEF FilesInv
<1>10. ShownInv'
  BY <1>4 DEF ShownInv
<1>11. RowsTrue'
  <2> HIDE DEF m
  <2>1. rows'[m].verdict = shown[rows'[m].test]
    BY <1>5
  <2>2. \A i \in DOMAIN rows : rows[i].verdict = shown[rows[i].test]
    BY <1>1 DEF RowsTrue
  <2>3. \A i \in DOMAIN rows' : rows'[i].verdict = shown[rows'[i].test]
    BY <1>6, <2>1, <2>2
  <2>4. QED
    BY <1>2, <2>3 DEF RowsTrue
<1>12. KeptIsOwn'
  BY <1>1, <1>2 DEF KeptIsOwn
<1>13. QED
  BY <1>7, <1>8, <1>9, <1>10, <1>11, <1>12 DEF IInv

\* A file is kept under the name of the test it belongs to.
LEMMA KeepInv ==
  ASSUME IInv, pc \in Keeping, NEW name, NEW kind,
         NEW next \in Keeping \cup {"test"}, Keep(name, kind, next)
  PROVE  IInv'
<1>1. TypeOK /\ OrderInv /\ FilesInv /\ RowsTrue /\ KeptIsOwn
  BY DEF IInv
<1>2. /\ pc' = next /\ UNCHANGED <<place, verdict, rc, rows, tmp, shown>>
      /\ \/ kept' = kept
         \/ name \in DOMAIN tmp /\ kept' = Put(kept, Key(kind, Test), tmp[name])
  BY DEF Keep
<1>3. UNCHANGED <<run, limit, suite, n>> /\ Test' = Test /\ Suites[suite]' = Suites[suite]
  BY <1>2 DEF place, Test, Suites
<1>4. pc' \in PCs /\ pc' \in Keeping \cup {"test"} /\ pc' # "judge" /\ pc' # "row"
  BY <1>2 DEF PCs, Keeping
<1>5. TypeOK'
  BY <1>1, <1>2, <1>3, <1>4 DEF TypeOK
<1>6. OrderInv'
  <2>1. UNCHANGED <<place, rows>>
    BY <1>2
  <2>2. QED
    BY <1>1, <1>4, <2>1, OrderKept
<1>7. FilesInv'
  BY <1>1, <1>2, <1>3 DEF FilesInv
<1>8. ShownInv'
  BY <1>4 DEF ShownInv
<1>9. RowsTrue'
  BY <1>1, <1>2 DEF RowsTrue
<1>10. KeptIsOwn'
  <2>1. CASE kept' = kept
    BY <1>1, <2>1 DEF KeptIsOwn
  <2>2. CASE name \in DOMAIN tmp /\ kept' = Put(kept, Key(kind, Test), tmp[name])
    <3>1. tmp[name].of = Test /\ Test \in Tests
      BY <1>1, <2>2, TestIsDue DEF FilesInv
    <3> DEFINE K == Key(kind, Test)
               F == tmp[name]
    <3>2. /\ DOMAIN Put(kept, K, F) = DOMAIN kept \cup {K}
          /\ Put(kept, K, F)[K] = F
          /\ \A k \in DOMAIN kept : k # K => Put(kept, K, F)[k] = kept[k]
      BY DEF Put
    <3>3. ASSUME NEW t \in Tests, NEW a \in {"fail_err", "fail_log", "sig"},
                 Key(a, t) \in DOMAIN kept'
          PROVE  kept'[Key(a, t)].of = t
      <4>1. CASE Key(a, t) = K
        <5>1. t = Test
          BY <3>1, <4>1, KeyOwn
        <5>2. kept'[Key(a, t)] = F
          BY <2>2, <3>2, <4>1
        <5>3. QED
          BY <3>1, <5>1, <5>2
      <4>2. CASE Key(a, t) # K
        <5> DEFINE k == Key(a, t)
        <5>1. k \in DOMAIN kept /\ kept'[k] = kept[k]
          <6> HIDE DEF k, K, F
          <6>1. k # K /\ k \in DOMAIN kept' /\ kept' = Put(kept, K, F)
            BY <2>2, <3>3, <4>2 DEF k, K, F
          <6>2. QED
            BY <3>2, <6>1
        <5>2. QED
          BY <1>1, <5>1 DEF KeptIsOwn
      <4>3. QED
        BY <4>1, <4>2
    <3>4. QED
      BY <3>3 DEF KeptIsOwn
  <2>3. QED
    BY <1>2, <2>1, <2>2
<1>11. QED
  BY <1>5, <1>6, <1>7, <1>8, <1>9, <1>10 DEF IInv

\* Commands that only move on: a simulator that hangs, an interrupted runner.
LEMMA PauseInv ==
  ASSUME IInv, UNCHANGED <<place, verdict, rc, rows, tmp, kept, shown>>,
         (pc = "sim" /\ pc' = "hung") \/ pc' = "interrupted"
  PROVE  IInv'
<1>1. TypeOK /\ OrderInv /\ FilesInv /\ RowsTrue /\ KeptIsOwn
  BY DEF IInv
<1>2. UNCHANGED <<run, limit, suite, n>> /\ Test' = Test /\ Suites[suite]' = Suites[suite]
  BY DEF place, Test, Suites
<1>3. /\ pc' \in PCs /\ pc' # "row" /\ pc' # "judge"
      /\ pc' \in Over \/ (pc \in Working /\ pc' \in Working)
      /\ pc' \in Working \cup Keeping => pc \in Working
  BY DEF PCs, Over, Working, Keeping
<1>4. TypeOK'
  BY <1>1, <1>2, <1>3 DEF TypeOK
<1>5. OrderInv'
  <2>1. UNCHANGED <<place, rows>>
    OBVIOUS
  <2>2. QED
    BY <1>1, <1>3, <2>1, OrderKept
<1>6. FilesInv'
  BY <1>1, <1>2, <1>3 DEF FilesInv
<1>7. ShownInv'
  BY <1>3 DEF ShownInv
<1>8. RowsTrue' /\ KeptIsOwn'
  BY <1>1 DEF RowsTrue, KeptIsOwn
<1>9. QED
  BY <1>4, <1>5, <1>6, <1>7, <1>8 DEF IInv

\* The pipeline of tools.
LEMMA PipelineInv == IInv /\ Pipeline => IInv'
<1> SUFFICES ASSUME IInv, Pipeline PROVE IInv'
  OBVIOUS
<1>1. /\ "gcc" \in Working /\ "as" \in Working /\ "ld" \in Working
      /\ "PP_FAIL" \in Verdicts /\ "AS_FAIL" \in Verdicts /\ "LD_FAIL" \in Verdicts
      /\ 0 \in {0, 1, Killed} /\ 1 \in {0, 1, Killed} /\ Killed \in {0, 1, Killed}
  BY DEF Working, Verdicts
<1>2. CASE Preprocess
  BY <1>1, <1>2, ToolOkInv, ToolFailsInv DEF Preprocess
<1>3. CASE Assemble
  BY <1>1, <1>3, ToolOkInv, ToolFailsInv DEF Assemble
<1>4. CASE Link
  BY <1>1, <1>4, ToolOkInv, ToolFailsInv DEF Link
<1>5. CASE Simulate
  <2>1. pc \in {"sim", "hung"} /\ pc = "sim"
    BY <1>5 DEF Simulate
  <2>2. CASE Succeeds
    <3>1. VerdictOf("SUCCESS", 0) = "PASS"
      BY DEF VerdictOf
    <3>2. QED
      BY <1>1, <2>1, <2>2, <3>1, SimEndInv DEF Succeeds
  <2>3. CASE RunsOut
    <3>1. VerdictOf("trace", 0) = "INST_LIMIT"
      BY DEF VerdictOf, Killed
    <3>2. QED
      BY <1>1, <2>1, <2>3, <3>1, SimEndInv DEF RunsOut
  <2>4. CASE Fails
    <3>1. VerdictOf("FAILURE", 1) = "RUN_FAIL"
      BY DEF VerdictOf, Killed
    <3>2. QED
      BY <1>1, <2>1, <2>4, <3>1, SimEndInv DEF Fails
  <2>5. CASE Hangs
    BY <2>1, <2>5, PauseInv DEF Hangs
  <2>6. QED
    BY <1>5, <2>2, <2>3, <2>4, <2>5 DEF Simulate
<1>6. CASE Timeout
  <2>1. pc \in {"sim", "hung"}
    BY <1>6 DEF Timeout
  <2>2. VerdictOf("", Killed) = "TIMEOUT" /\ VerdictOf("trace", Killed) = "TIMEOUT"
    BY DEF VerdictOf, Killed
  <2>3. QED
    BY <1>1, <1>6, <2>1, <2>2, SimEndInv DEF Timeout
<1>7. CASE Judge
  BY <1>7, JudgeInv
<1>8. QED
  BY <1>2, <1>3, <1>4, <1>5, <1>6, <1>7 DEF Pipeline

LEMMA StepInv == IInv /\ [Next]_vars => IInv'
<1> SUFFICES ASSUME IInv, [Next]_vars PROVE IInv'
  OBVIOUS
<1>1. CASE Start
  BY <1>1, StartInv
<1>2. CASE NextTest
  BY <1>2, NextTestInv
<1>3. CASE NextSuite
  BY <1>3, NextSuiteInv
<1>4. CASE Pipeline
  BY <1>4, PipelineInv
<1>5. CASE AppendRow
  BY <1>5, AppendRowInv
<1>6. CASE KeepErr \/ KeepLog \/ KeepSig
  <2>1. /\ "keep_err" \in Keeping /\ "keep_log" \in Keeping /\ "keep_sig" \in Keeping
        /\ "test" \in Keeping \cup {"test"}
    BY DEF Keeping
  <2>2. QED
    BY <1>6, <2>1, KeepInv DEF KeepErr, KeepLog, KeepSig
<1>7. CASE Interrupt
  BY <1>7, PauseInv DEF Interrupt
<1>8. CASE UNCHANGED vars
  <2>1. UNCHANGED <<run, limit, suite, n, pc, verdict, rc, rows, tmp, kept, shown>>
    BY <1>8 DEF vars, place
  <2>2. TypeOK' /\ FilesInv' /\ ShownInv' /\ RowsTrue' /\ KeptIsOwn'
    BY <2>1 DEF IInv, TypeOK, FilesInv, ShownInv, RowsTrue, KeptIsOwn, Suites, Test, VerdictOf
  <2>3. OrderInv'
    BY <2>1, SameDue DEF IInv, OrderInv, Before
  <2>4. QED
    BY <2>2, <2>3 DEF IInv
<1>9. QED
  BY <1>1, <1>2, <1>3, <1>4, <1>5, <1>6, <1>7, <1>8 DEF Next, Proceed, Record

-----------------------------------------------------------------------------
\* The inductive invariant holds in every reachable state.
THEOREM Invariance == Spec => []IInv
<1>1. Init => IInv
  BY InitInv
<1>2. IInv /\ [Next]_vars => IInv'
  BY StepInv
<1>3. QED
  BY <1>1, <1>2, PTL DEF Spec

\* A row of results.tsv always tells what the tools did with its own test in
\* the run that goes on or was the last (run_suite.sh, 54-73).
THEOREM RowsAreTrue == Spec => []RowsTrue
<1>1. IInv => RowsTrue
  BY DEF IInv
<1>2. QED
  BY <1>1, Invariance, PTL

\* A file kept under the name of a test belongs to that test, whatever tests
\* and runs came before (run_suite.sh, 51-53 and 78-82).
THEOREM KeptFilesAreOwn == Spec => []KeptIsOwn
<1>1. IInv => KeptIsOwn
  BY DEF IInv
<1>2. QED
  BY <1>1, Invariance, PTL

\* When results.tsv has as many rows as there are tests, LIMIT has cut nothing
\* off, and the rows of a suite are a contiguous part of them.
LEMMA AllRows ==
  ASSUME IInv, Len(rows) = Len(Rv32) + Len(Rv64)
  PROVE  /\ Len(Rv32) \in Nat /\ Len(Rv64) \in Nat /\ DOMAIN rows = 1..Len(rows)
         /\ \A i \in 1..Len(Rv32) : rows[i].test = Rv32[i]
         /\ \A i \in 1..Len(Rv64) : rows[Len(Rv32) + i].test = Rv64[i]
<1> DEFINE a == Len(Order!Taken(Rv32))
           b == Len(Order!Taken(Rv64))
<1>1. TypeOK /\ OrderInv
  BY DEF IInv
<1>2. /\ limit \in Nat /\ Rv32 \in Seq(Tests) /\ Rv64 \in Seq(Tests)
      /\ Len(Rv32) \in Nat /\ Len(Rv64) \in Nat
  <2>1. limit \in Nat /\ Rv32 \in Seq(Tests) /\ Rv64 \in Seq(Tests)
    BY <1>1, Typing
  <2>2. QED
    BY <2>1
<1>3. a <= Len(Rv32) /\ b <= Len(Rv64)
  BY <1>2, TakenIs
<1>4. /\ Len(Order!Due) = a + b /\ a \in Nat /\ b \in Nat
      /\ \A i \in 1..a : Order!Due[i] = Rv32[i]
      /\ \A i \in 1..b : Order!Due[a + i] = Rv64[i]
  BY <1>1, DueIs
<1>5. Len(rows) <= a + b
  BY <1>1, <1>4 DEF OrderInv
<1> HIDE DEF a, b
<1>6. a = Len(Rv32) /\ b = Len(Rv64)
  BY <1>2, <1>3, <1>4, <1>5
<1>7. DOMAIN rows = 1..Len(rows)
  <2>1. rows \in Seq([test : Tests, verdict : Verdicts])
    BY <1>1 DEF TypeOK
  <2>2. QED
    BY <2>1
<1>8. \A i \in 1..Len(rows) : rows[i].test = Order!Due[i]
  BY <1>1, <1>7 DEF OrderInv
<1>9. \A i \in 1..Len(Rv32) : i \in 1..Len(rows) /\ rows[i].test = Rv32[i]
  <2>1. \A i \in 1..a : i \in 1..Len(rows)
    BY <1>2, <1>4, <1>6
  <2>2. QED
    BY <1>4, <1>6, <1>8, <2>1
<1>10. \A i \in 1..Len(Rv64) : rows[Len(Rv32) + i].test = Rv64[i]
  <2>1. \A i \in 1..b : a + i \in 1..Len(rows)
    BY <1>2, <1>4, <1>6
  <2>2. QED
    BY <1>4, <1>6, <1>8, <2>1
<1>11. QED
  BY <1>2, <1>7, <1>9, <1>10

\* A report of "n/n PASS" with n tests in the suites means that every test has
\* passed in one run, 446 with rv32 and 318 with rv64 (gen_report.py, 37-41).
THEOREM FullPass == Spec => []FullPassIsFull
<1>1. ASSUME IInv PROVE FullPassIsFull
  <2> SUFFICES ASSUME NPass = Len(Rv32) + Len(Rv64), Len(rows) = NPass
               PROVE  /\ \A t \in Tests : shown[t] = "PASS"
                      /\ ByXlen(32)[2] = Len(Rv32) /\ ByXlen(64)[2] = Len(Rv64)
    BY <1>1 DEF FullPassIsFull
  <2>1. /\ Len(Rv32) \in Nat /\ Len(Rv64) \in Nat /\ DOMAIN rows = 1..Len(rows)
        /\ \A i \in 1..Len(Rv32) : rows[i].test = Rv32[i]
        /\ \A i \in 1..Len(Rv64) : rows[Len(Rv32) + i].test = Rv64[i]
    BY <1>1, AllRows
  <2> DEFINE N == Len(rows)
             a == Len(Rv32)
             b == Len(Rv64)
             Passed == {i \in DOMAIN rows : rows[i].verdict = "PASS"}
             Of(x) == {i \in DOMAIN rows : rows[i].test.xlen = x}
  <2>2. N = a + b /\ N \in Nat /\ Cardinality(Passed) = N
    BY <2>1 DEF NPass
  <2>3. Passed = 1..N
    <3>1. IsFiniteSet(1..N) /\ Cardinality(1..N) = N
      BY <2>2, FS_Interval
    <3>2. Passed \subseteq 1..N
      BY <2>1
    <3>3. QED
      BY <2>2, <3>1, <3>2, FS_Subset
  <2>4. \A i \in 1..N : shown[rows[i].test] = "PASS"
    BY <1>1, <2>1, <2>3 DEF IInv, RowsTrue
  <2>5. \A i \in 1..b : a + i \in 1..N
    BY <2>1, <2>2
  <2>6. \A i \in 1..a : i \in 1..N
    BY <2>1, <2>2
  <2>7. \A t \in Tests : shown[t] = "PASS"
    <3>1. ASSUME NEW i \in DOMAIN Rv32 PROVE shown[Rv32[i]] = "PASS"
      <4>1. i \in 1..a
        BY TestAssumption
      <4>2. QED
        BY <2>1, <2>4, <2>6, <4>1
    <3>2. ASSUME NEW i \in DOMAIN Rv64 PROVE shown[Rv64[i]] = "PASS"
      <4>1. i \in 1..b
        BY TestAssumption
      <4>2. a + i \in 1..N /\ rows[a + i].test = Rv64[i]
        BY <2>1, <2>5, <4>1
      <4> DEFINE j == a + i
      <4>3. j \in 1..N /\ rows[j].test = Rv64[i]
        BY <4>2
      <4> HIDE DEF j, N
      <4>4. QED
        BY <2>4, <4>3
    <3>3. QED
      BY <3>1, <3>2 DEF Tests
  <2>8. /\ \A i \in 1..a : rows[i].test.xlen = 32
        /\ \A i \in 1..b : rows[a + i].test.xlen = 64
    <3>1. /\ \A i \in 1..a : Rv32[i] \in [xlen : {32}, page : STRING, name : STRING]
          /\ \A i \in 1..b : Rv64[i] \in [xlen : {64}, page : STRING, name : STRING]
      BY TestAssumption, SeqElements, Zenon
    <3>2. QED
      BY <2>1, <3>1
  <2>9. \A i \in 1..N : i \in 1..a \/ (i - a \in 1..b /\ a + (i - a) = i)
    BY <2>1, <2>2
  <2>10. \A i \in 1..N : i \notin 1..a => rows[i].test.xlen = 64
    <3>1. ASSUME NEW i \in 1..N, i \notin 1..a
          PROVE  rows[i].test.xlen = 64
      <4> DEFINE k == i - a
      <4>1. k \in 1..b /\ a + k = i
        BY <2>9, <3>1
      <4> HIDE DEF k
      <4>2. QED
        BY <2>8, <4>1
    <3>2. QED
      BY <3>1
  <2>11. Of(32) = 1..a /\ Of(64) = (a + 1)..N
    <3>1. Of(32) = 1..a
      BY <2>1, <2>6, <2>8, <2>10
    <3>2. \A i \in 1..N : i \in 1..a <=> i \notin (a + 1)..N
      BY <2>1, <2>2
    <3>3. (a + 1)..N \subseteq 1..N
      BY <2>1, <2>2
    <3>4. \A i \in 1..N : i \in (a + 1)..N <=> rows[i].test.xlen = 64
      BY <2>8, <2>10, <3>2
    <3>5. Of(64) = (a + 1)..N
      BY <2>1, <3>3, <3>4
    <3>6. QED
      BY <3>1, <3>5
  <2>12. Cardinality(1..a) = a /\ Cardinality((a + 1)..N) = b
    <3> HIDE DEF N, a, b
    <3>1. a \in Nat /\ b \in Nat /\ N = a + b
      BY <2>1, <2>2 DEF a, b
    <3>2. Cardinality(1..a) = IF 1 > a THEN 0 ELSE a - 1 + 1
      BY <3>1, FS_Interval
    <3> DEFINE l == a + 1
    <3>3. l \in Int /\ N \in Int
      BY <3>1
    <3> HIDE DEF l
    <3>4. Cardinality(l..N) = IF l > N THEN 0 ELSE N - l + 1
      BY <3>3, FS_Interval
    <3>5. QED
      BY <3>1, <3>2, <3>4 DEF l
  <2>13. ByXlen(32)[2] = Cardinality(Of(32)) /\ ByXlen(64)[2] = Cardinality(Of(64))
    BY DEF ByXlen
  <2>14. QED
    BY <2>7, <2>11, <2>12, <2>13
<1>2. QED
  BY <1>1, Invariance, PTL

\* The commands of run_suite.sh implement what SuiteOrder promises: an empty
\* results.tsv, then one row after the other in a fixed order.
THEOREM KeepsPromise == Spec => Promise
<1>1. Init => Order!Init
  BY DEF Init, Order!Init
<1>2. IInv /\ [Next]_vars => [Order!Next]_<<limit, rows>>
  <2> SUFFICES ASSUME IInv, [Next]_vars
               PROVE  Order!Next \/ UNCHANGED <<limit, rows>>
    OBVIOUS
  <2>1. CASE Start
    BY <2>1 DEF Start, Order!Next, Order!Begin
  <2>2. CASE AppendRow
    <3>1. /\ Len(rows) + 1 <= Len(Order!Due) /\ Len(rows) \in Nat
          /\ Test = Order!Due[Len(rows) + 1] /\ verdict \in Verdicts
      BY <2>2, AppendRowIs
    <3>2. /\ rows' = Append(rows, [test |-> Order!Due[Len(rows) + 1], verdict |-> verdict])
          /\ UNCHANGED limit
      BY <2>2, <3>1 DEF AppendRow, place
    <3>3. Len(Order!Due) \in Nat
      <4>1. TypeOK
        BY DEF IInv
      <4>2. Order!Due \in Seq(Tests)
        BY <4>1, DueIs
      <4>3. QED
        BY <4>2
    <3>4. Len(rows) < Len(Order!Due)
      BY <3>1, <3>3
    <3>5. Order!AddRow
      BY <3>1, <3>2, <3>4 DEF Order!AddRow, Verdicts
    <3>6. QED
      BY <3>5 DEF Order!Next
  <2>3. CASE NextTest \/ NextSuite
    BY <2>3 DEF NextTest, NextSuite
  <2>4. CASE Pipeline
    <3>1. ASSUME NEW log, NEW code, NEW signature, SimEnd(log, code, signature)
          PROVE  UNCHANGED <<limit, rows>>
      BY <3>1 DEF SimEnd, place
    <3>2. ASSUME NEW tool, NEW product, NEW next, ToolOk(tool, product, next)
          PROVE  UNCHANGED <<limit, rows>>
      BY <3>2 DEF ToolOk, place
    <3>3. ASSUME NEW tool, NEW v, ToolFails(tool, v)
          PROVE  UNCHANGED <<limit, rows>>
      BY <3>3 DEF ToolFails, place
    <3>4. CASE Preprocess \/ Assemble \/ Link
      BY <3>2, <3>3, <3>4 DEF Preprocess, Assemble, Link
    <3>5. CASE Simulate \/ Timeout
      BY <3>1, <3>5 DEF Simulate, Timeout, Succeeds, RunsOut, Fails, Hangs, place
    <3>6. CASE Judge
      BY <3>6 DEF Judge, place
    <3>7. QED
      BY <2>4, <3>4, <3>5, <3>6 DEF Pipeline
  <2>5. CASE KeepErr \/ KeepLog \/ KeepSig
    BY <2>5 DEF KeepErr, KeepLog, KeepSig, Keep, place
  <2>6. CASE Interrupt
    BY <2>6 DEF Interrupt, place
  <2>7. CASE UNCHANGED vars
    BY <2>7 DEF vars, place
  <2>8. QED
    BY <2>1, <2>2, <2>3, <2>4, <2>5, <2>6, <2>7 DEF Next, Proceed, Record
<1>3. QED
  BY <1>1, <1>2, Invariance, PTL DEF Spec, Promise, Order!Spec

-----------------------------------------------------------------------------
\* Scratch files written by a run are of that run.
LEMMA PutRun ==
  ASSUME NEW d, NEW name, NEW text, \A f \in DOMAIN d : d[f].run = run
  PROVE  \A f \in DOMAIN Put(d, name, File(text)) : Put(d, name, File(text))[f].run = run
<1> DEFINE file == File(text)
<1>1. file.run = run
  BY DEF File
<1> HIDE DEF file
<1>2. \A f \in DOMAIN Put(d, name, file) : Put(d, name, file)[f].run = run
  <2>1. /\ DOMAIN Put(d, name, file) = DOMAIN d \cup {name}
        /\ Put(d, name, file)[name] = file
        /\ \A f \in DOMAIN d : f # name => Put(d, name, file)[f] = d[f]
    BY DEF Put
  <2>2. QED
    BY <1>1, <2>1
<1>3. QED
  BY <1>2 DEF file

\* A command that keeps nothing and writes no row disturbs no signature.
LEMMA SigRowsKept ==
  ASSUME SigRows, UNCHANGED <<run, rows, kept>>,
         pc' \in {"test", "ended"} \cup Working => pc \in {"test", "ended"} \cup Working
  PROVE  SigRows'
<1>1. \A t : Signed(t)' <=> Signed(t)
  BY DEF Signed
<1>2. Working' = Working
  BY DEF Working
<1>3. QED
  BY <1>1, <1>2 DEF SigRows

LEMMA ToolSigInv ==
  ASSUME IInv, SigInv, NEW tool \in Working, NEW product, NEW v, v # "PASS",
         NEW next \in {"as", "ld", "sim"},
         ToolOk(tool, product, next) \/ ToolFails(tool, v)
  PROVE  SigInv'
<1>1. RunFiles /\ SigRows /\ pc \in Working
  BY DEF SigInv, ToolOk, ToolFails
<1>2. UNCHANGED <<run, rows, kept>>
  BY DEF ToolOk, ToolFails, place
<1>3. pc' \in {"as", "ld", "sim", "row"} /\ (pc' = "row" => verdict' = v)
  BY DEF ToolOk, ToolFails
<1>4. \A f \in DOMAIN tmp : tmp[f].run = run
  BY <1>1 DEF RunFiles
<1>5. RunFiles'
  <2>1. CASE ToolOk(tool, product, next)
    <3>1. PICK warning : tmp' = Put(Put(tmp, "err", File(warning)), product, File(product))
      BY <2>1 DEF ToolOk
    <3> DEFINE d == Put(tmp, "err", File(warning))
    <3>2. \A f \in DOMAIN d : d[f].run = run
      BY <1>4, PutRun
    <3> HIDE DEF d
    <3>3. \A f \in DOMAIN Put(d, product, File(product)) :
            Put(d, product, File(product))[f].run = run
      BY <3>2, PutRun
    <3>4. QED
      BY <1>2, <3>1, <3>3 DEF RunFiles, d
  <2>2. CASE ToolFails(tool, v)
    <3>1. tmp' = Put(tmp, "err", File("errors"))
      BY <2>2 DEF ToolFails
    <3>2. QED
      BY <1>2, <1>4, <3>1, PutRun DEF RunFiles
  <2>3. QED
    BY <2>1, <2>2
<1>6. SigSeen'
  BY <1>3 DEF SigSeen, Keeping
<1>7. SigRows'
  BY <1>1, <1>2, SigRowsKept
<1>8. QED
  BY <1>5, <1>6, <1>7 DEF SigInv

\* A success comes with a signature.
LEMMA SimEndSigInv ==
  ASSUME SigInv, pc \in {"sim", "hung"}, NEW log, NEW code, NEW signature \in BOOLEAN,
         SimEnd(log, code, signature), log = "SUCCESS" => signature
  PROVE  SigInv'
<1> DEFINE d == Put(tmp, "log", File(log))
<1>1. RunFiles /\ SigRows /\ pc \in Working
  BY DEF SigInv, Working
<1>2. /\ UNCHANGED <<run, rows, kept>> /\ pc' = "judge"
      /\ tmp' = IF signature THEN Put(d, "sig", File("sig")) ELSE d
  BY DEF SimEnd, place
<1>3. /\ d["log"].text = log /\ "log" \in DOMAIN d
      /\ Put(d, "sig", File("sig"))["log"] = d["log"]
      /\ "sig" \in DOMAIN Put(d, "sig", File("sig"))
      /\ Put(d, "sig", File("sig"))["sig"].text = "sig"
  <2>1. d["log"] = File(log) /\ "log" \in DOMAIN d
    BY DEF Put
  <2>2. File(log).text = log /\ File("sig").text = "sig"
    BY DEF File
  <2> HIDE DEF d
  <2>3. /\ Put(d, "sig", File("sig"))["log"] = d["log"]
        /\ "sig" \in DOMAIN Put(d, "sig", File("sig"))
        /\ Put(d, "sig", File("sig"))["sig"] = File("sig")
    BY <2>1 DEF Put
  <2>4. QED
    BY <2>1, <2>2, <2>3
<1>4. RunFiles'
  <2>1. \A f \in DOMAIN tmp : tmp[f].run = run
    BY <1>1 DEF RunFiles
  <2>2. \A f \in DOMAIN d : d[f].run = run
    BY <2>1, PutRun
  <2> HIDE DEF d
  <2>3. \A f \in DOMAIN Put(d, "sig", File("sig")) :
          Put(d, "sig", File("sig"))[f].run = run
    BY <2>2, PutRun
  <2>4. QED
    BY <1>2, <2>2, <2>3 DEF RunFiles
<1>5. SigSeen'
  <2> HIDE DEF d
  <2>1. tmp'["log"].text = log
    BY <1>2, <1>3
  <2>2. log = "SUCCESS" => HasSig'
    BY <1>2, <1>3 DEF HasSig
  <2>3. QED
    BY <1>2, <2>1, <2>2 DEF SigSeen, Keeping
<1>6. SigRows'
  BY <1>1, <1>2, SigRowsKept
<1>7. QED
  BY <1>4, <1>5, <1>6 DEF SigInv

LEMMA PipelineSigInv == IInv /\ SigInv /\ Pipeline => SigInv'
<1> SUFFICES ASSUME IInv, SigInv, Pipeline PROVE SigInv'
  OBVIOUS
<1>1. "gcc" \in Working /\ "as" \in Working /\ "ld" \in Working
  BY DEF Working
<1>2. CASE Preprocess \/ Assemble \/ Link
  <2>1. PICK tool \in Working, product \in {"pp", "o", "elf"}, next \in {"as", "ld", "sim"},
             v \in {"PP_FAIL", "AS_FAIL", "LD_FAIL"} :
               ToolOk(tool, product, next) \/ ToolFails(tool, v)
    BY <1>1, <1>2 DEF Preprocess, Assemble, Link
  <2>2. v # "PASS"
    OBVIOUS
  <2>3. QED
    BY <2>1, <2>2, ToolSigInv
<1>3. CASE Simulate /\ ~ Hangs
  <2>1. pc \in {"sim", "hung"} /\ TRUE \in BOOLEAN
    BY <1>3 DEF Simulate
  <2>2. CASE Succeeds
    BY <2>1, <2>2, SimEndSigInv DEF Succeeds
  <2>3. CASE RunsOut
    BY <2>1, <2>3, SimEndSigInv DEF RunsOut
  <2>4. CASE Fails
    BY <2>1, <2>4, SimEndSigInv DEF Fails
  <2>5. QED
    BY <1>3, <2>2, <2>3, <2>4 DEF Simulate
<1>4. CASE Timeout
  <2>1. pc \in {"sim", "hung"} /\ FALSE \in BOOLEAN
    BY <1>4 DEF Timeout
  <2>2. PICK log \in {"", "trace"} : SimEnd(log, Killed, FALSE)
    BY <1>4 DEF Timeout
  <2>3. log # "SUCCESS"
    OBVIOUS
  <2>4. QED
    BY <2>1, <2>2, <2>3, SimEndSigInv
<1>5. CASE Simulate /\ Hangs
  <2>1. /\ pc = "sim" /\ pc' = "hung" /\ UNCHANGED <<run, verdict, rows, tmp, kept>>
    BY <1>5 DEF Simulate, Hangs, place
  <2>2. pc \in Working /\ pc' \notin Keeping
    BY <2>1 DEF Working, Keeping
  <2>3. RunFiles' /\ SigSeen'
    BY <2>1, <2>2 DEF SigInv, RunFiles, SigSeen
  <2>4. QED
    BY <2>1, <2>2, <2>3, SigRowsKept DEF SigInv
<1>6. CASE Judge
  <2>1. /\ pc = "judge" /\ pc' = "row" /\ verdict' = VerdictOf(tmp["log"].text, rc)
        /\ UNCHANGED <<run, rows, tmp, kept>>
    BY <1>6 DEF Judge, place
  <2>2. pc \in Working /\ pc' \notin Keeping
    BY <2>1 DEF Working, Keeping
  <2>3. verdict' = "PASS" => tmp["log"].text = "SUCCESS"
    BY <2>1 DEF VerdictOf
  <2>4. SigSeen'
    BY <2>1, <2>2, <2>3 DEF SigInv, SigSeen, HasSig
  <2>5. RunFiles'
    BY <2>1, <2>2 DEF SigInv, RunFiles
  <2>6. QED
    BY <2>1, <2>2, <2>4, <2>5, SigRowsKept DEF SigInv
<1>7. QED
  BY <1>2, <1>3, <1>4, <1>5, <1>6 DEF Pipeline

\* The row of a test that passed is written before its signature is kept.
LEMMA AppendRowSigInv == IInv /\ SigInv /\ AppendRow => SigInv'
<1> SUFFICES ASSUME IInv, SigInv, AppendRow PROVE SigInv'
  OBVIOUS
<1>1. /\ pc = "row" /\ UNCHANGED <<run, verdict, tmp, kept>>
      /\ pc' = IF verdict = "PASS" THEN "keep_sig" ELSE "keep_err"
  BY DEF AppendRow, place
<1>2. pc \in Working /\ pc' \notin {"test", "ended"} \cup Working
      /\ pc' # "judge" /\ pc' # "row"
  BY <1>1 DEF Working
<1> DEFINE m == Len(rows) + 1
<1>3. /\ Len(rows) \in Nat /\ Len(rows') = m
      /\ \A i \in 1..Len(rows) : rows'[i] = rows[i]
      /\ rows'[m] = [test |-> Test, verdict |-> verdict]
      /\ DOMAIN rows = 1..Len(rows) /\ DOMAIN rows' = 1..m
  BY AppendRowIs
<1>4. RunFiles'
  BY <1>1, <1>2 DEF SigInv, RunFiles
<1>5. SigSeen'
  <2>1. rows'[Len(rows')].verdict = verdict
    BY <1>3
  <2>2. HasSig' <=> HasSig
    BY <1>1 DEF HasSig
  <2>3. verdict = "PASS" => HasSig
    BY <1>1 DEF SigInv, SigSeen
  <2>4. QED
    BY <1>1, <1>2, <2>1, <2>2, <2>3 DEF SigSeen
<1>6. SigRows'
  <2>1. SUFFICES ASSUME NEW i \in DOMAIN rows', i < Len(rows'), rows'[i].verdict = "PASS"
                 PROVE  Signed(rows[i].test)'
    BY <1>2, <2>1 DEF SigRows, Working
  <2>2. i \in 1..Len(rows) /\ rows'[i] = rows[i]
    BY <1>3, <2>1
  <2>3. Signed(rows[i].test)
    BY <1>2, <1>3, <2>1, <2>2 DEF SigInv, SigRows
  <2>4. QED
    BY <1>1, <2>2, <2>3 DEF Signed
<1>7. QED
  BY <1>4, <1>5, <1>6 DEF SigInv

\* Keeping a file takes no signature of this run away, and the last command
\* for a test that passed keeps its signature.
LEMMA KeepSigInv ==
  ASSUME IInv, SigInv, KeepErr \/ KeepLog \/ KeepSig
  PROVE  SigInv'
<1>1. PICK name, kind, next :
        /\ Keep(name, kind, next)
        /\ \/ pc = "keep_err" /\ next = "keep_log"
           \/ pc = "keep_log" /\ next = "keep_sig"
           \/ pc = "keep_sig" /\ next = "test" /\ name = "sig" /\ kind = "sig"
  BY DEF KeepErr, KeepLog, KeepSig
<1>2. pc \in Keeping /\ pc' = next /\ UNCHANGED <<run, suite, n, verdict, rows, tmp>>
  BY <1>1 DEF Keep, Keeping, place
<1>3. Test' = Test
  BY <1>2 DEF Test, Suites
<1>4. \A f \in DOMAIN tmp : tmp[f].run = run
  BY <1>2 DEF SigInv, RunFiles
<1>5. /\ DOMAIN rows = 1..Len(rows) /\ Len(rows) \in Nat
      /\ Len(rows) \in DOMAIN rows => rows[Len(rows)].test = Test
  <2>1. TypeOK /\ OrderInv
    BY DEF IInv
  <2>2. rows \in Seq([test : Tests, verdict : Verdicts])
    BY <2>1 DEF TypeOK
  <2>3. pc \notin Working
    BY <1>1 DEF Working
  <2>4. Test = Order!Due[Len(rows) + 0]
    BY <1>2, <2>1, <2>3, TestIsDue
  <2>5. Len(rows) + 0 = Len(rows)
    BY <2>2
  <2>6. QED
    BY <2>1, <2>2, <2>4, <2>5 DEF OrderInv
<1>6. RunFiles'
  BY <1>2, <1>4 DEF RunFiles
<1>7. SigSeen'
  <2>1. pc' # "judge" /\ pc' # "row"
    BY <1>1, <1>2
  <2>2. pc' \in Keeping => pc # "keep_sig"
    BY <1>1, <1>2 DEF Keeping
  <2>3. QED
    BY <1>2, <2>1, <2>2 DEF SigInv, SigSeen
<1> DEFINE Kept(t) == Key("sig", t) \in DOMAIN kept' /\ kept'[Key("sig", t)].run = run
<1>8. /\ \A t : Signed(t) => Kept(t)
      /\ kind = "sig" /\ name = "sig" /\ HasSig => Kept(Test)
  <2>1. CASE kept' = kept /\ ~ (name \in DOMAIN tmp /\ tmp[name].text # "")
    BY <1>2, <2>1 DEF Signed, HasSig
  <2>2. CASE name \in DOMAIN tmp /\ kept' = Put(kept, Key(kind, Test), tmp[name])
    <3> DEFINE K == Key(kind, Test)
               F == tmp[name]
    <3>1. F.run = run
      BY <1>4, <2>2
    <3>2. /\ DOMAIN kept' = DOMAIN kept \cup {K} /\ kept'[K] = F
          /\ \A k \in DOMAIN kept : k # K => kept'[k] = kept[k]
      <4>1. /\ DOMAIN Put(kept, K, F) = DOMAIN kept \cup {K}
            /\ Put(kept, K, F)[K] = F
            /\ \A k \in DOMAIN kept : k # K => Put(kept, K, F)[k] = kept[k]
        BY DEF Put
      <4>2. kept' = Put(kept, K, F)
        BY <2>2
      <4> HIDE DEF K, F
      <4>3. QED
        BY <4>1, <4>2
    <3>3. kind = "sig" => K = Key("sig", Test)
      OBVIOUS
    <3> HIDE DEF K, F
    <3>5. \A k \in DOMAIN kept' : k = K \/ (k \in DOMAIN kept /\ kept'[k] = kept[k])
      BY <3>2
    <3>6. \A k \in DOMAIN kept : kept[k].run = run => k \in DOMAIN kept' /\ kept'[k].run = run
      BY <3>1, <3>2, <3>5
    <3>7. kind = "sig" => Key("sig", Test) \in DOMAIN kept' /\ kept'[Key("sig", Test)].run = run
      BY <3>1, <3>2, <3>3
    <3>8. QED
      BY <3>6, <3>7 DEF Signed
  <2>3. QED
    BY <1>1, <2>1, <2>2 DEF Keep
<1>9. SigRows'
  <2> SUFFICES ASSUME NEW i \in DOMAIN rows, rows[i].verdict = "PASS",
                      i < Len(rows) \/ pc' = "test"
               PROVE  Kept(rows[i].test)
    BY <1>1, <1>2 DEF SigRows, Working, Signed, Key
  <2> HIDE DEF Kept
  <2>1. CASE i < Len(rows)
    BY <1>8, <2>1 DEF SigInv, SigRows
  <2>2. CASE ~ (i < Len(rows))
    <3>1. i = Len(rows) /\ rows[i].test = Test
      BY <1>5, <2>2
    <3>2. pc = "keep_sig" /\ name = "sig" /\ kind = "sig"
      BY <1>1, <1>2, <2>2
    <3>3. HasSig
      BY <1>2, <3>1 DEF SigInv, SigSeen
    <3>4. QED
      BY <1>8, <3>1, <3>2, <3>3
  <2>3. QED
    BY <2>1, <2>2
<1>10. QED
  BY <1>6, <1>7, <1>9 DEF SigInv

\* Once a row says PASS and the runner is past the test, the signature of that
\* test has been kept by this run (run_suite.sh, 59-63 and 73-82).
THEOREM PassesAreSigned == Spec => []PassedSigned
<1>1. Init => SigInv
  <2> SUFFICES ASSUME Init PROVE SigInv
    OBVIOUS
  <2>1. pc = "idle" /\ rows = <<>>
    BY DEF Init
  <2>2. DOMAIN rows = {}
    BY <2>1
  <2>3. QED
    BY <2>1, <2>2 DEF SigInv, RunFiles, SigSeen, SigRows, Working, Keeping
<1>2. IInv /\ SigInv /\ [Next]_vars => SigInv'
  <2> SUFFICES ASSUME IInv, SigInv, [Next]_vars PROVE SigInv'
    OBVIOUS
  <2>1. CASE Start
    <3>1. pc' = "test" /\ rows' = <<>>
      BY <2>1 DEF Start
    <3>2. DOMAIN rows' = {}
      BY <3>1
    <3>3. QED
      BY <3>1, <3>2 DEF SigInv, RunFiles, SigSeen, SigRows, Working, Keeping
  <2>2. CASE NextTest \/ NextSuite
    <3>1. /\ pc = "test" /\ pc' \in {"gcc", "test", "ended"} /\ UNCHANGED <<run, rows, kept>>
          /\ pc' = "gcc" => tmp' = NoFiles
      BY <2>2 DEF NextTest, NextSuite
    <3>2. RunFiles' /\ SigSeen'
      BY <3>1 DEF RunFiles, SigSeen, Working, Keeping, NoFiles
    <3>3. QED
      BY <3>1, <3>2, SigRowsKept DEF SigInv
  <2>3. CASE Pipeline
    BY <2>3, PipelineSigInv
  <2>4. CASE AppendRow
    BY <2>4, AppendRowSigInv
  <2>5. CASE KeepErr \/ KeepLog \/ KeepSig
    BY <2>5, KeepSigInv
  <2>6. CASE Interrupt
    <3>1. pc' = "interrupted" /\ UNCHANGED <<run, rows, kept>>
      BY <2>6 DEF Interrupt, place
    <3>2. pc' \notin {"test", "ended"} \cup Working /\ pc' \notin Keeping
      BY <3>1 DEF Working, Keeping
    <3>3. RunFiles' /\ SigSeen'
      BY <3>1, <3>2 DEF RunFiles, SigSeen
    <3>4. QED
      BY <3>1, <3>2, <3>3, SigRowsKept DEF SigInv
  <2>7. CASE UNCHANGED vars
    <3>1. UNCHANGED <<run, pc, verdict, rows, tmp, kept>>
      BY <2>7 DEF vars, place
    <3>2. QED
      BY <3>1 DEF SigInv, RunFiles, SigSeen, SigRows, HasSig, Signed, Key
  <2>8. QED
    BY <2>1, <2>2, <2>3, <2>4, <2>5, <2>6, <2>7 DEF Next, Proceed, Record
<1>3. SigInv => PassedSigned
  BY DEF SigInv, SigRows, PassedSigned, Signed
<1>4. QED
  BY <1>1, <1>2, <1>3, Invariance, PTL DEF Spec
=============================================================================
