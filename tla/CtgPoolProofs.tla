--------------------------- MODULE CtgPoolProofs ----------------------------
(***************************************************************************)
(* Proofs about CtgPool, for all covergroups, filters and numbers of       *)
(* processes, and any number of runs.                                      *)
(***************************************************************************)
EXTENDS CtgPool, FiniteSetTheorems, TLAPS

-----------------------------------------------------------------------------
(***************************************************************************)
(* Arithmetic of the chunks                                                *)
(***************************************************************************)
LEMMA DivisionIs ==
  ASSUME NEW a \in Nat, NEW b \in Nat \ {0}
  PROVE  /\ a \div b \in Nat /\ (a \div b) * b <= a /\ a < (a \div b) * b + b
  OBVIOUS

\* Multiples of a size lie at least a size apart.
LEMMA MultiplesApart ==
  ASSUME NEW a \in Nat, NEW b \in Nat, NEW size \in Nat, a < b
  PROVE  a * size + size <= b * size /\ a * size \in Nat /\ b * size \in Nat
<1>1. PICK d \in Nat : b = a + 1 + d
  <2>1. b - a - 1 \in Nat /\ b = a + 1 + (b - a - 1)
    OBVIOUS
  <2>2. QED
    BY <2>1
<1>2. b * size = a * size + size + d * size
  BY <1>1
<1>3. d * size >= 0 /\ d * size \in Nat /\ a * size \in Nat
  BY <1>1
<1>4. QED
  BY <1>2, <1>3

\* The size of a chunk is not 0.
LEMMA SizePositive ==
  ASSUME NEW n \in Nat \ {0}, NEW p \in Nat \ {0}
  PROVE  ChunkSize(n, p) \in Nat \ {0}
<1> DEFINE a == n + 4 * p - 1
           b == 4 * p
<1>1. a \in Nat /\ b \in Nat \ {0} /\ a >= b
  OBVIOUS
<1>2. ChunkSize(n, p) = a \div b
  BY DEF ChunkSize
<1> HIDE DEF a, b
<1>3. a \div b \in Nat /\ a < (a \div b) * b + b
  BY <1>1, DivisionIs
<1>4. a \div b # 0
  BY <1>1, <1>3
<1>5. QED
  BY <1>2, <1>3, <1>4

\* The bounds of chunk k: it begins after (k - 1) * size tasks and has size
\* tasks, the last one perhaps fewer.
LEMMA ChunkBounds ==
  ASSUME NEW n \in Nat \ {0}, NEW size \in Nat \ {0},
         NEW k \in 1..((n + size - 1) \div size)
  PROVE  LET lo == (k - 1) * size
             len == IF k * size <= n THEN size ELSE n - (k - 1) * size
         IN  /\ lo \in Nat /\ len \in 1..size /\ lo + len <= n
             /\ k * size = lo + size
<1> DEFINE a == n + size - 1
           lo == (k - 1) * size
<1>1. a \in Nat /\ a = n + size - 1
  OBVIOUS
<1>2. k \in 1..(a \div size)
  OBVIOUS
<1>3. lo = (k - 1) * size
  OBVIOUS
<1>4. lo \in Nat /\ k * size = lo + size /\ k * size \in Nat
  <2>1. k \in Nat /\ k - 1 \in Nat
    BY <1>1, <1>2, DivisionIs
  <2>2. QED
    BY <2>1
<1> HIDE DEF a, lo
<1>5. a \div size \in Nat /\ (a \div size) * size <= a
  BY <1>1, DivisionIs
<1>6. k * size <= a
  <2>1. CASE k = a \div size
    BY <2>1, <1>5
  <2>2. CASE k < a \div size
    <3>1. k \in Nat
      BY <1>2, <1>5
    <3>2. k * size + size <= (a \div size) * size /\ (a \div size) * size \in Nat
      BY <3>1, <2>2, <1>5, MultiplesApart
    <3>3. QED
      BY <3>2, <1>4, <1>5, <1>1
  <2>3. QED
    BY <2>1, <2>2, <1>2, <1>5
<1>7. lo + 1 <= n
  BY <1>6, <1>4, <1>1
<1>8. CASE k * size <= n
  BY <1>8, <1>4, <1>3
<1>9. CASE ~ (k * size <= n)
  BY <1>9, <1>7, <1>4, <1>3
<1>10. QED
  BY <1>8, <1>9

\* The chunks hold every task at most once, and none is empty.
LEMMA ChunksApart ==
  ASSUME NEW n \in Nat, NEW p \in Nat, n # 0 => p # 0
  PROVE  /\ Chunks(n, p) \in Seq(Seq(1..n))
         /\ \A k \in DOMAIN Chunks(n, p) :
              /\ Chunks(n, p)[k] # <<>>
              /\ \A i, j \in DOMAIN Chunks(n, p)[k] :
                   Chunks(n, p)[k][i] = Chunks(n, p)[k][j] => i = j
         /\ \A k, l \in DOMAIN Chunks(n, p) :
              k # l => ToSet(Chunks(n, p)[k]) \cap ToSet(Chunks(n, p)[l]) = {}
<1>1. CASE n = 0
  <2>1. Chunks(n, p) = <<>>
    BY <1>1 DEF Chunks
  <2>2. QED
    BY <2>1
<1>2. CASE n # 0
  <2> DEFINE size == ChunkSize(n, p)
             N == (n + size - 1) \div size
             len(k) == IF k * size <= n THEN size ELSE n - (k - 1) * size
             chunk(k) == [i \in 1..len(k) |-> (k - 1) * size + i]
  <2>1. size \in Nat \ {0}
    BY <1>2, SizePositive
  <2>2. Chunks(n, p) = [k \in 1..N |-> chunk(k)]
    BY <1>2 DEF Chunks
  <2>3. N \in Nat
    <3> DEFINE a == n + size - 1
    <3>1. a \in Nat
      BY <2>1, <1>2
    <3>2. N = a \div size
      OBVIOUS
    <3> HIDE DEF a, N, size
    <3>3. QED
      BY <3>1, <3>2, <2>1, DivisionIs
  <2>4. \A k \in 1..N : /\ (k - 1) * size \in Nat /\ len(k) \in 1..size
                        /\ (k - 1) * size + len(k) <= n /\ k * size = (k - 1) * size + size
    <3> TAKE k \in 1..N
    <3> HIDE DEF size
    <3>1. QED
      BY <1>2, <2>1, ChunkBounds
  <2> HIDE DEF size, N, len
  <2>5. \A k \in 1..N : /\ chunk(k) \in Seq(1..n) /\ chunk(k) # <<>>
                        /\ DOMAIN chunk(k) = 1..len(k)
                        /\ \A i \in 1..len(k) : chunk(k)[i] = (k - 1) * size + i
    <3> SUFFICES ASSUME NEW k \in 1..N
                 PROVE  /\ chunk(k) \in Seq(1..n) /\ chunk(k) # <<>>
                        /\ DOMAIN chunk(k) = 1..len(k)
                        /\ \A i \in 1..len(k) : chunk(k)[i] = (k - 1) * size + i
      OBVIOUS
    <3> DEFINE lo == (k - 1) * size
               m == len(k)
    <3>1. lo \in Nat /\ m \in Nat /\ m >= 1 /\ lo + m <= n
      BY <2>4, <2>1
    <3>2. chunk(k) = [i \in 1..m |-> lo + i]
      OBVIOUS
    <3> HIDE DEF lo, m, chunk
    <3>3. chunk(k) \in [1..m -> 1..n]
      BY <3>1, <3>2
    <3>4. chunk(k) \in Seq(1..n) /\ Len(chunk(k)) = m
      BY <3>3, <3>1
    <3>5. chunk(k) # <<>>
      BY <3>4, <3>1
    <3>6. QED
      BY <3>2, <3>3, <3>4, <3>5 DEF lo, m
  <2> HIDE DEF chunk
  <2>6. Chunks(n, p) \in Seq(Seq(1..n))
    BY <2>2, <2>3, <2>5
  <2>7. \A k \in 1..N : \A i, j \in 1..len(k) : chunk(k)[i] = chunk(k)[j] => i = j
    <3> TAKE k \in 1..N
    <3> TAKE i, j \in 1..len(k)
    <3>1. chunk(k)[i] = (k - 1) * size + i /\ chunk(k)[j] = (k - 1) * size + j
      BY <2>5
    <3>2. (k - 1) * size \in Nat /\ i \in Int /\ j \in Int
      BY <2>4
    <3>3. QED
      BY <3>1, <3>2
  <2>8. ASSUME NEW k \in 1..N, NEW l \in 1..N, k < l, NEW i \in 1..len(k), NEW j \in 1..len(l)
        PROVE  chunk(k)[i] # chunk(l)[j]
    <3> DEFINE a == (k - 1) * size
               b == (l - 1) * size
    <3>1. chunk(k)[i] = a + i /\ chunk(l)[j] = b + j
      BY <2>5
    <3>2. a + size <= b /\ a \in Nat /\ b \in Nat
      <4>1. k - 1 \in Nat /\ l - 1 \in Nat /\ k - 1 < l - 1
        BY <2>3, <2>8
      <4>2. QED
        BY <4>1, <2>1, MultiplesApart
    <3>3. i \in Nat /\ j \in Nat /\ i <= size /\ j >= 1
      <4>1. len(k) \in 1..size /\ len(l) \in 1..size
        BY <2>4
      <4>2. QED
        BY <4>1, <2>1
    <3> HIDE DEF a, b
    <3>4. QED
      BY <3>1, <3>2, <3>3, <2>1
  <2>9. ASSUME NEW k \in 1..N, NEW l \in 1..N, k # l
        PROVE  ToSet(chunk(k)) \cap ToSet(chunk(l)) = {}
    <3>1. ASSUME NEW i \in 1..len(k), NEW j \in 1..len(l), chunk(k)[i] = chunk(l)[j]
          PROVE  FALSE
      <4>1. k \in Nat /\ l \in Nat
        BY <2>3
      <4>2. CASE k < l
        BY <4>2, <2>8, <3>1
      <4>3. CASE l < k
        BY <4>3, <2>8, <3>1
      <4>4. QED
        BY <4>1, <4>2, <4>3, <2>9
    <3>2. DOMAIN chunk(k) = 1..len(k) /\ DOMAIN chunk(l) = 1..len(l)
      BY <2>5
    <3>3. QED
      BY <3>1, <3>2 DEF ToSet
  <2>10. DOMAIN Chunks(n, p) = 1..N /\ \A k \in 1..N : Chunks(n, p)[k] = chunk(k)
    BY <2>2
  <2>11. \A k \in 1..N : DOMAIN chunk(k) = 1..len(k) /\ chunk(k) # <<>>
    BY <2>5
  <2>12. ASSUME NEW k \in DOMAIN Chunks(n, p)
         PROVE  /\ Chunks(n, p)[k] # <<>>
                /\ \A i, j \in DOMAIN Chunks(n, p)[k] :
                     Chunks(n, p)[k][i] = Chunks(n, p)[k][j] => i = j
    <3>1. k \in 1..N /\ Chunks(n, p)[k] = chunk(k) /\ DOMAIN chunk(k) = 1..len(k)
      BY <2>10, <2>11
    <3>2. \A i, j \in 1..len(k) : chunk(k)[i] = chunk(k)[j] => i = j
      BY <3>1, <2>7
    <3>3. chunk(k) # <<>>
      BY <3>1, <2>11
    <3>4. QED
      BY <3>1, <3>2, <3>3
  <2>13. \A k, l \in DOMAIN Chunks(n, p) :
           k # l => ToSet(Chunks(n, p)[k]) \cap ToSet(Chunks(n, p)[l]) = {}
    <3> TAKE k, l \in DOMAIN Chunks(n, p)
    <3>1. /\ k \in 1..N /\ Chunks(n, p)[k] = chunk(k)
          /\ l \in 1..N /\ Chunks(n, p)[l] = chunk(l)
      BY <2>10
    <3>2. QED
      BY <3>1, <2>9
  <2>14. QED
    BY <2>6, <2>12, <2>13
<1>3. QED
  BY <1>1, <1>2

-----------------------------------------------------------------------------
(***************************************************************************)
(* What the variables hold                                                 *)
(***************************************************************************)
LEMMA ProcsAre == \A p \in Procs : p \in Nat /\ p # 0
<1>1. Procs \subseteq Nat \ {0}
  BY ProcsAssumption
<1>2. QED
  BY <1>1

LEMMA WorkersFinite == IsFiniteSet(Workers)
<1>1. \E p \in Procs : \A q \in Procs : q <= p
  BY ProcsAssumption
<1> DEFINE max == CHOOSE p \in Procs : \A q \in Procs : q <= p
<1>2. max \in Procs
  BY <1>1
<1>3. max \in Int
  BY <1>2, ProcsAre
<1>4. Workers = 1..max
  BY DEF Workers
<1> HIDE DEF max
<1>5. QED
  BY <1>3, <1>4, FS_Interval

LEMMA WorkingFinite ==
  /\ Working \subseteq Workers /\ IsFiniteSet(Working) /\ Cardinality(Working) \in Nat
  /\ \A w \in Workers : Busy(w) => Cardinality(Working) >= 1
<1>1. Working \in SUBSET Workers
  BY DEF Working
<1>2. IsFiniteSet(Working)
  BY <1>1, WorkersFinite, FS_Subset
<1>3. Cardinality(Working) \in Nat
  BY <1>2, FS_CardinalityType
<1>4. Cardinality(Working) = 0 <=> Working = {}
  BY <1>2, FS_EmptySet
<1>5. ASSUME NEW w \in Workers, Busy(w) PROVE Cardinality(Working) >= 1
  <2>1. w \in Working
    BY <1>5 DEF Working
  <2>2. QED
    BY <2>1, <1>3, <1>4
<1>6. QED
  BY <1>1, <1>2, <1>3, <1>5

\* The chunks name each task of the run at most once, and none is empty.
LEMMA ChunkFacts ==
  ASSUME PoolTypeOK
  PROVE  /\ DOMAIN groups = 1..Len(groups) /\ Len(groups) \in Nat
         /\ AllChunks \in Seq(Seq(DOMAIN groups)) /\ Len(AllChunks) \in Nat
         /\ DOMAIN AllChunks = 1..Len(AllChunks)
         /\ \A k \in 1..Len(AllChunks) :
              /\ AllChunks[k] # <<>> /\ AllChunks[k] \in Seq(DOMAIN groups)
              /\ \A i, j \in DOMAIN AllChunks[k] : AllChunks[k][i] = AllChunks[k][j] => i = j
         /\ \A k, l \in 1..Len(AllChunks) :
              k # l => ToSet(AllChunks[k]) \cap ToSet(AllChunks[l]) = {}
<1>1. DOMAIN groups = 1..Len(groups) /\ Len(groups) \in Nat
  BY DEF PoolTypeOK
<1>2. procs \in Nat /\ (Len(groups) # 0 => procs # 0)
  <2>1. procs \in Procs \/ (procs = 0 /\ groups = <<>>)
    BY DEF PoolTypeOK
  <2>2. groups = <<>> => Len(groups) = 0
    OBVIOUS
  <2>3. QED
    BY <2>1, <2>2, ProcsAre
<1>3. /\ AllChunks \in Seq(Seq(DOMAIN groups))
      /\ \A k \in DOMAIN AllChunks :
           /\ AllChunks[k] # <<>>
           /\ \A i, j \in DOMAIN AllChunks[k] : AllChunks[k][i] = AllChunks[k][j] => i = j
      /\ \A k, l \in DOMAIN AllChunks :
           k # l => ToSet(AllChunks[k]) \cap ToSet(AllChunks[l]) = {}
  BY <1>1, <1>2, ChunksApart DEF AllChunks
<1>4. Len(AllChunks) \in Nat /\ DOMAIN AllChunks = 1..Len(AllChunks)
  BY <1>3
<1>5. \A k \in 1..Len(AllChunks) : AllChunks[k] \in Seq(DOMAIN groups)
  BY <1>3, <1>4
<1>6. QED
  BY <1>1, <1>3, <1>4, <1>5

\* The group a worker is at, and the tasks in its job.
LEMMA JobFacts ==
  ASSUME PoolTypeOK, NEW w \in Workers, Busy(w)
  PROVE  /\ job[w] \in Seq(DOMAIN groups) /\ job[w] # <<>> /\ Len(job[w]) \in Nat \ {0}
         /\ DOMAIN job[w] = 1..Len(job[w])
         /\ Head(job[w]) = job[w][1] /\ Head(job[w]) \in DOMAIN groups
         /\ Head(job[w]) \in ToSet(job[w])
         /\ Group(w) = groups[Head(job[w])] /\ Group(w) \in Covergroups
<1>1. job[w] \in Seq(DOMAIN groups) /\ job[w] # <<>>
  BY DEF PoolTypeOK, Busy
<1>2. Len(job[w]) \in Nat \ {0} /\ DOMAIN job[w] = 1..Len(job[w])
  BY <1>1
<1>3. Head(job[w]) = job[w][1] /\ job[w][1] \in DOMAIN groups
  BY <1>1, <1>2
<1>4. job[w][1] \in ToSet(job[w])
  BY <1>2 DEF ToSet
<1>5. groups[job[w][1]] \in Covergroups
  BY <1>3 DEF PoolTypeOK
<1>6. QED
  BY <1>1, <1>2, <1>3, <1>4, <1>5 DEF Group

\* A worker has a job only while the driver waits.
LEMMA BusyWaits ==
  ASSUME LeftInv, QueueInv, NEW w \in Workers, Busy(w)
  PROVE  main = "waiting"
<1>1. Cardinality(Working) >= 1 /\ Cardinality(Working) \in Nat
  BY WorkingFinite
<1>2. Len(queue) \in Nat
  BY DEF QueueInv
<1>3. QED
  BY <1>1, <1>2 DEF LeftInv

\* The tasks of the rest of a job.
LEMMA TailTasks ==
  ASSUME NEW S, NEW s \in Seq(S), s # <<>>, \A i, j \in DOMAIN s : s[i] = s[j] => i = j
  PROVE  /\ Tail(s) \in Seq(S) /\ ToSet(Tail(s)) = ToSet(s) \ {Head(s)}
         /\ \A i, j \in DOMAIN Tail(s) : Tail(s)[i] = Tail(s)[j] => i = j
<1>1. Len(s) \in Nat \ {0} /\ DOMAIN s = 1..Len(s) /\ Head(s) = s[1]
  OBVIOUS
<1>2. /\ Tail(s) \in Seq(S) /\ Len(Tail(s)) = Len(s) - 1 /\ DOMAIN Tail(s) = 1..(Len(s) - 1)
      /\ \A i \in 1..(Len(s) - 1) : Tail(s)[i] = s[i + 1]
  BY <1>1
<1>3. \A i, j \in DOMAIN Tail(s) : Tail(s)[i] = Tail(s)[j] => i = j
  <2> TAKE i, j \in DOMAIN Tail(s)
  <2>1. i + 1 \in DOMAIN s /\ j + 1 \in DOMAIN s /\ i \in Int /\ j \in Int
    BY <1>1, <1>2
  <2>2. Tail(s)[i] = s[i + 1] /\ Tail(s)[j] = s[j + 1]
    BY <1>2
  <2>3. QED
    BY <2>1, <2>2
<1>4. ASSUME NEW x \in ToSet(Tail(s))
      PROVE  x \in ToSet(s) /\ x # Head(s)
  <2>1. PICK i \in 1..(Len(s) - 1) : x = Tail(s)[i]
    BY <1>2 DEF ToSet
  <2>2. i + 1 \in DOMAIN s /\ x = s[i + 1] /\ i + 1 # 1
    BY <2>1, <1>1, <1>2
  <2>3. QED
    BY <2>2, <1>1 DEF ToSet
<1>5. ASSUME NEW x \in ToSet(s), x # Head(s)
      PROVE  x \in ToSet(Tail(s))
  <2>1. PICK i \in DOMAIN s : x = s[i]
    BY DEF ToSet
  <2>2. i - 1 \in 1..(Len(s) - 1) /\ (i - 1) + 1 = i
    BY <2>1, <1>1, <1>5
  <2>3. x = Tail(s)[i - 1]
    BY <2>1, <2>2, <1>2
  <2>4. QED
    BY <2>2, <2>3, <1>2 DEF ToSet
<1>6. QED
  BY <1>2, <1>3, <1>4, <1>5

-----------------------------------------------------------------------------
(***************************************************************************)
(* Files                                                                   *)
(***************************************************************************)
\* A step leaves the files of all covergroups but that with label l.
OthersKept(l) == \A f, op : f[1] # l /\ Generated(f, op) => Generated(f, op)'

\* The files of a covergroup carry its label.
LEMMA LabelIs ==
  ASSUME NEW g
  PROVE  /\ \A m : \A f \in Slices(g, m) : f[1] = g.label
         /\ \A kind : Comb(g, kind)[1] = g.label
         /\ \A d \in Due(g) : d[1][1] = g.label
<1>1. \A m : \A f \in Slices(g, m) : f[1] = g.label
  BY DEF Slices
<1>2. \A kind : Comb(g, kind)[1] = g.label
  BY DEF Comb
<1>3. ASSUME NEW d \in DueSlices(g) PROVE d[1][1] = g.label
  <2> DEFINE files(k) == {<<f, g.mnemonics[k].op>> : f \in Slices(g, g.mnemonics[k])}
  <2>1. PICK k \in LastOf(g) : d \in files(k)
    BY <1>3 DEF DueSlices
  <2>2. QED
    BY <2>1, <1>1
<1>4. ASSUME NEW d \in DueCombs(g) PROVE d[1][1] = g.label
  BY <1>4, <1>2 DEF DueCombs
<1>5. QED
  BY <1>1, <1>2, <1>3, <1>4 DEF Due

\* What a covergroup has stays with the files of its label.
LEMMA KeptOf ==
  ASSUME NEW CONSTANT g, \A f, op : f[1] = g.label /\ Generated(f, op) => Generated(f, op)'
  PROVE  /\ TaskDone(g) => TaskDone(g)'
         /\ \A step : Progress(g, step) => Progress(g, step)'
<1>1. \A f, op : f[1] = g.label /\ Generated(f, op) => Generated(f, op)'
  OBVIOUS
<1>2. ASSUME TaskDone(g) PROVE TaskDone(g)'
  <2>1. \A d \in Due(g) : d[1][1] = g.label
    BY LabelIs
  <2>2. QED
    BY <1>1, <1>2, <2>1 DEF TaskDone
<1>3. \A m : \A f \in Slices(g, m) : \A op : Generated(f, op) => Generated(f, op)'
  BY <1>1, LabelIs
<1>4. \A kind, op : Generated(Comb(g, kind), op) => Generated(Comb(g, kind), op)'
  BY <1>1, LabelIs
<1>5. ASSUME NEW step, Progress(g, step) PROVE Progress(g, step)'
  <2>1. \A k : SlicesOfFirst(g, k) => SlicesOfFirst(g, k)'
    BY <1>3 DEF SlicesOfFirst
  <2>2. AllSlices(g) => AllSlices(g)'
    <3>1. \A d \in DueSlices(g) : d[1][1] = g.label
      BY LabelIs DEF Due
    <3>2. QED
      BY <1>1, <3>1 DEF AllSlices
  <2>3. QED
    BY <1>4, <1>5, <2>1, <2>2 DEF Progress
<1>6. QED
  BY <1>2, <1>5

LEMMA KeptFor ==
  ASSUME NEW CONSTANT g, NEW CONSTANT l, g.label # l, OthersKept(l)
  PROVE  /\ TaskDone(g) => TaskDone(g)'
         /\ \A step : Progress(g, step) => Progress(g, step)'
<1>1. \A f, op : f[1] = g.label /\ Generated(f, op) => Generated(f, op)'
  BY DEF OthersKept
<1>2. QED
  BY <1>1, KeptOf

\* Writing files leaves all others, and those written are of the operation.
LEMMA WrittenIs ==
  ASSUME NEW CONSTANT files, NEW CONSTANT op, out' = Written(files, op), run' = run
  PROVE  /\ \A f \in files : Generated(f, op)'
         /\ \A f, o : f \notin files /\ Generated(f, o) => Generated(f, o)'
         /\ \A l : (\A f \in files : f[1] = l) => OthersKept(l)
<1>1. /\ DOMAIN out' = DOMAIN out \cup files
      /\ \A f \in DOMAIN out \cup files :
           out'[f] = IF f \in files THEN [op |-> op, run |-> run] ELSE out[f]
  BY DEF Written
<1>2. \A f \in files : Generated(f, op)'
  BY <1>1 DEF Generated
<1>3. \A f, o : f \notin files /\ Generated(f, o) => Generated(f, o)'
  BY <1>1 DEF Generated
<1>4. \A l : (\A f \in files : f[1] = l) => OthersKept(l)
  BY <1>3 DEF OthersKept
<1>5. QED
  BY <1>2, <1>3, <1>4

LEMMA NothingWritten ==
  ASSUME UNCHANGED out, run' = run
  PROVE  /\ \A l : OthersKept(l)
         /\ \A f, o : Generated(f, o) => Generated(f, o)'
<1>1. \A f, o : Generated(f, o) => Generated(f, o)'
  BY DEF Generated
<1>2. QED
  BY <1>1 DEF OthersKept

\* The tasks of a chunk that was taken.
LEMMA ChunkTasks ==
  ASSUME PoolTypeOK, QueueInv, NEW k \in 1..Taken
  PROVE  /\ k \in 1..Len(AllChunks) /\ Taken \in Nat
         /\ \A i \in ToSet(AllChunks[k]) : i \in DOMAIN groups
         /\ \A l \in 1..Taken : \A i \in ToSet(AllChunks[k]) : i \in ToSet(AllChunks[l]) => k = l
<1>1. Len(queue) \in Nat /\ Len(AllChunks) \in Nat /\ Len(queue) <= Len(AllChunks)
  BY ChunkFacts DEF QueueInv
<1>2. Taken \in Nat /\ Taken <= Len(AllChunks)
  BY <1>1 DEF Taken
<1>3. k \in 1..Len(AllChunks) /\ \A l \in 1..Taken : l \in 1..Len(AllChunks)
  BY <1>1, <1>2
<1>4. AllChunks[k] \in Seq(DOMAIN groups)
  BY <1>3, ChunkFacts
<1>5. \A i \in ToSet(AllChunks[k]) : i \in DOMAIN groups
  <2>1. \A j \in DOMAIN AllChunks[k] : AllChunks[k][j] \in DOMAIN groups
    BY <1>4
  <2>2. QED
    BY <2>1 DEF ToSet
<1>6. \A l \in 1..Taken : \A i \in ToSet(AllChunks[k]) : i \in ToSet(AllChunks[l]) => k = l
  BY <1>3, ChunkFacts
<1>7. QED
  BY <1>2, <1>3, <1>5, <1>6

-----------------------------------------------------------------------------
(***************************************************************************)
(* Steps of the workers                                                    *)
(***************************************************************************)
\* Another task, and the task of another worker, have another label.
LEMMA OtherLabels ==
  ASSUME PoolTypeOK, JobInv, NEW w \in Workers, Busy(w)
  PROVE  /\ \A i \in DOMAIN groups : i # Head(job[w]) => groups[i].label # Group(w).label
         /\ \A v \in Workers : v # w /\ Busy(v) => Group(v).label # Group(w).label
<1>1. \A i \in DOMAIN groups : i # Head(job[w]) => groups[i].label # Group(w).label
  BY JobFacts DEF PoolTypeOK
<1>2. ASSUME NEW v \in Workers, v # w, Busy(v)
      PROVE  Group(v).label # Group(w).label
  <2>1. /\ Head(job[v]) \in ToSet(job[v]) /\ Head(job[w]) \in ToSet(job[w])
        /\ Head(job[v]) \in DOMAIN groups /\ Group(v) = groups[Head(job[v])]
    BY <1>2, JobFacts
  <2>2. ToSet(job[v]) \cap ToSet(job[w]) = {}
    BY <1>2 DEF JobInv
  <2>3. Head(job[v]) # Head(job[w])
    BY <2>1, <2>2
  <2>4. QED
    BY <1>1, <2>1, <2>3
<1>3. QED
  BY <1>1, <1>2

\* A task goes on to its next step.
LEMMA GoOnInv ==
  ASSUME PoolIInv, NEW CONSTANT w \in Workers, Busy(w), NEW CONSTANT next, GoOn(w, next),
         NEW CONSTANT g, g = Group(w), OthersKept(g.label),
         Clean(g) => Progress(g, next)'
  PROVE  PoolIInv'
<1> USE DEF PoolIInv
<1>1. /\ UNCHANGED <<run, main, groups, procs, queue, left, job>>
      /\ at' = [at EXCEPT ![w] = next]
  BY DEF GoOn, poolVars
<1>2. /\ AllChunks' = AllChunks /\ Taken' = Taken /\ Working' = Working
      /\ \A x \in Workers : Busy(x)' = Busy(x) /\ Group(x)' = Group(x)
  BY <1>1 DEF AllChunks, Taken, Working, Busy, Group
<1>3. DOMAIN at = Workers
  BY DEF PoolTypeOK
<1>4. at'[w] = next /\ \A x \in Workers : x # w => at'[x] = at[x]
  BY <1>1, <1>3
<1>5. PoolTypeOK'
  BY <1>1, <1>3 DEF PoolTypeOK
<1>6. QueueInv'
  BY <1>1, <1>2 DEF QueueInv
<1>7. JobInv'
  BY <1>1, <1>2, <1>4 DEF JobInv
<1>8. LeftInv'
  BY <1>1, <1>2 DEF LeftInv
<1>9. TaskInv'
  <2> SUFFICES ASSUME left = Len(queue) + Cardinality(Working), NEW CONSTANT k \in 1..Taken,
                      \A i \in ToSet(AllChunks[k]) : Clean(groups[i]),
                      NEW CONSTANT i \in ToSet(AllChunks[k]),
                      \A x \in Workers : i \notin ToSet(job[x])
               PROVE  TaskDone(groups[i])'
    BY <1>1, <1>2 DEF TaskInv
  <2>1. TaskDone(groups[i])
    BY DEF TaskInv
  <2>2. i \in DOMAIN groups
    BY ChunkTasks
  <2>3. i # Head(job[w])
    BY JobFacts
  <2>4. PICK h : h = groups[i]
    OBVIOUS
  <2>5. h.label # g.label
    BY <2>2, <2>3, <2>4, OtherLabels
  <2>6. TaskDone(h)'
    BY <2>1, <2>4, <2>5, KeptFor
  <2>7. QED
    BY <2>4, <2>6, <1>1
<1>10. ProgressInv'
  <2> SUFFICES ASSUME NEW CONSTANT x \in Workers, Busy(x), Clean(Group(x))
               PROVE  Progress(Group(x), at[x])'
    BY <1>2 DEF ProgressInv
  <2>1. PICK h : h = Group(x)
    OBVIOUS
  <2>2. PICK step : step = at[x]
    OBVIOUS
  <2>3. CASE x = w
    BY <2>3, <2>1, <1>2, <1>4
  <2>4. CASE x # w
    <3>1. Progress(h, step)
      BY <2>1, <2>2 DEF ProgressInv
    <3>2. h.label # g.label
      BY <2>1, <2>4, OtherLabels
    <3>3. Progress(h, step)'
      BY <3>1, <3>2, KeptFor
    <3>4. QED
      BY <3>3, <2>1, <2>2, <2>4, <1>2, <1>4
  <2>5. QED
    BY <2>3, <2>4
<1>11. QED
  BY <1>5, <1>6, <1>7, <1>8, <1>9, <1>10

\* The number of workers with a job, after the job of one worker has changed.
LEMMA WorkingIs ==
  ASSUME PoolTypeOK, NEW CONSTANT w \in Workers, NEW CONSTANT rest,
         job' = [job EXCEPT ![w] = rest]
  PROVE  /\ job'[w] = rest /\ \A x \in Workers : x # w => job'[x] = job[x]
         /\ (rest # <<>>) = Busy(w) => Cardinality(Working)' = Cardinality(Working)
         /\ Busy(w) /\ rest = <<>> => Cardinality(Working)' = Cardinality(Working) - 1
         /\ ~ Busy(w) /\ rest # <<>> => Cardinality(Working)' = Cardinality(Working) + 1
<1>1. DOMAIN job = Workers
  BY DEF PoolTypeOK
<1>2. job'[w] = rest /\ \A x \in Workers : x # w => job'[x] = job[x]
  BY <1>1
<1>3. /\ \A x \in Workers : x # w => Busy(x)' = Busy(x)
      /\ Busy(w)' = (rest # <<>>)
  BY <1>2 DEF Busy
<1>4. IsFiniteSet(Working)
  BY WorkingFinite
<1>5. CASE (rest # <<>>) = Busy(w)
  <2>1. Working' = Working
    BY <1>3, <1>5 DEF Working
  <2>2. QED
    BY <2>1, <1>2, <1>5
<1>6. CASE Busy(w) /\ rest = <<>>
  <2>1. Working' = Working \ {w} /\ w \in Working
    BY <1>3, <1>6 DEF Working
  <2>2. Cardinality(Working \ {w}) = Cardinality(Working) - 1
    BY <2>1, <1>4, FS_RemoveElement
  <2>3. QED
    BY <2>1, <2>2, <1>2, <1>6
<1>7. CASE ~ Busy(w) /\ rest # <<>>
  <2>1. Working' = Working \cup {w} /\ w \notin Working
    BY <1>3, <1>7 DEF Working
  <2>2. Cardinality(Working \cup {w}) = Cardinality(Working) + 1
    BY <2>1, <1>4, FS_AddElement
  <2>3. QED
    BY <2>1, <2>2, <1>2, <1>7
<1>8. QED
  BY <1>5, <1>6, <1>7 DEF Busy

\* A task ends: it returns, raises an exception, or its worker exits.
LEMMA EndInv ==
  ASSUME PoolIInv, NEW CONSTANT w \in Workers, Busy(w), NEW CONSTANT rest,
         rest = <<>> \/ rest = Tail(job[w]),
         job' = [job EXCEPT ![w] = rest], at' = [at EXCEPT ![w] = AtStart],
         UNCHANGED <<run, main, groups, procs, queue>>,
         NEW CONSTANT g, g = Group(w), OthersKept(g.label),
         \/ rest = <<>> /\ left' = left
         \/ /\ left' = IF rest = <<>> THEN left - 1 ELSE left
            /\ ~ Clean(g) \/ (rest = Tail(job[w]) /\ (Clean(g) => TaskDone(g)'))
  PROVE  PoolIInv'
<1> USE DEF PoolIInv
<1>1. /\ AllChunks' = AllChunks /\ Taken' = Taken
      /\ main = "waiting" /\ main' = "waiting"
  BY BusyWaits DEF AllChunks, Taken
<1>2. DOMAIN at = Workers /\ DOMAIN job = Workers
  BY DEF PoolTypeOK
<1>3. /\ at'[w] = AtStart /\ \A x \in Workers : x # w => at'[x] = at[x]
      /\ job'[w] = rest /\ \A x \in Workers : x # w => job'[x] = job[x]
  BY <1>2
<1>4. /\ Tail(job[w]) \in Seq(DOMAIN groups)
      /\ ToSet(Tail(job[w])) = ToSet(job[w]) \ {Head(job[w])}
      /\ \A i, j \in DOMAIN Tail(job[w]) : Tail(job[w])[i] = Tail(job[w])[j] => i = j
  BY JobFacts, TailTasks DEF JobInv
<1>5. /\ rest \in Seq(DOMAIN groups) /\ ToSet(rest) \subseteq ToSet(job[w])
      /\ \A i, j \in DOMAIN rest : rest[i] = rest[j] => i = j
  <2>1. CASE rest = <<>>
    BY <2>1 DEF ToSet
  <2>2. CASE rest = Tail(job[w])
    BY <2>2, <1>4
  <2>3. QED
    BY <2>1, <2>2
<1>6. PoolTypeOK'
  <2>1. job' \in [Workers -> Seq(DOMAIN groups)]
    BY <1>5 DEF PoolTypeOK
  <2>2. at' = [x \in Workers |-> at'[x]]
    BY <1>2
  <2>3. QED
    BY <2>1, <2>2 DEF PoolTypeOK
<1>7. QueueInv'
  BY <1>1 DEF QueueInv
<1>8. \A x \in Workers : ToSet(job'[x]) \subseteq ToSet(job[x]) /\ (Busy(x)' => Busy(x))
  BY <1>3, <1>5 DEF Busy
<1>9. JobInv'
  <2>1. \A x \in Workers : Busy(x)' =>
          \E k \in 1..Taken : ToSet(job'[x]) \subseteq ToSet(AllChunks[k])
    BY <1>8 DEF JobInv
  <2>2. \A x \in Workers : \A i, j \in DOMAIN job'[x] : job'[x][i] = job'[x][j] => i = j
    <3> TAKE x \in Workers
    <3>1. CASE x = w
      BY <3>1, <1>3, <1>5
    <3>2. CASE x # w
      BY <3>2, <1>3 DEF JobInv
    <3>3. QED
      BY <3>1, <3>2
  <2>3. \A v, x \in Workers : v # x => ToSet(job'[v]) \cap ToSet(job'[x]) = {}
    BY <1>8 DEF JobInv
  <2>4. \A x \in Workers : ~ Busy(x)' => at'[x] = AtStart
    BY <1>3 DEF JobInv, Busy
  <2>5. QED
    BY <2>1, <2>2, <2>3, <2>4, <1>1 DEF Busy, JobInv
<1>10. /\ rest # <<>> => Cardinality(Working)' = Cardinality(Working)
       /\ rest = <<>> => Cardinality(Working)' = Cardinality(Working) - 1
       /\ Cardinality(Working) \in Nat /\ Cardinality(Working) >= 1
       /\ Len(queue) \in Nat /\ left \in Nat /\ left >= Len(queue) + Cardinality(Working)
  <2>1. /\ Cardinality(Working) \in Nat /\ Cardinality(Working) >= 1
        /\ Len(queue) \in Nat /\ left \in Nat /\ left >= Len(queue) + Cardinality(Working)
    BY WorkingFinite DEF QueueInv, LeftInv
  <2>2. QED
    BY <2>1, WorkingIs
<1>11. LeftInv'
  <2>1. left' = left \/ (rest = <<>> /\ left' = left - 1)
    OBVIOUS
  <2>2. left' \in Nat /\ left' >= Len(queue') + Cardinality(Working)'
    BY <2>1, <1>10
  <2>3. QED
    BY <2>2, <1>1 DEF LeftInv
<1>12. TaskInv'
  <2> SUFFICES ASSUME left' = Len(queue') + Cardinality(Working)', NEW CONSTANT k \in 1..Taken,
                      \A i \in ToSet(AllChunks[k]) : Clean(groups[i]),
                      NEW CONSTANT i \in ToSet(AllChunks[k]),
                      \A x \in Workers : i \notin ToSet(job'[x])
               PROVE  TaskDone(groups[i])'
    BY <1>1 DEF TaskInv
  <2>1. /\ left' = IF rest = <<>> THEN left - 1 ELSE left
        /\ ~ Clean(g) \/ (rest = Tail(job[w]) /\ (Clean(g) => TaskDone(g)'))
    <3>1. CASE rest = <<>> /\ left' = left
      BY <3>1, <1>10
    <3>2. QED
      BY <3>1
  <2>2. left = Len(queue) + Cardinality(Working)
    BY <2>1, <1>10
  <2>3. i \in DOMAIN groups
    BY ChunkTasks
  <2>4. PICK h : h = groups[i]
    OBVIOUS
  <2>5. i \in ToSet(job[w]) => Clean(g)
    <3> SUFFICES ASSUME i \in ToSet(job[w]) PROVE Clean(g)
      OBVIOUS
    <3>1. PICK l \in 1..Taken : ToSet(job[w]) \subseteq ToSet(AllChunks[l])
      BY DEF JobInv
    <3>2. k = l
      BY <3>1, ChunkTasks
    <3>3. Head(job[w]) \in ToSet(AllChunks[k])
      BY <3>1, <3>2, JobFacts
    <3>4. QED
      BY <3>3, JobFacts
  <2>6. CASE i = Head(job[w])
    <3>1. Clean(g) /\ g = groups[i]
      BY <2>5, <2>6, JobFacts
    <3>2. TaskDone(g)'
      BY <3>1, <2>1
    <3>3. QED
      BY <3>1, <3>2
  <2>7. CASE i # Head(job[w])
    <3>1. i \notin ToSet(job[w])
      <4>1. CASE Clean(g)
        BY <4>1, <2>1, <2>7, <1>3, <1>4
      <4>2. CASE ~ Clean(g)
        BY <4>2, <2>5
      <4>3. QED
        BY <4>1, <4>2
    <3>2. \A x \in Workers : i \notin ToSet(job[x])
      BY <3>1, <1>3
    <3>3. TaskDone(groups[i])
      BY <3>2, <2>2 DEF TaskInv
    <3>4. h.label # g.label
      BY <2>3, <2>4, <2>7, OtherLabels
    <3>5. TaskDone(h)'
      BY <2>4, <3>3, <3>4, KeptFor
    <3>6. QED
      BY <2>4, <3>5
  <2>8. QED
    BY <2>6, <2>7
<1>13. ProgressInv'
  <2> SUFFICES ASSUME NEW CONSTANT x \in Workers, Busy(x)', Clean(Group(x)')
               PROVE  Progress(Group(x), at[x])'
    BY DEF ProgressInv
  <2>1. PICK h : h = Group(x)'
    OBVIOUS
  <2>2. CASE x = w
    <3>1. at'[x] = AtStart
      BY <2>2, <1>3
    <3>2. Progress(h, AtStart)'
      BY DEF Progress, AtStart, Step
    <3>3. QED
      BY <2>1, <3>1, <3>2
  <2>3. CASE x # w
    <3>1. /\ job'[x] = job[x] /\ at'[x] = at[x] /\ Busy(x)
      BY <2>3, <1>3, <1>8
    <3>2. h = Group(x)
      BY <2>1, <3>1 DEF Group
    <3>3. PICK step : step = at[x]
      OBVIOUS
    <3>4. Progress(h, step)
      BY <3>1, <3>2, <3>3, <2>1 DEF ProgressInv
    <3>5. h.label # g.label
      BY <2>3, <3>1, <3>2, OtherLabels
    <3>6. Progress(h, step)'
      BY <3>4, <3>5, KeptFor
    <3>7. QED
      BY <2>1, <3>1, <3>3, <3>6
  <2>4. QED
    BY <2>2, <2>3
<1>14. QED
  BY <1>6, <1>7, <1>9, <1>11, <1>12, <1>13

-----------------------------------------------------------------------------
(***************************************************************************)
(* Steps of the driver                                                     *)
(***************************************************************************)
LEMMA InitInv == Init => PoolIInv
<1> SUFFICES ASSUME Init PROVE PoolIInv
  OBVIOUS
<1> USE DEF Init
<1>1. AllChunks = <<>>
  BY DEF AllChunks, Chunks
<1>2. Working = {} /\ Cardinality(Working) = 0
  <2>1. Working = {}
    BY DEF Working, Busy
  <2>2. QED
    BY <2>1, FS_EmptySet
<1>3. /\ Len(queue) = 0 /\ Len(AllChunks) = 0 /\ Taken = 0 /\ DOMAIN queue = {}
  BY <1>1 DEF Taken
<1>4. PoolTypeOK
  BY DEF PoolTypeOK
<1>5. QueueInv
  BY <1>3 DEF QueueInv
<1>6. JobInv
  BY DEF JobInv, Busy, ToSet
<1>7. LeftInv
  BY <1>2, <1>3 DEF LeftInv
<1>8. TaskInv
  BY <1>3 DEF TaskInv
<1>9. ProgressInv
  BY DEF ProgressInv, Busy
<1>10. QED
  BY <1>4, <1>5, <1>6, <1>7, <1>8, <1>9 DEF PoolIInv

\* The lists of tasks are of covergroups with labels of their own.
LEMMA ArgsListIs ==
  ASSUME NEW list \in AllArgsLists
  PROVE  /\ list \in Seq(Covergroups)
         /\ \A i, j \in DOMAIN list : list[i].label = list[j].label => i = j
<1>1. PICK cgf \in Cgfs, labels \in Filters : list \in ArgsLists(cgf, labels)
  BY DEF AllArgsLists
<1> DEFINE kept == {i \in DOMAIN cgf : cgf[i].label \in labels}
           size == Cardinality(kept)
<1>2. PICK f \in [1..size -> kept] :
        /\ \A j, k \in 1..size : j < k => f[j] < f[k]
        /\ list = [k \in 1..size |-> cgf[f[k]]]
  BY <1>1 DEF ArgsLists
<1>3. cgf \in Seq(Covergroups) /\ \A i, j \in DOMAIN cgf : cgf[i].label = cgf[j].label => i = j
  BY CgfAssumption
<1>4. kept \subseteq 1..Len(cgf) /\ DOMAIN cgf = 1..Len(cgf) /\ Len(cgf) \in Nat
  BY <1>3
<1>5. size \in Nat
  <2>1. IsFiniteSet(1..Len(cgf))
    BY <1>4, FS_Interval
  <2>2. IsFiniteSet(kept)
    BY <2>1, <1>4, FS_Subset
  <2> HIDE DEF kept
  <2>3. QED
    BY <2>2, FS_CardinalityType
<1> HIDE DEF size, kept
<1>6. \A k \in 1..size : f[k] \in 1..Len(cgf)
  BY <1>2, <1>4
<1>7. list \in [1..size -> Covergroups]
  BY <1>2, <1>3, <1>4, <1>6
<1>8. list \in Seq(Covergroups) /\ DOMAIN list = 1..size
  BY <1>5, <1>7
<1>9. ASSUME NEW i \in 1..size, NEW j \in 1..size, list[i].label = list[j].label
      PROVE  i = j
  <2>1. list[i] = cgf[f[i]] /\ list[j] = cgf[f[j]]
    BY <1>2
  <2>2. f[i] = f[j]
    BY <2>1, <1>9, <1>3, <1>4, <1>6
  <2>3. f[i] \in Int /\ f[j] \in Int /\ i \in Int /\ j \in Int
    BY <1>4, <1>5, <1>6
  <2>4. CASE i < j
    BY <2>4, <2>2, <2>3, <1>2
  <2>5. CASE j < i
    BY <2>5, <2>2, <2>3, <1>2
  <2>6. QED
    BY <2>3, <2>4, <2>5
<1>10. QED
  BY <1>8, <1>9

\* When all chunks have returned, no worker has a job.
LEMMA NoneWorks ==
  ASSUME LeftInv, QueueInv, left = 0
  PROVE  /\ \A w \in Workers : job[w] = <<>>
         /\ Working = {} /\ Cardinality(Working) = 0
<1>1. /\ Cardinality(Working) \in Nat /\ Len(queue) \in Nat
      /\ left >= Len(queue) + Cardinality(Working)
  BY WorkingFinite DEF LeftInv, QueueInv
<1>2. Cardinality(Working) = 0
  BY <1>1
<1>3. \A w \in Workers : ~ Busy(w)
  BY <1>2, WorkingFinite
<1>4. QED
  BY <1>2, <1>3 DEF Busy, Working

LEMMA StartInv ==
  ASSUME PoolIInv, Start
  PROVE  PoolIInv'
<1> USE DEF PoolIInv
<1>1. /\ main # "waiting" /\ run' = run + 1 /\ main' = "waiting" /\ procs' \in Procs
      /\ groups' \in AllArgsLists
      /\ queue' = Chunks(Len(groups'), procs') /\ left' = Len(queue')
      /\ job' = job /\ at' = at
  BY DEF Start
<1>2. \A w \in Workers : job[w] = <<>> /\ at[w] = AtStart /\ ~ Busy(w) /\ ~ Busy(w)'
  BY <1>1, NoneWorks DEF JobInv, LeftInv, Busy
<1>3. PoolTypeOK'
  <2>1. /\ groups' \in Seq(Covergroups)
        /\ \A i, j \in DOMAIN groups' : groups'[i].label = groups'[j].label => i = j
    BY <1>1, ArgsListIs
  <2>2. job' \in [Workers -> Seq(DOMAIN groups')]
    BY <1>1, <1>2 DEF PoolTypeOK
  <2>3. QED
    BY <2>1, <2>2, <1>1 DEF PoolTypeOK
<1>4. queue' = AllChunks'
  BY <1>1 DEF AllChunks
<1>5. /\ AllChunks' \in Seq(Seq(DOMAIN groups')) /\ Len(AllChunks') \in Nat
      /\ DOMAIN AllChunks' = 1..Len(AllChunks')
  <2>1. procs' \in Nat /\ procs' # 0 /\ Len(groups') \in Nat /\ DOMAIN groups' = 1..Len(groups')
    BY <1>1, <1>3, ProcsAre DEF PoolTypeOK
  <2>2. AllChunks' \in Seq(Seq(DOMAIN groups'))
    BY <2>1, ChunksApart DEF AllChunks
  <2>3. QED
    BY <2>2
<1>6. Taken' = 0
  BY <1>4, <1>5 DEF Taken
<1>7. QueueInv'
  <2>1. \A k \in DOMAIN queue' : queue'[k] = AllChunks'[Taken' + k]
    BY <1>4, <1>5, <1>6
  <2>2. QED
    BY <2>1, <1>4, <1>5 DEF QueueInv
<1>8. JobInv'
  BY <1>1, <1>2 DEF JobInv, ToSet
<1>9. Working' = {} /\ Cardinality(Working') = 0
  <2>1. Working' = {}
    BY <1>2 DEF Working
  <2>2. QED
    BY <2>1, FS_EmptySet
<1>10. LeftInv'
  BY <1>1, <1>4, <1>5, <1>9 DEF LeftInv
<1>11. TaskInv'
  BY <1>6 DEF TaskInv
<1>12. ProgressInv'
  BY <1>2 DEF ProgressInv
<1>13. QED
  BY <1>3, <1>7, <1>8, <1>10, <1>11, <1>12

LEMMA ReturnInv ==
  ASSUME PoolIInv, Return
  PROVE  PoolIInv'
<1> USE DEF PoolIInv
<1>1. /\ left = 0 /\ main' \in {"raised", "done"}
      /\ UNCHANGED <<run, groups, procs, queue, left, job, at, out>>
  BY DEF Return, poolVars
<1>2. /\ AllChunks' = AllChunks /\ Taken' = Taken /\ Working' = Working
      /\ \A x \in Workers : Busy(x)' = Busy(x) /\ Group(x)' = Group(x)
  BY <1>1 DEF AllChunks, Taken, Working, Busy, Group
<1>3. \A f, o : Generated(f, o)' = Generated(f, o)
  BY <1>1 DEF Generated
<1>4. PoolTypeOK'
  BY <1>1 DEF PoolTypeOK
<1>5. QueueInv'
  BY <1>1, <1>2 DEF QueueInv
<1>6. JobInv'
  BY <1>1, <1>2 DEF JobInv
<1>7. LeftInv'
  BY <1>1, <1>2 DEF LeftInv
<1>8. TaskInv'
  <2> SUFFICES ASSUME left = Len(queue) + Cardinality(Working), NEW CONSTANT k \in 1..Taken,
                      \A i \in ToSet(AllChunks[k]) : Clean(groups[i]),
                      NEW CONSTANT i \in ToSet(AllChunks[k]),
                      \A x \in Workers : i \notin ToSet(job[x])
               PROVE  TaskDone(groups[i])'
    BY <1>1, <1>2 DEF TaskInv
  <2>1. PICK h : h = groups[i]
    OBVIOUS
  <2>2. TaskDone(h)
    BY <2>1 DEF TaskInv
  <2>3. TaskDone(h)'
    BY <2>2, <1>3, KeptOf
  <2>4. QED
    BY <2>1, <2>3, <1>1
<1>9. ProgressInv'
  <2>1. \A x \in Workers : ~ Busy(x)'
    BY <1>1, <1>2, NoneWorks DEF Busy
  <2>2. QED
    BY <2>1 DEF ProgressInv
<1>10. QED
  BY <1>4, <1>5, <1>6, <1>7, <1>8, <1>9

LEMMA TakeInv ==
  ASSUME PoolIInv, NEW CONSTANT w \in Workers, Take(w)
  PROVE  PoolIInv'
<1> USE DEF PoolIInv
<1>1. PICK c : c = Head(queue)
  OBVIOUS
<1>2. /\ main = "waiting" /\ ~ Busy(w) /\ queue # <<>>
      /\ job' = [job EXCEPT ![w] = c] /\ queue' = Tail(queue)
      /\ UNCHANGED <<run, main, groups, procs, left, at, out>>
  BY <1>1 DEF Take, Busy
<1>3. /\ Len(queue) \in Nat \ {0} /\ DOMAIN queue = 1..Len(queue) /\ c = queue[1]
      /\ queue' \in Seq(Seq(DOMAIN groups)) /\ Len(queue') = Len(queue) - 1
      /\ DOMAIN queue' = 1..(Len(queue) - 1)
      /\ \A k \in 1..(Len(queue) - 1) : queue'[k] = queue[k + 1]
  BY <1>1, <1>2 DEF QueueInv
<1>4. /\ Taken \in Nat /\ Taken + 1 \in 1..Len(AllChunks) /\ c = AllChunks[Taken + 1]
      /\ Len(AllChunks) \in Nat /\ Taken + Len(queue) = Len(AllChunks)
  <2>1. Len(AllChunks) \in Nat /\ Len(queue) <= Len(AllChunks)
    BY ChunkFacts DEF QueueInv
  <2>2. Taken \in Nat /\ Taken + 1 <= Len(AllChunks) /\ Taken + Len(queue) = Len(AllChunks)
    BY <2>1, <1>3 DEF Taken
  <2>3. c = AllChunks[Taken + 1]
    BY <1>3 DEF QueueInv
  <2>4. QED
    BY <2>1, <2>2, <2>3
<1>5. /\ c # <<>> /\ c \in Seq(DOMAIN groups) /\ \A i, j \in DOMAIN c : c[i] = c[j] => i = j
  BY <1>4, ChunkFacts
<1>6. /\ AllChunks' = AllChunks /\ Taken' = Taken + 1
      /\ \A x \in Workers : x # w => Busy(x)' = Busy(x) /\ Group(x)' = Group(x)
      /\ Busy(w)' /\ job'[w] = c /\ \A x \in Workers : x # w => job'[x] = job[x]
  <2>1. AllChunks' = AllChunks
    BY <1>2 DEF AllChunks
  <2>2. Taken' = Taken + 1
    BY <2>1, <1>3, <1>4 DEF Taken
  <2>3. job'[w] = c /\ \A x \in Workers : x # w => job'[x] = job[x]
    BY <1>2, WorkingIs
  <2>4. QED
    BY <2>1, <2>2, <2>3, <1>2, <1>5 DEF Busy, Group
<1>7. \A f, o : Generated(f, o) => Generated(f, o)'
  BY <1>2 DEF Generated
<1>8. PoolTypeOK'
  BY <1>2, <1>5 DEF PoolTypeOK
<1>9. QueueInv'
  <2>1. \A k \in 1..(Len(queue) - 1) : queue'[k] = AllChunks[Taken + 1 + k]
    <3> TAKE k \in 1..(Len(queue) - 1)
    <3>1. k + 1 \in DOMAIN queue /\ Taken + (k + 1) = Taken + 1 + k
      BY <1>3, <1>4
    <3>2. QED
      BY <3>1, <1>3 DEF QueueInv
  <2>2. Len(queue') <= Len(AllChunks)
    BY <1>3, <1>4
  <2>3. QED
    BY <2>1, <2>2, <1>2, <1>3, <1>6 DEF QueueInv
<1>10. JobInv'
  <2>1. \A x \in Workers : Busy(x)' =>
          \E k \in 1..(Taken + 1) : ToSet(job'[x]) \subseteq ToSet(AllChunks[k])
    <3> SUFFICES ASSUME NEW x \in Workers, Busy(x)'
                 PROVE  \E k \in 1..(Taken + 1) : ToSet(job'[x]) \subseteq ToSet(AllChunks[k])
      OBVIOUS
    <3>1. CASE x = w
      BY <3>1, <1>4, <1>6
    <3>2. CASE x # w
      <4>1. PICK k \in 1..Taken : ToSet(job[x]) \subseteq ToSet(AllChunks[k])
        BY <3>2, <1>6 DEF JobInv
      <4>2. k \in 1..(Taken + 1) /\ job'[x] = job[x]
        BY <3>2, <1>4, <1>6
      <4>3. QED
        BY <4>1, <4>2
    <3>3. QED
      BY <3>1, <3>2
  <2>2. \A x \in Workers : \A i, j \in DOMAIN job'[x] : job'[x][i] = job'[x][j] => i = j
    <3> TAKE x \in Workers
    <3>1. CASE x = w
      BY <3>1, <1>5, <1>6
    <3>2. CASE x # w
      BY <3>2, <1>6 DEF JobInv
    <3>3. QED
      BY <3>1, <3>2
  <2>3. \A x \in Workers : x # w => ToSet(job[x]) \cap ToSet(c) = {}
    <3> SUFFICES ASSUME NEW x \in Workers, x # w PROVE ToSet(job[x]) \cap ToSet(c) = {}
      OBVIOUS
    <3>1. CASE Busy(x)
      <4>1. PICK k \in 1..Taken : ToSet(job[x]) \subseteq ToSet(AllChunks[k])
        BY <3>1 DEF JobInv
      <4>2. k \in 1..Len(AllChunks) /\ k # Taken + 1
        BY <1>4
      <4>3. ToSet(AllChunks[k]) \cap ToSet(c) = {}
        BY <4>2, <1>4, ChunkFacts
      <4>4. QED
        BY <4>1, <4>3
    <3>2. CASE ~ Busy(x)
      BY <3>2 DEF Busy, ToSet
    <3>3. QED
      BY <3>1, <3>2
  <2>4. \A v, x \in Workers : v # x => ToSet(job'[v]) \cap ToSet(job'[x]) = {}
    <3> TAKE v, x \in Workers
    <3>1. CASE v # w /\ x # w
      BY <3>1, <1>6 DEF JobInv
    <3>2. CASE v = w /\ x # w
      BY <3>2, <2>3, <1>6
    <3>3. CASE v # w /\ x = w
      BY <3>3, <2>3, <1>6
    <3>4. QED
      BY <3>1, <3>2, <3>3
  <2>5. \A x \in Workers : ~ Busy(x)' => at'[x] = AtStart
    BY <1>2, <1>6 DEF JobInv
  <2>6. QED
    BY <2>1, <2>2, <2>4, <2>5, <1>6 DEF JobInv
<1>11. /\ Cardinality(Working)' = Cardinality(Working) + 1 /\ Cardinality(Working) \in Nat
       /\ left \in Nat
  BY <1>2, <1>5, WorkingIs, WorkingFinite DEF LeftInv
<1>12. LeftInv'
  <2>1. left' >= Len(queue') + Cardinality(Working)'
    BY <1>2, <1>3, <1>11 DEF LeftInv
  <2>2. QED
    BY <2>1, <1>2, <1>11 DEF LeftInv
<1>13. TaskInv'
  <2> SUFFICES ASSUME left' = Len(queue') + Cardinality(Working)', NEW CONSTANT k \in 1..(Taken + 1),
                      \A i \in ToSet(AllChunks[k]) : Clean(groups[i]),
                      NEW CONSTANT i \in ToSet(AllChunks[k]),
                      \A x \in Workers : i \notin ToSet(job'[x])
               PROVE  TaskDone(groups[i])'
    BY <1>2, <1>6 DEF TaskInv
  <2>1. left = Len(queue) + Cardinality(Working)
    BY <1>2, <1>3, <1>11
  <2>2. k \in 1..Taken
    BY <1>4, <1>6
  <2>3. \A x \in Workers : i \notin ToSet(job[x])
    BY <1>2, <1>6 DEF Busy, ToSet
  <2>4. PICK h : h = groups[i]
    OBVIOUS
  <2>5. TaskDone(h)
    BY <2>1, <2>2, <2>3, <2>4 DEF TaskInv
  <2>6. TaskDone(h)'
    BY <2>5, <1>7, KeptOf
  <2>7. QED
    BY <2>4, <2>6, <1>2
<1>14. ProgressInv'
  <2> SUFFICES ASSUME NEW CONSTANT x \in Workers, Busy(x)', Clean(Group(x)')
               PROVE  Progress(Group(x), at[x])'
    BY DEF ProgressInv
  <2>1. PICK h : h = Group(x)'
    OBVIOUS
  <2>2. PICK step : step = at[x]
    OBVIOUS
  <2>3. CASE x = w
    <3>1. step = AtStart
      BY <2>2, <2>3, <1>2 DEF JobInv
    <3>2. Progress(h, AtStart)'
      BY DEF Progress, AtStart, Step
    <3>3. QED
      BY <2>1, <2>2, <3>1, <3>2, <1>2
  <2>4. CASE x # w
    <3>1. Progress(h, step)
      BY <2>1, <2>2, <2>4, <1>6 DEF ProgressInv
    <3>2. Progress(h, step)'
      BY <3>1, <1>7, KeptOf
    <3>3. QED
      BY <2>1, <2>2, <3>2, <1>2
  <2>5. QED
    BY <2>3, <2>4
<1>15. QED
  BY <1>8, <1>9, <1>10, <1>12, <1>13, <1>14

-----------------------------------------------------------------------------
(***************************************************************************)
(* Steps of a task                                                         *)
(***************************************************************************)
LEMMA ReturnsInv ==
  ASSUME PoolIInv, NEW CONSTANT w \in Workers, Busy(w), TaskReturns(w),
         NEW CONSTANT g, g = Group(w), OthersKept(g.label), Clean(g) => TaskDone(g)'
  PROVE  PoolIInv'
<1>1. PICK rest : rest = Tail(job[w])
  OBVIOUS
<1>2. /\ job' = [job EXCEPT ![w] = rest] /\ at' = [at EXCEPT ![w] = AtStart]
      /\ left' = IF rest = <<>> THEN left - 1 ELSE left
      /\ UNCHANGED <<run, main, groups, procs, queue>>
  BY <1>1 DEF TaskReturns, Finish
<1>3. QED
  BY <1>1, <1>2, EndInv

LEMMA RaisesInv ==
  ASSUME PoolIInv, NEW CONSTANT w \in Workers, Busy(w), TaskRaises(w), UNCHANGED out,
         ~ Clean(Group(w))
  PROVE  PoolIInv'
<1>1. PICK g : g = Group(w)
  OBVIOUS
<1>2. /\ job' = [job EXCEPT ![w] = <<>>] /\ at' = [at EXCEPT ![w] = AtStart]
      /\ left' = left - 1
      /\ UNCHANGED <<run, main, groups, procs, queue>>
  BY DEF TaskRaises, Finish
<1>3. OthersKept(g.label)
  BY <1>2, NothingWritten
<1>4. PICK rest : rest = <<>>
  OBVIOUS
<1>5. QED
  BY <1>1, <1>2, <1>3, <1>4, EndInv

LEMMA ExitsInv ==
  ASSUME PoolIInv, NEW CONSTANT w \in Workers, Busy(w), WorkerExits(w), UNCHANGED out
  PROVE  PoolIInv'
<1>1. PICK g : g = Group(w)
  OBVIOUS
<1>2. /\ job' = [job EXCEPT ![w] = <<>>] /\ at' = [at EXCEPT ![w] = AtStart]
      /\ left' = left
      /\ UNCHANGED <<run, main, groups, procs, queue>>
  BY DEF WorkerExits, poolVars
<1>3. OthersKept(g.label)
  BY <1>2, NothingWritten
<1>4. PICK rest : rest = <<>>
  OBVIOUS
<1>5. QED
  BY <1>1, <1>2, <1>3, <1>4, EndInv

\* A task that has no slices to write.
LEMMA NoSlices ==
  ASSUME NEW g, g.mnemonics = <<>>
  PROVE  DueSlices(g) = {} /\ "cross" \notin Combs(g)
<1>1. LastOf(g) = {}
  BY DEF LastOf
<1>2. QED
  BY <1>1 DEF DueSlices, Combs

\* When the slices and the combinations are written, the task is done.
LEMMA DoneWhen ==
  ASSUME NEW CONSTANT g, AllSlices(g)',
         \A kind \in Combs(g) : Generated(Comb(g, kind), kind)'
  PROVE  TaskDone(g)'
<1>1. ASSUME NEW d \in DueCombs(g) PROVE Generated(d[1], d[2])'
  <2>1. PICK kind \in Combs(g) : d = <<Comb(g, kind), kind>>
    BY <1>1 DEF DueCombs
  <2>2. Generated(Comb(g, kind), kind)'
    OBVIOUS
  <2>3. QED
    BY <2>1, <2>2
<1>2. QED
  BY <1>1 DEF TaskDone, AllSlices, Due

LEMMA SkipInv ==
  ASSUME PoolIInv, NEW CONSTANT w \in Workers, Skip(w)
  PROVE  PoolIInv'
<1>1. PICK g : g = Group(w)
  OBVIOUS
<1>2. /\ Busy(w) /\ TaskReturns(w) /\ UNCHANGED out /\ run' = run
      /\ g.ignore \/ (g.mnemonics = <<>> /\ g.csr = "none")
  BY <1>1 DEF Skip, TaskReturns, Finish
<1>3. TaskDone(g)'
  <2>1. CASE g.ignore
    BY <2>1 DEF TaskDone
  <2>2. CASE g.mnemonics = <<>> /\ g.csr = "none"
    <3>1. AllSlices(g)'
      BY <2>2, NoSlices DEF AllSlices
    <3>2. Combs(g) = {}
      BY <2>2 DEF Combs
    <3>3. QED
      BY <3>1, <3>2, DoneWhen
  <2>3. QED
    BY <1>2, <2>1, <2>2
<1>4. OthersKept(g.label)
  BY <1>2, NothingWritten
<1>5. QED
  BY <1>1, <1>2, <1>3, <1>4, ReturnsInv

LEMMA BeginInv ==
  ASSUME PoolIInv, NEW CONSTANT w \in Workers, Begin(w)
  PROVE  PoolIInv'
<1>1. PICK g : g = Group(w)
  OBVIOUS
<1>2. PICK next : next = IF g.mnemonics = <<>> THEN Step("csr") ELSE <<"mnemonic", 1>>
  OBVIOUS
<1>3. Busy(w) /\ ~ g.ignore /\ GoOn(w, next) /\ UNCHANGED out /\ run' = run
  BY <1>1, <1>2 DEF Begin, GoOn
<1>4. Progress(g, next)'
  <2>1. CASE g.mnemonics = <<>>
    <3>1. AllSlices(g)' /\ "cross" \notin Combs(g)
      BY <2>1, NoSlices DEF AllSlices
    <3>2. next[1] # "mnemonic" /\ next # Step("cross") /\ next # Step("check")
      BY <2>1, <1>2 DEF Step
    <3>3. QED
      BY <3>1, <3>2, <1>3 DEF Progress
  <2>2. CASE g.mnemonics # <<>>
    <3>1. g.mnemonics \in Seq(Opcodes)
      BY <1>1, <1>3, JobFacts DEF Covergroups, PoolIInv
    <3>2. 1 \in DOMAIN g.mnemonics
      BY <3>1, <2>2
    <3>3. /\ next[1] = "mnemonic" /\ next[2] = 1
          /\ next \notin {Step("cross"), Step("check"), Step("csr")}
      BY <2>2, <1>2 DEF Step
    <3>4. SlicesOfFirst(g, 0)'
      BY DEF SlicesOfFirst
    <3>5. QED
      BY <3>2, <3>3, <3>4, <1>3 DEF Progress
  <2>3. QED
    BY <2>1, <2>2
<1>5. OthersKept(g.label)
  BY <1>3, NothingWritten
<1>6. QED
  BY <1>1, <1>3, <1>4, <1>5, GoOnInv

\* The mnemonic a clean task is at is one of those it tries.
LEMMA MnemonicIsTried ==
  ASSUME NEW g \in Covergroups, NEW step, step[1] = "mnemonic", Progress(g, step)
  PROVE  /\ step[2] \in 1..Len(g.mnemonics) /\ Len(g.mnemonics) \in Nat
         /\ g.mnemonics \in Seq(Opcodes) /\ g.mnemonics[step[2]] \in Opcodes
         /\ g.mnemonics[step[2]] \in Tried(g) /\ ~ g.ignore
         /\ (g.base # "none" => step[2] = 1)
<1>1. g.mnemonics \in Seq(Opcodes)
  BY DEF Covergroups
<1>2. Len(g.mnemonics) \in Nat /\ DOMAIN g.mnemonics = 1..Len(g.mnemonics)
  BY <1>1
<1>3. step[2] \in DOMAIN g.mnemonics /\ (g.base # "none" => step[2] = 1)
  BY DEF Progress
<1>4. ~ g.ignore
  <2>1. step # AtStart
    BY DEF AtStart
  <2>2. g.ignore \in BOOLEAN
    BY DEF Covergroups
  <2>3. QED
    BY <2>1, <2>2 DEF Progress
<1>5. g.mnemonics[step[2]] \in Tried(g)
  <2>1. CASE g.base = "none"
    BY <2>1, <1>3 DEF Tried, ToSet
  <2>2. CASE g.base # "none"
    BY <2>2, <1>3 DEF Tried
  <2>3. QED
    BY <2>1, <2>2
<1>6. g.mnemonics[step[2]] \in Opcodes
  BY <1>1, <1>3
<1>7. QED
  BY <1>1, <1>2, <1>3, <1>4, <1>5, <1>6

\* The step that follows a mnemonic, when the slices are as they should be.
LEMMA FollowingProgress ==
  ASSUME NEW CONSTANT g \in Covergroups, NEW CONSTANT k \in DOMAIN g.mnemonics,
         g.base # "none" => k = 1, ~ g.ignore, SlicesOfFirst(g, k)',
         NEW CONSTANT next,
         next = IF g.base # "none" \/ k = Len(g.mnemonics) THEN Step("cross") ELSE <<"mnemonic", k + 1>>
  PROVE  Progress(g, next)'
<1>1. g.mnemonics \in Seq(Opcodes)
  BY DEF Covergroups
<1>2. Len(g.mnemonics) \in Nat /\ DOMAIN g.mnemonics = 1..Len(g.mnemonics) /\ k \in Nat
  BY <1>1
<1>3. CASE g.base # "none" \/ k = Len(g.mnemonics)
  <2>1. ASSUME NEW d \in DueSlices(g) PROVE Generated(d[1], d[2])'
    <3>1. PICK l \in LastOf(g) : \E f \in Slices(g, g.mnemonics[l]) : d = <<f, g.mnemonics[l].op>>
      BY <2>1 DEF DueSlices
    <3>2. PICK f \in Slices(g, g.mnemonics[l]) : d = <<f, g.mnemonics[l].op>>
      BY <3>1
    <3>3. /\ l \in 1..Len(g.mnemonics) /\ g.mnemonics[l] \in Tried(g) /\ g.mnemonics[l].supported
          /\ \A j \in 1..Len(g.mnemonics) :
               j > l => ~ (g.mnemonics[j].supported /\ g.base = "none")
      BY <1>2 DEF LastOf
    <3>4. CASE g.base = "none"
      <4>1. k = Len(g.mnemonics)
        BY <1>3, <3>4
      <4>2. l \in 1..k /\ \A j \in (l + 1)..k : ~ g.mnemonics[j].supported
        BY <4>1, <3>3, <3>4, <1>2
      <4>3. \A x \in Slices(g, g.mnemonics[l]) : Generated(x, g.mnemonics[l].op)'
        BY <4>2, <3>3 DEF SlicesOfFirst
      <4>4. QED
        BY <4>3, <3>2
    <3>5. CASE g.base # "none"
      <4>1. k = 1 /\ g.mnemonics[l] = g.mnemonics[1]
        BY <3>5, <3>3 DEF Tried
      <4>2. 1 \in 1..k /\ g.mnemonics[1].supported /\ \A j \in (1 + 1)..k : ~ g.mnemonics[j].supported
        BY <4>1, <3>3
      <4>3. \A x \in Slices(g, g.mnemonics[1]) : Generated(x, g.mnemonics[1].op)'
        BY <4>2 DEF SlicesOfFirst
      <4>4. QED
        BY <4>1, <4>3, <3>2
    <3>6. QED
      BY <3>4, <3>5
  <2>2. AllSlices(g)'
    BY <2>1 DEF AllSlices
  <2>3. /\ next[1] # "mnemonic" /\ next = Step("cross") /\ next # Step("check") /\ next # Step("csr")
        /\ g.mnemonics # <<>>
    BY <1>3, <1>2 DEF Step
  <2>4. QED
    BY <2>2, <2>3 DEF Progress
<1>4. CASE ~ (g.base # "none" \/ k = Len(g.mnemonics))
  <2>1. /\ next[1] = "mnemonic" /\ next[2] = k + 1 /\ next[2] - 1 = k
        /\ next \notin {Step("cross"), Step("check"), Step("csr")}
    BY <1>4, <1>2 DEF Step
  <2>2. k + 1 \in DOMAIN g.mnemonics
    BY <1>4, <1>2
  <2>3. QED
    BY <1>4, <2>1, <2>2 DEF Progress
<1>5. QED
  BY <1>3, <1>4

LEMMA GenTestInv ==
  ASSUME PoolIInv, NEW CONSTANT w \in Workers, GenTest(w)
  PROVE  PoolIInv'
<1>1. PICK g : g = Group(w)
  OBVIOUS
<1>2. PICK k : k = at[w][2]
  OBVIOUS
<1>3. PICK m : m = g.mnemonics[k]
  OBVIOUS
<1>4. PICK next : next = Following(w)
  OBVIOUS
<1>5. PICK step : step = at[w]
  OBVIOUS
<1>6. /\ Busy(w) /\ step[1] = "mnemonic" /\ k = step[2]
      /\ m = Mnemonic(w)
      /\ next = IF g.base # "none" \/ k = Len(g.mnemonics) THEN Step("cross") ELSE <<"mnemonic", k + 1>>
  BY <1>1, <1>2, <1>3, <1>4, <1>5 DEF GenTest, Here, Mnemonic, Following
<1>7. g \in Covergroups
  BY <1>1, <1>6, JobFacts DEF PoolIInv
<1>8. Clean(g) => Progress(g, step)
  BY <1>1, <1>5, <1>6 DEF PoolIInv, ProgressInv
<1>9. CASE m.supported
  <2>1. PICK files : files = Slices(g, m)
    OBVIOUS
  <2>2. PICK op : op = m.op
    OBVIOUS
  <2>3. After(w, m.ends, files, op, next)
    BY <1>9, <2>1, <2>2, <1>1, <1>4, <1>6 DEF GenTest
  <2>4. CASE m.ends = "ok" /\ GoOn(w, next) /\ out' = Written(files, op)
    <3>1. run' = run
      BY <2>4 DEF GoOn
    <3>2. (\A f \in files : Generated(f, op)') /\ OthersKept(g.label)
      BY <3>1, <2>4, <2>1, WrittenIs, LabelIs
    <3>3. ASSUME Clean(g) PROVE Progress(g, next)'
      <4>1. /\ k \in 1..Len(g.mnemonics) /\ Len(g.mnemonics) \in Nat /\ ~ g.ignore
            /\ (g.base # "none" => k = 1) /\ DOMAIN g.mnemonics = 1..Len(g.mnemonics)
        BY <3>3, <1>6, <1>7, <1>8, MnemonicIsTried
      <4>2. SlicesOfFirst(g, k)'
        <5> SUFFICES ASSUME NEW j \in 1..k, g.mnemonics[j].supported,
                            \A l \in (j + 1)..k : ~ g.mnemonics[l].supported,
                            NEW f \in Slices(g, g.mnemonics[j])
                     PROVE  Generated(f, g.mnemonics[j].op)'
          BY DEF SlicesOfFirst
        <5>1. j = k
          BY <1>3, <1>9, <4>1
        <5>2. QED
          BY <5>1, <3>2, <2>1, <2>2, <1>3
      <4>3. QED
        BY <4>1, <4>2, <1>6, <1>7, FollowingProgress
    <3>4. QED
      BY <3>2, <3>3, <2>4, <1>1, <1>6, GoOnInv
  <2>5. CASE m.ends = "raise" /\ TaskRaises(w) /\ UNCHANGED out
    <3>1. ~ Clean(g)
      <4> SUFFICES ASSUME Clean(g) PROVE FALSE
        OBVIOUS
      <4>1. m \in Tried(g) /\ ~ g.ignore
        BY <1>3, <1>6, <1>7, <1>8, MnemonicIsTried
      <4>2. Fails(g)
        BY <4>1, <2>5 DEF Fails
      <4>3. QED
        BY <4>2 DEF Clean
    <3>2. QED
      BY <3>1, <2>5, <1>1, <1>6, RaisesInv
  <2>6. CASE m.ends = "exit" /\ WorkerExits(w) /\ UNCHANGED out
    BY <2>6, <1>6, ExitsInv
  <2>7. QED
    BY <2>3, <2>4, <2>5, <2>6 DEF After
<1>10. CASE ~ m.supported
  <2>1. GoOn(w, next) /\ UNCHANGED out /\ run' = run
    BY <1>10, <1>4, <1>6 DEF GenTest, GoOn
  <2>2. OthersKept(g.label) /\ \A f, o : Generated(f, o) => Generated(f, o)'
    BY <2>1, NothingWritten
  <2>3. ASSUME Clean(g) PROVE Progress(g, next)'
    <3>1. /\ k \in 1..Len(g.mnemonics) /\ Len(g.mnemonics) \in Nat /\ ~ g.ignore
          /\ (g.base # "none" => k = 1) /\ DOMAIN g.mnemonics = 1..Len(g.mnemonics)
      BY <2>3, <1>6, <1>7, <1>8, MnemonicIsTried
    <3>2. SlicesOfFirst(g, k - 1)
      BY <2>3, <1>6, <1>8 DEF Progress
    <3>3. SlicesOfFirst(g, k)'
      <4> SUFFICES ASSUME NEW j \in 1..k, g.mnemonics[j].supported,
                          \A l \in (j + 1)..k : ~ g.mnemonics[l].supported,
                          NEW f \in Slices(g, g.mnemonics[j])
                   PROVE  Generated(f, g.mnemonics[j].op)'
        BY DEF SlicesOfFirst
      <4>1. j \in 1..(k - 1) /\ \A l \in (j + 1)..(k - 1) : l \in (j + 1)..k
        BY <1>3, <1>10, <3>1
      <4>2. Generated(f, g.mnemonics[j].op)
        BY <4>1, <3>2 DEF SlicesOfFirst
      <4>3. QED
        BY <4>2, <2>2
    <3>4. QED
      BY <3>1, <3>3, <1>6, <1>7, FollowingProgress
  <2>4. QED
    BY <2>1, <2>2, <2>3, <1>1, <1>6, GoOnInv
<1>11. QED
  BY <1>9, <1>10

LEMMA NoTemplateInv ==
  ASSUME PoolIInv, NEW CONSTANT w \in Workers, NoTemplate(w)
  PROVE  PoolIInv'
<1>1. PICK g : g = Group(w)
  OBVIOUS
<1>2. PICK step : step = at[w]
  OBVIOUS
<1>3. PICK next : next = Step("cross")
  OBVIOUS
<1>4. /\ Busy(w) /\ step[1] = "mnemonic" /\ ~ HasTemplate(g, g.mnemonics[step[2]])
      /\ UNCHANGED out /\ (TaskReturns(w) \/ GoOn(w, next))
  BY <1>1, <1>2, <1>3 DEF NoTemplate, Here, Mnemonic
<1>5. ~ Clean(g)
  <2> SUFFICES ASSUME Clean(g) PROVE FALSE
    OBVIOUS
  <2>1. g \in Covergroups /\ Progress(g, step)
    BY <1>1, <1>2, <1>4, JobFacts DEF PoolIInv, ProgressInv
  <2>2. g.mnemonics[step[2]] \in Tried(g)
    BY <2>1, <1>4, MnemonicIsTried
  <2>3. Untemplated(g)
    BY <2>2, <1>4 DEF Untemplated
  <2>4. QED
    BY <2>3 DEF Clean
<1>6. run' = run
  BY <1>4 DEF TaskReturns, Finish, GoOn
<1>7. OthersKept(g.label)
  BY <1>4, <1>6, NothingWritten
<1>8. CASE TaskReturns(w)
  BY <1>1, <1>4, <1>5, <1>7, <1>8, ReturnsInv
<1>9. CASE GoOn(w, next)
  BY <1>1, <1>4, <1>5, <1>7, <1>9, GoOnInv
<1>10. QED
  BY <1>4, <1>8, <1>9

\* A task that is past its mnemonics.
LEMMA PastMnemonics ==
  ASSUME PoolIInv, NEW w \in Workers, Busy(w),
         at[w] \in {Step("cross"), Step("check"), Step("csr")}, Clean(Group(w))
  PROVE  /\ Group(w) \in Covergroups /\ ~ Group(w).ignore /\ AllSlices(Group(w))
         /\ Progress(Group(w), at[w])
<1>1. Group(w) \in Covergroups /\ Progress(Group(w), at[w])
  BY JobFacts DEF PoolIInv, ProgressInv
<1>2. at[w] # AtStart
  BY DEF Step, AtStart
<1>3. Group(w).ignore \in BOOLEAN
  BY <1>1 DEF Covergroups
<1>4. QED
  BY <1>1, <1>2, <1>3 DEF Progress

\* Writing a combination leaves the slices and the other combination.
LEMMA CombWritten ==
  ASSUME NEW CONSTANT g, NEW CONSTANT kind, out' = Written({Comb(g, kind)}, kind), run' = run,
         kind # "slice"
  PROVE  /\ Generated(Comb(g, kind), kind)' /\ OthersKept(g.label)
         /\ AllSlices(g) => AllSlices(g)'
         /\ \A other : other # kind /\ Generated(Comb(g, other), other) => Generated(Comb(g, other), other)'
<1>1. PICK files : files = {Comb(g, kind)}
  OBVIOUS
<1>2. /\ \A f \in files : Generated(f, kind)'
      /\ \A f, o : f \notin files /\ Generated(f, o) => Generated(f, o)'
      /\ (\A f \in files : f[1] = g.label) => OthersKept(g.label)
  BY <1>1, WrittenIs
<1>3. \A f \in files : f[1] = g.label
  BY <1>1, LabelIs
<1>4. ASSUME AllSlices(g), NEW d \in DueSlices(g) PROVE Generated(d[1], d[2])'
  <2>1. PICK l \in LastOf(g) : \E f \in Slices(g, g.mnemonics[l]) : d = <<f, g.mnemonics[l].op>>
    BY <1>4 DEF DueSlices
  <2>2. PICK f \in Slices(g, g.mnemonics[l]) : d = <<f, g.mnemonics[l].op>>
    BY <2>1
  <2>3. d[1] = f /\ f[2] = "slice"
    BY <2>2 DEF Slices
  <2>4. Comb(g, kind)[2] = kind
    BY DEF Comb
  <2>5. d[1] \notin files
    BY <2>3, <2>4, <1>1
  <2>6. QED
    BY <2>5, <1>2, <1>4 DEF AllSlices
<1>5. ASSUME NEW other, other # kind, Generated(Comb(g, other), other)
      PROVE  Generated(Comb(g, other), other)'
  <2>1. Comb(g, other) \notin files
    BY <1>1, <1>5 DEF Comb
  <2>2. QED
    BY <2>1, <1>2, <1>5
<1>6. QED
  BY <1>1, <1>2, <1>3, <1>4, <1>5 DEF AllSlices

LEMMA CrossCombInv ==
  ASSUME PoolIInv, NEW CONSTANT w \in Workers, CrossComb(w)
  PROVE  PoolIInv'
<1>1. PICK g : g = Group(w)
  OBVIOUS
<1>2. PICK next : next = Step("check")
  OBVIOUS
<1>3. Busy(w) /\ at[w] = Step("cross")
  BY DEF CrossComb
<1>4. /\ next[1] # "mnemonic" /\ next # AtStart
      /\ next \notin {Step("cross"), Step("csr")}
  BY <1>2 DEF Step, AtStart
<1>5. Clean(g) => /\ g \in Covergroups /\ ~ g.ignore /\ AllSlices(g)
                  /\ g.mnemonics # <<>>
  BY <1>1, <1>3, PastMnemonics DEF Progress
<1>6. ASSUME GoOn(w, next), OthersKept(g.label), AllSlices(g) => AllSlices(g)',
             "cross" \in Combs(g) => Generated(Comb(g, "cross"), "cross")'
      PROVE  PoolIInv'
  <2>1. Clean(g) => Progress(g, next)'
    BY <1>2, <1>4, <1>5, <1>6 DEF Progress
  <2>2. QED
    BY <2>1, <1>1, <1>3, <1>6, GoOnInv
<1>7. CASE g.cross = "none"
  <2>1. GoOn(w, next) /\ UNCHANGED out /\ run' = run
    BY <1>1, <1>2, <1>7 DEF CrossComb, GoOn
  <2>2. OthersKept(g.label) /\ \A f, o : Generated(f, o) => Generated(f, o)'
    BY <2>1, NothingWritten
  <2>3. "cross" \notin Combs(g)
    BY <1>7 DEF Combs
  <2>4. AllSlices(g) => AllSlices(g)'
    BY <2>2 DEF AllSlices
  <2>5. QED
    BY <2>1, <2>2, <2>3, <2>4, <1>6
<1>8. CASE g.cross # "none"
  <2>1. After(w, g.cross, {Comb(g, "cross")}, "cross", next)
    BY <1>1, <1>2, <1>8 DEF CrossComb
  <2>2. CASE GoOn(w, next) /\ out' = Written({Comb(g, "cross")}, "cross")
    <3>1. run' = run
      BY <2>2 DEF GoOn
    <3>2. PICK kind : kind = "cross"
      OBVIOUS
    <3>3. /\ Generated(Comb(g, kind), kind)' /\ OthersKept(g.label)
          /\ AllSlices(g) => AllSlices(g)'
      BY <2>2, <3>1, <3>2, CombWritten
    <3>4. QED
      BY <2>2, <3>2, <3>3, <1>6
  <2>3. CASE g.cross = "raise" /\ TaskRaises(w) /\ UNCHANGED out
    <3>1. ~ Clean(g)
      BY <1>5, <2>3 DEF Clean, Fails
    <3>2. QED
      BY <3>1, <2>3, <1>1, <1>3, RaisesInv
  <2>4. CASE WorkerExits(w) /\ UNCHANGED out
    BY <2>4, <1>3, ExitsInv
  <2>5. QED
    BY <2>1, <2>2, <2>3, <2>4 DEF After
<1>9. QED
  BY <1>7, <1>8

LEMMA CheckOpNodeInv ==
  ASSUME PoolIInv, NEW CONSTANT w \in Workers, CheckOpNode(w)
  PROVE  PoolIInv'
<1>1. PICK g : g = Group(w)
  OBVIOUS
<1>2. PICK next : next = Step("csr")
  OBVIOUS
<1>3. Busy(w) /\ at[w] = Step("check") /\ UNCHANGED out
  BY DEF CheckOpNode
<1>4. CASE HasTemplate(g, g.mnemonics[1])
  <2>1. GoOn(w, next) /\ run' = run
    BY <1>1, <1>2, <1>4 DEF CheckOpNode, GoOn
  <2>2. OthersKept(g.label) /\ \A f, o : Generated(f, o) => Generated(f, o)'
    BY <2>1, <1>3, NothingWritten
  <2>3. ASSUME Clean(g) PROVE Progress(g, next)'
    <3>1. ~ g.ignore /\ AllSlices(g) /\ Progress(g, Step("check"))
      BY <2>3, <1>1, <1>3, PastMnemonics
    <3>2. AllSlices(g)'
      BY <3>1, <2>2 DEF AllSlices
    <3>3. "cross" \in Combs(g) => Generated(Comb(g, "cross"), "cross")'
      BY <3>1, <2>2 DEF Progress
    <3>4. /\ next[1] # "mnemonic" /\ next # Step("cross") /\ next # Step("check")
      BY <1>2 DEF Step
    <3>5. QED
      BY <3>1, <3>2, <3>3, <3>4 DEF Progress
  <2>4. QED
    BY <2>1, <2>2, <2>3, <1>1, <1>3, GoOnInv
<1>5. CASE ~ HasTemplate(g, g.mnemonics[1])
  <2>1. TaskRaises(w)
    BY <1>1, <1>5 DEF CheckOpNode
  <2>2. ~ Clean(g)
    <3> SUFFICES ASSUME Clean(g) PROVE FALSE
      OBVIOUS
    <3>1. g \in Covergroups /\ g.mnemonics # <<>>
      BY <1>1, <1>3, PastMnemonics DEF Progress
    <3>2. 1 \in DOMAIN g.mnemonics
      <4>1. g.mnemonics \in Seq(Opcodes)
        BY <3>1 DEF Covergroups
      <4>2. QED
        BY <4>1, <3>1
    <3>3. g.mnemonics[1] \in Tried(g)
      BY <3>2 DEF Tried, ToSet
    <3>4. QED
      BY <3>3, <1>5 DEF Clean, Untemplated
  <2>3. QED
    BY <2>1, <2>2, <1>1, <1>3, RaisesInv
<1>6. QED
  BY <1>4, <1>5

LEMMA CsrCombInv ==
  ASSUME PoolIInv, NEW CONSTANT w \in Workers, CsrComb(w)
  PROVE  PoolIInv'
<1>1. PICK g : g = Group(w)
  OBVIOUS
<1>2. Busy(w) /\ at[w] = Step("csr")
  BY DEF CsrComb
<1>3. g \in Covergroups /\ g.csr \in {"none", "ok", "raise"}
  BY <1>1, <1>2, JobFacts DEF PoolIInv, Covergroups
<1>4. Clean(g) => /\ ~ g.ignore /\ AllSlices(g)
                  /\ "cross" \in Combs(g) => Generated(Comb(g, "cross"), "cross")
  <2>1. Clean(g) => ~ g.ignore /\ AllSlices(g) /\ Progress(g, Step("csr"))
    BY <1>1, <1>2, PastMnemonics
  <2>2. QED
    BY <2>1 DEF Progress
<1>5. Combs(g) \subseteq {"cross", "csr"}
  BY DEF Combs
<1>6. CASE g.csr = "none"
  <2>1. TaskReturns(w) /\ UNCHANGED out /\ run' = run
    BY <1>1, <1>6 DEF CsrComb, TaskReturns, Finish
  <2>2. OthersKept(g.label) /\ \A f, o : Generated(f, o) => Generated(f, o)'
    BY <2>1, NothingWritten
  <2>3. "csr" \notin Combs(g)
    BY <1>6 DEF Combs
  <2>4. ASSUME Clean(g) PROVE TaskDone(g)'
    <3>1. AllSlices(g)'
      BY <2>4, <1>4, <2>2 DEF AllSlices
    <3>2. \A kind \in Combs(g) : Generated(Comb(g, kind), kind)'
      BY <2>4, <1>4, <1>5, <2>2, <2>3
    <3>3. QED
      BY <3>1, <3>2, DoneWhen
  <2>5. QED
    BY <2>1, <2>2, <2>4, <1>1, <1>2, ReturnsInv
<1>7. CASE g.csr = "ok"
  <2>1. TaskReturns(w) /\ out' = Written({Comb(g, "csr")}, "csr") /\ run' = run
    BY <1>1, <1>7 DEF CsrComb, TaskReturns, Finish
  <2>2. PICK kind : kind = "csr"
    OBVIOUS
  <2>3. /\ Generated(Comb(g, kind), kind)' /\ OthersKept(g.label)
        /\ AllSlices(g) => AllSlices(g)'
        /\ \A other : other # kind /\ Generated(Comb(g, other), other) =>
             Generated(Comb(g, other), other)'
    BY <2>1, <2>2, CombWritten
  <2>4. ASSUME Clean(g) PROVE TaskDone(g)'
    <3>1. \A k \in Combs(g) : Generated(Comb(g, k), k)'
      BY <2>4, <1>4, <1>5, <2>2, <2>3
    <3>2. QED
      BY <2>4, <3>1, <1>4, <2>3, DoneWhen
  <2>5. QED
    BY <2>1, <2>3, <2>4, <1>1, <1>2, ReturnsInv
<1>8. CASE g.csr = "raise"
  <2>1. TaskRaises(w) /\ UNCHANGED out
    BY <1>1, <1>8 DEF CsrComb
  <2>2. ~ Clean(g)
    BY <1>4, <1>8 DEF Clean, Fails
  <2>3. QED
    BY <2>1, <2>2, <1>1, <1>2, RaisesInv
<1>9. QED
  BY <1>3, <1>6, <1>7, <1>8

LEMMA StutterInv ==
  ASSUME PoolIInv, UNCHANGED vars
  PROVE  PoolIInv'
<1> USE DEF PoolIInv
<1>1. UNCHANGED <<run, main, groups, procs, queue, left, job, at, out>>
  BY DEF vars, poolVars
<1>2. /\ AllChunks' = AllChunks /\ Taken' = Taken /\ Working' = Working
      /\ \A x \in Workers : Busy(x)' = Busy(x) /\ Group(x)' = Group(x)
  BY <1>1 DEF AllChunks, Taken, Working, Busy, Group
<1>3. \A f, o : Generated(f, o) => Generated(f, o)'
  BY <1>1, NothingWritten
<1>4. PoolTypeOK' /\ QueueInv' /\ JobInv' /\ LeftInv'
  BY <1>1, <1>2 DEF PoolTypeOK, QueueInv, JobInv, LeftInv
<1>5. TaskInv'
  <2>1. \A i : TaskDone(groups[i]) => TaskDone(groups[i])'
    <3> SUFFICES ASSUME NEW CONSTANT i, TaskDone(groups[i]) PROVE TaskDone(groups[i])'
      OBVIOUS
    <3>1. PICK h : h = groups[i]
      OBVIOUS
    <3>2. TaskDone(h)'
      BY <3>1, <1>3, KeptOf
    <3>3. QED
      BY <3>1, <3>2, <1>1
  <2>2. QED
    BY <2>1, <1>1, <1>2 DEF TaskInv
<1>6. ProgressInv'
  <2> SUFFICES ASSUME NEW CONSTANT x \in Workers, Busy(x), Clean(Group(x))
               PROVE  Progress(Group(x), at[x])'
    BY <1>2 DEF ProgressInv
  <2>1. PICK h : h = Group(x)
    OBVIOUS
  <2>2. PICK step : step = at[x]
    OBVIOUS
  <2>3. Progress(h, step)'
    BY <2>1, <2>2, <1>3, KeptOf DEF ProgressInv
  <2>4. QED
    BY <2>1, <2>2, <2>3, <1>1, <1>2
<1>7. QED
  BY <1>4, <1>5, <1>6

LEMMA StepInv == PoolIInv /\ [Next]_vars => PoolIInv'
<1> SUFFICES ASSUME PoolIInv, [Next]_vars PROVE PoolIInv'
  OBVIOUS
<1>1. CASE Start
  BY <1>1, StartInv
<1>2. CASE Return
  BY <1>2, ReturnInv
<1>3. CASE \E w \in Workers : Work(w)
  <2>1. PICK w \in Workers : Work(w)
    BY <1>3
  <2>2. CASE Take(w)
    BY <2>2, TakeInv
  <2>3. CASE CreateTest(w)
    BY <2>3, SkipInv, BeginInv, GenTestInv, NoTemplateInv, CrossCombInv, CheckOpNodeInv, CsrCombInv
       DEF CreateTest
  <2>4. QED
    BY <2>1, <2>2, <2>3 DEF Work
<1>4. CASE UNCHANGED vars
  BY <1>4, StutterInv
<1>5. QED
  BY <1>1, <1>2, <1>3, <1>4 DEF Next

-----------------------------------------------------------------------------
(***************************************************************************)
(* Theorems                                                                *)
(***************************************************************************)
\* The inductive invariant: jobs are of distinct chunks, chunks are missing only
\* for workers that have exited, and the tasks taken are in a job or done.
THEOREM Invariance == Spec => []PoolIInv
  BY InitInv, StepInv, PTL DEF Spec

\* Whatever other covergroups come to (they raise an exception, have no template
\* or end a worker), when the driver is back each covergroup of a chunk without
\* a failing one has all its files, of this run: no fault spreads over a chunk.
THEOREM FaultsAreContained == Spec => []FaultsContained
<1>1. PoolIInv => FaultsContained
  <2> SUFFICES ASSUME PoolIInv, main \in {"done", "raised"},
                      NEW c \in ToSet(AllChunks),
                      \A i \in ToSet(c) : Clean(groups[i]),
                      NEW i \in ToSet(c), ~ groups[i].ignore
               PROVE  \A d \in Due(groups[i]) : Generated(d[1], d[2])
    BY DEF FaultsContained, AllChunks
  <2> USE DEF PoolIInv
  <2>1. left = 0
    BY DEF LeftInv
  <2>2. /\ \A w \in Workers : job[w] = <<>>
        /\ Cardinality(Working) = 0
    BY <2>1, NoneWorks
  <2>3. Len(queue) \in Nat /\ left >= Len(queue) + Cardinality(Working)
    BY DEF QueueInv, LeftInv
  <2>4. Len(queue) = 0
    BY <2>1, <2>2, <2>3
  <2>5. Taken = Len(AllChunks) /\ left = Len(queue) + Cardinality(Working)
    BY <2>1, <2>2, <2>4, ChunkFacts DEF Taken
  <2>6. PICK k \in 1..Taken : c = AllChunks[k]
    BY <2>5, ChunkFacts DEF ToSet
  <2>7. \A w \in Workers : i \notin ToSet(job[w])
    BY <2>2 DEF ToSet
  <2>8. TaskDone(groups[i])
    BY <2>5, <2>6, <2>7 DEF TaskInv
  <2>9. QED
    BY <2>8 DEF TaskDone
<1>2. QED
  BY <1>1, Invariance, PTL
=============================================================================
