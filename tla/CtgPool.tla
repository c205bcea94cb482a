------------------------------ MODULE CtgPool -------------------------------
(***************************************************************************)
(* The driver of the test generator: ctg() and create_test() of ctg.py.    *)
(*                                                                         *)
(* ctg() makes one task of every covergroup of the CGF files that passes   *)
(* --filter, and has a pool of --procs processes work them off.  A task    *)
(* writes the tests of its covergroup into the output directory: for each  *)
(* mnemonic, for the cross coverpoints and for the CSR coverpoints.  The   *)
(* directory outlives a run.                                               *)
(*                                                                         *)
(* multiprocessing.Pool is external: starmap hands the tasks to the        *)
(* workers in chunks.  An exception ends the chunk, and starmap raises it  *)
(* when all chunks have returned.  sys.exit ends the process of the        *)
(* worker; the pool starts another one, but the chunk never returns.       *)
(*                                                                         *)
(* What the generators make of a covergroup is given by the CGF here:      *)
(*   [label, ignore, base, mnemonics, cross, csr]                          *)
(* base, cross and csr are "none" if the node has no such key.  A mnemonic *)
(* is [op, known, supported, files, ends]: whether there is a template,   *)
(* for this XLEN and FLEN, the number of files, and how generating ends.   *)
(***************************************************************************)
EXTENDS Integers, Sequences, SequencesExt, FiniteSets

CONSTANTS
  Cgfs,      \* sequences of covergroups with different labels
  Filters,   \* sets of labels that --filter lets through
  Procs,     \* values of --procs
  MaxRuns    \* bound on the number of runs into one directory

Opcodes == [op : STRING, known : BOOLEAN, supported : BOOLEAN, files : Nat,
            ends : {"ok", "raise", "exit"}]
Covergroups == [label : STRING, ignore : BOOLEAN, base : {"none", "known", "unknown"},
                mnemonics : Seq(Opcodes), cross : {"none", "ok", "raise", "exit"},
                csr : {"none", "ok", "raise"}]

ASSUME CgfAssumption ==
  \A cgf \in Cgfs :
    /\ cgf \in Seq(Covergroups)
    /\ \A i, j \in DOMAIN cgf : cgf[i].label = cgf[j].label => i = j

ASSUME ProcsAssumption ==
  /\ Procs \subseteq Nat \ {0} /\ MaxRuns \in Nat
  /\ \E p \in Procs : \A q \in Procs : q <= p

VARIABLES
  run,      \* number of the run
  main,     \* the calling process: "idle", "waiting", "done" or "raised"
  groups,   \* args_list
  procs,    \* --procs
  queue,    \* chunks no worker has taken
  left,     \* chunks that have not returned
  failed,   \* a chunk has returned an exception
  job,      \* the tasks left in the chunk of each worker
  at,       \* what its first task does next: "start", "mnemonic", "cross",
            \* "check" or "csr", and the number of the mnemonic
  out       \* the output directory: the run and the mnemonic of each file

poolVars == <<queue, left, failed>>
vars == <<run, main, groups, procs, poolVars, job, at, out>>

Workers == 1..CHOOSE p \in Procs : \A q \in Procs : q <= p
AtStart == <<"start", 0>>
Step(s) == <<s, 0>>
NoFiles == [f \in {} |-> 0]

\* Pool.starmap makes about four chunks per process.
ChunkSize(n, p) == (n + 4 * p - 1) \div (4 * p)
Chunks(n, p) ==
  LET size == ChunkSize(n, p)
  IN  [k \in 1..(IF n = 0 THEN 0 ELSE (n + size - 1) \div size) |->
         [i \in 1..(IF k * size <= n THEN size ELSE n - (k - 1) * size) |-> (k - 1) * size + i]]

\* Names of files: <label>-NN.S, <label>_cross-comb.S, <label>_csr-comb.S.
Slices(g, m) == {<<g.label, "slice", k>> : k \in 1..m.files}
Comb(g, kind) == <<g.label, kind, 0>>

Written(files, op) ==
  [f \in DOMAIN out \cup files |->
     IF f \in files THEN [op |-> op, run |-> run] ELSE out[f]]

\* args_list: the covergroups that --filter lets through, in their order.
ArgsLists(cgf, labels) ==
  LET kept == {i \in DOMAIN cgf : cgf[i].label \in labels}
      size == Cardinality(kept)
  IN  {[k \in 1..size |-> cgf[f[k]]] :
         f \in {f \in [1..size -> kept] : \A j, k \in 1..size : j < k => f[j] < f[k]}}
AllArgsLists == UNION {ArgsLists(cgf, labels) : cgf \in Cgfs, labels \in Filters}

-----------------------------------------------------------------------------
Init ==
  /\ run = 0 /\ main = "idle" /\ groups = <<>> /\ procs = 0
  /\ queue = <<>> /\ left = 0 /\ failed = FALSE
  /\ job = [w \in Workers |-> <<>>] /\ at = [w \in Workers |-> AtStart]
  /\ out = NoFiles

\* ctg: the tasks, and the pool.
Start ==
  /\ main # "waiting" /\ run < MaxRuns
  /\ run' = run + 1 /\ main' = "waiting"
  /\ procs' \in Procs
  /\ groups' \in AllArgsLists
  /\ queue' = Chunks(Len(groups'), procs')
  /\ left' = Len(queue') /\ failed' = FALSE
  /\ UNCHANGED <<job, at, out>>

Take(w) ==
  /\ main = "waiting" /\ w <= procs
  /\ job[w] = <<>> /\ queue # <<>>
  /\ job' = [job EXCEPT ![w] = Head(queue)]
  /\ queue' = Tail(queue)
  /\ UNCHANGED <<run, main, groups, procs, left, failed, at, out>>

\* starmap returns, or raises, when all chunks have returned.
Return ==
  /\ main = "waiting" /\ left = 0
  /\ main' = IF failed THEN "raised" ELSE "done"
  /\ UNCHANGED <<run, groups, procs, poolVars, job, at, out>>

-----------------------------------------------------------------------------
\* How a task ends.
Group(w) == groups[Head(job[w])]
Busy(w)  == job[w] # <<>>

Finish(w, rest) ==
  /\ job' = [job EXCEPT ![w] = rest] /\ at' = [at EXCEPT ![w] = AtStart]
  /\ left' = IF rest = <<>> THEN left - 1 ELSE left
  /\ UNCHANGED <<run, main, groups, procs, queue>>

TaskReturns(w) == Finish(w, Tail(job[w])) /\ UNCHANGED failed
TaskRaises(w)  == Finish(w, <<>>) /\ failed' = TRUE
WorkerExits(w) ==
  /\ job' = [job EXCEPT ![w] = <<>>] /\ at' = [at EXCEPT ![w] = AtStart]
  /\ UNCHANGED <<run, main, groups, procs, poolVars>>

GoOn(w, next) ==
  /\ at' = [at EXCEPT ![w] = next]
  /\ UNCHANGED <<run, main, groups, procs, poolVars, job>>

\* What follows the generation of a mnemonic, or of comb coverpoints.
After(w, ends, files, op, next) ==
  \/ ends = "ok"    /\ GoOn(w, next) /\ out' = Written(files, op)
  \/ ends = "raise" /\ TaskRaises(w) /\ UNCHANGED out
  \/ ends = "exit"  /\ WorkerExits(w) /\ UNCHANGED out

-----------------------------------------------------------------------------
\* create_test: nothing to do.
Skip(w) ==
  /\ Busy(w) /\ at[w] = AtStart
  /\ Group(w).ignore \/ (Group(w).mnemonics = <<>> /\ Group(w).csr = "none")
  /\ TaskReturns(w) /\ UNCHANGED out

Begin(w) ==
  /\ Busy(w) /\ at[w] = AtStart
  /\ ~ Group(w).ignore /\ (Group(w).mnemonics # <<>> \/ Group(w).csr # "none")
  /\ GoOn(w, IF Group(w).mnemonics = <<>> THEN Step("csr") ELSE <<"mnemonic", 1>>)
  /\ UNCHANGED out

\* Faulty variants precede the definitions they are mistakes in.

\* The loop over the mnemonics; with base_op only the first one counts, and
\* its template and that of the base instruction are needed.
Mnemonic(w) == Group(w).mnemonics[at[w][2]]
Here(w)     == Busy(w) /\ at[w][1] = "mnemonic"
HasTemplate(g, m) == m.known /\ g.base \in {"none", "known"}
Following(w) ==
  IF Group(w).base # "none" \/ at[w][2] = Len(Group(w).mnemonics)
  THEN Step("cross") ELSE <<"mnemonic", at[w][2] + 1>>

GenTestFaulty(w) ==
  /\ Here(w) /\ HasTemplate(Group(w), Mnemonic(w))
  /\ IF Mnemonic(w).supported
     THEN After(w, Mnemonic(w).ends, Slices(Group(w), Mnemonic(w)), Mnemonic(w).op, Following(w))
     ELSE TaskReturns(w) /\ UNCHANGED out

\* gen_test: a mnemonic that XLEN or FLEN excludes is skipped; the others get
\* their files, whose names are made from the label of the covergroup.
GenTest(w) ==
  /\ Here(w) /\ HasTemplate(Group(w), Mnemonic(w))
  /\ IF Mnemonic(w).supported
     THEN After(w, Mnemonic(w).ends, Slices(Group(w), Mnemonic(w)), Mnemonic(w).op, Following(w))
     ELSE GoOn(w, Following(w)) /\ UNCHANGED out

NoTemplateFaulty(w) ==
  /\ Here(w) /\ ~ HasTemplate(Group(w), Mnemonic(w))
  /\ WorkerExits(w) /\ UNCHANGED out

\* Without a template the task returns, or, with base_op, goes on.
NoTemplate(w) ==
  /\ Here(w) /\ ~ HasTemplate(Group(w), Mnemonic(w))
  /\ IF Group(w).base = "none" THEN TaskReturns(w) ELSE GoOn(w, Step("cross"))
  /\ UNCHANGED out

CrossComb(w) ==
  /\ Busy(w) /\ at[w] = Step("cross")
  /\ LET g == Group(w)
     IN  IF g.cross = "none" THEN GoOn(w, Step("check")) /\ UNCHANGED out
         ELSE After(w, g.cross, {Comb(g, "cross")}, "cross", Step("check"))

\* "if op_node is None", there is a warning that names opcode.  Only the loop
\* over the mnemonics assigns opcode, so the warning raises an UnboundLocalError.
CheckOpNode(w) ==
  /\ Busy(w) /\ at[w] = Step("check")
  /\ IF HasTemplate(Group(w), Group(w).mnemonics[1]) THEN GoOn(w, Step("csr")) ELSE TaskRaises(w)
  /\ UNCHANGED out

CsrComb(w) ==
  /\ Busy(w) /\ at[w] = Step("csr")
  /\ LET g == Group(w)
     IN  CASE g.csr = "none"  -> TaskReturns(w) /\ UNCHANGED out
           [] g.csr = "ok"    -> TaskReturns(w) /\ out' = Written({Comb(g, "csr")}, "csr")
           [] g.csr = "raise" -> TaskRaises(w) /\ UNCHANGED out

CreateTest(w) ==
  \/ Skip(w) \/ Begin(w) \/ GenTest(w) \/ NoTemplate(w)
  \/ CrossComb(w) \/ CheckOpNode(w) \/ CsrComb(w)

Work(w) == Take(w) \/ CreateTest(w)
Next == Start \/ Return \/ \E w \in Workers : Work(w)

Fairness == WF_vars(Return) /\ \A w \in Workers : WF_vars(Work(w))
Spec == Init /\ [][Next]_vars /\ Fairness

-----------------------------------------------------------------------------
(***************************************************************************)
(* Properties                                                              *)
(***************************************************************************)
\* Whether generating a covergroup fails, or ends the worker.
Tried(g)  == IF g.base = "none" THEN ToSet(g.mnemonics) ELSE {g.mnemonics[1]}
Fails(g)  == ~ g.ignore /\ ("raise" \in {g.cross, g.csr} \/ \E m \in Tried(g) : m.ends = "raise")
Exits(g)  == ~ g.ignore /\ \E m \in Tried(g) : m.ends = "exit"
Untemplated(g) == \E m \in Tried(g) : ~ HasTemplate(g, m)

\* The files a covergroup is to have: those of its last mnemonic, which replace
\* those of the others, as all have the same names, and its combinations.
Combs(g) == {c \in {"cross", "csr"} : g[c] = "ok" /\ (g.mnemonics # <<>> \/ c = "csr")}
LastOf(g) == {k \in DOMAIN g.mnemonics :
              /\ g.mnemonics[k] \in Tried(g) /\ g.mnemonics[k].supported
              /\ \A j \in DOMAIN g.mnemonics :
                   j > k => ~ (g.mnemonics[j].supported /\ g.base = "none")}
DueSlices(g) ==
  UNION {{<<f, g.mnemonics[k].op>> : f \in Slices(g, g.mnemonics[k])} : k \in LastOf(g)}
DueCombs(g) == {<<Comb(g, kind), kind>> : kind \in Combs(g)}
Due(g) == DueSlices(g) \cup DueCombs(g)
Generated(f, op) == f \in DOMAIN out /\ out[f] = [op |-> op, run |-> run]
Clean(g) == ~ Fails(g) /\ ~ Untemplated(g)

\* Whatever other covergroups come to, one whose chunk has no failing one gets
\* all its files in this run, the run that raises an exception included.  A
\* mnemonic that is skipped for its XLEN costs none of the others.
FaultsContained ==
  main \in {"done", "raised"} =>
    \A c \in ToSet(Chunks(Len(groups), procs)) :
      (\A i \in ToSet(c) : Clean(groups[i])) =>
        \A i \in ToSet(c) : ~ groups[i].ignore =>
          \A d \in Due(groups[i]) : Generated(d[1], d[2])

\* The driver comes to an end, whatever fails, unless a worker exits: then the
\* chunk it worked on never returns.
Ends == main = "waiting" /\ ~ (\E i \in DOMAIN groups : Exits(groups[i])) ~> main # "waiting"

-----------------------------------------------------------------------------
(***************************************************************************)
(* The inductive invariant                                                 *)
(***************************************************************************)
AllChunks == Chunks(Len(groups), procs)
Taken     == Len(AllChunks) - Len(queue)
Working   == {w \in Workers : Busy(w)}

PoolTypeOK ==
  /\ run \in Nat /\ main \in {"idle", "waiting", "done", "raised"}
  /\ groups \in Seq(Covergroups)
  /\ \A i, j \in DOMAIN groups : groups[i].label = groups[j].label => i = j
  /\ procs \in Procs \/ (procs = 0 /\ groups = <<>>)
  /\ job \in [Workers -> Seq(DOMAIN groups)]
  /\ at = [w \in Workers |-> at[w]]

\* The chunks are taken in their order.
QueueInv ==
  /\ queue \in Seq(Seq(DOMAIN groups)) /\ Len(queue) <= Len(AllChunks)
  /\ \A k \in DOMAIN queue : queue[k] = AllChunks[Taken + k]

\* A job is of one chunk, names a task once, and shares none with another job.
JobInv ==
  /\ \A w \in Workers : Busy(w) =>
       \E k \in 1..Taken : ToSet(job[w]) \subseteq ToSet(AllChunks[k])
  /\ \A w \in Workers : \A i, j \in DOMAIN job[w] : job[w][i] = job[w][j] => i = j
  /\ \A v, w \in Workers : v # w => ToSet(job[v]) \cap ToSet(job[w]) = {}
  /\ \A w \in Workers : ~ Busy(w) => at[w] = AtStart

\* No chunk returns that was not worked off, and one is missing for each
\* worker that has exited.
LeftInv ==
  /\ left \in Nat /\ left >= Len(queue) + Cardinality(Working)
  /\ main # "waiting" => left = 0

\* While none is missing, a task of a clean chunk that was taken is in a job or
\* has its files.
TaskDone(g) == ~ g.ignore => \A d \in Due(g) : Generated(d[1], d[2])
TaskInv ==
  left = Len(queue) + Cardinality(Working) =>
    \A k \in 1..Taken : (\A i \in ToSet(AllChunks[k]) : Clean(groups[i])) =>
      \A i \in ToSet(AllChunks[k]) :
        (\E w \in Workers : i \in ToSet(job[w])) \/ TaskDone(groups[i])

\* What the first task of a worker has written: the slices of the last of the
\* k mnemonics before that is supported, all slices, the cross combinations.
SlicesOfFirst(g, k) ==
  \A j \in 1..k :
    g.mnemonics[j].supported /\ (\A l \in (j + 1)..k : ~ g.mnemonics[l].supported) =>
      \A f \in Slices(g, g.mnemonics[j]) : Generated(f, g.mnemonics[j].op)
AllSlices(g) == \A d \in DueSlices(g) : Generated(d[1], d[2])
Progress(g, step) ==
  /\ g.ignore => step = AtStart
  /\ step[1] = "mnemonic" =>
       /\ step[2] \in DOMAIN g.mnemonics /\ (g.base # "none" => step[2] = 1)
       /\ SlicesOfFirst(g, step[2] - 1)
  /\ step \in {Step("cross"), Step("check")} => g.mnemonics # <<>>
  /\ step \in {Step("cross"), Step("check"), Step("csr")} => AllSlices(g)
  /\ step \in {Step("check"), Step("csr")} =>
       ("cross" \in Combs(g) => Generated(Comb(g, "cross"), "cross"))
ProgressInv ==
  \A w \in Workers : Busy(w) /\ Clean(Group(w)) => Progress(Group(w), at[w])

PoolIInv == PoolTypeOK /\ QueueInv /\ JobInv /\ LeftInv /\ TaskInv /\ ProgressInv
=============================================================================
