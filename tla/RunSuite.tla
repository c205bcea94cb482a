------------------------------ MODULE RunSuite ------------------------------
(***************************************************************************)
(* The test suite runner, run_suite.sh, and the totals of gen_report.py.   *)
(*                                                                         *)
(* A run truncates results.tsv and puts every test of the two suites       *)
(* through gcc -E, as, ld and the simulator, one after the other.  The     *)
(* tools leave their files in the scratch directory tmp, as t.*; what is   *)
(* worth keeping is copied under the name of the test.  Runs are started   *)
(* one after the other into the same OUT and may be interrupted between    *)
(* any two commands.  The report may be rendered at any time.              *)
(*                                                                         *)
(* The tools and the model under test are external: each may succeed or    *)
(* fail on each test, differently in every run, and the simulator may not  *)
(* come to an end.                                                         *)
(***************************************************************************)
EXTENDS Integers, Sequences, FiniteSets

CONSTANTS
  Rv32, Rv64,    \* the tests of the two suites, as "find | sort" lists them
  Limits,        \* the values LIMIT may have
  MaxRuns        \* bound on the number of runs

\* A test is a record [xlen, page, name].  No test is listed twice.
ASSUME TestAssumption ==
  /\ Rv32 \in Seq([xlen : {32}, page : STRING, name : STRING])
  /\ Rv64 \in Seq([xlen : {64}, page : STRING, name : STRING])
  /\ \A i, j \in 1..Len(Rv32) : Rv32[i] = Rv32[j] => i = j
  /\ \A i, j \in 1..Len(Rv64) : Rv64[i] = Rv64[j] => i = j

ASSUME LimitAssumption == Limits \subseteq Nat /\ MaxRuns \in Nat

VARIABLES
  run,       \* number of the run that is going on or was the last
  pc,        \* the command it executes next; "idle", "ended" or "interrupted"
  limit,     \* LIMIT
  suite,     \* 1 or 2: the call of scan_suite
  n,         \* tests of the suite begun
  verdict,   \* verdict of the current test
  rc,        \* exit code of the simulator
  rows,      \* results.tsv
  tmp,       \* the files tmp/t.* that exist
  kept,      \* the files in OUT that are kept under the name of a test
  shown      \* what the tools did with each test of this run (for properties)

place == <<run, limit, suite, n>>
vars  == <<place, pc, verdict, rc, rows, tmp, kept, shown>>

Suites  == <<Rv32, Rv64>>
Tests   == {Rv32[i] : i \in DOMAIN Rv32} \cup {Rv64[i] : i \in DOMAIN Rv64}
Test    == Suites[suite][n]
Over    == {"idle", "ended", "interrupted"}
Killed  == 124                      \* exit code of timeout(1)

\* A file: the test it belongs to, the run that wrote it, and what it says.
File(text) == [of |-> Test, run |-> run, text |-> text]
NoFiles    == [f \in {} |-> 0]
Put(dir, name, file) == [f \in DOMAIN dir \cup {name} |-> IF f = name THEN file ELSE dir[f]]

\* Faulty variants precede the definitions they are mistakes in.

\* The name under which a file of a test is kept: rv<xlen>_<page>_<name>.
KeyFaulty(kind, t) == <<kind, t.xlen, t.name>>
Key(kind, t) == <<kind, t.xlen, t.page, t.name>>

\* LIMIT, if it is not 0, is the number of tests taken from each suite.
BeyondLimitFaulty(k) == limit > 0 /\ k - 1 > limit
BeyondLimit(k) == limit > 0 /\ k > limit

-----------------------------------------------------------------------------
Init ==
  /\ run = 0 /\ pc = "idle" /\ limit = 0 /\ suite = 1 /\ n = 0
  /\ verdict = "" /\ rc = 0 /\ rows = <<>> /\ tmp = NoFiles /\ kept = NoFiles
  /\ shown = [t \in Tests |-> "nothing"]

StartFaulty ==
  /\ pc \in Over /\ run < MaxRuns
  /\ run' = run + 1 /\ limit' \in Limits
  /\ suite' = 1 /\ n' = 0 /\ pc' = "test"
  /\ shown' = [t \in Tests |-> "nothing"]
  /\ UNCHANGED <<verdict, rc, rows, tmp, kept>>

\* Only the results are cleared: files kept by earlier runs stay.
Start ==
  /\ pc \in Over /\ run < MaxRuns
  /\ run' = run + 1 /\ limit' \in Limits
  /\ rows' = <<>>
  /\ suite' = 1 /\ n' = 0 /\ pc' = "test"
  /\ shown' = [t \in Tests |-> "nothing"]
  /\ UNCHANGED <<verdict, rc, tmp, kept>>

\* The head of the loop: the next test, and a scratch directory without t.*.
LastTest == n = Len(Suites[suite]) \/ BeyondLimit(n + 1)

NextTestFaulty ==
  /\ pc = "test" /\ ~ LastTest
  /\ n' = n + 1 /\ pc' = "gcc"
  /\ UNCHANGED <<run, limit, suite, verdict, rc, rows, tmp, kept, shown>>

NextTest ==
  /\ pc = "test" /\ ~ LastTest
  /\ n' = n + 1 /\ pc' = "gcc"
  /\ tmp' = NoFiles
  /\ UNCHANGED <<run, limit, suite, verdict, rc, rows, kept, shown>>

NextSuite ==
  /\ pc = "test" /\ LastTest
  /\ IF suite = 1 THEN suite' = 2 /\ n' = 0 /\ UNCHANGED pc
                  ELSE pc' = "ended" /\ UNCHANGED <<suite, n>>
  /\ UNCHANGED <<run, limit, verdict, rc, rows, tmp, kept, shown>>

\* gcc, as or ld: on success its product and, perhaps, warnings; on failure
\* messages and a verdict.  t.err is overwritten in either case.
ToolOk(tool, product, next) ==
  /\ pc = tool
  /\ \E warning \in {"", "warnings"} :
       tmp' = Put(Put(tmp, "err", File(warning)), product, File(product))
  /\ pc' = next
  /\ UNCHANGED <<place, verdict, rc, rows, kept, shown>>

ToolFails(tool, v) ==
  /\ pc = tool
  /\ tmp' = Put(tmp, "err", File("errors"))
  /\ verdict' = v /\ shown' = [shown EXCEPT ![Test] = v]
  /\ pc' = "row"
  /\ UNCHANGED <<place, rc, rows, kept>>

Preprocess == ToolOk("gcc", "pp", "as") \/ ToolFails("gcc", "PP_FAIL")
Assemble   == ToolOk("as", "o", "ld") \/ ToolFails("as", "AS_FAIL")
Link       == ToolOk("ld", "elf", "sim") \/ ToolFails("ld", "LD_FAIL")

\* The simulator ends: at the HTIF exit of the test, with success or without,
\* or, with exit code 0 again, when the instruction limit runs out.  It may
\* or may not have written a signature by then, except after a success.
SimEnd(log, code, signature) ==
  /\ tmp' = IF signature THEN Put(Put(tmp, "log", File(log)), "sig", File("sig"))
                         ELSE Put(tmp, "log", File(log))
  /\ rc' = code
  /\ pc' = "judge"
  /\ UNCHANGED <<place, verdict, rows, kept>>

Succeeds == SimEnd("SUCCESS", 0, TRUE) /\ shown' = [shown EXCEPT ![Test] = "PASS"]
RunsOut  == /\ \E signature \in BOOLEAN : SimEnd("trace", 0, signature)
            /\ shown' = [shown EXCEPT ![Test] = "INST_LIMIT"]
Fails    == /\ \E signature \in BOOLEAN : SimEnd("FAILURE", 1, signature)
            /\ shown' = [shown EXCEPT ![Test] = "RUN_FAIL"]
Hangs    == /\ pc' = "hung"
            /\ UNCHANGED <<place, verdict, rc, rows, tmp, kept, shown>>

Simulate == pc = "sim" /\ (Succeeds \/ RunsOut \/ Fails \/ Hangs)

\* A simulator that hangs is killed after 90 seconds, with or without output.
TimeoutFaulty == pc = "hung" /\ FALSE /\ UNCHANGED vars
Timeout ==
  /\ pc = "hung"
  /\ \E log \in {"", "trace"} : SimEnd(log, Killed, FALSE)
  /\ shown' = [shown EXCEPT ![Test] = "TIMEOUT"]

VerdictOfFaulty(log, code) ==
  CASE code = 0      -> "PASS"
    [] code = Killed -> "TIMEOUT"
    [] OTHER         -> "RUN_FAIL"

\* The line SUCCESS decides, then the exit code.
VerdictOf(log, code) ==
  CASE log = "SUCCESS" -> "PASS"
    [] log # "SUCCESS" /\ code = Killed -> "TIMEOUT"
    [] log # "SUCCESS" /\ code = 0 -> "INST_LIMIT"
    [] OTHER -> "RUN_FAIL"

Judge ==
  /\ pc = "judge"
  /\ verdict' = VerdictOf(tmp["log"].text, rc)
  /\ pc' = "row"
  /\ UNCHANGED <<place, rc, rows, tmp, kept, shown>>

AppendRowFaulty ==
  /\ pc = "row"
  /\ rows' = Append(rows, [test |-> Test, verdict |-> verdict])
  /\ pc' = IF verdict = "PASS" THEN "test" ELSE "keep_err"
  /\ UNCHANGED <<place, verdict, rc, tmp, kept, shown>>

AppendRow ==
  /\ pc = "row"
  /\ rows' = Append(rows, [test |-> Test, verdict |-> verdict])
  /\ pc' = IF verdict = "PASS" THEN "keep_sig" ELSE "keep_err"
  /\ UNCHANGED <<place, verdict, rc, tmp, kept, shown>>

\* [ -s file ] && cp file: a file that exists and is not empty is kept.
Keep(name, kind, next) ==
  /\ kept' = IF name \in DOMAIN tmp /\ tmp[name].text # ""
             THEN Put(kept, Key(kind, Test), tmp[name]) ELSE kept
  /\ pc' = next
  /\ UNCHANGED <<place, verdict, rc, rows, tmp, shown>>

KeepErr == pc = "keep_err" /\ Keep("err", "fail_err", "keep_log")
KeepLog == pc = "keep_log" /\ Keep("log", "fail_log", "keep_sig")
KeepSig == pc = "keep_sig" /\ Keep("sig", "sig", "test")

Interrupt ==
  /\ pc \notin Over
  /\ pc' = "interrupted"
  /\ UNCHANGED <<place, verdict, rc, rows, tmp, kept, shown>>

Pipeline == Preprocess \/ Assemble \/ Link \/ Simulate \/ Timeout \/ Judge
Record   == AppendRow \/ KeepErr \/ KeepLog \/ KeepSig
Proceed  == NextTest \/ NextSuite \/ Pipeline \/ Record

Next == Start \/ Proceed \/ Interrupt

Spec == Init /\ [][Next]_vars /\ WF_vars(Proceed)

-----------------------------------------------------------------------------
(***************************************************************************)
(* gen_report.py: the totals of the report, rendered from the rows that    *)
(* exist.                                                                  *)
(***************************************************************************)
NPass == Cardinality({i \in DOMAIN rows : rows[i].verdict = "PASS"})
ByXlen(x) ==
  LET ofX == {i \in DOMAIN rows : rows[i].test.xlen = x}
  IN  <<Cardinality({i \in ofX : rows[i].verdict = "PASS"}), Cardinality(ofX)>>

-----------------------------------------------------------------------------
(***************************************************************************)
(* Properties                                                              *)
(***************************************************************************)
Verdicts == {"PASS", "PP_FAIL", "AS_FAIL", "LD_FAIL", "TIMEOUT", "INST_LIMIT", "RUN_FAIL"}
PCs == Over \cup {"test", "gcc", "as", "ld", "sim", "hung", "judge",
               "row", "keep_err", "keep_log", "keep_sig"}
Scratch == {"err", "pp", "o", "elf", "log", "sig"}

TypeOK ==
  /\ run \in 0..MaxRuns /\ pc \in PCs /\ limit \in Limits \cup {0}
  /\ suite \in {1, 2} /\ n \in 0..Len(Suites[suite])
  /\ verdict \in Verdicts \cup {""} /\ rc \in {0, 1, Killed}
  /\ rows \in Seq([test : Tests, verdict : Verdicts])
  /\ DOMAIN tmp \subseteq Scratch
  /\ shown \in [Tests -> Verdicts \cup {"nothing"}]

\* "PASS means the test assembled, linked and ran to the HTIF exit (the
\* simulator's SUCCESS line)" (README.md): a row tells what happened to its own
\* test in the run that wrote results.tsv, whatever earlier runs left behind.
RowsTrue == \A i \in DOMAIN rows : rows[i].verdict = shown[rows[i].test]

\* The expected result, "764/764 PASS", is only reported if each of the tests
\* passed in one and the same run: no sequence of interrupted and limited
\* runs adds up to it.
FullPassIsFull ==
  NPass = Len(Rv32) + Len(Rv64) /\ Len(rows) = NPass =>
    /\ \A t \in Tests : shown[t] = "PASS"
    /\ ByXlen(32)[2] = Len(Rv32) /\ ByXlen(64)[2] = Len(Rv64)

\* What is kept under the name of a test comes from that test: tests of the same
\* name on several pages, and scratch files of the test before, do not mix.
KeptIsOwn == \A t \in Tests, kind \in {"fail_err", "fail_log", "sig"} :
               Key(kind, t) \in DOMAIN kept => kept[Key(kind, t)].of = t

\* A run that is not interrupted comes to its end although the simulator may
\* hang on any test (timeout 90).
RunEnds == pc \notin Over ~> pc \in Over

\* "The per-test signatures land in results/current/... and can be compared
\* with the reference run" (README.md): once a row says PASS and the runner is
\* past that test, the signature kept for the test exists and was written by
\* this run, although OUT holds signatures of earlier runs.
PassedSigned ==
  \A i \in DOMAIN rows :
    rows[i].verdict = "PASS" /\ (i < Len(rows) \/ pc \in {"test", "ended"}) =>
      /\ Key("sig", rows[i].test) \in DOMAIN kept
      /\ kept[Key("sig", rows[i].test)].run = run

-----------------------------------------------------------------------------
\* What a run promises: results.tsv is, at any time, the verdicts of the first
\* tests of a fixed order, and grows by one test at a time.
Order == INSTANCE SuiteOrder
           WITH Rv32 <- Rv32, Rv64 <- Rv64, Limits <- Limits, limit <- limit, rows <- rows
Promise == Order!Spec

-----------------------------------------------------------------------------
\* The inductive invariant behind these properties.  While a test is worked on
\* its row is the one due next; scratch files are those of this test; and what
\* the runner is about to write down is what the tools have shown.
Working == {"gcc", "as", "ld", "sim", "hung", "judge", "row"}
Keeping == {"keep_err", "keep_log", "keep_sig"}

Before == IF suite = 1 THEN 0 ELSE Len(Order!Taken(Rv32))

OrderInv ==
  /\ \A i \in DOMAIN rows : rows[i].test = Order!Due[i]
  /\ Len(rows) <= Len(Order!Due)
  /\ pc \notin Over =>
       /\ n <= Len(Order!Taken(Suites[suite]))
       /\ Len(rows) = Before + n - (IF pc \in Working THEN 1 ELSE 0)
       /\ pc # "test" => n > 0

FilesInv == pc \in Working \cup Keeping => \A f \in DOMAIN tmp : tmp[f].of = Test

ShownInv ==
  /\ pc = "row" => verdict = shown[Test]
  /\ pc = "judge" => "log" \in DOMAIN tmp /\ VerdictOf(tmp["log"].text, rc) = shown[Test]

IInv == TypeOK /\ OrderInv /\ FilesInv /\ ShownInv /\ RowsTrue /\ KeptIsOwn

\* What PassedSigned needs besides: a success has left a signature that is not
\* empty, by this run, and while a test is worked on no earlier one lacks its own.
HasSig    == "sig" \in DOMAIN tmp /\ tmp["sig"].text # ""
Signed(t) == Key("sig", t) \in DOMAIN kept /\ kept[Key("sig", t)].run = run

RunFiles == pc \in Working \cup Keeping => \A f \in DOMAIN tmp : tmp[f].run = run

SigSeen ==
  /\ pc = "judge" /\ tmp["log"].text = "SUCCESS" => HasSig
  /\ pc = "row" /\ verdict = "PASS" => HasSig
  /\ pc \in Keeping /\ rows[Len(rows)].verdict = "PASS" => pc = "keep_sig" /\ HasSig

SigRows ==
  \A i \in DOMAIN rows :
    rows[i].verdict = "PASS" /\ (i < Len(rows) \/ pc \in {"test", "ended"} \cup Working)
      => Signed(rows[i].test)

SigInv == RunFiles /\ SigSeen /\ SigRows
=============================================================================
