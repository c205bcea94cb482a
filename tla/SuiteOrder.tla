----------------------------- MODULE SuiteOrder -----------------------------
(***************************************************************************)
(* What a run of run_suite.sh promises about results.tsv, without the      *)
(* commands it consists of: a run begins with an empty file and adds one   *)
(* row per test, first for the tests of the 32-bit suite, then for those   *)
(* of the 64-bit suite, at most LIMIT of each unless LIMIT is 0.           *)
(***************************************************************************)
EXTENDS Integers, Sequences

CONSTANTS Rv32, Rv64, Limits

VARIABLES limit, rows

Taken(tests) ==
  IF limit = 0 \/ limit > Len(tests) THEN tests ELSE SubSeq(tests, 1, limit)

Due == Taken(Rv32) \o Taken(Rv64)

Init == limit = 0 /\ rows = <<>>

Begin == limit' \in Limits /\ rows' = <<>>

AddRow ==
  /\ Len(rows) < Len(Due)
  /\ \E v \in {"PASS", "PP_FAIL", "AS_FAIL", "LD_FAIL", "TIMEOUT", "INST_LIMIT", "RUN_FAIL"} :
       rows' = Append(rows, [test |-> Due[Len(rows) + 1], verdict |-> v])
  /\ UNCHANGED limit

Next == Begin \/ AddRow

Spec == Init /\ [][Next]_<<limit, rows>>
=============================================================================
