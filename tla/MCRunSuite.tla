----------------------------- MODULE MCRunSuite -----------------------------
(***************************************************************************)
(* Model-checking instance of RunSuite: tests of the same name on two      *)
(* pages.                                                                  *)
(***************************************************************************)
EXTENDS RunSuite

T(x, p, m) == [xlen |-> x, page |-> p, name |-> m]

TwoPages == <<T(32, "p4", "padd"), T(32, "p6", "padd")>>
None     == <<>>
=============================================================================
