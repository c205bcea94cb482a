----------------------------- MODULE MCRegAlloc -----------------------------
(***************************************************************************)
(* Model-checking instance of RegAlloc.                                    *)
(***************************************************************************)
EXTENDS RegAlloc, InstrMenus
=============================================================================
