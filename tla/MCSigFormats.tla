---------------------------- MODULE MCSigFormats ----------------------------
(***************************************************************************)
(* Two formats for model-checking SigLayout in one run.  The constants of  *)
(* the cfg are those of a format that loads its operands and reads the     *)
(* flags (fadd.s of fd.yaml on RV32).  The other is kadd64 of              *)
(* template.yaml on RV64: its macro stores two words and its stride is     *)
(* three, so that a full region ends with a word that only CHK_OFFSET lets *)
(* an immediate reach: there are 7 such offsets here, and 256 in the code, *)
(* both one more than a multiple of three.  Of the constants that differ,  *)
(* the invariants of the cfg depend on none: Words is 2 in both formats.   *)
(***************************************************************************)
EXTENDS SigLayout, InstrMenus

VARIABLE format

Kadd64 == INSTANCE SigLayout WITH
  Stride <- 3, StrideSz <- 8, WordSz <- 8, OffsetLimit <- 55,
  HasVal <- FALSE, IsFext <- FALSE, Explicit <- TRUE

FormatInit == \/ format = "fadd.s" /\ LayoutInit
              \/ format = "kadd64" /\ Kadd64!LayoutInit

FormatNext ==
  /\ \/ format = "fadd.s" /\ LayoutNext
     \/ format = "kadd64" /\ Kadd64!LayoutNext
  /\ UNCHANGED format

FormatSpec == FormatInit /\ [][FormatNext]_<<allVars, format>>
=============================================================================
