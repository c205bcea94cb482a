----------------------------- MODULE MCSigLayout -----------------------------
(***************************************************************************)
(* Model-checking instance of SigLayout for formats without a val section. *)
(* Their files have no RVTEST_VALBASEUPD, so that of LayoutNext they can   *)
(* take all steps but RunValbase.                                          *)
(***************************************************************************)
EXTENDS SigLayout, InstrMenus

NoValNext ==
  \/ Allocate \/ WriteTest \/ WriteInstance \/ CloseFile
  \/ RunSigbase \/ RunTest \/ NextFile

NoValSpec == LayoutInit /\ [][NoValNext]_allVars /\ WF_allVars(NoValNext)
=============================================================================
