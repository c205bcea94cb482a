--------------------------- MODULE TrapSetup ---------------------------
(***************************************************************************)
(* RVTEST_TRAP_PROLOG and RVTEST_TRAP_EPILOG of src/env/arch-test/         *)
(* arch_test.h: before the test, M mode points the trap vector of each     *)
(* mode to a trampoline, or, where the vector cannot be written, copies    *)
(* the trampoline over the code it points to; after the test it puts       *)
(* everything back.  Both run in M mode with interrupts disabled.          *)
(***************************************************************************)
EXTENDS CsrEncoding, FiniteSets

CONSTANTS
  Modes,       \* the modes with a handler: {"M"} or {"M", "S"}
  TrampWords,  \* words of the trampoline (actual_tramp_sz)
  OrigDeleg    \* medeleg when the test starts

ASSUME SetupAssumption ==
  /\ Modes \in {{"M"}, {"M", "S"}}
  /\ TrampWords \in Nat \ {0}
  /\ OrigDeleg \subseteq Nat

VARIABLES
  phase,    \* where the hart is: the prolog's parts, the test, the epilog, or halted
  cur,      \* the mode the prolog or epilog is busy with
  kind,     \* of each mode: is xtvec writable ("rw"), fixed ("fixed") or fixed to 0 ("zero")
  room,     \* of each mode: how many words can be overwritten where a fixed xtvec points to
  scratch,  \* xscratch of each mode
  tvec,     \* xtvec of each mode: its value at the start, or the trampoline
  medeleg,  \* the exceptions M mode delegates
  satp,     \* satp: its value at the start, or the identity map
  target,   \* of each mode: the words at the value xtvec has at the start
  \* the save areas, apart from their registers, which are in TrapHandler:
  saved,    \* xscr_save, xedeleg_sv and xsatp_sv
  tvec_sv,  \* xtvec_sav
  trampend, \* where copying stopped
  tramp_sv  \* the code the trampoline replaced
svc == <<saved, tvec_sv, trampend, tramp_sv>>
setupVars == <<phase, cur, kind, room, scratch, tvec, medeleg, satp, target, svc>>

(* The areas follow one another; xscratch of a mode points to its area.    *)
Area == [M |-> 1, S |-> 2]
OrigScratch == 0

Words == 1 .. TrampWords

(* RVTEST_TRAP_SAVEAREA fills the save space of the code with jumps to     *)
(* themselves.                                                             *)
SetupInit ==
  /\ phase = "save"
  /\ cur = "M"
  /\ kind \in [Modes -> {"rw", "fixed", "zero"}]
  /\ room \in [Modes -> 0 .. TrampWords]
  /\ \A m \in Modes : kind[m] # "fixed" => room[m] = 0
  /\ scratch = [m \in Modes |-> OrigScratch]
  /\ tvec = [m \in Modes |-> "orig"]
  /\ medeleg = OrigDeleg
  /\ satp = "orig"
  /\ target = [m \in Modes |-> [w \in Words |-> "orig"]]
  /\ saved = [a \in {1, 2} |-> [scratch |-> OrigScratch, deleg |-> {}, satp |-> "orig"]]
  /\ tvec_sv = [a \in {1, 2} |-> "none"]
  /\ trampend = [a \in {1, 2} |-> 0]
  /\ tramp_sv = [a \in {1, 2} |-> [w \in Words |-> "self"]]

-----------------------------------------------------------------------------
(* init_xscratch, init_xedeleg, init_xsatp.  medeleg is cleared only when  *)
(* there is an S-mode handler, sedeleg never.                              *)
SaveCsrs(m) ==
  /\ phase = "save"
  /\ cur = m
  /\ phase' = "tvec"
  /\ scratch' = [scratch EXCEPT ![m] = Area[m]]
  /\ medeleg' = IF m = "M" /\ "S" \in Modes THEN {} ELSE medeleg
  /\ satp' = IF m = "M" THEN satp ELSE "ident"
  /\ saved' = [saved EXCEPT ![Area[m]] =
                 [scratch |-> scratch[m],
                  deleg |-> IF m = "M" /\ "S" \in Modes THEN medeleg ELSE {},
                  satp |-> IF m = "M" THEN saved[Area[m]].satp ELSE satp]]
  /\ UNCHANGED <<cur, kind, room, tvec, target, tvec_sv, trampend, tramp_sv>>

(* The next mode's prolog, or the test.                                    *)
PrologDone(m) ==
  IF m = "M" /\ "S" \in Modes
    THEN phase' = "save" /\ cur' = "S"
    ELSE phase' = "test" /\ cur' = m

(* init_xtvec: write the vector and read it back; a fixed vector of 0 ends *)
(* the test in the epilog of this mode.                                    *)
InitTvec(m) ==
  /\ phase = "tvec"
  /\ cur = m
  /\ tvec_sv' = [tvec_sv EXCEPT ![Area[m]] = tvec[m]]
  /\ IF kind[m] = "rw"
       THEN /\ tvec' = [tvec EXCEPT ![m] = "tramp"]
            /\ PrologDone(m)
       ELSE /\ phase' = IF kind[m] = "zero" THEN "epilog" ELSE "copy"
            /\ UNCHANGED <<cur, tvec>>
  /\ UNCHANGED <<kind, room, scratch, medeleg, satp, target, saved, trampend, tramp_sv>>

(* init_xtramp: word after word the old code is saved and overwritten, up  *)
(* to the first word that reads back differently, which is saved as well.  *)
(* trampend is the word the loop stopped at.                               *)
CopyTrampoline(m) ==
  /\ phase = "copy"
  /\ cur = m
  /\ target' = [target EXCEPT ![m] = [w \in Words |-> IF w <= room[m] THEN "tramp" ELSE @[w]]]
  /\ trampend' = [trampend EXCEPT ![Area[m]] = room[m] + 1]
  /\ tramp_sv' = [tramp_sv EXCEPT ![Area[m]] =
                    [w \in Words |-> IF w <= room[m] + 1 THEN target[m][w] ELSE @[w]]]
  /\ IF room[m] = TrampWords
       THEN PrologDone(m)
       ELSE phase' = "epilog" /\ cur' = cur
  /\ UNCHANGED <<kind, room, scratch, tvec, medeleg, satp, saved, tvec_sv>>

-----------------------------------------------------------------------------
(* resto_xtramp: the loop tests its bound after the first word.            *)
RestoredFaulty(a) == { w \in Words : w < trampend[a] - 1 }
Restored(a) == { w \in Words : w < trampend[a] \/ w = 1 }

(* The epilog of one mode: its area is found from mscratch.  The code is   *)
(* put back if xtvec holds what it held at the start.                      *)
Epilog(m) ==
  LET a == scratch["M"] + (IF m = "S" THEN 1 ELSE 0)
  IN  /\ phase = "epilog"
      /\ cur = m
      /\ medeleg' = IF m = "M" /\ "S" \in Modes THEN saved[a].deleg ELSE medeleg
      /\ satp' = IF m = "M" THEN satp ELSE saved[a].satp
      /\ scratch' = [scratch EXCEPT ![m] = saved[a].scratch]
      /\ tvec' = [tvec EXCEPT ![m] = tvec_sv[a]]
      /\ target' = IF tvec_sv[a] = tvec[m]
                     THEN [target EXCEPT ![m] =
                             [w \in Words |-> IF w \in Restored(a) THEN tramp_sv[a][w] ELSE @[w]]]
                     ELSE target
      /\ IF m = "S" THEN phase' = "epilog" /\ cur' = "M" ELSE phase' = "halt" /\ cur' = cur
      /\ UNCHANGED <<kind, room, svc>>

SetupNext ==
  \E m \in Modes : SaveCsrs(m) \/ InitTvec(m) \/ CopyTrampoline(m) \/ Epilog(m)

-----------------------------------------------------------------------------
(* What the epilogs have to bring back.  A vector fixed to 0 is left out:  *)
(* there the restoring loop writes the first word of its empty save space  *)
(* to address 0.                                                           *)
AsBefore ==
  /\ \A m \in Modes :
       /\ scratch[m] = OrigScratch
       /\ tvec[m] = "orig"
       /\ kind[m] # "zero" => target[m] = [w \in Words |-> "orig"]
  /\ medeleg = OrigDeleg
  /\ satp = "orig"
=============================================================================
