-------------------------- MODULE TrapHandler --------------------------
(***************************************************************************)
(* RVTEST_TRAP_HANDLER of src/env/arch-test/arch_test.h, one copy for each *)
(* mode, between prolog and epilog (TrapSetup).  A handler saves its       *)
(* registers in the area xscratch points to, reserves an entry of the      *)
(* trap signature by advancing a pointer that all modes share, describes   *)
(* the trap in the entry, clears an interrupt and returns; or it ends the  *)
(* test.  The S-mode handler can be interrupted by M mode between any two  *)
(* of its actions.  Words are of REGWIDTH bytes, counted from              *)
(* rvtest_sig_begin.                                                       *)
(***************************************************************************)
EXTENDS TrapSetup, Sequences

CONSTANTS
  SigWords,    \* regular signature and the canary behind it
  SigEnd,      \* rvtest_sig_end: the trap area, its canaries and saved registers before it
  Xlen,        \* 32 or 64
  ClrDefined,  \* the interrupts whose RVMODEL_CLR_* macro the target defines
  Raised,      \* exception causes the test provokes
  Delegations, \* the values the test may give to medeleg
  Enables,     \* the sets of interrupts the test may enable
  TestRegs,    \* what the registers hold in the test
  MaxTraps     \* bound on the traps of a test

Regs == {"T1", "T2", "T3", "T4", "T5", "T6", "sp"}
ExcCodes == { Cause[c] : c \in DOMAIN Cause }
MInts == {Irq.m_soft, Irq.m_timer, Irq.m_ext}
SInts == {Irq.s_soft, Irq.s_timer, Irq.s_ext}

(* An illegal instruction must stay with M mode: arch_test.h warns that a  *)
(* test which delegates it may never come back to M mode.                  *)
ASSUME HandlerAssumption ==
  /\ SigWords \in Nat /\ SigEnd \in Nat /\ MaxTraps \in Nat
  /\ 0 < SigWords /\ SigWords < SigEnd
  /\ Xlen \in {32, 64}
  /\ ClrDefined \subseteq MInts
  /\ Raised \subseteq ExcCodes
  /\ \A e \in Enables : e \subseteq MInts \cup SInts
  /\ \A d \in Delegations : d \subseteq ExcCodes \ {Cause.illegal_instruction}
  /\ TestRegs \in [Regs -> Int]
  /\ TestRegs["sp"] # 0

VARIABLES
  mode,     \* mode of the test
  ending,   \* the test has reached rvtest_code_end
  aborted,  \* abort_tests was reached
  pc,       \* of each handler: the step it is about to take, or "idle"
  trap,     \* of each handler: the trap it handles
  regs,     \* the registers the handlers use
  svr,      \* the registers saved in each area
  ptr,      \* the trap signature pointer, kept in the area of M mode
  mem,      \* what handlers stored in the signature: <<e, k>> the k-th word of entry e
  ie,       \* enabled interrupts
  id,       \* of each handler: the entry it writes
  log,      \* the entries reserved so far
  stored,   \* of each entry: how many of its words are stored
  torn,     \* an M-mode trap came between reading and writing the pointer in S mode
  before,   \* of each handler: the registers when the trap was taken
  taken     \* how many traps the test has met
handlerVars ==
  <<mode, ending, aborted, pc, trap, regs, svr, ptr, mem, ie, id, log, stored, torn, before, taken>>
vars == <<setupVars, handlerVars>>

NoTrap == [int |-> FALSE, code |-> 0, epc |-> "in", tval |-> "in"]

Init ==
  /\ SetupInit
  /\ mode = "M"
  /\ ending = FALSE
  /\ aborted = FALSE
  /\ pc = [m \in Modes |-> "idle"]
  /\ trap = [m \in Modes |-> NoTrap]
  /\ regs = TestRegs
  /\ svr = [a \in {1, 2} |-> [r \in Regs |-> 0]]
  /\ ptr = SigWords
  /\ mem = [w \in {} |-> <<0, 0>>]
  /\ ie = {}
  /\ id = [m \in Modes |-> 0]
  /\ log = <<>>
  /\ stored = <<>>
  /\ torn = FALSE
  /\ before = [m \in Modes |-> TestRegs]
  /\ taken = 0

-----------------------------------------------------------------------------
(* The hart takes a trap to mode m: whatever runs is interrupted.          *)
Idle == \A m \in Modes : pc[m] = "idle"
Testing == phase = "test" /\ Idle

Take(m, t) ==
  /\ pc' = [pc EXCEPT ![m] = "swap"]
  /\ trap' = [trap EXCEPT ![m] = t]
  /\ before' = [before EXCEPT ![m] = regs]
  /\ torn' = (torn \/ (m = "M" /\ "S" \in Modes /\ pc["S"] = "write"))
  /\ UNCHANGED <<setupVars, mode, aborted, svr, ptr, mem, ie, id, log, stored>>

Ecall == [M |-> Cause.machine_ecall, S |-> Cause.supervisor_ecall, U |-> Cause.user_ecall]
HandlerOf(code) == IF mode # "M" /\ "S" \in Modes /\ code \in medeleg THEN "S" ELSE "M"

(* An exception of the test; its addresses lie in the areas a handler      *)
(* knows (code, data, signature), or elsewhere.                            *)
Exception ==
  \E c \in Raised, e, v \in {"in", "out"} :
    /\ Testing /\ ~ending /\ taken < MaxTraps
    /\ taken' = taken + 1
    /\ Take(HandlerOf(c), [int |-> FALSE, code |-> c, epc |-> e, tval |-> v])
    /\ UNCHANGED <<regs, ending>>

(* An interrupt: to M mode from anywhere but M's own handler, to S mode    *)
(* from the test below M mode.                                             *)
Interrupt(m) ==
  \E c \in ie :
    /\ phase = "test" /\ taken < MaxTraps
    /\ pc["M"] = "idle"
    /\ m = "S" => Idle /\ mode # "M" /\ c \in SInts
    /\ taken' = taken + 1
    /\ Take(m, [int |-> TRUE, code |-> c, epc |-> "in", tval |-> "in"])
    /\ UNCHANGED <<regs, ending>>

(* RVTEST_GOTO_MMODE: an ecall with x2 = 0.                                *)
EcallM ==
  LET h == HandlerOf(Ecall[mode])
  IN  /\ Testing /\ ~ending
      /\ regs' = [regs EXCEPT !["sp"] = 0]
      /\ pc' = [pc EXCEPT ![h] = "swap"]
      /\ trap' = [trap EXCEPT ![h] = [int |-> FALSE, code |-> Ecall[mode],
                                      epc |-> "in", tval |-> "in"]]
      /\ before' = [before EXCEPT ![h] = regs']
      /\ UNCHANGED <<setupVars, mode, aborted, svr, ptr, mem, ie, id, log, stored, torn>>

GotoMmode == EcallM /\ taken < MaxTraps /\ taken' = taken + 1 /\ UNCHANGED ending

(* RVTEST_CODE_END is the test's last RVTEST_GOTO_MMODE.                   *)
CodeEnd == EcallM /\ ending' = TRUE /\ UNCHANGED taken

(* RVTEST_GOTO_LOWER_MODE: sp becomes mscratch, T1 and T4 are used.        *)
GotoLower ==
  \E l \in (Modes \cup {"U"}) \ {"M"} :
    /\ Testing /\ ~ending
    /\ mode = "M"
    /\ mode' = l
    /\ regs' = [regs EXCEPT !["sp"] = scratch["M"], !["T1"] = 0, !["T4"] = 0]
    /\ UNCHANGED <<setupVars, ending, aborted, pc, trap, svr, ptr, mem, ie, id, log, stored, torn,
                   before, taken>>

(* The test chooses what is delegated and which interrupts are enabled.    *)
Configure ==
  \E d \in Delegations, e \in Enables :
    /\ Testing /\ ~ending
    /\ mode = "M"
    /\ medeleg' = IF "S" \in Modes THEN d ELSE medeleg
    /\ ie' = e
    /\ UNCHANGED <<phase, cur, kind, room, scratch, tvec, satp, target, svc, mode, ending,
                   aborted, pc, trap, regs, svr, ptr, mem, id, log, stored, torn, before, taken>>

-----------------------------------------------------------------------------
(* The steps of a handler.  M mode has precedence.                         *)
At(m, l) == phase = "test" /\ pc[m] = l /\ (m # "M" => pc["M"] = "idle")
To(m, l) == pc' = [pc EXCEPT ![m] = l]
Keep == UNCHANGED <<phase, cur, kind, room, tvec, medeleg, satp, target, svc,
                    ending, aborted, trap, torn, before, taken>>

Store(w, v) ==
  mem' = [x \in DOMAIN mem \cup {w} |-> IF x = w THEN v ELSE mem[x]]

(* trap_xhandler: sp and xscratch change places.                           *)
Swap(m) ==
  /\ At(m, "swap")
  /\ To(m, "stash")
  /\ regs' = [regs EXCEPT !["sp"] = scratch[m]]
  /\ scratch' = [scratch EXCEPT ![m] = regs["sp"]]
  /\ Keep /\ UNCHANGED <<mode, svr, ptr, mem, ie, id, log, stored>>

(* T6 and T5 go to the area and are used from here on.                     *)
StashFaulty(m) ==
  /\ At(m, "stash")
  /\ To(m, "unswap")
  /\ svr' = [svr EXCEPT ![regs["sp"]]["T6"] = 0, ![regs["sp"]]["T5"] = regs["T5"]]
  /\ regs' = [regs EXCEPT !["T6"] = 0]
  /\ Keep /\ UNCHANGED <<mode, scratch, ptr, mem, ie, id, log, stored>>
Stash(m) ==
  /\ At(m, "stash")
  /\ To(m, "unswap")
  /\ svr' = [svr EXCEPT ![regs["sp"]]["T6"] = regs["T6"], ![regs["sp"]]["T5"] = regs["T5"]]
  /\ regs' = [regs EXCEPT !["T6"] = 0]
  /\ Keep /\ UNCHANGED <<mode, scratch, ptr, mem, ie, id, log, stored>>

(* xscratch points to the area again, and sp of the test is saved.         *)
Unswap(m) ==
  /\ At(m, "unswap")
  /\ To(m, "temps")
  /\ scratch' = [scratch EXCEPT ![m] = regs["sp"]]
  /\ svr' = [svr EXCEPT ![regs["sp"]]["sp"] = scratch[m]]
  /\ regs' = [regs EXCEPT !["T5"] = 0]
  /\ Keep /\ UNCHANGED <<mode, ptr, mem, ie, id, log, stored>>

(* How many words an entry has: three for an interrupt below m_timer.      *)
EntrySizeFaulty(t) == IF t.int THEN 3 ELSE 4
EntrySize(t) == IF t.int /\ t.code < Irq.m_timer THEN 3 ELSE 4

(* The remaining registers are saved.  An ecall of the test with x2 = 0    *)
(* goes to rtn2mmode, which only M mode can execute; for anything else the *)
(* size of the entry is computed.                                          *)
EcallCodes == 8 .. 11
IsGotoMmodeFaulty(m) ==
  ~trap[m].int /\ trap[m].code \in EcallCodes /\ regs["sp"] = 0
IsGotoMmode(m) ==
  ~trap[m].int /\ trap[m].code \in EcallCodes /\ svr[regs["sp"]]["sp"] = 0
Temps(m) ==
  /\ At(m, "temps")
  /\ To(m, IF ~IsGotoMmode(m) THEN "read" ELSE IF m = "M" THEN "rtn2mmode" ELSE "cleanup")
  /\ svr' = [svr EXCEPT ![regs["sp"]]["T1"] = regs["T1"], ![regs["sp"]]["T2"] = regs["T2"],
                        ![regs["sp"]]["T3"] = regs["T3"], ![regs["sp"]]["T4"] = regs["T4"]]
  /\ regs' = [regs EXCEPT !["T2"] = EntrySize(trap[m]), !["T5"] = trap[m].code]
  /\ Keep /\ UNCHANGED <<mode, scratch, ptr, mem, ie, id, log, stored>>

(* "this should be atomic": the pointer is read ...                        *)
ReadPtr(m) ==
  /\ At(m, "read")
  /\ To(m, "write")
  /\ regs' = [regs EXCEPT !["T1"] = ptr]
  /\ Keep /\ UNCHANGED <<mode, scratch, svr, ptr, mem, ie, id, log, stored>>

(* ... and written back, advanced by the size of the entry.                *)
WritePtr(m) ==
  /\ At(m, "write")
  /\ To(m, "vect")
  /\ regs' = [regs EXCEPT !["T4"] = regs["T1"] + regs["T2"]]
  /\ ptr' = regs["T1"] + regs["T2"]
  /\ log' = Append(log, [at |-> regs["T1"], len |-> regs["T2"]])
  /\ stored' = Append(stored, 0)
  /\ id' = [id EXCEPT ![m] = Len(log) + 1]
  /\ Keep /\ UNCHANGED <<mode, scratch, svr, mem, ie>>

(* The k-th word of the entry is stored.                                   *)
Save(m, k) ==
  /\ Store(regs["T1"] + k, <<id[m], k>>)
  /\ stored' = [stored EXCEPT ![id[m]] = k + 1]
  /\ Keep /\ UNCHANGED <<mode, scratch, regs, svr, ptr, id, log>>

SaveVect(m) == At(m, "vect") /\ To(m, "cause") /\ Save(m, 0) /\ UNCHANGED ie
SaveCause(m) ==
  At(m, "cause") /\ To(m, IF trap[m].int THEN "ip" ELSE "epc") /\ Save(m, 1) /\ UNCHANGED ie

Skip(m) == Keep /\ UNCHANGED <<mode, scratch, regs, svr, ptr, mem, ie, id, log, stored>>

(* An address outside the segments ends the test.                          *)
SaveEpc(m) ==
  /\ At(m, "epc")
  /\ IF trap[m].epc = "in"
       THEN To(m, "tval") /\ Save(m, 2) /\ UNCHANGED ie
       ELSE To(m, "cleanup") /\ Skip(m)

(* SET_REL_TVAL_MSK: for these causes xtval holds an address.              *)
RelTval == ExcCodes \ ({Cause.illegal_instruction} \cup EcallCodes)
SaveTval(m) ==
  /\ At(m, "tval")
  /\ IF trap[m].code \in RelTval /\ trap[m].tval = "out"
       THEN To(m, "cleanup") /\ Skip(m)
       ELSE To(m, "overrun") /\ Save(m, 3) /\ UNCHANGED ie

(* chk_trapsig_overrun, after the entry has been written and only for      *)
(* exceptions.  Their dispatch entries all lead to the return.             *)
OverrunFaulty(m) ==
  /\ At(m, "overrun")
  /\ To(m, IF regs["T1"] > SigEnd THEN "cleanup" ELSE "resto")
  /\ regs' = [regs EXCEPT !["T1"] = SigEnd, !["T2"] = 0, !["T4"] = ptr]
  /\ Keep /\ UNCHANGED <<mode, scratch, svr, ptr, mem, ie, id, log, stored>>
Overrun(m) ==
  /\ At(m, "overrun")
  /\ To(m, IF ptr > SigEnd THEN "cleanup" ELSE "resto")
  /\ regs' = [regs EXCEPT !["T1"] = SigEnd, !["T2"] = 0, !["T4"] = ptr]
  /\ Keep /\ UNCHANGED <<mode, scratch, svr, ptr, mem, ie, id, log, stored>>

(* The interrupt is disabled.                                              *)
SaveIp(m) ==
  At(m, "ip") /\ To(m, "dispatch") /\ Save(m, 2) /\ ie' = ie \ {trap[m].code}

(* clrint_xtbl: every instance has the table of the M-only case, in which  *)
(* the S-mode interrupts have the odd entry 1: no cause equals it, and the *)
(* test is aborted.  A clear macro the target does not define ends the     *)
(* test as well.                                                           *)
Dispatch(m) ==
  /\ At(m, "dispatch")
  /\ To(m, CASE trap[m].code \notin MInts -> "abort"
             [] trap[m].code \in MInts \ ClrDefined -> "cleanup"
             [] trap[m].code \in ClrDefined \ {Irq.m_ext} -> "resto"
             [] trap[m].code \in ClrDefined \cap {Irq.m_ext} -> "intid")
  /\ Skip(m)

SaveIntId(m) == At(m, "intid") /\ To(m, "resto") /\ Save(m, 3) /\ UNCHANGED ie

(* resto_xrtn                                                              *)
Resto(m) ==
  /\ At(m, "resto")
  /\ To(m, "idle")
  /\ regs' = svr[regs["sp"]]
  /\ Keep /\ UNCHANGED <<mode, scratch, svr, ptr, mem, ie, id, log, stored>>

(* rtn2mmode: back to the instruction after the ecall, now in M mode.  T2  *)
(* holds the return address.  After the last ecall the epilogs follow,     *)
(* still with interrupts disabled.                                         *)
LastMode == IF "S" \in Modes THEN "S" ELSE "M"
Rtn2mmode ==
  /\ At("M", "rtn2mmode")
  /\ To("M", "idle")
  /\ regs' = [svr[regs["sp"]] EXCEPT !["T2"] = 0]
  /\ mode' = "M"
  /\ IF ending THEN phase' = "epilog" /\ cur' = LastMode ELSE UNCHANGED <<phase, cur>>
  /\ UNCHANGED <<kind, room, scratch, tvec, medeleg, satp, target, svc, ending, aborted, trap,
                 svr, ptr, mem, ie, id, log, stored, torn, before, taken>>

(* cleanup_epilogs, the end of the test, runs the epilogs in M mode.       *)
Cleanup ==
  /\ At("M", "cleanup")
  /\ phase' = "epilog"
  /\ cur' = LastMode
  /\ UNCHANGED <<kind, room, scratch, tvec, medeleg, satp, target, svc, handlerVars>>

(* The handler of S mode goes there as well (or, when it met a delegated   *)
(* ecall, to rtn2mmode), where the first CSR of M mode is an illegal       *)
(* instruction, outside the code segment.                                  *)
CleanupInS ==
  /\ "S" \in Modes
  /\ At("S", "cleanup")
  /\ Take("M", [int |-> FALSE, code |-> Cause.illegal_instruction, epc |-> "out", tval |-> "in"])
  /\ UNCHANGED <<regs, ending, taken>>

(* abort_tests: the marker goes to the bytes from rvtest_sig_begin - 4 on, *)
(* and the epilogs are passed over.                                        *)
Marker == <<0, 0>>
Abort(m) ==
  /\ At(m, "abort")
  /\ phase' = "halt"
  /\ aborted' = TRUE
  /\ mem' = [w \in DOMAIN mem \cup {-1} \cup (IF Xlen = 64 THEN {0} ELSE {}) |->
              IF w < 1 THEN Marker ELSE mem[w]]
  /\ UNCHANGED <<cur, kind, room, scratch, tvec, medeleg, satp, target, svc, mode, ending, pc,
                 trap, regs, svr, ptr, ie, id, log, stored, torn, before, taken>>

-----------------------------------------------------------------------------
Test == Exception \/ (\E m \in Modes : Interrupt(m)) \/ GotoMmode \/ GotoLower \/ Configure

Handle(m) ==
  \/ Swap(m) \/ Stash(m) \/ Unswap(m) \/ Temps(m)
  \/ ReadPtr(m) \/ WritePtr(m) \/ SaveVect(m) \/ SaveCause(m)
  \/ SaveEpc(m) \/ SaveTval(m) \/ Overrun(m)
  \/ SaveIp(m) \/ Dispatch(m) \/ SaveIntId(m)
  \/ Resto(m) \/ Abort(m)

Leave == Rtn2mmode \/ Cleanup \/ CleanupInS

Setup == SetupNext /\ UNCHANGED handlerVars

Next == Setup \/ Test \/ CodeEnd \/ (\E m \in Modes : Handle(m)) \/ Leave

(* A hart keeps executing, and the test's code runs into its end.          *)
Spec ==
  /\ Init /\ [][Next]_vars
  /\ WF_vars(Setup) /\ WF_vars(CodeEnd)
  /\ WF_vars(\E m \in Modes : Handle(m)) /\ WF_vars(Leave)

-----------------------------------------------------------------------------
(* Every word of an entry that a handler stored is still there, whatever   *)
(* traps came later, unless an M-mode trap hit S mode between its read and *)
(* its write of the shared pointer ("this should be atomic"): the handlers *)
(* of the modes never write into each other's entries, nor into the        *)
(* regular signature.                                                      *)
EntriesKept ==
  ~torn =>
    \A e \in DOMAIN log : \A k \in 0 .. stored[e] - 1 :
      /\ log[e].at + k >= SigWords
      /\ mem[log[e].at + k] = <<e, k>>

(* chk_trapsig_overrun comes after the stores of one exception, and covers *)
(* all entries reserved until then: when an exception passes it and its    *)
(* handler goes on to return, no entry of any mode is beyond the signature.*)
(* (An interrupt is not checked, and one that comes later may still write  *)
(* beyond; after a torn update of the pointer, entries are not in order.)  *)
ReturnsInside ==
  [][\A m \in Modes : pc[m] = "overrun" /\ pc'[m] = "resto" /\ ~torn =>
       \A e \in DOMAIN log : log[e].at + log[e].len <= SigEnd]_vars

(* A handler that returns gives the test (or, after a trap within the      *)
(* S-mode handler, that handler) the registers it found; RVTEST_GOTO_MMODE *)
(* destroys T2 only.                                                       *)
RegistersRestored ==
  [][\A m \in Modes :
       /\ pc[m] = "resto" /\ pc'[m] = "idle" => regs' = before[m]
       /\ pc[m] = "rtn2mmode" /\ pc'[m] = "idle" =>
            regs' = [before[m] EXCEPT !["T2"] = 0]]_vars

(* However the test ends (by itself, by a trap the handlers cannot         *)
(* describe, or because a trampoline could not be installed), the epilogs  *)
(* bring back the trap CSRs and the code at fixed trap vectors; only       *)
(* abort_tests does not.                                                   *)
CsrsRestored == phase = "halt" /\ ~aborted => AsBefore

(* The hart halts: no chain of traps, of a handler's own jump to           *)
(* cleanup_epilogs in S mode, or of delegated ecalls keeps it from it.     *)
Ends == <>(phase = "halt")
=============================================================================
