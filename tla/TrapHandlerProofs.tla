----------------------- MODULE TrapHandlerProofs -----------------------
(***************************************************************************)
(* Proofs about TrapHandler, for any signature, target and number of       *)
(* traps, with or without a handler in S mode.                             *)
(***************************************************************************)
EXTENDS TrapHandler, TLAPS

-----------------------------------------------------------------------------
(* Types *)
Labels ==
  {"idle", "swap", "stash", "unswap", "temps", "read", "write", "vect", "cause", "epc", "tval",
   "overrun", "ip", "dispatch", "intid", "resto", "rtn2mmode", "cleanup", "abort"}
Traps == [int : BOOLEAN, code : Int, epc : {"in", "out"}, tval : {"in", "out"}]
Entries == [at : Int, len : Int]

SavedCsrs == [scratch : Int, deleg : SUBSET Nat, satp : {"orig", "ident"}]
Code == [Words -> {"self", "orig", "tramp"}]

(* The variables of prolog and epilog.                                     *)
SetupTypeOK ==
  /\ phase \in {"save", "tvec", "copy", "test", "epilog", "halt"}
  /\ cur \in Modes
  /\ kind \in [Modes -> {"rw", "fixed", "zero"}]
  /\ room \in [Modes -> 0 .. TrampWords]
  /\ scratch \in [Modes -> Int]
  /\ tvec \in [Modes -> {"none", "orig", "tramp"}]
  /\ medeleg \subseteq Nat
  /\ satp \in {"orig", "ident"}
  /\ target \in [Modes -> Code]
  /\ saved \in [{1, 2} -> SavedCsrs]
  /\ tvec_sv \in [{1, 2} -> {"none", "orig", "tramp"}]
  /\ trampend \in [{1, 2} -> Nat]
  /\ tramp_sv \in [{1, 2} -> Code]

(* The variables of the handlers.                                          *)
HandlerTypeOK ==
  /\ mode \in Modes \cup {"U"}
  /\ ending \in BOOLEAN
  /\ aborted \in BOOLEAN
  /\ pc \in [Modes -> Labels]
  /\ trap \in [Modes -> Traps]
  /\ regs \in [Regs -> Int]
  /\ svr \in [{1, 2} -> [Regs -> Int]]
  /\ ptr \in Int
  /\ ie \subseteq Int
  /\ id \in [Modes -> Nat]
  /\ log \in Seq(Entries)
  /\ stored \in Seq(Int) /\ Len(stored) = Len(log)
  /\ torn \in BOOLEAN
  /\ before \in [Modes -> [Regs -> Int]]

-----------------------------------------------------------------------------
(* Prolog and epilog.  A mode is untouched, or has its CSRs saved and its  *)
(* vector or the code it points to replaced as far as that was possible.   *)
Orig == [w \in Words |-> "orig"]
Untouched(m) ==
  /\ scratch[m] = OrigScratch
  /\ tvec[m] = "orig"
  /\ kind[m] # "zero" => target[m] = Orig
  /\ m = "M" => medeleg = OrigDeleg
  /\ m = "S" => satp = "orig"
CsrsSaved(m) ==
  /\ saved[Area[m]].scratch = OrigScratch
  /\ m = "M" /\ "S" \in Modes => saved[Area[m]].deleg = OrigDeleg
  /\ m = "M" /\ "S" \notin Modes => medeleg = OrigDeleg
  /\ m = "S" => saved[Area[m]].satp = "orig"
CodeSaved(m) ==
  /\ tvec_sv[Area[m]] = "orig"
  /\ kind[m] = "rw" => tvec[m] = "tramp" /\ target[m] = Orig
  /\ kind[m] = "fixed" =>
       /\ tvec[m] = "orig"
       /\ \A w \in Words : IF w \in Restored(Area[m]) THEN tramp_sv[Area[m]][w] = "orig"
                                                     ELSE target[m][w] = "orig"
Saved(m) == CsrsSaved(m) /\ CodeSaved(m)

(* The modes whose prolog is behind (or whose epilog is ahead) are saved,  *)
(* the others untouched.                                                   *)
SetupInv ==
  /\ phase = "save" => Untouched(cur)
  /\ phase \in {"tvec", "copy"} =>
       /\ scratch[cur] = Area[cur]
       /\ CsrsSaved(cur)
       /\ tvec[cur] = "orig"
       /\ kind[cur] # "zero" => target[cur] = Orig
  /\ phase = "copy" => kind[cur] = "fixed" /\ tvec_sv[Area[cur]] = "orig"
  /\ phase \in {"save", "tvec", "copy"} /\ cur = "S" => Saved("M") /\ scratch["M"] = Area["M"]
  /\ phase \in {"save", "tvec", "copy"} /\ cur = "M" /\ "S" \in Modes => Untouched("S")
  /\ phase \in {"save", "tvec", "copy"} => \A m \in Modes : pc[m] = "idle"
  /\ phase = "test" => \A m \in Modes : Saved(m)
  /\ phase = "epilog" => Saved(cur) /\ Saved("M") /\ scratch["M"] = Area["M"]
  /\ phase = "epilog" /\ cur = "M" /\ "S" \in Modes => Untouched("S")
  /\ "S" \notin Modes => satp = "orig"
  /\ phase = "halt" /\ ~aborted => AsBefore

-----------------------------------------------------------------------------
(* Registers.  Those of a handler are the hart's, or wait, in what the     *)
(* handler of M mode found, for its return.                                *)
Own(m) == IF m = "M" \/ pc["M"] = "idle" THEN regs ELSE before["M"]

(* What the test had in its registers is, at each label, in the registers, *)
(* in xscratch and in the area together.                                   *)
Temporaries == {"T1", "T2", "T3", "T4"}
Recoverable(m) ==
  /\ pc[m] \in {"idle", "swap"} => scratch[m] = Area[m]
  /\ pc[m] = "swap" => Own(m) = before[m]
  /\ pc[m] = "stash" => Own(m) = [before[m] EXCEPT !["sp"] = Area[m]]
  /\ pc[m] \notin {"idle", "swap"} => Own(m)["sp"] = Area[m]
  /\ pc[m] \in {"stash", "unswap"} => scratch[m] = before[m]["sp"]
  /\ pc[m] \in {"unswap", "temps"} =>
       /\ \A r \in {"T5", "T6"} : svr[Area[m]][r] = before[m][r]
       /\ \A r \in Temporaries : Own(m)[r] = before[m][r]
  /\ pc[m] = "temps" => scratch[m] = Area[m] /\ svr[Area[m]]["sp"] = before[m]["sp"]
  /\ pc[m] \notin {"idle", "swap", "stash", "unswap", "temps"} =>
       scratch[m] = Area[m] /\ svr[Area[m]] = before[m]

(* An ecall never comes from within the handler of S mode.                 *)
RegInv ==
  phase = "test" =>
    /\ \A m \in Modes : Recoverable(m)
    /\ "S" \in Modes /\ pc["S"] # "idle" =>
         /\ pc["M"] # "idle" => trap["M"].int \/ trap["M"].code \notin EcallCodes
         /\ pc["M"] # "rtn2mmode"

-----------------------------------------------------------------------------
(* The trap signature.  Unless the pointer was torn, entries follow one    *)
(* another, end at the pointer, and hold what was stored.                  *)
End(e) == log[e].at + log[e].len
LogInv ==
  /\ ptr >= SigWords
  /\ \A e \in DOMAIN log :
       /\ SigWords <= log[e].at /\ End(e) <= ptr
       /\ 0 <= stored[e] /\ stored[e] <= log[e].len
  /\ \A e, f \in DOMAIN log : e < f => End(e) <= log[f].at
  /\ \A e \in DOMAIN log : \A k \in 0 .. stored[e] - 1 :
       log[e].at + k \in DOMAIN mem /\ mem[log[e].at + k] = <<e, k>>

(* Each handler knows its place in its own entry.                          *)
Filled == [vect |-> 0, cause |-> 1, epc |-> 2, ip |-> 2, tval |-> 3, dispatch |-> 3, intid |-> 3]
Filling(m) == pc[m] \in DOMAIN Filled
Place(m) ==
  /\ pc[m] \in {"read", "write"} => Own(m)["T2"] = EntrySize(trap[m])
  /\ pc[m] = "write" => Own(m)["T1"] = ptr
  /\ Filling(m) =>
       /\ id[m] \in DOMAIN log
       /\ Own(m)["T1"] = log[id[m]].at
       /\ log[id[m]].len = EntrySize(trap[m])
       /\ stored[id[m]] = Filled[pc[m]]
  /\ pc[m] \in {"epc", "tval"} => ~trap[m].int
  /\ pc[m] = "intid" => trap[m].code = Irq.m_ext
EntryInv ==
  /\ \A m \in Modes : Place(m)
  /\ "S" \in Modes /\ pc["S"] = "write" => pc["M"] = "idle"
  /\ "S" \in Modes /\ Filling("S") /\ Filling("M") => id["S"] # id["M"]

SigInv == ~torn => LogInv /\ EntryInv

IInv == SetupTypeOK /\ HandlerTypeOK /\ SetupInv /\ RegInv /\ SigInv

-----------------------------------------------------------------------------
\* The modes and their areas.
LEMMA Areas ==
  /\ "M" \in Modes /\ Modes \subseteq {"M", "S"}
  /\ Area["M"] = 1 /\ Area["S"] = 2
  /\ \A m \in Modes : Area[m] \in {1, 2}
BY SetupAssumption DEF Area

\* Every trap of the test has a handler.
LEMMA HandlersExist == \A c : HandlerOf(c) \in Modes
BY Areas DEF HandlerOf

\* The causes a proof refers to.
LEMMA Codes ==
  /\ Irq.m_timer = 7 /\ Irq.m_ext = 11 /\ Cause.illegal_instruction = 2
  /\ Ecall["M"] = 11 /\ Ecall["S"] = 9 /\ Ecall["U"] = 8
BY DEF Irq, Cause, Ecall

\* Causes are numbers, those of exceptions natural ones.
LEMMA CodesAreNumbers == ExcCodes \subseteq Nat /\ MInts \cup SInts \subseteq Nat
<1>1. \A c \in DOMAIN Cause : Cause[c] \in Nat
  BY DEF Cause
<1>2. MInts \cup SInts \subseteq Nat
  BY DEF MInts, SInts, Irq
<1>3. QED
  BY <1>1, <1>2 DEF ExcCodes
-----------------------------------------------------------------------------
(* Type correctness *)
SetupActions(m) == SaveCsrs(m) \/ InitTvec(m) \/ CopyTrampoline(m) \/ Epilog(m)

\* Prolog and epilog keep the types of their variables.
LEMMA SetupTyped ==
  ASSUME SetupTypeOK, SetupInv, NEW m \in Modes, SetupActions(m)
  PROVE  SetupTypeOK'
<1> USE Areas
<1>1. CASE SaveCsrs(m)
  <2>1. saved' \in [{1, 2} -> SavedCsrs]
    BY <1>1 DEF SaveCsrs, SetupTypeOK, SavedCsrs
  <2>2. scratch' \in [Modes -> Int] /\ medeleg' \subseteq Nat /\ satp' \in {"orig", "ident"}
    BY <1>1 DEF SaveCsrs, SetupTypeOK
  <2>3. QED
    BY <1>1, <2>1, <2>2 DEF SaveCsrs, SetupTypeOK
<1>2. CASE InitTvec(m)
  BY <1>2 DEF InitTvec, PrologDone, SetupTypeOK
<1>3. CASE CopyTrampoline(m)
  <2>1. room[m] + 1 \in Nat
    BY SetupAssumption DEF SetupTypeOK
  <2>2. target' \in [Modes -> Code] /\ tramp_sv' \in [{1, 2} -> Code]
    BY <1>3 DEF CopyTrampoline, SetupTypeOK, Code
  <2>3. QED
    BY <1>3, <2>1, <2>2 DEF CopyTrampoline, PrologDone, SetupTypeOK
<1>4. CASE Epilog(m)
  <2>1. scratch["M"] + (IF m = "S" THEN 1 ELSE 0) = Area[m] /\ Area[m] \in {1, 2}
    BY <1>4 DEF Epilog, SetupInv
  <2>2. saved[Area[m]] \in SavedCsrs /\ tramp_sv[Area[m]] \in Code
    BY <2>1 DEF SetupTypeOK
  <2>3. target' \in [Modes -> Code]
    BY <1>4, <2>1, <2>2 DEF Epilog, SetupTypeOK, Code
  <2>4. medeleg' \subseteq Nat /\ satp' \in {"orig", "ident"} /\ scratch' \in [Modes -> Int]
    BY <1>4, <2>1, <2>2 DEF Epilog, SetupTypeOK, SavedCsrs
  <2>5. tvec' \in [Modes -> {"none", "orig", "tramp"}]
    BY <1>4, <2>1 DEF Epilog, SetupTypeOK
  <2>6. UNCHANGED <<kind, room, saved, tvec_sv, trampend, tramp_sv>>
    BY <1>4 DEF Epilog, svc
  <2>7. cur' \in Modes /\ phase' \in {"epilog", "halt"}
    BY <1>4 DEF Epilog, SetupTypeOK
  <2>8. QED
    BY <2>3, <2>4, <2>5, <2>6, <2>7 DEF SetupTypeOK
<1>5. QED
  BY <1>1, <1>2, <1>3, <1>4 DEF SetupActions
\* Changing one element leaves a sequence of the same length.
LEMMA Replaced ==
  ASSUME NEW s \in Seq(Int), NEW i \in Int, NEW v \in Int
  PROVE  [s EXCEPT ![i] = v] \in Seq(Int) /\ Len([s EXCEPT ![i] = v]) = Len(s)
<1>1. s \in [1 .. Len(s) -> Int] /\ Len(s) \in Nat
  OBVIOUS
<1>2. [s EXCEPT ![i] = v] \in [1 .. Len(s) -> Int]
  BY <1>1
<1>3. QED
  BY <1>1, <1>2

\* Changing registers leaves registers.
LEMMA RegisterSet ==
  ASSUME NEW f \in [Regs -> Int], NEW r \in Regs, NEW v \in Int
  PROVE  [f EXCEPT ![r] = v] \in [Regs -> Int]
OBVIOUS

\* While a handler runs, sp is the address of its area.
LEMMA InArea ==
  ASSUME HandlerTypeOK, RegInv, NEW m \in Modes, NEW l \in Labels \ {"idle", "swap"}, At(m, l)
  PROVE  regs["sp"] = Area[m] /\ Own(m) = regs
<1>1. Own(m) = regs
  BY DEF At, Own
<1>2. QED
  BY <1>1 DEF At, RegInv, Recoverable

\* The handlers keep the types of all variables.
LEMMA HandleTyped ==
  ASSUME SetupTypeOK, HandlerTypeOK, RegInv, NEW m \in Modes, Handle(m)
  PROVE  SetupTypeOK' /\ HandlerTypeOK'
<1> USE Areas
<1>1. CASE Swap(m)
  BY <1>1 DEF Swap, At, To, Keep, svc, SetupTypeOK, HandlerTypeOK, Labels, Regs
<1>2. CASE Stash(m)
  <2>1. regs["sp"] \in {1, 2}
    BY <1>2, InArea DEF Stash, Labels
  <2>2. svr' \in [{1, 2} -> [Regs -> Int]]
    BY <1>2, <2>1 DEF Stash, HandlerTypeOK, Regs
  <2>3. regs' = [regs EXCEPT !["T6"] = 0]
    BY <1>2 DEF Stash
  <2>4. regs' \in [Regs -> Int]
    BY <2>3, RegisterSet DEF HandlerTypeOK, Regs
  <2>5. QED
    BY <1>2, <2>2, <2>4 DEF Stash, At, To, Keep, svc, SetupTypeOK, HandlerTypeOK, Labels
<1>3. CASE Unswap(m)
  <2>1. regs["sp"] \in {1, 2}
    BY <1>3, InArea DEF Unswap, Labels
  <2>2. svr' \in [{1, 2} -> [Regs -> Int]]
    BY <1>3, <2>1 DEF Unswap, HandlerTypeOK, SetupTypeOK, Regs
  <2>3. regs' = [regs EXCEPT !["T5"] = 0] /\ scratch' = [scratch EXCEPT ![m] = regs["sp"]]
    BY <1>3 DEF Unswap
  <2>4. regs' \in [Regs -> Int]
    BY <2>3, RegisterSet DEF HandlerTypeOK, Regs
  <2>5. scratch' \in [Modes -> Int]
    BY <2>1, <2>3 DEF SetupTypeOK
  <2>6. QED
    BY <1>3, <2>2, <2>4, <2>5 DEF Unswap, At, To, Keep, svc, SetupTypeOK, HandlerTypeOK, Labels
<1>4. CASE Temps(m)
  <2>1. regs["sp"] \in {1, 2}
    BY <1>4, InArea DEF Temps, Labels
  <2>2. EntrySize(trap[m]) \in Int /\ trap[m].code \in Int
    BY DEF EntrySize, HandlerTypeOK, Traps
  <2>3. svr' \in [{1, 2} -> [Regs -> Int]]
    BY <1>4, <2>1 DEF Temps, HandlerTypeOK, Regs
  <2>4. regs' \in [Regs -> Int]
    BY <1>4, <2>2 DEF Temps, HandlerTypeOK, Regs
  <2>5. QED
    BY <1>4, <2>3, <2>4 DEF Temps, At, To, Keep, svc, SetupTypeOK, HandlerTypeOK, Labels
<1>5. CASE ReadPtr(m)
  BY <1>5 DEF ReadPtr, At, To, Keep, svc, SetupTypeOK, HandlerTypeOK, Labels, Regs
<1>6. CASE WritePtr(m)
  <2>1. regs["T1"] \in Int /\ regs["T2"] \in Int
    BY DEF HandlerTypeOK, Regs
  <2>2. [at |-> regs["T1"], len |-> regs["T2"]] \in Entries
    BY <2>1 DEF Entries
  <2> DEFINE e == [at |-> regs["T1"], len |-> regs["T2"]]
  <2>3. /\ log' = Append(log, e) /\ stored' = Append(stored, 0)
        /\ id' = [id EXCEPT ![m] = Len(log) + 1]
        /\ ptr' = regs["T1"] + regs["T2"]
        /\ regs' = [regs EXCEPT !["T4"] = regs["T1"] + regs["T2"]]
        /\ To(m, "vect") /\ Keep /\ UNCHANGED <<mode, scratch, svr, mem, ie>>
    BY <1>6 DEF WritePtr
  <2> HIDE DEF e
  <2>4. log' \in Seq(Entries) /\ stored' \in Seq(Int) /\ Len(stored') = Len(log')
    <3>1. e \in Entries /\ log \in Seq(Entries) /\ stored \in Seq(Int) /\ Len(stored) = Len(log)
      BY <2>2 DEF HandlerTypeOK, e
    <3>2. Append(log, e) \in Seq(Entries) /\ Len(Append(log, e)) = Len(log) + 1
      BY <3>1
    <3>3. Append(stored, 0) \in Seq(Int) /\ Len(Append(stored, 0)) = Len(stored) + 1
      BY <3>1
    <3>4. QED
      BY <2>3, <3>1, <3>2, <3>3
  <2>5. id' \in [Modes -> Nat] /\ ptr' \in Int
    <3>1. regs["T1"] + regs["T2"] \in Int
      BY <2>1
    <3>2. id' = [id EXCEPT ![m] = Len(log) + 1] /\ ptr' = regs["T1"] + regs["T2"]
      BY <2>3
    <3>3. id \in [Modes -> Nat] /\ Len(log) \in Nat
      BY DEF HandlerTypeOK
    <3>4. QED
      BY <3>1, <3>2, <3>3
  <2>6. regs' \in [Regs -> Int]
    <3>1. regs["T1"] + regs["T2"] \in Int
      BY <2>1
    <3>2. regs' = [regs EXCEPT !["T4"] = regs["T1"] + regs["T2"]]
      BY <2>3
    <3>3. regs \in [Regs -> Int] /\ "T4" \in Regs
      BY DEF HandlerTypeOK, Regs
    <3>4. QED
      BY <3>1, <3>2, <3>3, RegisterSet
  <2>7. QED
    BY <2>3, <2>4, <2>5, <2>6 DEF To, Keep, svc, SetupTypeOK, HandlerTypeOK, Labels
<1>7. ASSUME NEW k \in Int, Save(m, k), NEW l \in Labels, To(m, l), ie' \subseteq Int
      PROVE  SetupTypeOK' /\ HandlerTypeOK'
  <2>1. stored' = [stored EXCEPT ![id[m]] = k + 1]
    BY <1>7 DEF Save
  <2>2. stored' \in Seq(Int) /\ Len(stored') = Len(stored)
    BY <1>7, <2>1, Replaced DEF HandlerTypeOK
  <2>3. QED
    BY <1>7, <2>2 DEF Save, To, Keep, svc, SetupTypeOK, HandlerTypeOK
<1>8. ASSUME Skip(m), NEW l \in Labels, To(m, l)
      PROVE  SetupTypeOK' /\ HandlerTypeOK'
  BY <1>8 DEF Skip, To, Keep, svc, SetupTypeOK, HandlerTypeOK
<1>9. CASE SaveVect(m)
  <2>1. Save(m, 0) /\ To(m, "cause") /\ "cause" \in Labels /\ ie' \subseteq Int
    BY <1>9 DEF SaveVect, Labels, HandlerTypeOK
  <2>2. QED
    BY <2>1, <1>7
<1>10. CASE SaveCause(m)
  <2> DEFINE l == IF trap[m].int THEN "ip" ELSE "epc"
  <2>1. Save(m, 1) /\ To(m, l) /\ l \in Labels /\ ie' \subseteq Int
    BY <1>10 DEF SaveCause, Labels, HandlerTypeOK
  <2>2. QED
    BY <2>1, <1>7
<1>11. CASE SaveEpc(m)
  <2>1. CASE trap[m].epc = "in"
    <3>1. Save(m, 2) /\ To(m, "tval") /\ "tval" \in Labels /\ ie' \subseteq Int
      BY <1>11, <2>1 DEF SaveEpc, Labels, HandlerTypeOK
    <3>2. QED
      BY <3>1, <1>7
  <2>2. CASE ~(trap[m].epc = "in")
    <3>1. Skip(m) /\ To(m, "cleanup") /\ "cleanup" \in Labels
      BY <1>11, <2>2 DEF SaveEpc, Labels
    <3>2. QED
      BY <3>1, <1>8
  <2>3. QED
    BY <2>1, <2>2
<1>12. CASE SaveTval(m)
  <2>1. CASE ~(trap[m].code \in RelTval /\ trap[m].tval = "out")
    <3>1. Save(m, 3) /\ To(m, "overrun") /\ "overrun" \in Labels /\ ie' \subseteq Int
      BY <1>12, <2>1 DEF SaveTval, Labels, HandlerTypeOK
    <3>2. QED
      BY <3>1, <1>7
  <2>2. CASE ~(~(trap[m].code \in RelTval /\ trap[m].tval = "out"))
    <3>1. Skip(m) /\ To(m, "cleanup") /\ "cleanup" \in Labels
      BY <1>12, <2>2 DEF SaveTval, Labels
    <3>2. QED
      BY <3>1, <1>8
  <2>3. QED
    BY <2>1, <2>2
<1>13. CASE Overrun(m)
  <2>1. regs' \in [Regs -> Int]
    <3>1. regs \in [Regs -> Int] /\ ptr \in Int /\ SigEnd \in Int /\ {"T1", "T2", "T4"} \subseteq Regs
      BY HandlerAssumption DEF HandlerTypeOK, Regs
    <3>2. regs' = [regs EXCEPT !["T1"] = SigEnd, !["T2"] = 0, !["T4"] = ptr]
      BY <1>13 DEF Overrun
    <3>3. QED
      BY <3>1, <3>2
  <2>2. QED
    BY <1>13, <2>1 DEF Overrun, At, To, Keep, svc, SetupTypeOK, HandlerTypeOK, Labels
<1>14. CASE SaveIp(m)
  <2>1. Save(m, 2) /\ To(m, "dispatch") /\ "dispatch" \in Labels /\ ie' \subseteq Int
    BY <1>14 DEF SaveIp, Labels, HandlerTypeOK
  <2>2. QED
    BY <2>1, <1>7
<1>15. CASE Dispatch(m)
  <2>1. PICK l \in Labels : To(m, l)
    BY <1>15 DEF Dispatch, Labels
  <2>2. QED
    BY <1>15, <2>1, <1>8 DEF Dispatch
<1>16. CASE SaveIntId(m)
  <2>1. Save(m, 3) /\ To(m, "resto") /\ "resto" \in Labels /\ ie' \subseteq Int
    BY <1>16 DEF SaveIntId, Labels, HandlerTypeOK
  <2>2. QED
    BY <2>1, <1>7
<1>17. CASE Resto(m)
  <2>1. regs["sp"] \in {1, 2}
    BY <1>17, InArea DEF Resto, Labels
  <2>2. QED
    BY <1>17, <2>1 DEF Resto, At, To, Keep, svc, SetupTypeOK, HandlerTypeOK, Labels
<1>18. CASE Abort(m)
  BY <1>18 DEF Abort, svc, SetupTypeOK, HandlerTypeOK
<1>19. QED
  BY <1>1, <1>2, <1>3, <1>4, <1>5, <1>6, <1>9, <1>10, <1>11, <1>12, <1>13, <1>14, <1>15, <1>16,
     <1>17, <1>18
  DEF Handle
\* The traps of the test, its changes of mode and its end keep the types.
LEMMA TestTyped ==
  ASSUME SetupTypeOK, HandlerTypeOK, Test \/ CodeEnd
  PROVE  SetupTypeOK' /\ HandlerTypeOK'
<1> USE Areas
<1>1. ASSUME NEW m \in Modes, NEW t \in Traps, Take(m, t), regs' = regs, ending' \in BOOLEAN
      PROVE  SetupTypeOK' /\ HandlerTypeOK'
  BY <1>1 DEF Take, svc, setupVars, SetupTypeOK, HandlerTypeOK, Labels
<1>2. mode \in {"M", "S", "U"} /\ \A c : HandlerOf(c) \in Modes
  BY HandlersExist DEF HandlerTypeOK
<1>3. CASE Exception
  <2>1. PICK c \in Raised, e \in {"in", "out"}, v \in {"in", "out"} :
          /\ Take(HandlerOf(c), [int |-> FALSE, code |-> c, epc |-> e, tval |-> v])
          /\ UNCHANGED <<regs, ending>>
    BY <1>3 DEF Exception
  <2>2. [int |-> FALSE, code |-> c, epc |-> e, tval |-> v] \in Traps
    BY HandlerAssumption, CodesAreNumbers DEF Traps
  <2>3. QED
    BY <2>1, <2>2, <1>1, <1>2 DEF HandlerTypeOK
<1>4. ASSUME NEW m \in Modes, Interrupt(m)
      PROVE  SetupTypeOK' /\ HandlerTypeOK'
  <2>1. PICK c \in ie :
          /\ Take(m, [int |-> TRUE, code |-> c, epc |-> "in", tval |-> "in"])
          /\ UNCHANGED <<regs, ending>>
    BY <1>4 DEF Interrupt
  <2>2. [int |-> TRUE, code |-> c, epc |-> "in", tval |-> "in"] \in Traps
    BY DEF Traps, HandlerTypeOK
  <2>3. QED
    BY <2>1, <2>2, <1>1 DEF HandlerTypeOK
<1>5. ASSUME EcallM, ending' \in BOOLEAN
      PROVE  SetupTypeOK' /\ HandlerTypeOK'
  <2>1. Ecall[mode] \in Int /\ HandlerOf(Ecall[mode]) \in Modes
    BY <1>2, Codes
  <2>2. [int |-> FALSE, code |-> Ecall[mode], epc |-> "in", tval |-> "in"] \in Traps
    BY <2>1 DEF Traps
  <2>3. regs' \in [Regs -> Int]
    BY <1>5, RegisterSet DEF EcallM, HandlerTypeOK, Regs
  <2>4. QED
    BY <1>5, <2>1, <2>2, <2>3
    DEF EcallM, svc, setupVars, SetupTypeOK, HandlerTypeOK, Labels
<1>6. CASE GotoMmode
  BY <1>5, <1>6 DEF GotoMmode, HandlerTypeOK
<1>7. CASE CodeEnd
  BY <1>5, <1>7 DEF CodeEnd
<1>8. CASE GotoLower
  <2>1. regs' \in [Regs -> Int]
    <3>1. regs' = [regs EXCEPT !["sp"] = scratch["M"], !["T1"] = 0, !["T4"] = 0]
      BY <1>8 DEF GotoLower
    <3>2. regs \in [Regs -> Int] /\ scratch["M"] \in Int /\ {"sp", "T1", "T4"} \subseteq Regs
      BY DEF SetupTypeOK, HandlerTypeOK, Regs
    <3>3. QED
      BY <3>1, <3>2
  <2>2. QED
    BY <1>8, <2>1 DEF GotoLower, svc, setupVars, SetupTypeOK, HandlerTypeOK
<1>9. CASE Configure
  <2>1. medeleg' \subseteq Nat /\ ie' \subseteq Int
    <3>1. PICK d \in Delegations, e \in Enables :
            ie' = e /\ medeleg' = IF "S" \in Modes THEN d ELSE medeleg
      BY <1>9 DEF Configure
    <3>2. d \subseteq Nat /\ e \subseteq Nat
      BY HandlerAssumption, CodesAreNumbers
    <3>3. QED
      BY <3>1, <3>2 DEF SetupTypeOK
  <2>2. QED
    BY <1>9, <2>1 DEF Configure, svc, SetupTypeOK, HandlerTypeOK
<1>10. QED
  BY <1>3, <1>4, <1>6, <1>7, <1>8, <1>9 DEF Test

\* So do the ways out of the handlers.
LEMMA LeaveTyped ==
  ASSUME SetupTypeOK, HandlerTypeOK, RegInv, Leave
  PROVE  SetupTypeOK' /\ HandlerTypeOK'
<1> USE Areas
<1>1. CASE Rtn2mmode
  <2>1. regs["sp"] \in {1, 2}
    BY <1>1, InArea DEF Rtn2mmode, Labels
  <2>2. regs' \in [Regs -> Int]
    <3>1. svr[regs["sp"]] \in [Regs -> Int] /\ "T2" \in Regs
      BY <2>1 DEF HandlerTypeOK, Regs
    <3>2. regs' = [svr[regs["sp"]] EXCEPT !["T2"] = 0]
      BY <1>1 DEF Rtn2mmode
    <3>3. QED
      BY <3>1, <3>2, RegisterSet
  <2>3. cur' \in Modes /\ phase' \in {"test", "epilog"}
    BY <1>1 DEF Rtn2mmode, At, LastMode, SetupTypeOK
  <2>4. QED
    BY <1>1, <2>2, <2>3 DEF Rtn2mmode, To, svc, SetupTypeOK, HandlerTypeOK, Labels
<1>2. CASE Cleanup
  BY <1>2 DEF Cleanup, LastMode, svc, handlerVars, SetupTypeOK, HandlerTypeOK
<1>3. CASE CleanupInS
  <2>1. [int |-> FALSE, code |-> Cause.illegal_instruction, epc |-> "out", tval |-> "in"] \in Traps
    BY Codes DEF Traps
  <2>2. QED
    BY <1>3, <2>1 DEF CleanupInS, Take, svc, setupVars, SetupTypeOK, HandlerTypeOK, Labels
<1>4. QED
  BY <1>1, <1>2, <1>3 DEF Leave

\* Every step keeps the types.
LEMMA StepTyped ==
  ASSUME IInv, [Next]_vars
  PROVE  SetupTypeOK' /\ HandlerTypeOK'
<1> USE DEF IInv
<1>1. CASE Setup
  <2>1. SetupTypeOK'
    BY <1>1, SetupTyped DEF Setup, SetupNext, SetupActions
  <2>2. QED
    BY <1>1, <2>1 DEF Setup, handlerVars, HandlerTypeOK
<1>2. CASE Test \/ CodeEnd
  BY <1>2, TestTyped
<1>3. CASE \E m \in Modes : Handle(m)
  BY <1>3, HandleTyped
<1>4. CASE Leave
  BY <1>4, LeaveTyped
<1>5. CASE UNCHANGED vars
  BY <1>5 DEF vars, svc, setupVars, handlerVars, SetupTypeOK, HandlerTypeOK
<1>6. QED
  BY <1>1, <1>2, <1>3, <1>4, <1>5 DEF Next
-----------------------------------------------------------------------------
(* Prolog and epilog *)

\* While the test runs, what prolog and epilog rely on does not change,
\* except for what the prolog has saved.
LEMMA SetupKept ==
  ASSUME SetupInv, phase = "test", phase' = "test" \/ (phase' = "halt" /\ aborted'),
         UNCHANGED <<cur, kind, room, tvec, satp, target, svc>>,
         "S" \in Modes \/ medeleg' = medeleg
  PROVE  SetupInv'
BY DEF SetupInv, Saved, CsrsSaved, CodeSaved, Restored, svc

\* Leaving the test for the epilogs, mscratch points to the area of M mode.
LEMMA SetupLeft ==
  ASSUME SetupInv, phase = "test", phase' = "epilog", cur' = LastMode, scratch["M"] = Area["M"],
         UNCHANGED <<kind, room, scratch, tvec, medeleg, satp, target, svc>>
  PROVE  SetupInv'
BY Areas DEF SetupInv, Saved, CsrsSaved, CodeSaved, Restored, LastMode, svc

\* Each action of a prolog or an epilog leaves what the next one needs.
LEMMA SetupSteps ==
  ASSUME SetupTypeOK, SetupInv, NEW m \in Modes, SetupActions(m), UNCHANGED handlerVars
  PROVE  SetupInv'
<1> USE Areas
<1>1. CASE SaveCsrs(m)
  <2>1. /\ phase = "save" /\ phase' = "tvec" /\ cur = m /\ cur' = m
        /\ UNCHANGED <<kind, room, tvec, target, tvec_sv, trampend, tramp_sv, pc>>
        /\ scratch' = [scratch EXCEPT ![m] = Area[m]]
        /\ medeleg' = IF m = "M" /\ "S" \in Modes THEN {} ELSE medeleg
        /\ satp' = IF m = "M" THEN satp ELSE "ident"
    BY <1>1 DEF SaveCsrs, handlerVars
  <2>2. Untouched(m)
    BY <2>1 DEF SetupInv
  <2>3. /\ saved'[Area[m]] = [scratch |-> scratch[m],
                             deleg |-> IF m = "M" /\ "S" \in Modes THEN medeleg ELSE {},
                             satp |-> IF m = "M" THEN saved[Area[m]].satp ELSE satp]
        /\ m = "S" => saved'[Area["M"]] = saved[Area["M"]]
    <3> DEFINE new == [scratch |-> scratch[m],
                       deleg |-> IF m = "M" /\ "S" \in Modes THEN medeleg ELSE {},
                       satp |-> IF m = "M" THEN saved[Area[m]].satp ELSE satp]
    <3>1. saved' = [saved EXCEPT ![Area[m]] = new]
      BY <1>1 DEF SaveCsrs
    <3>2. DOMAIN saved = {1, 2}
      BY DEF SetupTypeOK
    <3> HIDE DEF new
    <3>3. saved'[Area[m]] = new /\ (m = "S" => saved'[Area["M"]] = saved[Area["M"]])
      BY <3>1, <3>2
    <3>4. QED
      BY <3>3 DEF new
  <2>4. CsrsSaved(m)'
    BY <2>1, <2>2, <2>3 DEF CsrsSaved, Untouched
  <2>5. scratch'[m] = Area[m] /\ tvec'[m] = "orig" /\ (kind[m] # "zero" => target'[m] = Orig)
    BY <2>1, <2>2 DEF Untouched, SetupTypeOK
  <2>6. m = "S" => Saved("M")' /\ scratch'["M"] = Area["M"]
    BY <2>1, <2>3 DEF SetupInv, SetupTypeOK, Saved, CsrsSaved, CodeSaved, Restored
  <2>7. m = "M" /\ "S" \in Modes => Untouched("S")'
    BY <2>1 DEF SetupInv, SetupTypeOK, Untouched
  <2>8. \A n \in Modes : pc'[n] = "idle"
    BY <2>1 DEF SetupInv
  <2>9. "S" \notin Modes => satp' = "orig"
    BY <2>1 DEF SetupInv
  <2>10. QED
    BY <2>1, <2>4, <2>5, <2>6, <2>7, <2>8, <2>9 DEF SetupInv
<1>2. CASE InitTvec(m)
  <2>1. /\ phase = "tvec" /\ cur = m
        /\ UNCHANGED <<kind, room, scratch, medeleg, satp, target, saved, trampend, tramp_sv, pc>>
        /\ tvec_sv' = [tvec_sv EXCEPT ![Area[m]] = tvec[m]]
        /\ kind[m] = "rw" => tvec' = [tvec EXCEPT ![m] = "tramp"] /\ PrologDone(m)
        /\ kind[m] # "rw" => UNCHANGED <<cur, tvec>>
        /\ kind[m] = "zero" => phase' = "epilog"
        /\ kind[m] = "fixed" => phase' = "copy"
    BY <1>2 DEF InitTvec, handlerVars
  <2>2. kind[m] \in {"rw", "fixed", "zero"}
    BY DEF SetupTypeOK
  <2>3. /\ scratch[m] = Area[m] /\ CsrsSaved(m) /\ tvec[m] = "orig"
        /\ kind[m] # "zero" => target[m] = Orig
    BY <2>1 DEF SetupInv
  <2>4. CsrsSaved(m)' /\ tvec_sv'[Area[m]] = "orig"
    BY <2>1, <2>3 DEF CsrsSaved, SetupTypeOK
  <2>5. kind[m] # "fixed" => Saved(m)'
    BY <2>1, <2>2, <2>3, <2>4 DEF Saved, CodeSaved, SetupTypeOK
  <2>6. m = "S" => Saved("M")' /\ scratch'["M"] = Area["M"]
    BY <2>1 DEF SetupInv, SetupTypeOK, Saved, CsrsSaved, CodeSaved, Restored
  <2>7. m = "M" /\ "S" \in Modes => Untouched("S")'
    BY <2>1 DEF SetupInv, SetupTypeOK, Untouched
  <2>8. \A n \in Modes : pc'[n] = "idle"
    BY <2>1 DEF SetupInv
  <2>9. "S" \notin Modes => satp' = "orig"
    BY <2>1 DEF SetupInv
  <2>10. CASE kind[m] = "fixed"
    BY <2>10, <2>1, <2>3, <2>4, <2>6, <2>7, <2>8, <2>9 DEF SetupInv
  <2>11. CASE kind[m] = "zero"
    BY <2>11, <2>1, <2>3, <2>5, <2>6, <2>7, <2>8, <2>9 DEF SetupInv
  <2>12. CASE kind[m] = "rw"
    BY <2>12, <2>1, <2>3, <2>5, <2>6, <2>7, <2>8, <2>9 DEF SetupInv, PrologDone
  <2>13. QED
    BY <2>2, <2>10, <2>11, <2>12
<1>3. CASE CopyTrampoline(m)
  <2>1. /\ phase = "copy" /\ cur = m
        /\ UNCHANGED <<kind, room, scratch, tvec, medeleg, satp, saved, tvec_sv, pc>>
        /\ trampend' = [trampend EXCEPT ![Area[m]] = room[m] + 1]
        /\ room[m] = TrampWords => PrologDone(m)
        /\ room[m] # TrampWords => phase' = "epilog" /\ cur' = cur
    BY <1>3 DEF CopyTrampoline, handlerVars
  <2>2. /\ scratch[m] = Area[m] /\ CsrsSaved(m) /\ tvec[m] = "orig"
        /\ kind[m] = "fixed" /\ target[m] = Orig /\ tvec_sv[Area[m]] = "orig"
    BY <2>1 DEF SetupInv
  <2>3. room[m] \in Nat /\ trampend'[Area[m]] = room[m] + 1
    BY <2>1, SetupAssumption DEF SetupTypeOK
  <2>4. ASSUME NEW w \in Words
        PROVE  /\ w \in Int
               /\ w <= room[m] + 1 => tramp_sv'[Area[m]][w] = "orig"
               /\ ~(w <= room[m]) => target'[m][w] = "orig"
    <3>1. w \in Int /\ target[m][w] = "orig"
      BY <2>2, SetupAssumption DEF Words, Orig
    <3>2. target'[m][w] = IF w <= room[m] THEN "tramp" ELSE target[m][w]
      BY <1>3 DEF CopyTrampoline, SetupTypeOK
    <3>3. w <= room[m] + 1 => tramp_sv'[Area[m]][w] = target[m][w]
      BY <1>3 DEF CopyTrampoline, SetupTypeOK
    <3>4. QED
      BY <3>1, <3>2, <3>3
  <2>5. CodeSaved(m)'
    BY <2>1, <2>2, <2>3, <2>4 DEF CodeSaved, Restored
  <2>6. Saved(m)'
    BY <2>1, <2>2, <2>5 DEF Saved, CsrsSaved
  <2>7. m = "S" => Saved("M")' /\ scratch'["M"] = Area["M"]
    <3>1. m = "S" => /\ tramp_sv'[Area["M"]] = tramp_sv[Area["M"]]
                     /\ target'["M"] = target["M"] /\ trampend'[Area["M"]] = trampend[Area["M"]]
      BY <1>3 DEF CopyTrampoline, SetupTypeOK
    <3>2. QED
      BY <2>1, <3>1 DEF SetupInv, Saved, CsrsSaved, CodeSaved, Restored
  <2>8. m = "M" /\ "S" \in Modes => Untouched("S")'
    <3>1. m = "M" /\ "S" \in Modes => target'["S"] = target["S"]
      BY <1>3 DEF CopyTrampoline, SetupTypeOK
    <3>2. QED
      BY <2>1, <3>1 DEF SetupInv, Untouched
  <2>9. \A n \in Modes : pc'[n] = "idle"
    BY <2>1 DEF SetupInv
  <2>10. "S" \notin Modes => satp' = "orig"
    BY <2>1 DEF SetupInv
  <2>11. QED
    BY <2>1, <2>2, <2>6, <2>7, <2>8, <2>9, <2>10 DEF SetupInv, PrologDone
<1>4. CASE Epilog(m)
  <2> DEFINE a == Area[m]
  <2>1. scratch["M"] + (IF m = "S" THEN 1 ELSE 0) = a
    BY <1>4 DEF Epilog, SetupInv
  <2>2. /\ phase = "epilog" /\ cur = m
        /\ medeleg' = IF m = "M" /\ "S" \in Modes THEN saved[a].deleg ELSE medeleg
        /\ satp' = IF m = "M" THEN satp ELSE saved[a].satp
        /\ scratch' = [scratch EXCEPT ![m] = saved[a].scratch]
        /\ tvec' = [tvec EXCEPT ![m] = tvec_sv[a]]
        /\ target' = IF tvec_sv[a] = tvec[m]
                       THEN [target EXCEPT ![m] =
                               [w \in Words |-> IF w \in Restored(a) THEN tramp_sv[a][w]
                                                                     ELSE target[m][w]]]
                       ELSE target
        /\ UNCHANGED <<kind, room, saved, tvec_sv, trampend, tramp_sv>>
        /\ m = "S" => phase' = "epilog" /\ cur' = "M"
        /\ m # "S" => phase' = "halt" /\ cur' = cur
    BY <1>4, <2>1 DEF Epilog, svc
  <2> HIDE DEF a
  <2>3. Saved(m) /\ a \in {1, 2}
    BY <2>2 DEF SetupInv, a
  <2>4. scratch'[m] = OrigScratch /\ tvec'[m] = "orig"
    BY <2>2, <2>3 DEF Saved, CsrsSaved, CodeSaved, SetupTypeOK, a
  <2>5. kind[m] # "zero" => target'[m] = Orig
    <3>1. CASE kind[m] = "rw"
      BY <3>1, <2>2, <2>3 DEF Saved, CodeSaved, a
    <3>2. CASE kind[m] = "fixed"
      <4>1. /\ tvec_sv[a] = tvec[m]
            /\ \A w \in Words : IF w \in Restored(a) THEN tramp_sv[a][w] = "orig"
                                                      ELSE target[m][w] = "orig"
        BY <3>2, <2>3 DEF Saved, CodeSaved, a
      <4>2. target'[m] = [w \in Words |-> IF w \in Restored(a) THEN tramp_sv[a][w]
                                                               ELSE target[m][w]]
        BY <4>1, <2>2 DEF SetupTypeOK
      <4>3. QED
        BY <4>1, <4>2 DEF Orig
    <3>3. QED
      BY <3>1, <3>2 DEF SetupTypeOK
  <2>6. m = "M" => medeleg' = OrigDeleg
    BY <2>2, <2>3 DEF Saved, CsrsSaved, a
  <2>7. m = "S" => satp' = "orig"
    BY <2>2, <2>3 DEF Saved, CsrsSaved, a
  <2>8. Untouched(m)'
    BY <2>2, <2>4, <2>5, <2>6, <2>7 DEF Untouched
  <2>9. CASE m = "S"
    <3>1. /\ Saved("M")' /\ scratch'["M"] = Area["M"]
      BY <2>9, <2>2 DEF SetupInv, SetupTypeOK, Saved, CsrsSaved, CodeSaved, Restored
    <3>2. QED
      BY <2>9, <2>2, <2>8, <3>1 DEF SetupInv
  <2>10. CASE m = "M"
    <3>1. "S" \in Modes => Untouched("S")'
      BY <2>10, <2>2 DEF SetupInv, SetupTypeOK, Untouched
    <3>2. "S" \notin Modes => satp' = "orig"
      BY <2>10, <2>2 DEF SetupInv
    <3>3. AsBefore'
      BY <2>10, <2>8, <3>1, <3>2 DEF AsBefore, Untouched, Orig
    <3>4. QED
      BY <2>10, <2>2, <3>2, <3>3 DEF SetupInv
  <2>11. QED
    BY <2>9, <2>10
<1>5. QED
  BY <1>1, <1>2, <1>3, <1>4 DEF SetupActions
\* Every step keeps the invariant of prolog and epilog.
LEMMA StepSetup ==
  ASSUME IInv, [Next]_vars
  PROVE  SetupInv'
<1> USE DEF IInv
<1>1. CASE Setup
  BY <1>1, SetupSteps DEF Setup, SetupNext, SetupActions
<1>2. CASE Test \/ CodeEnd
  <2>1. ASSUME NEW m \in Modes, NEW t, Take(m, t), phase = "test"
        PROVE  SetupInv'
    BY <2>1, SetupKept DEF Take, setupVars, svc
  <2>2. CASE Exception
    BY <2>2, <2>1, HandlersExist DEF Exception, Testing
  <2>3. ASSUME NEW m \in Modes, Interrupt(m)
        PROVE  SetupInv'
    BY <2>1, <2>3 DEF Interrupt
  <2>4. CASE GotoMmode \/ CodeEnd
    BY <2>4, SetupKept DEF GotoMmode, CodeEnd, EcallM, Testing, setupVars, svc
  <2>5. CASE GotoLower
    BY <2>5, SetupKept DEF GotoLower, Testing, setupVars, svc
  <2>6. CASE Configure
    BY <2>6, SetupKept DEF Configure, Testing
  <2>7. QED
    BY <1>2, <2>2, <2>3, <2>4, <2>5, <2>6 DEF Test
<1>3. ASSUME NEW m \in Modes, Handle(m)
      PROVE  SetupInv'
  <2>1. ASSUME Keep, NEW l, At(m, l)
        PROVE  SetupInv'
    BY <2>1, SetupKept DEF Keep, At
  <2>2. ASSUME NEW l, At(m, l), (\E k \in Int : Save(m, k)) \/ Skip(m)
        PROVE  SetupInv'
    BY <2>1, <2>2 DEF Save, Skip
  <2>3. CASE Swap(m) \/ Stash(m) \/ Unswap(m) \/ Temps(m)
    BY <2>1, <2>3 DEF Swap, Stash, Unswap, Temps
  <2>4. CASE ReadPtr(m) \/ WritePtr(m) \/ Overrun(m) \/ Resto(m)
    BY <2>1, <2>4 DEF ReadPtr, WritePtr, Overrun, Resto
  <2>5. CASE SaveVect(m) \/ SaveCause(m) \/ SaveEpc(m) \/ SaveTval(m)
    BY <2>2, <2>5 DEF SaveVect, SaveCause, SaveEpc, SaveTval
  <2>6. CASE SaveIp(m) \/ Dispatch(m) \/ SaveIntId(m)
    BY <2>2, <2>6 DEF SaveIp, Dispatch, SaveIntId
  <2>7. CASE Abort(m)
    BY <2>7, SetupKept DEF Abort, At
  <2>8. QED
    BY <1>3, <2>3, <2>4, <2>5, <2>6, <2>7 DEF Handle
<1>4. CASE Leave
  <2>1. CASE Rtn2mmode
    <3>1. scratch["M"] = Area["M"]
      BY <2>1, Areas DEF Rtn2mmode, At, RegInv, Recoverable
    <3>2. CASE ending
      BY <2>1, <3>1, <3>2, SetupLeft DEF Rtn2mmode, At
    <3>3. CASE ~ending
      BY <2>1, <3>3, SetupKept DEF Rtn2mmode, At
    <3>4. QED
      BY <3>2, <3>3
  <2>2. CASE Cleanup
    <3>1. scratch["M"] = Area["M"]
      BY <2>2, Areas DEF Cleanup, At, RegInv, Recoverable
    <3>2. QED
      BY <2>2, <3>1, SetupLeft DEF Cleanup, At
  <2>3. CASE CleanupInS
    BY <2>3, SetupKept DEF CleanupInS, At, Take, setupVars
  <2>4. QED
    BY <1>4, <2>1, <2>2, <2>3 DEF Leave
<1>5. CASE UNCHANGED vars
  BY <1>5 DEF vars, svc, setupVars, handlerVars, SetupInv, Untouched, Saved, CsrsSaved, CodeSaved,
              Restored, AsBefore
<1>6. QED
  BY <1>1, <1>2, <1>3, <1>4, <1>5 DEF Next
-----------------------------------------------------------------------------
(* Registers *)

\* What a handler needs to return stays recoverable while another works:
\* the handlers of S mode and of M mode have areas of their own, and the
\* registers of S mode's handler wait where M mode found them.
LEMMA OtherKept ==
  ASSUME SetupTypeOK, HandlerTypeOK, NEW m \in Modes, NEW n \in Modes \ {m}, Recoverable(n),
         m # "M" => pc["M"] = "idle",
         m = "M" => pc["M"] # "idle" /\ (pc'["M"] # "idle" \/ regs' = before["M"]),
         pc'[n] = pc[n], scratch'[n] = scratch[n], svr'[Area[n]] = svr[Area[n]], before' = before
  PROVE  Recoverable(n)'
<1> USE Areas
<1>1. CASE m = "M"
  <2>1. n = "S" /\ Own(n)' = Own(n)
    BY <1>1 DEF Own
  <2>2. QED
    BY <2>1 DEF Recoverable
<1>2. CASE m # "M"
  <2>1. n = "M" /\ pc[n] = "idle"
    BY <1>2
  <2>2. QED
    BY <2>1 DEF Recoverable
<1>3. QED
  BY <1>1, <1>2

\* A step of a handler that keeps its own registers recoverable and works
\* on its own area only keeps the invariant of the registers.
LEMMA HandlerKept ==
  ASSUME SetupTypeOK, HandlerTypeOK, RegInv, NEW m \in Modes,
         phase = "test", m # "M" => pc["M"] = "idle", pc[m] # "idle",
         NEW l \in Labels, pc' = [pc EXCEPT ![m] = l], UNCHANGED <<trap, before>>,
         m = "M" => l # "idle" \/ regs' = before["M"],
         m = "M" /\ l = "rtn2mmode" => ~trap["M"].int /\ trap["M"].code \in EcallCodes,
         \A n \in Modes \ {m} : scratch'[n] = scratch[n] /\ svr'[Area[n]] = svr[Area[n]],
         Recoverable(m)'
  PROVE  RegInv'
<1> USE Areas
<1>1. ASSUME NEW n \in Modes \ {m}
      PROVE  Recoverable(n)'
  <2>1. pc'[n] = pc[n] /\ pc'[m] = l
    BY DEF HandlerTypeOK
  <2>2. Recoverable(n)
    BY DEF RegInv
  <2>3. QED
    BY <2>1, <2>2, OtherKept
<1>2. \A n \in Modes : Recoverable(n)'
  BY <1>1
<1>3. "S" \in Modes /\ pc'["S"] # "idle" =>
        /\ pc'["M"] # "idle" => trap'["M"].int \/ trap'["M"].code \notin EcallCodes
        /\ pc'["M"] # "rtn2mmode"
  <2>1. CASE m = "M"
    <3>1. "S" \in Modes => pc'["S"] = pc["S"]
      BY <2>1 DEF HandlerTypeOK
    <3>2. pc'["M"] = l
      BY <2>1 DEF HandlerTypeOK
    <3>3. QED
      BY <2>1, <3>1, <3>2 DEF RegInv
  <2>2. CASE m # "M"
    BY <2>2 DEF HandlerTypeOK
  <2>3. QED
    BY <2>1, <2>2
<1>4. QED
  BY <1>2, <1>3 DEF RegInv
\* The labels of a handler that has saved all registers.
Later == Labels \ {"idle", "swap", "stash", "unswap", "temps"}

\* Each step of a handler keeps the registers recoverable.
LEMMA HandleRegs ==
  ASSUME SetupTypeOK, HandlerTypeOK, RegInv, NEW m \in Modes, Handle(m)
  PROVE  RegInv'
<1> USE Areas
<1> DEFINE a == Area[m]
<1>1. Recoverable(m) /\ m \in DOMAIN pc /\ m \in DOMAIN scratch /\ a \in DOMAIN svr
  BY DEF Handle, Swap, Stash, Unswap, Temps, ReadPtr, WritePtr, SaveVect, SaveCause, SaveEpc,
         SaveTval, Overrun, SaveIp, Dispatch, SaveIntId, Resto, Abort, At, RegInv, HandlerTypeOK,
         SetupTypeOK
<1>2. ASSUME NEW k \in Labels, At(m, k), NEW l \in Labels, To(m, l)
      PROVE  /\ phase = "test" /\ (m # "M" => pc["M"] = "idle") /\ pc[m] = k
             /\ pc' = [pc EXCEPT ![m] = l] /\ pc'[m] = l
             /\ Own(m) = regs /\ Own(m)' = regs'
  BY <1>1, <1>2 DEF At, To, Own, HandlerTypeOK
<1>3. \A n \in Modes \ {m} : Area[n] # a
  BY Areas
<1>4. ASSUME NEW k \in Later, At(m, k), NEW l \in Later, To(m, l), l # "rtn2mmode", Keep,
             regs'["sp"] = regs["sp"], UNCHANGED <<scratch, svr>>
      PROVE  RegInv'
  <2>1. k \in Labels /\ l \in Labels
    BY DEF Later
  <2>2. Recoverable(m)'
    BY <1>1, <1>2, <1>4, <2>1 DEF Recoverable, Keep, Later
  <2>3. QED
    BY <1>2, <1>4, <2>1, <2>2, HandlerKept DEF Keep, Later
<1>5. CASE Swap(m)
  <2>1. /\ At(m, "swap") /\ To(m, "stash") /\ Keep /\ UNCHANGED svr
        /\ regs' = [regs EXCEPT !["sp"] = scratch[m]]
        /\ scratch' = [scratch EXCEPT ![m] = regs["sp"]]
    BY <1>5 DEF Swap
  <2>2. regs = before[m] /\ scratch[m] = a /\ pc[m] = "swap" /\ pc'[m] = "stash"
    BY <1>1, <1>2, <2>1 DEF Recoverable, Labels
  <2>3. Own(m)' = [before[m] EXCEPT !["sp"] = a] /\ scratch'[m] = before[m]["sp"]
    BY <1>1, <1>2, <2>1, <2>2 DEF Labels
  <2>4. Own(m)'["sp"] = a
    BY <2>3 DEF HandlerTypeOK, Regs
  <2>5. Recoverable(m)'
    BY <2>1, <2>2, <2>3, <2>4 DEF Recoverable, Keep
  <2>6. \A n \in Modes \ {m} : scratch'[n] = scratch[n] /\ svr'[Area[n]] = svr[Area[n]]
    BY <2>1 DEF SetupTypeOK
  <2>7. QED
    BY <1>2, <2>1, <2>5, <2>6, HandlerKept DEF Keep, Labels
<1>6. CASE Stash(m)
  <2>1. /\ At(m, "stash") /\ To(m, "unswap") /\ Keep /\ UNCHANGED scratch
        /\ svr' = [svr EXCEPT ![regs["sp"]]["T6"] = regs["T6"], ![regs["sp"]]["T5"] = regs["T5"]]
        /\ regs' = [regs EXCEPT !["T6"] = 0]
    BY <1>6 DEF Stash
  <2>2. /\ regs = [before[m] EXCEPT !["sp"] = a] /\ regs["sp"] = a /\ scratch[m] = before[m]["sp"]
        /\ pc[m] = "stash" /\ pc'[m] = "unswap"
    BY <1>1, <1>2, <2>1 DEF Recoverable, Labels
  <2>3. \A r \in {"T5", "T6"} : svr'[a][r] = before[m][r]
    <3>1. svr'[a]["T6"] = regs["T6"] /\ svr'[a]["T5"] = regs["T5"]
      BY <1>1, <2>1, <2>2 DEF HandlerTypeOK, Regs
    <3>2. regs["T6"] = before[m]["T6"] /\ regs["T5"] = before[m]["T5"]
      BY <2>2 DEF HandlerTypeOK, Regs
    <3>3. QED
      BY <3>1, <3>2
  <2>4. (\A r \in Temporaries : regs'[r] = before[m][r]) /\ regs'["sp"] = a
    BY <2>1, <2>2 DEF HandlerTypeOK, Regs, Temporaries
  <2>5. Recoverable(m)'
    BY <1>2, <2>1, <2>2, <2>3, <2>4 DEF Recoverable, Keep, Labels
  <2>6. \A n \in Modes \ {m} : scratch'[n] = scratch[n] /\ svr'[Area[n]] = svr[Area[n]]
    BY <2>1, <2>2, <1>3 DEF HandlerTypeOK
  <2>7. QED
    BY <1>2, <2>1, <2>5, <2>6, HandlerKept DEF Keep, Labels
<1>7. CASE Unswap(m)
  <2>1. /\ At(m, "unswap") /\ To(m, "temps") /\ Keep
        /\ scratch' = [scratch EXCEPT ![m] = regs["sp"]]
        /\ svr' = [svr EXCEPT ![regs["sp"]]["sp"] = scratch[m]]
        /\ regs' = [regs EXCEPT !["T5"] = 0]
    BY <1>7 DEF Unswap
  <2>2. /\ regs["sp"] = a /\ scratch[m] = before[m]["sp"]
        /\ \A r \in {"T5", "T6"} : svr[a][r] = before[m][r]
        /\ \A r \in Temporaries : regs[r] = before[m][r]
        /\ pc[m] = "unswap" /\ pc'[m] = "temps"
    BY <1>1, <1>2, <2>1 DEF Recoverable, Labels
  <2>3. \A r \in {"T5", "T6", "sp"} : svr'[a][r] = before[m][r]
    <3>1. svr' = [svr EXCEPT ![a]["sp"] = scratch[m]]
      BY <2>1, <2>2
    <3>2. svr'[a]["sp"] = scratch[m]
      BY <1>1, <3>1 DEF HandlerTypeOK, Regs
    <3>3. \A r \in {"T5", "T6"} : svr'[a][r] = svr[a][r]
      BY <1>1, <3>1 DEF HandlerTypeOK, Regs
    <3>4. QED
      BY <2>2, <3>2, <3>3
  <2>4. (\A r \in Temporaries : regs'[r] = before[m][r]) /\ regs'["sp"] = a
    BY <2>1, <2>2 DEF HandlerTypeOK, Regs, Temporaries
  <2>5. scratch'[m] = a
    BY <1>1, <2>1, <2>2
  <2>6. Recoverable(m)'
    BY <1>2, <2>1, <2>2, <2>3, <2>4, <2>5 DEF Recoverable, Keep, Labels
  <2>7. \A n \in Modes \ {m} : scratch'[n] = scratch[n] /\ svr'[Area[n]] = svr[Area[n]]
    BY <2>1, <2>2, <1>3 DEF HandlerTypeOK, SetupTypeOK
  <2>8. QED
    BY <1>2, <2>1, <2>6, <2>7, HandlerKept DEF Keep, Labels
<1>8. CASE Temps(m)
  <2> DEFINE l == IF ~IsGotoMmode(m) THEN "read" ELSE IF m = "M" THEN "rtn2mmode" ELSE "cleanup"
  <2>1. /\ At(m, "temps") /\ To(m, l) /\ Keep /\ UNCHANGED scratch
        /\ svr' = [svr EXCEPT ![regs["sp"]]["T1"] = regs["T1"], ![regs["sp"]]["T2"] = regs["T2"],
                              ![regs["sp"]]["T3"] = regs["T3"], ![regs["sp"]]["T4"] = regs["T4"]]
        /\ regs' = [regs EXCEPT !["T2"] = EntrySize(trap[m]), !["T5"] = trap[m].code]
    BY <1>8 DEF Temps
  <2>2. l \in Labels /\ l \in {"read", "rtn2mmode", "cleanup"} /\ (m = "M" => l # "idle")
    BY DEF Labels
  <2>3. /\ regs["sp"] = a /\ scratch[m] = a
        /\ \A r \in {"T5", "T6"} : svr[a][r] = before[m][r]
        /\ svr[a]["sp"] = before[m]["sp"]
        /\ \A r \in Temporaries : regs[r] = before[m][r]
        /\ pc[m] = "temps" /\ pc'[m] = l
    <3> HIDE DEF l
    <3>1. pc[m] = "temps" /\ pc'[m] = l /\ Own(m) = regs
      BY <1>2, <2>1, <2>2 DEF Labels
    <3>2. QED
      BY <1>1, <3>1 DEF Recoverable
  <2>4. svr'[a] = before[m]
    <3>1. svr'[a] \in [Regs -> Int] /\ before[m] \in [Regs -> Int]
      BY <1>1, <2>1, <2>3 DEF HandlerTypeOK, Regs
    <3> DEFINE kept == [svr[a] EXCEPT !["T1"] = regs["T1"], !["T2"] = regs["T2"],
                                      !["T3"] = regs["T3"], !["T4"] = regs["T4"]]
    <3>2. svr'[a] = kept
      <4>1. svr' = [svr EXCEPT ![a]["T1"] = regs["T1"], ![a]["T2"] = regs["T2"],
                               ![a]["T3"] = regs["T3"], ![a]["T4"] = regs["T4"]]
        BY <2>1, <2>3
      <4>2. QED
        BY <1>1, <4>1
    <3>3. svr[a] \in [Regs -> Int]
      BY <1>1 DEF HandlerTypeOK
    <3>4. \A r \in {"T5", "T6", "sp"} : svr'[a][r] = svr[a][r]
      BY <3>2, <3>3 DEF Regs
    <3>5. \A r \in Temporaries : svr'[a][r] = regs[r]
      BY <3>2, <3>3 DEF Regs, Temporaries
    <3>6. \A r \in Regs : svr'[a][r] = before[m][r]
      BY <2>3, <3>4, <3>5 DEF Regs, Temporaries
    <3>7. QED
      BY <3>1, <3>6
  <2>5. regs'["sp"] = a
    BY <2>1, <2>3 DEF HandlerTypeOK, Regs
  <2>6. Recoverable(m)'
    BY <1>2, <2>1, <2>2, <2>3, <2>4, <2>5 DEF Recoverable, Keep, Labels
  <2>7. \A n \in Modes \ {m} : scratch'[n] = scratch[n] /\ svr'[Area[n]] = svr[Area[n]]
    BY <2>1, <2>3, <1>3 DEF HandlerTypeOK
  <2>8. m = "M" /\ l = "rtn2mmode" => ~trap["M"].int /\ trap["M"].code \in EcallCodes
    BY DEF IsGotoMmode
  <2> HIDE DEF l
  <2>9. /\ phase = "test" /\ (m # "M" => pc["M"] = "idle") /\ pc[m] # "idle"
        /\ pc' = [pc EXCEPT ![m] = l] /\ UNCHANGED <<trap, before>>
    BY <1>2, <2>1, <2>2 DEF Keep, Labels
  <2>10. QED
    BY <2>2, <2>6, <2>7, <2>8, <2>9, HandlerKept
<1>9. CASE Resto(m)
  <2>1. At(m, "resto") /\ To(m, "idle") /\ Keep /\ UNCHANGED <<scratch, svr>> /\ regs' = svr[regs["sp"]]
    BY <1>9 DEF Resto
  <2>2. regs["sp"] = a /\ scratch[m] = a /\ svr[a] = before[m] /\ pc[m] = "resto" /\ pc'[m] = "idle"
    BY <1>1, <1>2, <2>1 DEF Recoverable, Labels
  <2>3. Recoverable(m)' /\ regs' = before[m]
    BY <2>1, <2>2 DEF Recoverable
  <2>4. QED
    BY <1>2, <2>1, <2>2, <2>3, HandlerKept DEF Keep, Labels
<1>10. ASSUME NEW k \in Later, At(m, k), NEW l \in Later, To(m, l), l # "rtn2mmode",
              (\E i \in Int : Save(m, i)) \/ Skip(m)
       PROVE  RegInv'
  BY <1>4, <1>10 DEF Save, Skip
<1>11. CASE ReadPtr(m)
  <2>1. regs'["sp"] = regs["sp"]
    BY <1>11 DEF ReadPtr, HandlerTypeOK, Regs
  <2>2. QED
    BY <1>11, <2>1, <1>4 DEF ReadPtr, Later, Labels
<1>12. CASE WritePtr(m)
  <2>1. regs'["sp"] = regs["sp"]
    BY <1>12 DEF WritePtr, HandlerTypeOK, Regs
  <2>2. QED
    BY <1>12, <2>1, <1>4 DEF WritePtr, Later, Labels
<1>13. CASE Overrun(m)
  <2>1. regs' = [regs EXCEPT !["T1"] = SigEnd, !["T2"] = 0, !["T4"] = ptr]
    BY <1>13 DEF Overrun
  <2>2. regs'["sp"] = regs["sp"]
    BY <2>1 DEF HandlerTypeOK, Regs
  <2>3. PICK l \in {"cleanup", "resto"} : To(m, l)
    BY <1>13 DEF Overrun
  <2>4. l \in Later /\ "overrun" \in Later
    BY DEF Later, Labels
  <2>5. QED
    BY <1>13, <2>2, <2>3, <2>4, <1>4 DEF Overrun
<1>14. CASE SaveVect(m)
  BY <1>14, <1>10 DEF SaveVect, Later, Labels
<1>15. CASE SaveCause(m)
  <2>1. PICK l \in {"ip", "epc"} : To(m, l)
    BY <1>15 DEF SaveCause
  <2>2. QED
    BY <1>15, <2>1, <1>10 DEF SaveCause, Later, Labels
<1>16. CASE SaveEpc(m)
  <2>1. PICK l \in {"tval", "cleanup"} : To(m, l) /\ (Save(m, 2) \/ Skip(m))
    BY <1>16 DEF SaveEpc
  <2>2. QED
    BY <1>16, <2>1, <1>10 DEF SaveEpc, Later, Labels
<1>17. CASE SaveTval(m)
  <2>1. PICK l \in {"overrun", "cleanup"} : To(m, l) /\ (Save(m, 3) \/ Skip(m))
    BY <1>17 DEF SaveTval
  <2>2. QED
    BY <1>17, <2>1, <1>10 DEF SaveTval, Later, Labels
<1>18. CASE SaveIp(m)
  BY <1>18, <1>10 DEF SaveIp, Later, Labels
<1>19. CASE Dispatch(m)
  <2>1. PICK l \in {"abort", "cleanup", "resto", "intid"} : To(m, l)
    BY <1>19 DEF Dispatch
  <2>2. QED
    BY <1>19, <2>1, <1>10 DEF Dispatch, Later, Labels
<1>20. CASE SaveIntId(m)
  BY <1>20, <1>10 DEF SaveIntId, Later, Labels
<1>21. CASE Abort(m)
  BY <1>21 DEF Abort, RegInv
<1>22. QED
  BY <1>5, <1>6, <1>7, <1>8, <1>9, <1>11, <1>12, <1>13, <1>14, <1>15, <1>16, <1>17, <1>18, <1>19,
     <1>20, <1>21
  DEF Handle
\* A trap to mode m is taken while m is idle, and below M mode only when no
\* handler runs.
LEMMA TakeRegs ==
  ASSUME SetupTypeOK, HandlerTypeOK, RegInv, phase = "test", NEW m \in Modes, NEW t,
         pc["M"] = "idle", pc[m] = "idle", m # "M" => \A n \in Modes : pc[n] = "idle",
         m = "M" /\ "S" \in Modes /\ pc["S"] # "idle" => t.int \/ t.code \notin EcallCodes,
         pc' = [pc EXCEPT ![m] = "swap"], trap' = [trap EXCEPT ![m] = t],
         before' = [before EXCEPT ![m] = regs'], UNCHANGED <<phase, scratch, svr>>,
         "S" \in Modes /\ pc["S"] # "idle" => regs' = regs
  PROVE  RegInv'
<1> USE Areas
<1>1. Recoverable(m)'
  BY DEF RegInv, Recoverable, Own, HandlerTypeOK
<1>2. ASSUME NEW n \in Modes \ {m}, pc[n] = "idle"
      PROVE  Recoverable(n)'
  BY <1>2 DEF RegInv, Recoverable, HandlerTypeOK
<1>3. ASSUME NEW n \in Modes \ {m}, pc[n] # "idle"
      PROVE  Recoverable(n)'
  <2>1. n = "S" /\ m = "M" /\ Recoverable(n) /\ Own(n) = regs /\ regs' = regs
    BY <1>3 DEF RegInv, Own
  <2>2. Own(n)' = regs
    BY <2>1 DEF Own, HandlerTypeOK
  <2>3. UNCHANGED <<pc[n], before[n], scratch[n], svr>>
    BY <2>1 DEF HandlerTypeOK
  <2>4. QED
    BY <2>1, <2>2, <2>3 DEF Recoverable
<1>4. \A n \in Modes : Recoverable(n)'
  BY <1>1, <1>2, <1>3
<1>5. "S" \in Modes /\ pc'["S"] # "idle" =>
        /\ pc'["M"] # "idle" => trap'["M"].int \/ trap'["M"].code \notin EcallCodes
        /\ pc'["M"] # "rtn2mmode"
  BY DEF HandlerTypeOK
<1>6. QED
  BY <1>4, <1>5 DEF RegInv

\* The test keeps the invariant of the registers.
LEMMA TestRegsKept ==
  ASSUME SetupTypeOK, HandlerTypeOK, RegInv, Test \/ CodeEnd
  PROVE  RegInv'
<1> USE Areas
<1>1. CASE Exception
  <2>1. PICK c \in Raised, e \in {"in", "out"}, v \in {"in", "out"} :
          /\ Testing
          /\ Take(HandlerOf(c), [int |-> FALSE, code |-> c, epc |-> e, tval |-> v])
          /\ UNCHANGED regs
    BY <1>1 DEF Exception
  <2> DEFINE h == HandlerOf(c)
             t == [int |-> FALSE, code |-> c, epc |-> e, tval |-> v]
  <2>2. /\ pc' = [pc EXCEPT ![h] = "swap"] /\ trap' = [trap EXCEPT ![h] = t]
        /\ before' = [before EXCEPT ![h] = regs] /\ UNCHANGED <<setupVars, svr>>
    BY <2>1 DEF Take
  <2>3. h \in Modes
    BY HandlersExist
  <2> HIDE DEF h, t
  <2>4. QED
    BY <2>1, <2>2, <2>3, TakeRegs DEF Testing, Idle, setupVars
<1>2. ASSUME NEW m \in Modes, Interrupt(m)
      PROVE  RegInv'
  <2>1. PICK c \in ie :
          /\ phase = "test" /\ pc["M"] = "idle" /\ (m = "S" => Idle)
          /\ Take(m, [int |-> TRUE, code |-> c, epc |-> "in", tval |-> "in"])
          /\ UNCHANGED regs
    BY <1>2 DEF Interrupt
  <2> DEFINE t == [int |-> TRUE, code |-> c, epc |-> "in", tval |-> "in"]
  <2>2. t.int
    OBVIOUS
  <2> HIDE DEF t
  <2>3. Take(m, t)
    BY <2>1 DEF t
  <2>4. QED
    BY <2>1, <2>2, <2>3, TakeRegs DEF Take, Idle, setupVars
<1>3. CASE GotoMmode \/ CodeEnd
  <2> DEFINE h == HandlerOf(Ecall[mode])
             t == [int |-> FALSE, code |-> Ecall[mode], epc |-> "in", tval |-> "in"]
  <2>1. /\ Testing /\ pc' = [pc EXCEPT ![h] = "swap"] /\ trap' = [trap EXCEPT ![h] = t]
        /\ before' = [before EXCEPT ![h] = regs'] /\ UNCHANGED <<setupVars, svr>>
    BY <1>3 DEF GotoMmode, CodeEnd, EcallM
  <2>2. h \in Modes
    BY HandlersExist
  <2> HIDE DEF h, t
  <2>3. QED
    BY <2>1, <2>2, TakeRegs DEF Testing, Idle, setupVars
<1>4. CASE GotoLower \/ Configure
  <2>1. UNCHANGED <<phase, pc, scratch, svr, before, trap>> /\ Testing
    BY <1>4 DEF GotoLower, Configure, setupVars
  <2>2. QED
    BY <2>1 DEF RegInv, Recoverable, Testing, Idle
<1>5. QED
  BY <1>1, <1>2, <1>3, <1>4 DEF Test

\* So do the ways out of the handlers.
LEMMA LeaveRegs ==
  ASSUME SetupTypeOK, HandlerTypeOK, RegInv, Leave
  PROVE  RegInv'
<1> USE Areas
<1>1. CASE Rtn2mmode
  <2>1. /\ At("M", "rtn2mmode") /\ To("M", "idle") /\ UNCHANGED <<scratch, svr, before, trap>>
    BY <1>1 DEF Rtn2mmode
  <2>2. Recoverable("M") /\ pc["M"] = "rtn2mmode" /\ ("S" \in Modes => pc["S"] = "idle")
    BY <2>1 DEF At, RegInv
  <2>3. \A n \in Modes : pc'[n] = "idle" /\ scratch'[n] = Area[n]
    BY <2>1, <2>2 DEF At, To, RegInv, Recoverable, HandlerTypeOK
  <2>4. QED
    BY <2>3 DEF RegInv, Recoverable
<1>2. CASE Cleanup
  BY <1>2 DEF Cleanup, RegInv
<1>3. CASE CleanupInS
  <2> DEFINE t == [int |-> FALSE, code |-> Cause.illegal_instruction, epc |-> "out", tval |-> "in"]
  <2>1. t.code \notin EcallCodes
    BY Codes DEF EcallCodes
  <2> HIDE DEF t
  <2>2. At("S", "cleanup") /\ Take("M", t) /\ UNCHANGED regs
    BY <1>3 DEF CleanupInS, t
  <2>3. QED
    BY <2>1, <2>2, TakeRegs DEF At, Take, setupVars
<1>4. QED
  BY <1>1, <1>2, <1>3 DEF Leave

\* Every step keeps the invariant of the registers.
LEMMA StepRegs ==
  ASSUME IInv, [Next]_vars
  PROVE  RegInv'
<1> USE DEF IInv
<1>1. CASE Setup
  <2>1. PICK m \in Modes : SetupActions(m)
    BY <1>1 DEF Setup, SetupNext, SetupActions
  <2>2. CASE phase' # "test"
    BY <2>2 DEF RegInv
  <2>3. CASE phase' = "test"
    <3>1. \A n \in Modes : pc'[n] = "idle" /\ scratch'[n] = Area[n]
      BY <1>1, <2>1, <2>3, Areas
      DEF Setup, handlerVars, SetupActions, SaveCsrs, InitTvec, CopyTrampoline, Epilog,
          PrologDone, SetupInv
    <3>2. QED
      BY <3>1 DEF RegInv, Recoverable
  <2>4. QED
    BY <2>2, <2>3
<1>2. CASE Test \/ CodeEnd
  BY <1>2, TestRegsKept
<1>3. CASE \E m \in Modes : Handle(m)
  BY <1>3, HandleRegs
<1>4. CASE Leave
  BY <1>4, LeaveRegs
<1>5. CASE UNCHANGED vars
  BY <1>5 DEF vars, setupVars, handlerVars, RegInv, Recoverable, Own
<1>6. QED
  BY <1>1, <1>2, <1>3, <1>4, <1>5 DEF Next
-----------------------------------------------------------------------------
(* The trap signature *)

\* Entries have three or four words; only an interrupt below the timer's
\* has three.
LEMMA Sizes ==
  ASSUME HandlerTypeOK, NEW m \in Modes
  PROVE  /\ EntrySize(trap[m]) \in {3, 4}
         /\ ~trap[m].int \/ trap[m].code = Irq.m_ext => EntrySize(trap[m]) = 4
BY Codes DEF EntrySize, HandlerTypeOK, Traps

\* A handler's place is kept by the steps of the other one that leave its
\* entry alone.
LEMMA PlaceKept ==
  ASSUME SetupTypeOK, HandlerTypeOK, NEW m \in Modes, NEW n \in Modes \ {m}, Place(n),
         m # "M" => pc["M"] = "idle",
         m = "M" => pc["M"] # "idle" /\ (pc'["M"] # "idle" \/ regs' = before["M"]),
         pc'[n] = pc[n], trap'[n] = trap[n], id'[n] = id[n], before' = before,
         pc[n] = "write" => ptr' = ptr,
         Filling(n) => /\ id[n] \in DOMAIN log' /\ log'[id[n]] = log[id[n]]
                       /\ stored'[id[n]] = stored[id[n]]
  PROVE  Place(n)'
<1> USE Areas
<1>1. CASE m = "M"
  <2>1. Own(n)' = Own(n)
    BY <1>1 DEF Own
  <2>2. Filling(n)' = Filling(n)
    BY DEF Filling
  <2>3. QED
    BY <2>1, <2>2 DEF Place
<1>2. CASE m # "M"
  <2>1. pc[n] = "idle"
    BY <1>2
  <2>2. QED
    BY <2>1 DEF Place, Filling, Filled
<1>3. QED
  BY <1>1, <1>2

\* Storing the next word of the own entry keeps all entries.
LEMMA SaveKept ==
  ASSUME SetupTypeOK, HandlerTypeOK, LogInv, EntryInv, NEW m \in Modes, NEW k \in Int, Filling(m),
         k = Filled[pc[m]], k < EntrySize(trap[m]), Save(m, k), NEW l \in Labels, To(m, l),
         m # "M" => pc["M"] = "idle",
         l \in DOMAIN Filled => Filled[l] = k + 1,
         l \notin {"idle", "read", "write", "intid"},
         l \in {"epc", "tval"} => ~trap[m].int
  PROVE  LogInv' /\ EntryInv'
<1> USE Areas
<1> DEFINE i == id[m]
           w == log[i].at + k
<1>1. Own(m) = regs /\ Own(m)' = regs' /\ regs' = regs
  BY DEF Own, Save, To, HandlerTypeOK
<1>2. /\ i \in DOMAIN log /\ regs["T1"] = log[i].at
      /\ log[i].len = EntrySize(trap[m]) /\ stored[i] = k
  BY <1>1 DEF EntryInv, Place
<1>3. /\ stored' = [stored EXCEPT ![i] = k + 1]
      /\ mem' = [x \in DOMAIN mem \cup {w} |-> IF x = w THEN <<i, k>> ELSE mem[x]]
      /\ UNCHANGED <<log, ptr, id, trap, before>> /\ pc' = [pc EXCEPT ![m] = l]
  BY <1>2 DEF Save, Store, To, Keep
<1>4. /\ DOMAIN log = 1 .. Len(log) /\ Len(log) \in Nat /\ DOMAIN stored = DOMAIN log
      /\ \A e \in DOMAIN log : log[e].at \in Int /\ log[e].len \in Int /\ stored[e] \in Int
  <2>1. log \in Seq(Entries) /\ stored \in Seq(Int) /\ Len(stored) = Len(log)
    BY DEF HandlerTypeOK
  <2>2. \A e \in DOMAIN log : log[e] \in Entries
    BY <2>1
  <2>3. QED
    BY <2>1, <2>2 DEF Entries
<1> HIDE DEF i
<1>5. stored'[i] = k + 1 /\ \A e \in DOMAIN log \ {i} : stored'[e] = stored[e]
  BY <1>2, <1>3, <1>4
<1>6. k >= 0 /\ k + 1 <= log[i].len
  BY <1>2, <1>4, Sizes DEF LogInv
<1>7. LogInv'
  <2>1. ASSUME NEW e \in DOMAIN log
        PROVE  0 <= stored'[e] /\ stored'[e] <= log[e].len
    BY <1>2, <1>4, <1>5, <1>6 DEF LogInv
  <2>2. ASSUME NEW e \in DOMAIN log, NEW j \in 0 .. stored'[e] - 1
        PROVE  log[e].at + j \in DOMAIN mem' /\ mem'[log[e].at + j] = <<e, j>>
    <3>1. CASE e = i /\ j = k
      BY <3>1, <1>3
    <3>2. CASE e = i /\ j # k
      <4>1. j \in 0 .. stored[i] - 1 /\ log[i].at + j # w
        BY <3>2, <1>2, <1>4, <1>5
      <4>2. log[i].at + j \in DOMAIN mem /\ mem[log[i].at + j] = <<i, j>>
        BY <4>1, <1>2 DEF LogInv
      <4>3. QED
        BY <3>2, <4>1, <4>2, <1>3
    <3>3. CASE e # i
      <4>1. stored'[e] = stored[e] /\ j \in 0 .. stored[e] - 1
        BY <3>3, <1>5
      <4>2. log[e].at + j \in DOMAIN mem /\ mem[log[e].at + j] = <<e, j>>
        BY <4>1 DEF LogInv
      <4>3. e < i => log[e].at + log[e].len <= log[i].at
        BY <1>2 DEF LogInv, End
      <4>4. i < e => log[i].at + log[i].len <= log[e].at
        BY <1>2 DEF LogInv, End
      <4>5. stored[e] <= log[e].len
        BY DEF LogInv
      <4>6. e \in Int /\ i \in Int
        BY <1>2, <1>4
      <4>7. log[e].at + j # w
        <5>1. /\ log[e].at \in Int /\ log[i].at \in Int /\ log[e].len \in Int /\ log[i].len \in Int
              /\ stored[e] \in Int
          BY <1>2, <1>4
        <5>2. CASE e < i
          BY <5>1, <5>2, <4>1, <4>3, <4>5, <1>6
        <5>3. CASE i < e
          BY <5>1, <5>3, <4>1, <4>4, <1>6
        <5>4. QED
          BY <5>2, <5>3, <4>6, <3>3
      <4>8. QED
        BY <4>2, <4>7, <1>3
    <3>4. QED
      BY <3>1, <3>2, <3>3
  <2>3. /\ ptr' >= SigWords
        /\ \A e \in DOMAIN log' : SigWords <= log'[e].at /\ log'[e].at + log'[e].len <= ptr'
        /\ \A e, f \in DOMAIN log' : e < f => log'[e].at + log'[e].len <= log'[f].at
    BY <1>3 DEF LogInv, End
  <2>4. \A e \in DOMAIN log' : 0 <= stored'[e] /\ stored'[e] <= log'[e].len
    BY <2>1, <1>3
  <2>5. ASSUME NEW e \in DOMAIN log', NEW j \in 0 .. stored'[e] - 1
        PROVE  log'[e].at + j \in DOMAIN mem' /\ mem'[log'[e].at + j] = <<e, j>>
    <3>1. log' = log
      BY <1>3
    <3>2. log[e].at + j \in DOMAIN mem' /\ mem'[log[e].at + j] = <<e, j>>
      BY <2>2, <3>1
    <3>3. QED
      BY <3>1, <3>2
  <2>6. QED
    BY <2>3, <2>4, <2>5 DEF LogInv, End
<1>8. Place(m)'
  <2>1. pc'[m] = l
    BY <1>3 DEF HandlerTypeOK
  <2>2. QED
    BY <1>1, <1>2, <1>3, <1>5, <2>1 DEF Place, Filling, i
<1>9. ASSUME NEW n \in Modes \ {m}
      PROVE  Place(n)' /\ (Filling(n)' => id'[n] # id'[m])
  <2>1. pc'[n] = pc[n]
    BY <1>3 DEF HandlerTypeOK
  <2>2. Filling(n) => id[n] # i
    BY DEF EntryInv, i
  <2>3. Place(n)
    BY DEF EntryInv
  <2>4. Filling(n) => id[n] \in DOMAIN log
    BY <2>3 DEF Place
  <2>5. pc[m] # "idle" /\ pc'[m] # "idle"
    BY <1>3 DEF HandlerTypeOK, Filling, Filled
  <2>6. Place(n)'
    BY <1>3, <1>5, <2>1, <2>2, <2>3, <2>4, <2>5, PlaceKept
  <2>7. QED
    BY <1>3, <2>1, <2>2, <2>6 DEF Filling, i
<1>10. "S" \in Modes /\ pc'["S"] = "write" => pc'["M"] = "idle"
  BY <1>3 DEF HandlerTypeOK, EntryInv, Filling, Filled
<1>11. QED
  BY <1>7, <1>8, <1>9, <1>10 DEF EntryInv
\* Reserving an entry at the pointer puts it behind all others.
LEMMA WriteKept ==
  ASSUME SetupTypeOK, HandlerTypeOK, LogInv, EntryInv, NEW m \in Modes, WritePtr(m)
  PROVE  LogInv' /\ EntryInv'
<1> USE Areas
<1> DEFINE n == Len(log) + 1
           new == [at |-> regs["T1"], len |-> regs["T2"]]
<1>1. /\ pc[m] = "write" /\ (m # "M" => pc["M"] = "idle")
      /\ pc' = [pc EXCEPT ![m] = "vect"]
      /\ regs' = [regs EXCEPT !["T4"] = regs["T1"] + regs["T2"]]
      /\ ptr' = regs["T1"] + regs["T2"]
      /\ log' = Append(log, new) /\ stored' = Append(stored, 0) /\ id' = [id EXCEPT ![m] = n]
      /\ UNCHANGED <<mem, trap, before>>
  BY DEF WritePtr, At, To, Keep
<1>2. Own(m) = regs /\ Own(m)' = regs' /\ pc'[m] = "vect" /\ id'[m] = n
  BY <1>1 DEF Own, HandlerTypeOK
<1>3. regs["T1"] = ptr /\ regs["T2"] = EntrySize(trap[m])
  BY <1>1, <1>2 DEF EntryInv, Place
<1>4. regs'["T1"] = regs["T1"]
  BY <1>1 DEF HandlerTypeOK, Regs
<1>5. ptr \in Int /\ regs["T2"] \in {3, 4}
  BY <1>3, Sizes DEF HandlerTypeOK
<1>6. log \in Seq(Entries) /\ stored \in Seq(Int) /\ Len(stored) = Len(log) /\ new \in Entries
  BY <1>3, <1>5 DEF HandlerTypeOK, Entries
<1>7. new.at = ptr /\ new.len = regs["T2"]
  BY <1>3
<1> HIDE DEF new
<1>8. /\ DOMAIN log = 1 .. Len(log) /\ DOMAIN log' = 1 .. n /\ Len(log) \in Nat
      /\ log'[n] = new /\ stored'[n] = 0
      /\ \A e \in DOMAIN log : log'[e] = log[e] /\ stored'[e] = stored[e]
  BY <1>1, <1>6
<1>9. \A e \in DOMAIN log : log[e].at \in Int /\ log[e].len \in Int
  <2>1. \A e \in DOMAIN log : log[e] \in Entries
    BY <1>6
  <2>2. QED
    BY <2>1 DEF Entries
<1>10. n \in Nat /\ \A e \in DOMAIN log' : e \in DOMAIN log \/ e = n
  BY <1>8
<1> HIDE DEF n
<1>11. LogInv'
  <2>1. ptr' >= SigWords /\ ptr <= ptr'
    BY <1>1, <1>3, <1>5, HandlerAssumption DEF LogInv
  <2>2. ASSUME NEW e \in DOMAIN log'
        PROVE  /\ SigWords <= log'[e].at /\ log'[e].at + log'[e].len <= ptr'
               /\ 0 <= stored'[e] /\ stored'[e] <= log'[e].len
    <3>1. CASE e \in DOMAIN log
      <4>1. /\ SigWords <= log[e].at /\ log[e].at + log[e].len <= ptr
            /\ 0 <= stored[e] /\ stored[e] <= log[e].len
        BY <3>1 DEF LogInv, End
      <4>2. log[e].at + log[e].len <= ptr'
        BY <4>1, <2>1, <3>1, <1>1, <1>3, <1>5, <1>9
      <4>3. QED
        BY <3>1, <4>1, <4>2, <1>8
    <3>2. CASE e = n
      <4>1. log'[e].at = ptr /\ log'[e].len = regs["T2"] /\ stored'[e] = 0
        BY <3>2, <1>7, <1>8
      <4>2. ptr' = ptr + regs["T2"]
        BY <1>1, <1>3
      <4>3. SigWords <= ptr /\ ptr + regs["T2"] <= ptr + regs["T2"]
        BY <1>5, HandlerAssumption DEF LogInv
      <4>4. QED
        BY <4>1, <4>2, <4>3, <1>5
    <3>3. QED
      BY <3>1, <3>2, <1>10
  <2>3. ASSUME NEW e \in DOMAIN log', NEW f \in DOMAIN log', e < f
        PROVE  log'[e].at + log'[e].len <= log'[f].at
    <3>1. e \in DOMAIN log
      BY <2>3, <1>8, <1>10 DEF n
    <3>2. CASE f \in DOMAIN log
      BY <2>3, <3>1, <3>2, <1>8 DEF LogInv, End
    <3>3. CASE f = n
      BY <3>1, <3>3, <1>7, <1>8 DEF LogInv, End
    <3>4. QED
      BY <3>2, <3>3, <1>10
  <2>4. ASSUME NEW e \in DOMAIN log', NEW j \in 0 .. stored'[e] - 1
        PROVE  log'[e].at + j \in DOMAIN mem' /\ mem'[log'[e].at + j] = <<e, j>>
    <3>1. CASE e \in DOMAIN log
      <4>1. log'[e] = log[e] /\ stored'[e] = stored[e] /\ mem' = mem
        BY <3>1, <1>1, <1>8
      <4>2. j \in 0 .. stored[e] - 1
        BY <4>1
      <4>3. log[e].at + j \in DOMAIN mem /\ mem[log[e].at + j] = <<e, j>>
        BY <3>1, <4>2 DEF LogInv
      <4>4. QED
        BY <4>1, <4>3
    <3>2. CASE e = n
      <4>1. stored'[e] = 0
        BY <3>2, <1>8
      <4>2. QED
        BY <4>1
    <3>3. QED
      BY <3>1, <3>2, <1>10
  <2>5. QED
    BY <2>1, <2>2, <2>3, <2>4 DEF LogInv, End
<1>12. Place(m)'
  BY <1>2, <1>3, <1>4, <1>7, <1>8, <1>10, <1>1 DEF Place, Filling, Filled, n
<1>13. ASSUME NEW o \in Modes \ {m}
       PROVE  Place(o)' /\ (Filling(o)' => id'[o] # n)
  <2>1. pc'[o] = pc[o] /\ id'[o] = id[o]
    BY <1>1 DEF HandlerTypeOK
  <2>2. Place(o)
    BY DEF EntryInv
  <2>3. Filling(o) => id[o] \in DOMAIN log
    BY <2>2 DEF Place
  <2>4. pc[o] # "write"
    BY <1>1 DEF EntryInv
  <2>5. Filling(o) => id[o] \in DOMAIN log' /\ log'[id[o]] = log[id[o]] /\ stored'[id[o]] = stored[id[o]]
    <3>1. \A e \in DOMAIN log : e \in DOMAIN log' /\ log'[e] = log[e] /\ stored'[e] = stored[e]
      BY <1>8, <1>10 DEF n
    <3>2. QED
      BY <2>3, <3>1
  <2>6. Place(o)'
    BY <1>1, <1>2, <2>1, <2>2, <2>4, <2>5, PlaceKept
  <2>7. QED
    BY <2>1, <2>3, <2>6, <1>8 DEF Filling, n
<1>14. "S" \in Modes /\ pc'["S"] = "write" => pc'["M"] = "idle"
  BY <1>1 DEF HandlerTypeOK, EntryInv
<1>15. QED
  BY <1>2, <1>11, <1>12, <1>13, <1>14 DEF EntryInv

\* A step of a handler that touches neither pointer nor entries.
LEMMA QuietKept ==
  ASSUME SetupTypeOK, HandlerTypeOK, LogInv, EntryInv, NEW m \in Modes,
         pc[m] # "idle", m # "M" => pc["M"] = "idle",
         NEW l \in Labels, pc' = [pc EXCEPT ![m] = l],
         UNCHANGED <<trap, ptr, mem, id, log, stored, before>>,
         m = "M" => l # "idle" \/ regs' = before["M"],
         l \in DOMAIN Filled => pc[m] \in DOMAIN Filled,
         Place(m)'
  PROVE  LogInv' /\ EntryInv'
<1> USE Areas
<1>1. LogInv'
  BY DEF LogInv, End
<1>2. pc'[m] = l /\ \A n \in Modes \ {m} : pc'[n] = pc[n]
  BY DEF HandlerTypeOK
<1>3. ASSUME NEW n \in Modes \ {m}
      PROVE  Place(n)'
  <2>1. Place(n) /\ (Filling(n) => id[n] \in DOMAIN log)
    BY DEF EntryInv, Place
  <2>2. QED
    BY <1>2, <2>1, PlaceKept
<1>4. "S" \in Modes /\ pc'["S"] = "write" => pc'["M"] = "idle"
  BY <1>2 DEF EntryInv
<1>5. "S" \in Modes /\ Filling("S")' /\ Filling("M")' => id'["S"] # id'["M"]
  BY <1>2 DEF EntryInv, Filling
<1>6. QED
  BY <1>1, <1>3, <1>4, <1>5 DEF EntryInv
\* A handler that is about to neither read, write nor fill has no place to keep.
LEMMA NoPlace ==
  ASSUME HandlerTypeOK, NEW m \in Modes, NEW l \in Labels, pc' = [pc EXCEPT ![m] = l],
         l \notin {"read", "write"}, l \notin DOMAIN Filled
  PROVE  Place(m)'
<1>1. pc'[m] = l
  BY DEF HandlerTypeOK
<1>2. QED
  BY <1>1 DEF Place, Filling, Filled

\* The steps that leave pointer and entries alone.
LEMMA QuietSig ==
  ASSUME SetupTypeOK, HandlerTypeOK, RegInv, LogInv, EntryInv, NEW m \in Modes,
         \/ Swap(m) \/ Stash(m) \/ Unswap(m) \/ Temps(m) \/ ReadPtr(m)
         \/ Overrun(m) \/ Dispatch(m) \/ Resto(m)
         \/ (Skip(m) /\ At(m, "epc") /\ To(m, "cleanup"))
         \/ (Skip(m) /\ At(m, "tval") /\ To(m, "cleanup"))
  PROVE  LogInv' /\ EntryInv'
<1> USE Areas
<1>1. ASSUME NEW l \in {"stash", "unswap", "temps", "resto", "cleanup", "abort", "rtn2mmode"},
             To(m, l), pc[m] # "idle", m # "M" => pc["M"] = "idle",
             UNCHANGED <<trap, ptr, mem, id, log, stored, before>>
      PROVE  LogInv' /\ EntryInv'
  <2>1. l \in Labels /\ l \notin {"idle", "read", "write"} /\ l \notin DOMAIN Filled
    BY DEF Labels, Filled
  <2>2. pc' = [pc EXCEPT ![m] = l]
    BY <1>1 DEF To
  <2>3. Place(m)'
    BY <2>1, <2>2, NoPlace
  <2>4. QED
    BY <1>1, <2>1, <2>2, <2>3, QuietKept
<1>2. CASE Swap(m) \/ Stash(m) \/ Unswap(m)
  BY <1>1, <1>2 DEF Swap, Stash, Unswap, At, Keep
<1>3. CASE Skip(m) /\ (At(m, "epc") \/ At(m, "tval")) /\ To(m, "cleanup")
  BY <1>1, <1>3 DEF Skip, At, Keep
<1>4. CASE Overrun(m)
  <2>1. To(m, "cleanup") \/ To(m, "resto")
    BY <1>4 DEF Overrun
  <2>2. QED
    BY <1>1, <1>4, <2>1 DEF Overrun, At, Keep
<1>5. CASE Temps(m)
  <2>1. /\ pc[m] = "temps" /\ (m # "M" => pc["M"] = "idle")
        /\ regs' = [regs EXCEPT !["T2"] = EntrySize(trap[m]), !["T5"] = trap[m].code]
        /\ UNCHANGED <<trap, ptr, mem, id, log, stored, before>>
    BY <1>5 DEF Temps, At, Keep
  <2>2. CASE To(m, "rtn2mmode") \/ To(m, "cleanup")
    BY <1>1, <2>1, <2>2
  <2>3. CASE To(m, "read")
    <3>1. pc' = [pc EXCEPT ![m] = "read"] /\ pc'[m] = "read"
      BY <2>3 DEF To, HandlerTypeOK
    <3>2. Own(m)' = regs'
      BY <2>1, <3>1 DEF Own, HandlerTypeOK
    <3>3. regs'["T2"] = EntrySize(trap[m])
      BY <2>1 DEF HandlerTypeOK, Regs
    <3>4. Place(m)'
      BY <2>1, <3>1, <3>2, <3>3 DEF Place, Filling, Filled
    <3>5. QED
      BY <2>1, <3>1, <3>4, QuietKept DEF Labels, Filled
  <2>4. QED
    BY <1>5, <2>2, <2>3 DEF Temps
<1>6. CASE ReadPtr(m)
  <2>1. /\ pc[m] = "read" /\ (m # "M" => pc["M"] = "idle")
        /\ pc' = [pc EXCEPT ![m] = "write"] /\ regs' = [regs EXCEPT !["T1"] = ptr]
        /\ UNCHANGED <<trap, ptr, mem, id, log, stored, before>>
    BY <1>6 DEF ReadPtr, At, Keep, To
  <2>2. pc'[m] = "write" /\ Own(m) = regs /\ Own(m)' = regs'
    BY <2>1 DEF Own, HandlerTypeOK
  <2>3. regs["T2"] = EntrySize(trap[m])
    BY <2>1, <2>2 DEF EntryInv, Place
  <2>4. regs'["T1"] = ptr /\ regs'["T2"] = regs["T2"]
    BY <2>1 DEF HandlerTypeOK, Regs
  <2>5. Place(m)'
    BY <2>1, <2>2, <2>3, <2>4 DEF Place, Filling, Filled
  <2>6. QED
    BY <2>1, <2>5, QuietKept DEF Labels, Filled
<1>7. CASE Dispatch(m)
  <2>1. /\ pc[m] = "dispatch" /\ (m # "M" => pc["M"] = "idle")
        /\ UNCHANGED <<regs, trap, ptr, mem, id, log, stored, before>>
    BY <1>7 DEF Dispatch, At, Skip, Keep
  <2>2. CASE To(m, "abort") \/ To(m, "cleanup") \/ To(m, "resto")
    BY <1>1, <2>1, <2>2
  <2>3. CASE To(m, "intid") /\ trap[m].code = Irq.m_ext
    <3>1. pc' = [pc EXCEPT ![m] = "intid"] /\ pc'[m] = "intid"
      BY <2>3 DEF To, HandlerTypeOK
    <3>2. Own(m)' = Own(m)
      BY <2>1, <3>1 DEF Own, HandlerTypeOK
    <3>3. Place(m)'
      BY <2>1, <2>3, <3>1, <3>2 DEF EntryInv, Place, Filling, Filled
    <3>4. QED
      BY <2>1, <3>1, <3>3, QuietKept DEF Labels, Filled
  <2>4. QED
    BY <1>7, <2>2, <2>3 DEF Dispatch
<1>8. CASE Resto(m)
  <2>1. At(m, "resto") /\ pc' = [pc EXCEPT ![m] = "idle"] /\ regs' = svr[regs["sp"]]
        /\ UNCHANGED <<trap, ptr, mem, id, log, stored, before>>
    BY <1>8 DEF Resto, At, Keep, To
  <2>2. regs["sp"] = Area[m] /\ phase = "test" /\ pc[m] = "resto" /\ (m # "M" => pc["M"] = "idle")
    BY <2>1, InArea DEF At, Labels
  <2>3. svr[Area[m]] = before[m]
    BY <2>2 DEF RegInv, Recoverable
  <2>4. Place(m)'
    BY <2>1, NoPlace DEF Labels, Filled
  <2>5. QED
    BY <2>1, <2>2, <2>3, <2>4, QuietKept DEF Labels, Filled
<1>9. QED
  BY <1>2, <1>3, <1>4, <1>5, <1>6, <1>7, <1>8

\* The steps that store a word.
LEMMA SaveSig ==
  ASSUME SetupTypeOK, HandlerTypeOK, LogInv, EntryInv, NEW m \in Modes,
         \/ SaveVect(m) \/ SaveCause(m) \/ SaveIp(m) \/ SaveIntId(m)
         \/ (Save(m, 2) /\ At(m, "epc") /\ To(m, "tval"))
         \/ (Save(m, 3) /\ At(m, "tval") /\ To(m, "overrun"))
  PROVE  LogInv' /\ EntryInv'
<1> USE Areas
<1> Place(m) /\ EntrySize(trap[m]) \in {3, 4}
  BY Sizes DEF EntryInv
<1>1. CASE SaveVect(m)
  BY <1>1, SaveKept DEF SaveVect, At, Filling, Filled, Labels
<1>2. CASE SaveCause(m)
  <2>1. /\ Save(m, 1) /\ pc[m] = "cause" /\ (m # "M" => pc["M"] = "idle")
        /\ (To(m, "ip") \/ (~trap[m].int /\ To(m, "epc")))
    BY <1>2 DEF SaveCause, At
  <2>2. QED
    BY <2>1, SaveKept DEF Filling, Filled, Labels
<1>3. CASE SaveIp(m)
  BY <1>3, SaveKept DEF SaveIp, At, Filling, Filled, Labels
<1>4. CASE SaveIntId(m)
  <2>1. EntrySize(trap[m]) = 4
    BY <1>4, Sizes DEF SaveIntId, At, Place
  <2>2. QED
    BY <1>4, <2>1, SaveKept DEF SaveIntId, At, Filling, Filled, Labels
<1>5. CASE Save(m, 2) /\ At(m, "epc") /\ To(m, "tval")
  BY <1>5, SaveKept DEF At, Filling, Filled, Labels, Place
<1>6. CASE Save(m, 3) /\ At(m, "tval") /\ To(m, "overrun")
  <2>1. EntrySize(trap[m]) = 4
    BY <1>6, Sizes DEF At, Place
  <2>2. QED
    BY <1>6, <2>1, SaveKept DEF At, Filling, Filled, Labels
<1>7. QED
  BY <1>1, <1>2, <1>3, <1>4, <1>5, <1>6
\* Taking a trap disturbs no entry, and tears the pointer only where S mode
\* has read but not yet written it.
LEMMA TakeSig ==
  ASSUME SetupTypeOK, HandlerTypeOK, SigInv, NEW m \in Modes, NEW t,
         pc["M"] = "idle", pc[m] = "idle", m # "M" => \A n \in Modes : pc[n] = "idle",
         pc' = [pc EXCEPT ![m] = "swap"], trap' = [trap EXCEPT ![m] = t],
         before' = [before EXCEPT ![m] = regs'],
         torn' = (torn \/ (m = "M" /\ "S" \in Modes /\ pc["S"] = "write")),
         UNCHANGED <<ptr, mem, id, log, stored>>,
         "S" \in Modes /\ pc["S"] # "idle" => regs' = regs
  PROVE  SigInv'
<1> SUFFICES ASSUME ~torn' PROVE LogInv' /\ EntryInv'
  BY DEF SigInv
<1> USE Areas
<1>1. LogInv /\ EntryInv /\ ~(m = "M" /\ "S" \in Modes /\ pc["S"] = "write")
  BY DEF SigInv
<1>2. LogInv'
  BY <1>1 DEF LogInv, End
<1>3. pc'[m] = "swap" /\ \A n \in Modes \ {m} : pc'[n] = pc[n] /\ trap'[n] = trap[n]
  BY DEF HandlerTypeOK
<1>4. Place(m)'
  BY NoPlace DEF Labels, Filled
<1>5. ASSUME NEW n \in Modes \ {m}
      PROVE  Place(n)'
  <2>1. CASE pc[n] = "idle"
    BY <2>1, <1>3 DEF Place, Filling, Filled
  <2>2. CASE pc[n] # "idle"
    <3>1. m = "M" /\ n = "S"
      BY <2>2
    <3>2. before'["M"] = regs
      BY <2>2, <3>1 DEF HandlerTypeOK
    <3>3. Own(n)' = Own(n)
      BY <1>3, <3>1, <3>2 DEF Own
    <3>4. Place(n) /\ pc'[n] = pc[n] /\ trap'[n] = trap[n]
      BY <1>1, <1>3 DEF EntryInv
    <3>5. QED
      BY <3>3, <3>4 DEF Place, Filling
  <2>3. QED
    BY <2>1, <2>2
<1>6. "S" \in Modes /\ pc'["S"] = "write" => pc'["M"] = "idle"
  BY <1>1, <1>3
<1>7. ~ Filling(m)'
  BY <1>3 DEF Filling, Filled
<1>8. m = "M" \/ m = "S"
  OBVIOUS
<1>9. QED
  BY <1>2, <1>4, <1>5, <1>6, <1>7, <1>8 DEF EntryInv

\* When all handlers rest there is no place to keep.
LEMMA RestSig ==
  ASSUME HandlerTypeOK, SigInv, \A n \in Modes : pc'[n] = "idle",
         UNCHANGED <<ptr, mem, id, log, stored, torn>>
  PROVE  SigInv'
<1>1. LogInv => LogInv'
  BY DEF LogInv, End
<1>2. EntryInv'
  BY Areas DEF EntryInv, Place, Filling, Filled
<1>3. QED
  BY <1>1, <1>2 DEF SigInv

\* The test keeps the trap signature.
LEMMA TestSig ==
  ASSUME SetupTypeOK, HandlerTypeOK, SigInv, Test \/ CodeEnd
  PROVE  SigInv'
<1> USE Areas
<1>1. CASE Exception
  <2>1. PICK c \in Raised, e \in {"in", "out"}, v \in {"in", "out"} :
          /\ Testing
          /\ Take(HandlerOf(c), [int |-> FALSE, code |-> c, epc |-> e, tval |-> v])
          /\ UNCHANGED regs
    BY <1>1 DEF Exception
  <2> DEFINE h == HandlerOf(c)
             t == [int |-> FALSE, code |-> c, epc |-> e, tval |-> v]
  <2>2. Take(h, t) /\ h \in Modes
    BY <2>1, HandlersExist
  <2> HIDE DEF h, t
  <2>3. QED
    BY <2>1, <2>2, TakeSig DEF Take, Testing, Idle
<1>2. ASSUME NEW m \in Modes, Interrupt(m)
      PROVE  SigInv'
  <2>1. PICK c \in ie :
          /\ pc["M"] = "idle" /\ (m = "S" => Idle)
          /\ Take(m, [int |-> TRUE, code |-> c, epc |-> "in", tval |-> "in"])
          /\ UNCHANGED regs
    BY <1>2 DEF Interrupt
  <2> DEFINE t == [int |-> TRUE, code |-> c, epc |-> "in", tval |-> "in"]
  <2>2. Take(m, t)
    BY <2>1
  <2> HIDE DEF t
  <2>3. QED
    BY <2>1, <2>2, TakeSig DEF Take, Idle
<1>3. CASE GotoMmode \/ CodeEnd
  <2> DEFINE h == HandlerOf(Ecall[mode])
             t == [int |-> FALSE, code |-> Ecall[mode], epc |-> "in", tval |-> "in"]
  <2>1. /\ Testing /\ pc' = [pc EXCEPT ![h] = "swap"] /\ trap' = [trap EXCEPT ![h] = t]
        /\ before' = [before EXCEPT ![h] = regs'] /\ UNCHANGED <<ptr, mem, id, log, stored, torn>>
    BY <1>3 DEF GotoMmode, CodeEnd, EcallM
  <2>2. h \in Modes
    BY HandlersExist
  <2> HIDE DEF h, t
  <2>3. torn' = (torn \/ (h = "M" /\ "S" \in Modes /\ pc["S"] = "write"))
    <3>1. torn \in BOOLEAN /\ torn' = torn /\ ("S" \in Modes => pc["S"] # "write")
      BY <2>1 DEF Testing, Idle, HandlerTypeOK
    <3>2. QED
      BY <3>1
  <2>4. QED
    BY <2>1, <2>2, <2>3, TakeSig DEF Testing, Idle
<1>4. CASE GotoLower \/ Configure
  BY <1>4, RestSig DEF GotoLower, Configure, Testing, Idle
<1>5. QED
  BY <1>1, <1>2, <1>3, <1>4 DEF Test

\* The marker of abort_tests lies before every entry.
LEMMA AbortSig ==
  ASSUME SetupTypeOK, HandlerTypeOK, LogInv, EntryInv, NEW m \in Modes, Abort(m)
  PROVE  LogInv' /\ EntryInv'
<1>1. /\ UNCHANGED <<pc, trap, regs, ptr, id, log, stored, before>>
      /\ \A w \in DOMAIN mem : ~(w < 1) => w \in DOMAIN mem' /\ mem'[w] = mem[w]
  <2> DEFINE D == DOMAIN mem \cup {-1} \cup (IF Xlen = 64 THEN {0} ELSE {})
  <2>1. /\ UNCHANGED <<pc, trap, regs, ptr, id, log, stored, before>>
        /\ mem' = [w \in D |-> IF w < 1 THEN Marker ELSE mem[w]]
    BY DEF Abort
  <2>2. \A w \in DOMAIN mem : w \in D
    OBVIOUS
  <2> HIDE DEF D
  <2>3. QED
    BY <2>1, <2>2
<1>2. EntryInv'
  BY <1>1 DEF EntryInv, Place, Filling, Own
<1>3. ASSUME NEW e \in DOMAIN log, NEW k \in 0 .. stored[e] - 1
      PROVE  log[e].at + k \in DOMAIN mem' /\ mem'[log[e].at + k] = <<e, k>>
  <2>1. log[e].at + k \in DOMAIN mem /\ mem[log[e].at + k] = <<e, k>> /\ SigWords <= log[e].at
    BY DEF LogInv
  <2>2. log[e].at \in Int
    <3>1. log[e] \in Entries
      BY DEF HandlerTypeOK
    <3>2. QED
      BY <3>1 DEF Entries
  <2> DEFINE w == log[e].at + k
  <2>3. ~ (w < 1)
    BY <2>1, <2>2, HandlerAssumption
  <2>4. w \in DOMAIN mem /\ mem[w] = <<e, k>>
    BY <2>1
  <2> HIDE DEF w
  <2>5. w \in DOMAIN mem' /\ mem'[w] = <<e, k>>
    BY <1>1, <2>3, <2>4
  <2>6. QED
    BY <2>5 DEF w
<1>4. LogInv'
  <2>1. /\ ptr' >= SigWords
        /\ \A e \in DOMAIN log' : /\ SigWords <= log'[e].at /\ log'[e].at + log'[e].len <= ptr'
                                  /\ 0 <= stored'[e] /\ stored'[e] <= log'[e].len
        /\ \A e, f \in DOMAIN log' : e < f => log'[e].at + log'[e].len <= log'[f].at
    BY <1>1 DEF LogInv, End
  <2>2. ASSUME NEW e \in DOMAIN log', NEW k \in 0 .. stored'[e] - 1
        PROVE  log'[e].at + k \in DOMAIN mem' /\ mem'[log'[e].at + k] = <<e, k>>
    <3>1. log' = log /\ stored' = stored
      BY <1>1
    <3>2. log[e].at + k \in DOMAIN mem' /\ mem'[log[e].at + k] = <<e, k>>
      BY <1>3, <3>1
    <3>3. QED
      BY <3>1, <3>2
  <2>3. QED
    BY <2>1, <2>2 DEF LogInv, End
<1>5. QED
  BY <1>2, <1>4

\* Every step keeps the trap signature.
LEMMA StepSig ==
  ASSUME IInv, [Next]_vars
  PROVE  SigInv'
<1> USE DEF IInv
<1>1. CASE Setup \/ Cleanup \/ UNCHANGED vars
  <2>1. UNCHANGED handlerVars
    BY <1>1 DEF Setup, Cleanup, vars
  <2>2. QED
    BY <2>1 DEF handlerVars, SigInv, LogInv, End, EntryInv, Place, Filling, Own
<1>2. CASE Test \/ CodeEnd
  BY <1>2, TestSig
<1>3. ASSUME NEW m \in Modes, Handle(m)
      PROVE  SigInv'
  <2>1. torn' = torn
    BY <1>3 DEF Handle, Swap, Stash, Unswap, Temps, ReadPtr, WritePtr, SaveVect, SaveCause, SaveEpc,
                SaveTval, Overrun, SaveIp, Dispatch, SaveIntId, Resto, Abort, Save, Skip, Keep
  <2> SUFFICES ASSUME LogInv, EntryInv PROVE LogInv' /\ EntryInv'
    BY <2>1 DEF SigInv
  <2>2. CASE Swap(m) \/ Stash(m) \/ Unswap(m) \/ Temps(m) \/ ReadPtr(m)
    BY <2>2, QuietSig
  <2>3. CASE Overrun(m) \/ Dispatch(m) \/ Resto(m)
    BY <2>3, QuietSig
  <2>4. CASE WritePtr(m)
    BY <2>4, WriteKept
  <2>5. CASE SaveVect(m) \/ SaveCause(m) \/ SaveIp(m) \/ SaveIntId(m)
    BY <2>5, SaveSig
  <2>6. CASE SaveEpc(m)
    BY <2>6, SaveSig, QuietSig DEF SaveEpc
  <2>7. CASE SaveTval(m)
    BY <2>7, SaveSig, QuietSig DEF SaveTval
  <2>8. CASE Abort(m)
    BY <2>8, AbortSig
  <2>9. QED
    BY <1>3, <2>2, <2>3, <2>4, <2>5, <2>6, <2>7, <2>8 DEF Handle
<1>4. CASE Rtn2mmode
  <2>1. At("M", "rtn2mmode") /\ To("M", "idle") /\ UNCHANGED <<ptr, mem, id, log, stored, torn>>
    BY <1>4 DEF Rtn2mmode
  <2>2. "S" \in Modes => pc["S"] = "idle"
    BY <2>1 DEF At, RegInv
  <2>3. \A n \in Modes : pc'[n] = "idle"
    BY <2>1, <2>2, Areas DEF To, HandlerTypeOK
  <2>4. QED
    BY <2>1, <2>3, RestSig
<1>5. CASE CleanupInS
  <2> DEFINE t == [int |-> FALSE, code |-> Cause.illegal_instruction, epc |-> "out", tval |-> "in"]
  <2>1. At("S", "cleanup") /\ Take("M", t) /\ UNCHANGED regs
    BY <1>5 DEF CleanupInS
  <2> HIDE DEF t
  <2>2. QED
    BY <2>1, Areas, TakeSig DEF At, Take
<1>6. QED
  BY <1>1, <1>2, <1>3, <1>4, <1>5 DEF Next, Leave
-----------------------------------------------------------------------------
(* The theorems *)

\* The invariant holds when the prolog starts.
LEMMA InitInv == Init => IInv
<1> SUFFICES ASSUME Init PROVE IInv
  OBVIOUS
<1> USE Areas, HandlerAssumption, SetupAssumption DEF Init, SetupInit
<1>1. SetupTypeOK
  <2>1. saved \in [{1, 2} -> SavedCsrs]
    BY DEF SavedCsrs, OrigScratch
  <2>2. QED
    BY <2>1 DEF SetupTypeOK, Code, OrigScratch
<1>2. HandlerTypeOK
  <2>1. NoTrap \in Traps
    BY DEF NoTrap, Traps
  <2>2. log \in Seq(Entries) /\ stored \in Seq(Int) /\ Len(stored) = Len(log)
    OBVIOUS
  <2>3. pc \in [Modes -> Labels] /\ trap \in [Modes -> Traps] /\ id \in [Modes -> Nat]
    BY <2>1 DEF Labels
  <2>4. regs \in [Regs -> Int] /\ svr \in [{1, 2} -> [Regs -> Int]] /\ before \in [Modes -> [Regs -> Int]]
    OBVIOUS
  <2>5. mode \in Modes \cup {"U"} /\ ptr \in Int /\ ie \subseteq Int
    <3>1. mode = "M" /\ ptr = SigWords /\ ie = {} /\ SigWords \in Nat /\ "M" \in Modes
      OBVIOUS
    <3>2. QED
      BY ONLY <3>1
  <2>6. ending \in BOOLEAN /\ aborted \in BOOLEAN /\ torn \in BOOLEAN
    OBVIOUS
  <2>7. QED
    BY ONLY <2>2, <2>3, <2>4, <2>5, <2>6 DEF HandlerTypeOK
<1>3. SetupInv
  BY DEF SetupInv, Untouched, Orig
<1>4. RegInv
  BY DEF RegInv
<1>5. SigInv
  BY DEF SigInv, LogInv, End, EntryInv, Place, Filling, Filled
<1>6. QED
  BY <1>1, <1>2, <1>3, <1>4, <1>5 DEF IInv

\* The inductive invariant: types, what prolog and epilogs have saved, where
\* the test's registers are, and how the entries of the trap signature lie.
THEOREM Invariance == Spec => []IInv
<1>1. Init => IInv
  BY InitInv
<1>2. IInv /\ [Next]_vars => IInv'
  BY StepTyped, StepSetup, StepRegs, StepSig DEF IInv
<1>3. QED
  BY <1>1, <1>2, PTL DEF Spec

\* The entries of the trap signature keep what the handlers stored: the two
\* modes never overwrite each other's words, whatever traps interleave, as
\* long as no trap hits the reading and writing of the shared pointer
\* (arch_test.h: "this should be atomic").
THEOREM EntriesAreKept == Spec => []EntriesKept
<1>1. IInv => EntriesKept
  <2> SUFFICES ASSUME IInv, ~torn, NEW e \in DOMAIN log, NEW k \in 0 .. stored[e] - 1
               PROVE  log[e].at + k >= SigWords /\ mem[log[e].at + k] = <<e, k>>
    BY DEF EntriesKept
  <2>1. LogInv
    BY DEF IInv, SigInv
  <2>2. SigWords <= log[e].at /\ mem[log[e].at + k] = <<e, k>>
    BY <2>1 DEF LogInv
  <2>3. log[e].at \in Int
    <3>1. log[e] \in Entries
      BY DEF IInv, HandlerTypeOK
    <3>2. QED
      BY <3>1 DEF Entries
  <2>4. QED
    BY <2>2, <2>3, HandlerAssumption
<1>2. QED
  BY <1>1, Invariance, PTL

\* At the step in which an exception passes chk_trapsig_overrun, every entry of
\* every mode is within the signature, since entries end at the shared pointer
\* as long as no trap has hit its update.
THEOREM ReturnsStayInside == Spec => ReturnsInside
<1>1. ASSUME IInv, [Next]_vars, NEW m \in Modes, pc[m] = "overrun", pc'[m] = "resto", ~torn,
             NEW e \in DOMAIN log
      PROVE  log[e].at + log[e].len <= SigEnd
  <2>1. Overrun(m)
    <3>1. ASSUME NEW n \in Modes, Handle(n)
          PROVE  Overrun(m)
      <4>1. pc' = pc \/ \E l \in Labels : pc' = [pc EXCEPT ![n] = l] /\ At(n, pc[n])
        BY <3>1 DEF Handle, Swap, Stash, Unswap, Temps, ReadPtr, WritePtr, SaveVect, SaveCause, SaveEpc,
                    SaveTval, Overrun, SaveIp, Dispatch, SaveIntId, Resto, Abort, At, To, Labels
      <4>2. n = m
        BY <1>1, <4>1 DEF IInv, HandlerTypeOK
      <4>3. QED
        BY <1>1, <3>1, <4>2
        DEF Handle, Swap, Stash, Unswap, Temps, ReadPtr, WritePtr, SaveVect, SaveCause, SaveEpc,
            SaveTval, SaveIp, Dispatch, SaveIntId, Resto, Abort, At
    <3>2. ~ (Setup \/ UNCHANGED vars \/ Test \/ CodeEnd \/ Leave)
      <4>1. CASE Setup \/ UNCHANGED vars
        BY <1>1, <4>1 DEF Setup, vars, handlerVars
      <4>2. CASE Test \/ CodeEnd
        <5>1. pc[m] = "idle" \/ pc["M"] = "idle"
          BY <4>2, Areas DEF Test, CodeEnd, Exception, Interrupt, GotoMmode, EcallM, GotoLower, Configure,
                             Testing, Idle
        <5>2. QED
          BY <1>1, <4>2, Areas DEF IInv, HandlerTypeOK, Test, CodeEnd, Exception, Interrupt, GotoMmode,
             EcallM, GotoLower, Configure, Testing, Idle, Take
      <4>3. CASE Leave
        BY <1>1, <4>3, Areas DEF IInv, HandlerTypeOK, Leave, Rtn2mmode, Cleanup, CleanupInS, Take, At, To,
                                 handlerVars
      <4>4. QED
        BY <4>1, <4>2, <4>3
    <3>3. QED
      BY <1>1, <3>1, <3>2 DEF Next
  <2>2. ptr <= SigEnd
    <3>1. ptr > SigEnd => pc'[m] = "cleanup"
      BY <2>1, <1>1 DEF Overrun, To, IInv, HandlerTypeOK
    <3>2. ptr \in Int /\ SigEnd \in Int
      BY <1>1, HandlerAssumption DEF IInv, HandlerTypeOK
    <3>3. QED
      BY <1>1, <3>1, <3>2
  <2>3. log[e].at + log[e].len <= ptr
    BY <1>1 DEF IInv, SigInv, LogInv, End
  <2>4. log[e].at \in Int /\ log[e].len \in Int /\ ptr \in Int
    <3>1. log[e] \in Entries
      BY <1>1 DEF IInv, HandlerTypeOK
    <3>2. QED
      BY <1>1, <3>1 DEF Entries, IInv, HandlerTypeOK
  <2>5. QED
    BY <2>2, <2>3, <2>4, HandlerAssumption
<1>2. IInv /\ [Next]_vars =>
        [\A m \in Modes : pc[m] = "overrun" /\ pc'[m] = "resto" /\ ~torn =>
           \A e \in DOMAIN log : log[e].at + log[e].len <= SigEnd]_vars
  BY <1>1
<1>3. QED
  BY <1>2, Invariance, PTL DEF Spec, ReturnsInside

\* Handlers give the registers back, also to each other: an S-mode handler
\* that M mode interrupts goes on with its own registers.
THEOREM RegistersAreRestored == Spec => RegistersRestored
<1>1. ASSUME IInv, [Next]_vars, NEW m \in Modes,
             pc[m] \in {"resto", "rtn2mmode"}, pc'[m] = "idle"
      PROVE  /\ pc[m] = "resto" => regs' = before[m]
             /\ pc[m] = "rtn2mmode" => regs' = [before[m] EXCEPT !["T2"] = 0]
  <2>1. Resto(m) \/ (m = "M" /\ Rtn2mmode)
    <3>1. ASSUME NEW n \in Modes, Handle(n)
          PROVE  Resto(m)
      <4>1. pc' = pc \/ \E l \in Labels : pc' = [pc EXCEPT ![n] = l] /\ At(n, pc[n])
        BY <3>1 DEF Handle, Swap, Stash, Unswap, Temps, ReadPtr, WritePtr, SaveVect, SaveCause, SaveEpc,
                    SaveTval, Overrun, SaveIp, Dispatch, SaveIntId, Resto, Abort, At, To, Labels
      <4>2. n = m
        BY <1>1, <4>1 DEF IInv, HandlerTypeOK
      <4>3. QED
        BY <1>1, <3>1, <4>2
        DEF Handle, Swap, Stash, Unswap, Temps, ReadPtr, WritePtr, SaveVect, SaveCause, SaveEpc,
            SaveTval, Overrun, SaveIp, Dispatch, SaveIntId, Abort, At
    <3>2. ~ (Setup \/ UNCHANGED vars \/ Test \/ CodeEnd \/ Cleanup \/ CleanupInS)
      <4>1. CASE Setup \/ UNCHANGED vars
        BY <1>1, <4>1 DEF Setup, vars, handlerVars
      <4>2. CASE Test \/ CodeEnd
        BY <1>1, <4>2, Areas DEF IInv, HandlerTypeOK, Test, CodeEnd, Exception, Interrupt, GotoMmode,
           EcallM, GotoLower, Configure, Testing, Idle, Take
      <4>3. CASE Cleanup \/ CleanupInS
        BY <1>1, <4>3, Areas DEF IInv, HandlerTypeOK, Cleanup, CleanupInS, Take, At, To, handlerVars
      <4>4. QED
        BY <4>1, <4>2, <4>3
    <3>3. CASE Rtn2mmode
      BY <1>1, <3>3, Areas DEF IInv, HandlerTypeOK, Rtn2mmode, To
    <3>4. QED
      BY <1>1, <3>1, <3>2, <3>3 DEF Next, Leave
  <2>2. regs["sp"] = Area[m] /\ phase = "test"
    <3>1. At(m, pc[m]) /\ pc[m] \in Labels \ {"idle", "swap"}
      BY <1>1, <2>1 DEF Resto, Rtn2mmode, At, Labels
    <3>2. QED
      BY <1>1, <3>1, InArea DEF IInv, At
  <2>3. svr[Area[m]] = before[m]
    BY <1>1, <2>2 DEF IInv, RegInv, Recoverable
  <2>4. CASE Resto(m)
    BY <2>2, <2>3, <2>4 DEF Resto, At
  <2>5. CASE m = "M" /\ Rtn2mmode
    BY <2>2, <2>3, <2>5 DEF Rtn2mmode, At
  <2>6. QED
    BY <2>1, <2>4, <2>5
<1>2. IInv /\ [Next]_vars =>
        [\A m \in Modes :
           /\ pc[m] = "resto" /\ pc'[m] = "idle" => regs' = before[m]
           /\ pc[m] = "rtn2mmode" /\ pc'[m] = "idle" =>
                regs' = [before[m] EXCEPT !["T2"] = 0]]_vars
  BY <1>1
<1>3. QED
  BY <1>2, Invariance, PTL DEF Spec, RegistersRestored

\* A test that does not abort leaves the trap CSRs and the code at fixed
\* vectors as the prolog found them, however far prologs got.
THEOREM CsrsAreRestored == Spec => []CsrsRestored
<1>1. IInv => CsrsRestored
  BY DEF IInv, SetupInv, CsrsRestored
<1>2. QED
  BY <1>1, Invariance, PTL
=============================================================================
