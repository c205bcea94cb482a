---------------------------- MODULE BuildProofs -----------------------------
(***************************************************************************)
(* Proofs about Build, for any number of changes of the sources, with and  *)
(* without interruptions.                                                  *)
(***************************************************************************)
EXTENDS Build, TLAPS

LEMMA InitInv == Init => IInv
<1> SUFFICES ASSUME Init PROVE IInv
  OBVIOUS
<1>1. TypeOK
  <2>1. version \in 0..MaxVersion /\ simOf \in 0..version
    BY BuildAssumption DEF Init
  <2>2. QED
    BY <2>1 DEF Init, TypeOK, Steps
<1>2. StepsInv /\ OkMeansBuilt /\ FreshRecovers
  BY DEF Init, StepsInv, Running, OkMeansBuilt, FreshRecovers
<1>3. QED
  BY <1>1, <1>2 DEF IInv

\* A run that has not come to an end claims nothing.
LEMMA SilentInv ==
  ASSUME TypeOK', StepsInv', outcome' \in {"none", "interrupted"}
  PROVE  IInv'
  BY DEF IInv, OkMeansBuilt, FreshRecovers

\* Between runs: the sources change, or a run starts.  What the last run has
\* reported is not said of the new sources.
LEMMA BetweenRunsInv == IInv /\ (UpdateSources \/ Start) => IInv'
<1> SUFFICES ASSUME IInv, UpdateSources \/ Start PROVE IInv'
  OBVIOUS
<1>1. /\ pc = "idle" /\ outcome' = "none" /\ fresh' \in BOOLEAN /\ fault' \in BOOLEAN
      /\ pc' \in {"idle", "clean_binutils"}
      /\ UNCHANGED <<bin, sail, simOf>>
  BY DEF IInv, TypeOK, UpdateSources, Start, Running
<1>2. version' \in 0..MaxVersion /\ simOf' \in 0..version'
  BY BuildAssumption DEF IInv, TypeOK, UpdateSources, Start
<1>3. TypeOK'
  BY <1>1, <1>2 DEF IInv, TypeOK, Steps
<1>4. StepsInv'
  BY <1>1 DEF StepsInv
<1>5. QED
  BY <1>1, <1>3, <1>4, SilentInv

\* The steps that build binutils leave the rest of a run with its tools, all
\* of them when the tree was cleaned: then there is nothing to be skipped.
LEMMA BinutilsInv == IInv /\ Binutils => IInv'
<1> SUFFICES ASSUME IInv, Binutils PROVE IInv'
  OBVIOUS
<1>1. TypeOK /\ StepsInv
  BY DEF IInv
<1>2. CASE CleanBinutils \/ CheckBinutils
  <2>1. TypeOK'
    BY <1>1, <1>2 DEF TypeOK, Steps, InBin, CleanBinutils, CheckBinutils, GoTo
  <2>2. StepsInv'
    BY <1>1, <1>2 DEF StepsInv, Running, CleanBinutils, CheckBinutils, BinutilsMissing, GoTo
  <2>3. outcome' = "none"
    BY <1>1, <1>2 DEF StepsInv, Running, CleanBinutils, CheckBinutils, GoTo
  <2>4. QED
    BY <2>1, <2>2, <2>3, SilentInv
<1>3. CASE Configure \/ Make \/ MakeDone
  <2>1. TypeOK'
    BY <1>1, <1>3 DEF TypeOK, Steps, InBin, Configure, Make, MakeDone, GoTo
  <2>2. StepsInv'
    BY <1>1, <1>3 DEF StepsInv, Running, Tools, Configure, Make, MakeDone, GoTo
  <2>3. outcome' = "none"
    BY <1>1, <1>3 DEF StepsInv, Running, Configure, Make, MakeDone, GoTo
  <2>4. QED
    BY <2>1, <2>2, <2>3, SilentInv
<1>4. CASE ConfigureFails \/ MakeFails
  <2>1. /\ pc' = "idle" /\ outcome' = "failed" /\ fault' = TRUE
        /\ UNCHANGED <<fresh, bin, sail, version, simOf>>
    BY <1>4 DEF ConfigureFails, MakeFails, Fail, Exit
  <2>2. TypeOK' /\ StepsInv'
    BY <1>1, <2>1 DEF TypeOK, Steps, StepsInv, Running
  <2>3. QED
    BY <2>1, <2>2 DEF IInv, OkMeansBuilt, FreshRecovers
<1>5. QED
  BY <1>2, <1>3, <1>4 DEF Binutils

\* The steps that build the model: the simulator is built of the sources as
\* they are, and a tree that was cleaned is configured before it is built.
LEMMA ModelInv == IInv /\ Model => IInv'
<1> SUFFICES ASSUME IInv, Model PROVE IInv'
  OBVIOUS
<1>1. TypeOK /\ StepsInv
  BY DEF IInv
<1>2. CASE CheckSail \/ CleanSail \/ CMake
  <2>1. TypeOK'
    BY <1>1, <1>2 DEF TypeOK, Steps, InSail, CheckSail, CleanSail, CMake, GoTo
  <2>2. StepsInv'
    BY <1>1, <1>2 DEF StepsInv, Running, CheckSail, CleanSail, CMake, FirstTime, GoTo
  <2>3. outcome' = "none"
    BY <1>1, <1>2 DEF StepsInv, Running, CheckSail, CleanSail, CMake, GoTo
  <2>4. QED
    BY <2>1, <2>2, <2>3, SilentInv
<1>3. CASE SailNotOnPath \/ CMakeFails
  <2>1. /\ pc' = "idle" /\ outcome' = "failed" /\ fault' = TRUE
        /\ sail' \subseteq sail \cup {"CMakeCache.txt"}
        /\ UNCHANGED <<fresh, bin, version, simOf>>
    BY <1>3 DEF SailNotOnPath, CMakeFails, Fail, Exit
  <2>2. TypeOK' /\ StepsInv'
    BY <1>1, <2>1 DEF TypeOK, Steps, InSail, StepsInv, Running
  <2>3. QED
    BY <2>1, <2>2 DEF IInv, OkMeansBuilt, FreshRecovers
<1>4. CASE BuildSim
  <2>1. /\ pc = "build" /\ pc' = "idle" /\ outcome' = "ok"
        /\ sail' = sail \cup {"sail_riscv_sim"} /\ simOf' = version
        /\ UNCHANGED <<fresh, bin, version, fault>>
    BY <1>4 DEF BuildSim, Exit
  <2>2. TypeOK' /\ StepsInv'
    BY <1>1, <2>1, BuildAssumption DEF TypeOK, Steps, InSail, StepsInv, Running
  <2>3. OkMeansBuilt' /\ FreshRecovers'
    BY <1>1, <2>1 DEF StepsInv, OkMeansBuilt, FreshRecovers, Tools
  <2>4. QED
    BY <2>2, <2>3 DEF IInv
<1>5. CASE BuildFails
  <2>1. /\ pc = "build" /\ pc' = "idle" /\ outcome' = "failed"
        /\ fault' = (fault \/ "Makefile" \in sail)
        /\ UNCHANGED <<fresh, bin, sail, version, simOf>>
    BY <1>5 DEF BuildFails, Fail, Exit
  <2>2. fault' \in BOOLEAN /\ (fresh => fault')
    BY <1>1, <2>1 DEF StepsInv
  <2>3. TypeOK' /\ StepsInv'
    BY <1>1, <2>1, <2>2 DEF TypeOK, Steps, StepsInv, Running
  <2>4. QED
    BY <2>1, <2>2, <2>3 DEF IInv, OkMeansBuilt, FreshRecovers
<1>6. QED
  BY <1>2, <1>3, <1>4, <1>5 DEF Model

\* An interrupted run leaves what it likes of a tree it was about to remove.
LEMMA InterruptInv == IInv /\ Interrupt => IInv'
<1> SUFFICES ASSUME IInv, Interrupt PROVE IInv'
  OBVIOUS
<1>1. TypeOK /\ StepsInv
  BY DEF IInv
<1>2. /\ pc' = "idle" /\ outcome' = "interrupted"
      /\ bin' \subseteq bin /\ sail' \subseteq sail \cup {"CMakeCache.txt"}
      /\ UNCHANGED <<fresh, version, simOf, fault>>
  BY DEF Interrupt, Exit
<1>3. TypeOK' /\ StepsInv'
  BY <1>1, <1>2 DEF TypeOK, Steps, InSail, StepsInv, Running
<1>4. QED
  BY <1>2, <1>3, SilentInv

-----------------------------------------------------------------------------
\* The inductive invariant holds in every reachable state.
THEOREM Invariance == Spec => []IInv
<1>1. Init => IInv
  BY InitInv
<1>2. IInv /\ [Next]_vars => IInv'
  <2> SUFFICES ASSUME IInv, [Next]_vars PROVE IInv'
    OBVIOUS
  <2>1. CASE UNCHANGED vars
    BY <2>1 DEF IInv, TypeOK, StepsInv, Running, OkMeansBuilt, FreshRecovers, vars
  <2>2. QED
    BY <2>1, BetweenRunsInv, BinutilsInv, ModelInv, InterruptInv DEF Next
<1>3. QED
  BY <1>1, <1>2, PTL DEF Spec

\* A run that reports ok has the assembler, the linker and a simulator of the
\* sources as they are, whatever trees it found (build.sh, 24-59).
THEOREM OkIsBuilt == Spec => []OkMeansBuilt
<1>1. IInv => OkMeansBuilt
  BY DEF IInv
<1>2. QED
  BY <1>1, Invariance, PTL

\* --fresh recovers from every state earlier runs can leave: it fails only by
\* the fault of a tool, and builds all of binutils (build.sh, 23-33, 38).
THEOREM FreshDoesRecover == Spec => []FreshRecovers
<1>1. IInv => FreshRecovers
  BY DEF IInv
<1>2. QED
  BY <1>1, Invariance, PTL
=============================================================================
