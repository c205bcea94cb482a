------------------------------- MODULE Build --------------------------------
(***************************************************************************)
(* The incremental build, build.sh.                                        *)
(*                                                                         *)
(* A run builds binutils unless it finds them built, then configures and   *)
(* builds the Sail model.  What it does depends on the files it finds, and *)
(* these are left by earlier runs, which may have been interrupted or have *)
(* failed at any command ("set -e").  --fresh removes both build trees.    *)
(* Between runs the sources of the model may change.                       *)
(*                                                                         *)
(* configure, make and cmake are external: make produces its targets one   *)
(* by one, in no fixed order (-j); cmake may leave CMakeCache.txt even     *)
(* when it fails, but writes Makefiles only when it succeeds.              *)
(***************************************************************************)
EXTENDS Naturals

CONSTANTS
  MaxVersion,      \* bound on the number of changes of the sources
  Interruptible    \* runs may be interrupted

ASSUME BuildAssumption == MaxVersion \in Nat /\ Interruptible \in BOOLEAN

VARIABLES
  pc,        \* the step the script is at, or "idle"
  fresh,     \* --fresh
  bin,       \* files in riscv-binutils/build
  sail,      \* files in sail-riscv/build
  version,   \* version of the sources of the model
  simOf,     \* version of the sources that the simulator was built from
  outcome,   \* how the last run ended: "none", "ok", "failed" or "interrupted"
  fault      \* a tool or a download has failed in this run, by no fault of the script

vars   == <<pc, fresh, bin, sail, version, simOf, outcome, fault>>

Tools   == {"as-new", "ld-new", "objdump"}
InBin   == Tools \cup {"Makefile"}
InSail  == {"CMakeCache.txt", "Makefile", "sail_riscv_sim"}
Running == pc # "idle"

GoTo(step) == pc' = step /\ UNCHANGED outcome
Exit(how)  == pc' = "idle" /\ outcome' = how

\* A command that fails ends the script.
Fail == Exit("failed") /\ UNCHANGED <<fresh, version, simOf>>

Init ==
  /\ pc = "idle" /\ fresh = FALSE
  /\ bin = {} /\ sail = {} /\ version = 0 /\ simOf = 0
  /\ outcome = "none" /\ fault = FALSE

UpdateSources ==
  /\ ~ Running /\ version < MaxVersion
  /\ version' = version + 1
  /\ outcome' = "none"
  /\ UNCHANGED <<pc, fresh, bin, sail, simOf, fault>>

Start ==
  /\ ~ Running
  /\ fresh' \in BOOLEAN
  /\ fault' = FALSE
  /\ pc' = "clean_binutils" /\ outcome' = "none"
  /\ UNCHANGED <<bin, sail, version, simOf>>

CleanBinutils ==
  /\ pc = "clean_binutils"
  /\ bin' = IF fresh THEN {} ELSE bin
  /\ GoTo("binutils")
  /\ UNCHANGED <<fresh, sail, version, simOf, fault>>

\* Faulty variants precede the definitions they are mistakes in.
BinutilsMissingFaulty == "as-new" \notin bin /\ "ld-new" \notin bin
BinutilsMissing == "as-new" \notin bin \/ "ld-new" \notin bin

CheckBinutils ==
  /\ pc = "binutils"
  /\ GoTo(IF BinutilsMissing THEN "configure" ELSE "sail")
  /\ UNCHANGED <<fresh, bin, sail, version, simOf, fault>>

\* ../configure, if there is no Makefile.
Configure ==
  /\ pc = "configure"
  /\ bin' = bin \cup {"Makefile"}
  /\ GoTo("make")
  /\ UNCHANGED <<fresh, sail, version, simOf, fault>>

ConfigureFails ==
  /\ pc = "configure" /\ "Makefile" \notin bin
  /\ fault' = TRUE
  /\ Fail /\ UNCHANGED <<bin, sail>>

Make ==
  /\ pc = "make"
  /\ \E tool \in Tools \ bin : bin' = bin \cup {tool}
  /\ UNCHANGED <<pc, fresh, sail, version, simOf, outcome, fault>>

MakeDone ==
  /\ pc = "make" /\ Tools \subseteq bin
  /\ GoTo("sail")
  /\ UNCHANGED <<fresh, bin, sail, version, simOf, fault>>

MakeFails ==
  /\ pc = "make"
  /\ fault' = TRUE
  /\ Fail /\ UNCHANGED <<bin, sail>>

\* "command -v sail"
CheckSail ==
  /\ pc = "sail"
  /\ GoTo("clean_sail")
  /\ UNCHANGED <<fresh, bin, sail, version, simOf, fault>>

SailNotOnPath ==
  /\ pc = "sail"
  /\ fault' = TRUE
  /\ Fail /\ UNCHANGED <<bin, sail>>

CleanSailFaulty ==
  /\ pc = "clean_sail"
  /\ GoTo("cmake")
  /\ UNCHANGED <<fresh, bin, sail, version, simOf, fault>>

CleanSail ==
  /\ pc = "clean_sail"
  /\ sail' = IF fresh THEN {} ELSE sail
  /\ GoTo("cmake")
  /\ UNCHANGED <<fresh, bin, version, simOf, fault>>

\* The first time, cmake configures the build; afterwards it is only rebuilt.
FirstTime == "CMakeCache.txt" \notin sail

CMake ==
  /\ pc = "cmake"
  /\ sail' = IF FirstTime THEN sail \cup {"CMakeCache.txt", "Makefile"} ELSE sail
  /\ GoTo("build")
  /\ UNCHANGED <<fresh, bin, version, simOf, fault>>

CMakeFails ==
  /\ pc = "cmake" /\ FirstTime
  /\ sail' \in {sail, sail \cup {"CMakeCache.txt"}}
  /\ fault' = TRUE
  /\ Fail /\ UNCHANGED bin

\* cmake --build: compiles what is out of date, if the build is configured.
BuildSimFaulty ==
  /\ pc = "build" /\ "Makefile" \in sail
  /\ sail' = sail \cup {"sail_riscv_sim"}
  /\ simOf' = IF "sail_riscv_sim" \in sail THEN simOf ELSE version
  /\ Exit("ok")
  /\ UNCHANGED <<fresh, bin, version, fault>>

BuildSim ==
  /\ pc = "build" /\ "Makefile" \in sail
  /\ sail' = sail \cup {"sail_riscv_sim"}
  /\ simOf' = version
  /\ Exit("ok")
  /\ UNCHANGED <<fresh, bin, version, fault>>

BuildFails ==
  /\ pc = "build"
  /\ fault' = (fault \/ "Makefile" \in sail)
  /\ Fail /\ UNCHANGED <<bin, sail>>

\* An interruption while a tree is removed leaves a part of it.
Interrupt ==
  /\ Interruptible /\ Running
  /\ Exit("interrupted")
  /\ \/ UNCHANGED <<bin, sail>>
     \/ pc = "clean_binutils" /\ fresh /\ bin' \in SUBSET bin /\ UNCHANGED sail
     \/ pc = "clean_sail" /\ fresh /\ sail' \in SUBSET sail /\ UNCHANGED bin
     \/ pc = "cmake" /\ FirstTime /\ sail' = sail \cup {"CMakeCache.txt"} /\ UNCHANGED bin
  /\ UNCHANGED <<fresh, version, simOf, fault>>

Binutils == CleanBinutils \/ CheckBinutils \/ Configure \/ ConfigureFails
            \/ Make \/ MakeDone \/ MakeFails
Model    == CheckSail \/ SailNotOnPath \/ CleanSail \/ CMake \/ CMakeFails
            \/ BuildSim \/ BuildFails

Next == UpdateSources \/ Start \/ Binutils \/ Model \/ Interrupt

Spec == Init /\ [][Next]_vars

-----------------------------------------------------------------------------
(***************************************************************************)
(* Properties                                                              *)
(***************************************************************************)
\* "build.sh produces riscv-binutils/build/gas/as-new, .../ld-new and
\* sail-riscv/build/c_emulator/sail_riscv_sim" (README.md): whatever earlier
\* runs left, a run that reports ok has an assembler and a linker, and a
\* simulator of the sources as they are.
OkMeansBuilt ==
  outcome = "ok" =>
    /\ {"as-new", "ld-new"} \subseteq bin
    /\ "sail_riscv_sim" \in sail /\ simOf = version

\* "--fresh: reconfigure and rebuild both from scratch": it recovers from
\* every state earlier runs can leave, fails only if a tool does, and reports
\* ok only with all the tools built.
FreshRecovers ==
  /\ fresh /\ outcome = "failed" => fault
  /\ fresh /\ outcome = "ok" => Tools \subseteq bin

-----------------------------------------------------------------------------
\* The inductive invariant behind them: what the steps done so far have made
\* sure of.  Only --fresh starts from trees whose contents are known.
Steps == {"idle", "clean_binutils", "binutils", "configure", "make",
          "sail", "clean_sail", "cmake", "build"}

TypeOK ==
  /\ pc \in Steps /\ fresh \in BOOLEAN /\ fault \in BOOLEAN
  /\ bin \subseteq InBin /\ sail \subseteq InSail
  /\ version \in 0..MaxVersion /\ simOf \in 0..version
  /\ outcome \in {"none", "ok", "failed", "interrupted"}

StepsInv ==
  /\ Running => outcome = "none"
  /\ pc \in {"sail", "clean_sail", "cmake", "build"} =>
       {"as-new", "ld-new"} \subseteq bin /\ (fresh => Tools \subseteq bin)
  /\ fresh /\ pc = "binutils" => bin = {}
  /\ fresh /\ pc = "cmake" => sail = {}
  /\ fresh /\ pc = "build" => "Makefile" \in sail

IInv == TypeOK /\ StepsInv /\ OkMeansBuilt /\ FreshRecovers
=============================================================================
