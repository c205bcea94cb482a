------------------------------ MODULE CombFiles -----------------------------
(***************************************************************************)
(* The end of create_test() of ctg.py, for a covergroup whose instructions *)
(* have a template: first the cross_comb node, then the csr_comb node.  An *)
(* exception in the first leaves nothing of the second.                    *)
(***************************************************************************)
EXTENDS CsrComb, CrossComb

CONSTANT Covergroups    \* pairs of a cross_comb and a csr_comb node

ASSUME CovergroupsAssumption == Covergroups \subseteq CrossCombs \X CsrCombs

combVars == <<vars, crossVars>>

CombInit == Init /\ CrossInit /\ <<cross_comb, csr_comb>> \in Covergroups

CrossFile == CrossNext /\ UNCHANGED vars

CsrFile == stage = "written" /\ Next /\ UNCHANGED crossVars

\* create_test has ended with an exception.
Ended == stage = "raised" /\ UNCHANGED combVars

CombNext == CrossFile \/ CsrFile \/ Ended

CombSpec == CombInit /\ [][CombNext]_combVars
=============================================================================
