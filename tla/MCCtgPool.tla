------------------------------ MODULE MCCtgPool ------------------------------
(***************************************************************************)
(* Model-checking instance of CtgPool.                                     *)
(***************************************************************************)
EXTENDS CtgPool

Op(name, files) ==
  [op |-> name, known |-> TRUE, supported |-> TRUE, files |-> files, ends |-> "ok"]
Node(label, mnemonics) ==
  [label |-> label, ignore |-> FALSE, base |-> "none", mnemonics |-> mnemonics,
   cross |-> "none", csr |-> "none"]

\* Covergroups of each kind: with all combinations, with several mnemonics, with
\* one of another XLEN, with CSR coverpoints only, ignored, and failing ones.
Full     == [Node("full", <<Op("add", 2)>>) EXCEPT !.cross = "ok", !.csr = "ok"]
Pair     == Node("pair", <<Op("min", 2), Op("max", 1)>>)
Other    == [Node("other", <<Op("addw", 1), Op("sub", 1)>>)
               EXCEPT !.mnemonics[1].supported = FALSE, !.csr = "ok"]
CsrOnly  == [Node("csr", <<>>) EXCEPT !.csr = "ok"]
Ignored  == [Node("ignored", <<Op("or", 1)>>) EXCEPT !.ignore = TRUE]
Nothing  == Node("datasets", <<>>)
Raises   == [Node("raises", <<Op("xor", 1)>>) EXCEPT !.mnemonics[1].ends = "raise"]
Leaves   == [Node("leaves", <<Op("and", 1)>>) EXCEPT !.mnemonics[1].ends = "exit"]
CrossBad == [Node("crossbad", <<Op("sll", 1)>>) EXCEPT !.cross = "raise"]
CsrBad   == [Node("csrbad", <<>>) EXCEPT !.csr = "raise"]
Unknown  == [Node("unknown", <<Op("foo", 1)>>) EXCEPT !.mnemonics[1].known = FALSE]
Pseudo   == [Node("pseudo", <<Op("zext", 1)>>) EXCEPT !.base = "known", !.cross = "ok"]
NoBase   == [Node("nobase", <<Op("zext", 1)>>) EXCEPT !.base = "unknown"]

FailingCgfs == {
  <<Nothing, Full, Raises, Pair, Other, Unknown>>,
  <<CsrBad, CsrOnly, Ignored, Pseudo, CrossBad, Full>>,
  <<Full, Leaves, Pair, NoBase, Other>>}

Labels == {"full", "pair", "other", "csr", "ignored", "datasets", "raises", "leaves",
           "crossbad", "csrbad", "unknown", "pseudo", "nobase"}
AllOrNot == {Labels, Labels \ {"raises", "leaves"}}
=============================================================================
