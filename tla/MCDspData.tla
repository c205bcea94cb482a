------------------------------ MODULE MCDspData -----------------------------
(***************************************************************************)
(* The formats of p.yaml for model-checking DspData, with bytes of 2 bits: *)
(* XLEN is 8 or 16, elements have 2 (b), 4 (h), 8 (w) or 16 bits (d).      *)
(***************************************************************************)
EXTENDS DspData

Lanes(of, w) == [of |-> of, width |-> w]
One(of)      == [of |-> of, width |-> 0]
Format(xlen, width, paired, pairs, vals, loads) ==
  [xlen |-> xlen, width |-> width, paired |-> paired, pairs |-> pairs,
   ops |-> DOMAIN vals \cup pairs \cup {"rd"}, vals |-> vals, loads |-> loads]
Two(a, b) == [op \in {"rs1", "rs2"} |-> IF op = "rs1" THEN a ELSE b]
Three(a, b, d) == [op \in {"rs1", "rs2", "rd"} |-> CASE op = "rs1" -> a [] op = "rs2" -> b [] OTHER -> d]
RsOne(a) == [op \in {"rs1"} |-> a]

\* Without pairs: phrrformat, pbrformat, psbrrformat, pwhrrformat, pshrrformat
\* with "16,xlen", phrdrrformat (elements of rd for 2 * XLEN bits).
Plain(xlen) == {
  Format(xlen, <<4, 4>>, FALSE, {}, Two(Lanes(xlen, 4), Lanes(xlen, 4)), <<"rs1", "rs2">>),
  Format(xlen, <<2, 2>>, FALSE, {}, RsOne(Lanes(xlen, 2)), <<"rs1">>),
  Format(xlen, <<2, 2>>, FALSE, {}, Two(Lanes(xlen, 2), One(2)), <<"rs1", "rs2">>),
  Format(xlen, <<8, 4>>, FALSE, {}, Two(Lanes(xlen, 8), Lanes(xlen, 4)), <<"rs1", "rs2">>),
  Format(xlen, <<4, xlen>>, FALSE, {}, Two(Lanes(xlen, 4), One(xlen)), <<"rs1", "rs2">>) }
Reading(xlen) ==
  {Format(xlen, <<4, 4>>, FALSE, {}, Three(Lanes(xlen, 4), Lanes(xlen, 4), Lanes(2 * xlen, 4)), <<"rd", "rs1", "rs2">>)}

\* With pairs, on RV32: ppphrrformat, pppdrrformat (single elements are "d0"),
\* ppnhrrformat, pnnhrrformat, pnnwrdrrformat, pphriformat (npi), pphrformat
\* (ppx), pphrrformat ("64,16").
PPN == Format(8, <<4, 8>>, TRUE, {"rd", "rs1"}, Two(Lanes(16, 4), Lanes(8, 8)), <<"rs1", "rs2">>)
Pairs == {PPN,
  Format(8, <<4, 4>>, TRUE, {"rd", "rs1", "rs2"}, Two(Lanes(16, 4), Lanes(16, 4)), <<"rs1", "rs2">>),
  Format(8, <<16, 16>>, TRUE, {"rd", "rs1", "rs2"}, Two(Lanes(16, 16), Lanes(16, 16)), <<"rs1", "rs2">>),
  Format(8, <<4, 4>>, TRUE, {"rd"}, Two(Lanes(8, 4), Lanes(8, 4)), <<"rs1", "rs2">>),
  Format(8, <<8, 8>>, TRUE, {"rd"}, Three(Lanes(8, 8), Lanes(8, 8), Lanes(16, 8)), <<"rd", "rs1", "rs2">>),
  Format(8, <<4, 4>>, TRUE, {"rs1"}, RsOne(Lanes(16, 4)), <<"rs1">>),
  Format(8, <<4, 4>>, TRUE, {"rd", "rs1"}, RsOne(Lanes(16, 4)), <<"rs1">>),
  Format(8, <<16, 4>>, TRUE, {"rd", "rs1"}, Two(One(16), Lanes(8, 4)), <<"rs1", "rs2">>) }

Formats == Plain(8) \cup Plain(16) \cup Reading(8) \cup Reading(16) \cup Pairs

AllRegs == 0..5
\* pair_regs and all_regs; rd only where its register matters.
RegistersOf(m, op) == IF op = "rd" /\ op \notin DOMAIN m.vals THEN {4}
                      ELSE IF op \in m.pairs THEN {2, 4} ELSE {0, 1, 2, 3}

\* One element differs from the others; -1 and the extremes.
ElementsOf(v) ==
  IF v.width = 0 THEN {<<e>> : e \in {-(2^(v.of - 1)), -1, 0, 2^v.of - 1}}
  ELSE LET n == v.of \div v.width
           w == v.width
       IN  {[i \in 1..n |-> IF i = k THEN y ELSE z] :
              k \in {1, n}, y \in {-(2^(w - 1)), 2^w - 1}, z \in {-1, 1}}
=============================================================================
