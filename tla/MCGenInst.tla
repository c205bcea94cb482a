------------------------------ MODULE MCGenInst -----------------------------
(***************************************************************************)
(* Covergroups for model-checking OpComb and GenInst: small ones of each   *)
(* kind, over registers of which x0 and f0 are special.                    *)
(***************************************************************************)
EXTENDS GenInst

AllRegs == {"x0", "x1", "x2", "x3", "f0"}
Two   == <<"rs1", "rs2">>
Three == <<"rs1", "rs2", "rd">>

\* Conditions on operands: no register named, or one.
Cmp(ops, P(_), named) ==
  [sat |-> {s \in [{ops[i] : i \in DOMAIN ops} -> AllRegs] : P(s)}, hard |-> named]
Equal(ops)   == Cmp(ops, LAMBDA s : s["rs1"] = s["rs2"], {})
Differ(ops)  == Cmp(ops, LAMBDA s : s["rs1"] # s["rs2"], {})
Is(ops, op, r) == Cmp(ops, LAMBDA s : s[op] = r, {r})

\* Conditions on values.
Vars == {"rs1_val", "rs2_val"}
OnVals(P(_), vs, h) == [sat |-> {v \in [Vars -> 0..2] : P(v)}, vars |-> vs, how |-> h]
One(x)   == OnVals(LAMBDA v : v[x] = 1, {x}, "solve")
Same     == OnVals(LAMBDA v : v["rs1_val"] = v["rs2_val"], Vars, "solve")
NoSuch   == OnVals(LAMBDA v : v["rs1_val"] = 2, {"rs1_val"}, "solve")
Given    == OnVals(LAMBDA v : v["rs1_val"] = 2 /\ v["rs2_val"] = 1, Vars, "given")
Partial  == OnVals(LAMBDA v : v["rs1_val"] = 2, {"rs1_val"}, "partial")
Twice    == OnVals(LAMBDA v : FALSE, Vars, "twice")

Group(ops, dat, cov, com, va, rnd) ==
  [ops |-> ops, data |-> dat, cover |-> cov, comb |-> com, random |-> rnd,
   vals |-> Vars, reads |-> [op \in {"rs1", "rs2"} |-> IF op = "rs1" THEN "rs1_val" ELSE "rs2_val"],
   dataset |-> [x \in Vars |-> <<0, 1>>], val |-> va]

Low    == [op \in {"rs1", "rs2"} |-> {"x1", "x2"}]
Zero   == [op \in {"rs1", "rs2"} |-> {"x0", "x1", "x2"}]
Float  == [op \in {"rs1", "rs2"} |-> {"f0", "x1", "x2"}]
Low3   == [op \in {"rs1", "rs2", "rd"} |-> {"x1", "x2"}]
Few3   == [op \in {"rs1", "rs2", "rd"} |-> IF op = "rs1" THEN {"x1", "x2"} ELSE {"x3"}]
Wide3  == [Low3 EXCEPT !["rd"] = {"x1", "x2", "x3"}]
Ask(rs1, rs2) == [op \in {"rs1", "rs2"} |-> IF op = "rs1" THEN rs1 ELSE rs2]
Ask3(rs1, rs2, rd) == [op \in {"rs1", "rs2", "rd"} |->
  CASE op = "rs1" -> rs1 [] op = "rs2" -> rs2 [] op = "rd" -> rd]

\* Two operands: all lists of registers to cover, also ones the operand cannot
\* be, with conditions that pending registers may exclude.
Pages == {{}, {"x1"}, {"x2"}, {"x3"}, {"x0", "x1"}, {"x1", "x2"}, {"x0", "x1", "x2"}}
MenuTwo ==
  {Group(Two, Zero, Ask(a, b), c, <<Same, One("rs1_val")>>, FALSE) :
     a \in Pages, b \in Pages,
     c \in {<<>>, <<Differ(Two), Equal(Two)>>, <<Equal(Two), Differ(Two)>>}}

\* Three operands, conditions that name registers, with both solvers; in Low3
\* the operands cannot all be different.
MenuThree ==
  {Group(Three, Wide3, Ask3({"x1"}, {"x2"}, c), <<Is(Three, "rs1", "x2"), Is(Three, "rd", "x3")>>,
         <<Same, Partial>>, FALSE) : c \in {{}, {"x1"}}}
  \cup {Group(Three, d, Ask3({"x1"}, {}, {}), <<Is(Three, "rs1", "x2")>>, <<One("rs1_val")>>,
              d = Few3) : d \in {Low3, Few3}}

MenuRest ==
  { \* a register is named where there is no rd
    Group(Two, Low, Ask({"x1"}, {}), <<Is(Two, "rs2", "x3")>>, <<>>, FALSE),
    \* f0, values as given, unsolvable, and solved at random
    Group(Two, Float, Ask({"x1"}, {"x2"}), <<>>, <<Same, One("rs2_val")>>, FALSE),
    Group(Two, Low, Ask({"x1"}, {"x1"}), <<>>, <<NoSuch, One("rs2_val"), Given>>, FALSE),
    Group(Two, Low, Ask({"x1"}, {}), <<Equal(Two)>>, <<One("rs2_val"), Same>>, TRUE),
    \* a value given twice
    Group(Two, Low, Low, <<>>, <<Same, Twice, Given>>, FALSE) }

MenuCgfs == MenuTwo \cup MenuThree \cup MenuRest
=============================================================================
