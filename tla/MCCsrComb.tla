------------------------------ MODULE MCCsrComb -----------------------------
(***************************************************************************)
(* Coverpoints for model-checking CombFiles: expressions printed with the    *)
(* brackets Python needs, and with more than it needs.                     *)
(***************************************************************************)
EXTENDS CombFiles

C(r, m, s, k, v) == [csr |-> r, mod |-> m, shift |-> s, mask |-> k, val |-> v]
Clauses == <<
  C("misa",    None,    FALSE, {1},    {1}),
  C("mstatus", None,    TRUE,  {0, 1}, {0}),
  C("misa",    "old",   FALSE, {0},    {0}),
  C("misa",    "write", TRUE,  {0, 1}, {1}),
  C("mstatus", "old",   TRUE,  {1},    {}),
  C("mstatus", None,    FALSE, {0},    {}) >>
Unknown == C(None, None, FALSE, {0}, {0})
AllClauses == Append(Clauses, Unknown)

AfterReset == [r \in {"misa", "mstatus"} |-> IF r = "misa" THEN {1} ELSE {0}]

\* Expressions of the grammar, with brackets where it needs them.
Tight(p) == IF p.prec = 3 THEN p ELSE Bracket(p)
Close(p) == IF p.prec >= 2 THEN p ELSE Bracket(p)
\* All conjunctions and disjunctions of members of two sequences.
Both(A, B) ==
  [k \in 1..(2 * Len(A) * Len(B)) |->
     LET p == A[(((k - 1) \div 2) % Len(A)) + 1]
         q == B[((k - 1) \div (2 * Len(A))) + 1]
     IN  IF k % 2 = 0 THEN And(Close(p), Close(q)) ELSE Or(p, q)]
Each1(A, Op(_)) == [k \in DOMAIN A |-> Op(A[k])]
Lits(s) == Each1(s, Lit)

Singles == Lits(<<1, 2, 3, 4, 5, 6, 7>>)
Left    == Both(Lits(<<1, 3>>), Lits(<<2, 4>>))
Wrapped == Each1(Left, Bracket) \o Each1(Left \o Lits(<<1, 2>>), LAMBDA p : Not(Tight(p)))
Triples == Both(Left \o Wrapped, Lits(<<2, 4, 6>>) \o <<Bracket(Lit(4)), Not(Lit(2))>>)
           \o Both(Lits(<<1, 5>>), Left \o Wrapped)
Quads   == Both(Left, Left) \o Both(Each1(Left, Bracket), Each1(Left, Bracket))
Deep    == Each1(Wrapped, Bracket) \o Each1(Lits(<<1, 4>>), LAMBDA p : Not(Not(p)))
           \o Both(<<Bracket(Bracket(Lit(1)))>>, Lits(<<2>>))

\* Texts that are no expressions.
Bad(t) == [toks |-> t, holds |-> {}, prec |-> 3]
Malformed == << Bad(<<Sym("not")>>), Bad(<<Sym("and")>> \o Text(1)), Bad(Text(1) \o <<Sym("and")>>),
                Bad(Text(1) \o <<Sym(")")>>), Bad(<<Sym("("), Sym("=="), Sym(")"), Sym(")")>>) >>

Short == Lits(<<1, 4, 7>>) \o Malformed
         \o <<And(Lit(3), Lit(4)), Or(Lit(1), Lit(2)), Not(Lit(1)), And(Lit(2), Bracket(Or(Lit(1), Lit(3))))>>

Menu == Short \o Singles \o Both(Singles, Singles) \o Triples \o Quads \o Deep
MenuLists == {<<>>} \cup {<<p>> : p \in DOMAIN Menu}
             \cup {list \in [{1, 2} -> DOMAIN Short] : list[1] # list[2]}

-----------------------------------------------------------------------------
\* Cross combinations: four registers, of which operands are x0 to x2 unless
\* the template says otherwise.
Low(o) == [x \in o |-> {"x0", "x1", "x2"}]
Op(o) == [op_data |-> Low(o), pairs |-> {}, prints |-> TRUE]
Templates == [
  sub   |-> Op({"rs1", "rs2", "rd"}),
  addi  |-> Op({"rs1", "rd"}),
  beq   |-> [Op({"rs1", "rs2"}) EXCEPT !.prints = FALSE],
  clui  |-> [Op({"rd"}) EXCEPT !.op_data = [rd |-> {"x3"}]],
  pwadd |-> [op_data |-> [rs1 |-> {"x1", "x2"}, rd |-> {"x2"}], pairs |-> {"rd"}, prints |-> TRUE] ]
Halves == [r \in {"x2"} |-> "x3"]

Item(d, cond, assgn) == [any |-> FALSE, data |-> d, cond |-> cond, assgn |-> assgn]
AnyItem(cond, assgn) == [Item({}, cond, assgn) EXCEPT !.any = TRUE]
Is(x, y) == <<x, y>>
Windows == <<
  \* the one of the documentation, shortened
  <<Item({"sub"}, <<>>, <<Is("a", "rd")>>), AnyItem(<<Is("rs1", "a"), Is("rs2", "a")>>, <<>>),
    Item({"addi"}, <<Is("rd", "a")>>, <<>>)>>,
  \* an operand that the second instruction does not have
  <<Item({"sub"}, <<>>, <<Is("a", "rd")>>), Item({"addi"}, <<Is("rs2", "a")>>, <<>>)>>,
  \* a variable of another coverpoint
  <<AnyItem(<<Is("rs1", "b")>>, <<>>)>>,
  \* the first choice may be x0
  <<Item({"addi"}, <<>>, <<Is("a", "rs1")>>), Item({"addi"}, <<Is("rd", "a")>>, <<>>)>>,
  \* no such instruction
  <<Item({"addi"}, <<>>, <<>>), Item({"nosuch"}, <<>>, <<>>)>>,
  \* a branch in a tuple
  <<Item({"beq", "addi"}, <<>>, <<>>)>>,
  <<Item({"pwadd"}, <<>>, <<>>)>>,
  \* variables set from variables
  <<AnyItem(<<>>, <<Is("a", "rs2"), Is("b", "a")>>), Item({"addi", "sub"}, <<Is("rs1", "b")>>, <<Is("a", "x1")>>),
    Item({"addi"}, <<Is("rs1", "a")>>, <<Is("b", "rd")>>)>>,
  \* operands that are compared; all registers used
  <<Item({"sub"}, <<Is("rs1", "rs2")>>, <<>>), Item({"clui"}, <<>>, <<>>)>>,
  \* no instruction has what it asks for
  <<AnyItem(<<Is("rs3", "x1")>>, <<>>)>>,
  <<AnyItem(<<Is("rd", "x2")>>, <<Is("a", "rd")>>), Item({"addi"}, <<Is("rs1", "a")>>, <<Is("b", "rd")>>)>> >>

CrossLists == {<<>>} \cup {<<c>> : c \in DOMAIN Windows}
              \cup {<<c, d>> : c \in {3, 5, 7, 11}, d \in {2, 3, 5, 6, 7}}
\* Coverpoint 4 is a text that is rejected.
Groups == {<<<<>>, csrs>> : csrs \in MenuLists} \cup {<<cross, <<4>>>> : cross \in CrossLists}
          \cup {<<cross, <<1>>>> : cross \in {<<3>>, <<7>>, <<11, 7>>}}
=============================================================================
