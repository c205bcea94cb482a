------------------------------ MODULE CsrParse ------------------------------
(***************************************************************************)
(* CSR coverpoints and their parser: parse_csr_covpt() of csr_comb.py.     *)
(*                                                                         *)
(* A coverpoint combines clauses, conditions on a field of a CSR, with     *)
(* not, and, or and brackets.  The parser goes over its tokens once, with  *)
(* a stack of operators and one of expressions.  Brackets are in clauses,  *)
(* too: the bracket depth of the "==" of a clause tells the two apart.     *)
(*                                                                         *)
(* A coverpoint is a record:                                               *)
(*   toks    its tokens                                                    *)
(*   holds   what it means: the sets of clauses whose truth makes it true  *)
(*           (its value as a Python expression, which coverage tools use)  *)
(***************************************************************************)
EXTENDS Integers, FiniteSets, SequencesExt

CONSTANTS
  Clause,    \* the clauses by their number: [csr, mod, shift, mask, val]
  Csrs,      \* CSR_REGS
  Bits,      \* the bits of a CSR; a mask or a value is a set of bits
  Covpt,     \* the coverpoints by their number
  CsrCombs   \* lists of coverpoints: the csr_comb nodes of covergroups

None == "none"
Worlds == SUBSET DOMAIN Clause     \* which clauses may be true

Lexeme == [sym : {"(", ")", "not", "and", "or", "==", "text"}, of : {0} \cup DOMAIN Clause]

ASSUME ClauseAssumption == \A c \in DOMAIN Clause : c \in Nat \ {0} /\
  Clause[c] \in [csr : Csrs \cup {None}, mod : {None, "old", "write"}, shift : BOOLEAN,
                 mask : SUBSET Bits, val : SUBSET Bits]
ASSUME CovptAssumption ==
  /\ \A p \in DOMAIN Covpt : Covpt[p].toks \in Seq(Lexeme) /\ Covpt[p].holds \subseteq Worlds
  /\ CsrCombs \subseteq Seq(DOMAIN Covpt)
  /\ \A list \in CsrCombs : IsInjective(list)    \* an OrderedSet

-----------------------------------------------------------------------------
(***************************************************************************)
(* Tokens.  The four forms of a clause are                                 *)
(*    csr & mask == val            (csr >> shift) & mask == val            *)
(*    old("csr") & mask == val     (old("csr") >> shift) & mask == val     *)
(***************************************************************************)
OPS == {"not", "and", "or"}
OP_PRIORITY == [not |-> -1, and |-> -2, or |-> -3]
Sym(s) == [sym |-> s, of |-> 0]

Word(c) == [sym |-> "text", of |-> c]
End(c)  == [sym |-> "==", of |-> c]
Text(c) == LET name == IF Clause[c].mod = None THEN <<Word(c)>>
                       ELSE <<Word(c), Sym("("), Word(c), Sym(")")>>
           IN  (IF Clause[c].shift THEN <<Sym("(")>> \o name \o <<Sym(")")>> ELSE name)
               \o <<End(c)>>

\* What the regular expressions make of the text of a clause: 0 if none matches.
Recognised(text) == IF \E c \in DOMAIN Clause : Text(c) = text
                    THEN CHOOSE c \in DOMAIN Clause : Text(c) = text ELSE 0

\* clause_depths: the bracket depth at each "==".
Count(toks, i, s) == Cardinality({j \in 1..(i - 1) : toks[j].sym = s})
DepthAt(toks, i) == Count(toks, i, "(") - Count(toks, i, ")")
ClauseDepths(toks) ==
  [k \in 1..Count(toks, Len(toks) + 1, "==") |->
     DepthAt(toks, CHOOSE i \in DOMAIN toks : toks[i].sym = "==" /\ Count(toks, i, "==") = k - 1)]

-----------------------------------------------------------------------------
(***************************************************************************)
(* What an expression is and means, as Python has it: the grammar of its   *)
(* operators.  prec tells what binds closer: 3 for clauses, brackets and   *)
(* not, 2 for and, 1 for or.                                               *)
(***************************************************************************)
Lit(c) == [toks |-> Text(c), holds |-> {V \in Worlds : c \in V}, prec |-> 3]
Bracket(p) == [toks |-> <<Sym("(")>> \o p.toks \o <<Sym(")")>>, holds |-> p.holds, prec |-> 3]
Not(p) == [toks |-> <<Sym("not")>> \o p.toks, holds |-> Worlds \ p.holds, prec |-> 3]
And(p, q) == [toks |-> p.toks \o <<Sym("and")>> \o q.toks, holds |-> p.holds \cap q.holds, prec |-> 2]
Or(p, q) == [toks |-> p.toks \o <<Sym("or")>> \o q.toks, holds |-> p.holds \cup q.holds, prec |-> 1]

\* The least set that has the clauses and all that can be built from its members.
Closed(G) ==
  /\ \A c \in DOMAIN Clause : Lit(c) \in G
  /\ \A p \in G : Bracket(p) \in G /\ (p.prec = 3 => Not(p) \in G)
  /\ \A p, q \in G : Or(p, q) \in G /\ (p.prec >= 2 /\ q.prec >= 2 => And(p, q) \in G)
Printed == [toks : Seq(Lexeme), holds : SUBSET Worlds, prec : 1..3]
Grammar == {p \in Printed : \A G \in SUBSET Printed : Closed(G) => p \in G}

IsExpression(cp) == \E p \in Grammar : p.toks = cp.toks /\ p.holds = cp.holds

-----------------------------------------------------------------------------
(***************************************************************************)
(* BooleanExpression.  An expression is kept as what SAT() returns for it, *)
(* a sequence of solutions (the clauses to be true, the clauses to be      *)
(* false), and as its meaning.                                             *)
(***************************************************************************)
Each(lhs, rhs, Sols(_, _)) ==
  FlattenSeq([i \in DOMAIN lhs.SAT |->
    FlattenSeq([j \in DOMAIN rhs.SAT |-> Sols(lhs.SAT[i], rhs.SAT[j])])])

LiteralExpression(c) ==
  [SAT |-> <<[t |-> <<c>>, f |-> <<>>]>>, holds |-> {V \in Worlds : c \in V}]

NotExpression(e) ==
  [SAT |-> [k \in DOMAIN e.SAT |-> [t |-> e.SAT[k].f, f |-> e.SAT[k].t]],
   holds |-> Worlds \ e.holds]

\* Faulty variant: the solutions of the two are taken in step.
AndExpressionFaulty(lhs, rhs) ==
  [SAT |-> [i \in DOMAIN lhs.SAT \cap DOMAIN rhs.SAT |->
              [t |-> lhs.SAT[i].t \o rhs.SAT[i].t, f |-> lhs.SAT[i].f \o rhs.SAT[i].f]],
   holds |-> lhs.holds \cap rhs.holds]

AndExpression(lhs, rhs) ==
  [SAT |-> Each(lhs, rhs, LAMBDA p, q : <<[t |-> p.t \o q.t, f |-> p.f \o q.f]>>),
   holds |-> lhs.holds \cap rhs.holds]

OrExpression(lhs, rhs) ==
  [SAT |-> Each(lhs, rhs, LAMBDA p, q : <<[t |-> p.t \o q.f, f |-> p.f \o q.t],
                                          [t |-> p.f \o q.t, f |-> p.t \o q.f],
                                          [t |-> p.t \o q.t, f |-> p.f \o q.f]>>),
   holds |-> lhs.holds \cup rhs.holds]

-----------------------------------------------------------------------------
VARIABLES
  csr_comb,        \* the list of coverpoints (numbers)
  covpt,           \* the one being worked on (index)
  phase,           \* which loop runs
  pos,             \* number of the next token
  bracket_depth,
  operator_stack,
  clause_stack,    \* of expressions
  clause_index,
  current_clause,  \* tokens of the clause being read
  invalid          \* coverpoints rejected with an error (indices)

parserVars == <<pos, bracket_depth, operator_stack, clause_stack, clause_index, current_clause>>
parseVars  == <<csr_comb, covpt, phase, parserVars, invalid>>

toks == Covpt[csr_comb[covpt]].toks
tok  == toks[pos].sym
clause_depths == ClauseDepths(toks)
current_clause_depth == clause_depths[clause_index]
HasToken == phase = "scan" /\ clause_depths # <<>> /\ pos <= Len(toks)

ParseInit ==
  /\ csr_comb \in CsrCombs
  /\ covpt = 1 /\ pos = 1 /\ bracket_depth = 0
  /\ phase = IF csr_comb = <<>> THEN "write_test" ELSE "scan"
  /\ operator_stack = <<>> /\ clause_stack = <<>>
  /\ clause_index = 1 /\ current_clause = <<>> /\ invalid = {}

\* The loop of csr_comb() goes on with the next coverpoint.
NextCovpt ==
  /\ covpt' = covpt + 1
  /\ phase' = IF covpt < Len(csr_comb) THEN "scan" ELSE "write_test"
  /\ pos' = 1 /\ bracket_depth' = 0
  /\ operator_stack' = <<>> /\ clause_stack' = <<>>
  /\ clause_index' = 1 /\ current_clause' = <<>>
  /\ UNCHANGED csr_comb

PushLiteral ==
  clause_stack' = Append(clause_stack, LiteralExpression(Recognised(current_clause)))

OpenBracket ==
  /\ HasToken /\ tok = "("
  /\ bracket_depth' = bracket_depth + 1
  /\ IF bracket_depth' > current_clause_depth
     THEN current_clause' = Append(current_clause, toks[pos]) /\ UNCHANGED operator_stack
     ELSE operator_stack' = Append(operator_stack, "(") /\ UNCHANGED current_clause
  /\ pos' = pos + 1
  /\ UNCHANGED <<csr_comb, covpt, phase, clause_stack, clause_index, invalid>>

\* A bracket of the clause.
CloseInClause ==
  /\ HasToken /\ tok = ")" /\ current_clause # <<>>
  /\ bracket_depth' = bracket_depth - 1
  /\ bracket_depth' >= current_clause_depth
  /\ current_clause' = Append(current_clause, toks[pos])
  /\ pos' = pos + 1
  /\ UNCHANGED <<csr_comb, covpt, phase, operator_stack, clause_stack, clause_index, invalid>>

\* A bracket that ends the clause.
CloseAfterClause ==
  /\ HasToken /\ tok = ")" /\ current_clause # <<>>
  /\ bracket_depth' = bracket_depth - 1
  /\ bracket_depth' < current_clause_depth
  /\ PushLiteral
  /\ phase' = "ended"
  /\ UNCHANGED <<csr_comb, covpt, pos, operator_stack, clause_index, current_clause, invalid>>

CloseGroup ==
  /\ HasToken /\ tok = ")" /\ current_clause = <<>>
  /\ bracket_depth' = bracket_depth - 1
  /\ phase' = "close"
  /\ UNCHANGED <<csr_comb, covpt, pos, operator_stack, clause_stack, clause_index,
                 current_clause, invalid>>

\* An operator ends the clause; the clause after it is the current one.
Operator ==
  /\ HasToken /\ tok \in OPS
  /\ IF current_clause # <<>>
     THEN /\ clause_index < Len(clause_depths)
          /\ PushLiteral
          /\ clause_index' = clause_index + 1 /\ current_clause' = <<>>
     ELSE UNCHANGED <<clause_stack, clause_index, current_clause>>
  /\ phase' = "operator"
  /\ UNCHANGED <<csr_comb, covpt, pos, bracket_depth, operator_stack, invalid>>

TextToken ==
  /\ HasToken /\ tok \in {"text", "=="}
  /\ current_clause' = Append(current_clause, toks[pos])
  /\ pos' = pos + 1
  /\ UNCHANGED <<csr_comb, covpt, phase, bracket_depth, operator_stack, clause_stack,
                 clause_index, invalid>>

EndOfTokens ==
  /\ phase = "scan" /\ clause_depths # <<>> /\ pos > Len(toks)
  /\ IF current_clause # <<>> THEN PushLiteral ELSE UNCHANGED clause_stack
  /\ phase' = "final"
  /\ UNCHANGED <<csr_comb, covpt, pos, bracket_depth, operator_stack, clause_index,
                 current_clause, invalid>>

-----------------------------------------------------------------------------
\* The loops that take operators off the stack.

\* Faulty variant: or binds closer than and.
BindsFaulty ==
  Last(operator_stack) \in OPS /\ OP_PRIORITY[Last(operator_stack)] < OP_PRIORITY[tok]

\* Does the last operator bind closer than the one just read?
Binds ==
  Last(operator_stack) \in OPS /\ OP_PRIORITY[Last(operator_stack)] > OP_PRIORITY[tok]

Popping == operator_stack # <<>> /\ CASE phase = "operator" -> Binds
                                      [] phase \in {"close", "ended"} -> Last(operator_stack) # "("
                                      [] phase = "final" -> TRUE
                                      [] OTHER -> FALSE
Arity == IF Last(operator_stack) = "not" THEN 1 ELSE 2
Operand(k) == clause_stack[Len(clause_stack) + 1 - k]

\* Everything that is neither "not" nor "and" counts as "or" here, "(" included.
Apply ==
  /\ Popping /\ Len(clause_stack) >= Arity
  /\ clause_stack' = Append(SubSeq(clause_stack, 1, Len(clause_stack) - Arity),
       CASE Last(operator_stack) = "not" -> NotExpression(Operand(1))
         [] Last(operator_stack) = "and" -> AndExpression(Operand(2), Operand(1))
         [] OTHER -> OrExpression(Operand(2), Operand(1)))
  /\ operator_stack' = Front(operator_stack)
  /\ UNCHANGED <<csr_comb, covpt, phase, pos, bracket_depth, clause_index, current_clause, invalid>>

PushOperator ==
  /\ phase = "operator" /\ ~Popping
  /\ operator_stack' = Append(operator_stack, tok)
  /\ pos' = pos + 1 /\ phase' = "scan"
  /\ UNCHANGED <<csr_comb, covpt, bracket_depth, clause_stack, clause_index, current_clause, invalid>>

GroupDone ==
  /\ phase = "close" /\ operator_stack # <<>> /\ ~Popping
  /\ operator_stack' = Front(operator_stack)
  /\ pos' = pos + 1 /\ phase' = "scan"
  /\ UNCHANGED <<csr_comb, covpt, bracket_depth, clause_stack, clause_index, current_clause, invalid>>

\* Faulty variant: the clause is not cleared.
ClauseDoneFaulty ==
  /\ phase = "ended" /\ operator_stack # <<>> /\ ~Popping
  /\ operator_stack' = Front(operator_stack)
  /\ clause_index' = clause_index + 1
  /\ IF clause_index = Len(clause_depths)
     THEN phase' = "final" /\ UNCHANGED pos
     ELSE phase' = "scan" /\ pos' = pos + 1
  /\ UNCHANGED <<csr_comb, covpt, bracket_depth, clause_stack, current_clause, invalid>>

\* After the last clause the loop ends, whatever tokens are left.
ClauseDone ==
  /\ phase = "ended" /\ operator_stack # <<>> /\ ~Popping
  /\ operator_stack' = Front(operator_stack)
  /\ current_clause' = <<>> /\ clause_index' = clause_index + 1
  /\ IF clause_index = Len(clause_depths)
     THEN phase' = "final" /\ UNCHANGED pos
     ELSE phase' = "scan" /\ pos' = pos + 1
  /\ UNCHANGED <<csr_comb, covpt, bracket_depth, clause_stack, invalid>>

Parsed ==
  /\ phase = "final" /\ operator_stack = <<>> /\ clause_stack # <<>>
  /\ phase' = "solve" /\ pos' = 1
  /\ UNCHANGED <<csr_comb, covpt, bracket_depth, operator_stack, clause_stack, clause_index,
                 current_clause, invalid>>
bool_expr == Last(clause_stack)

\* An IndexError; csr_comb() logs the coverpoint and goes on.
IndexError ==
  \/ phase = "scan" /\ clause_depths = <<>>
  \/ HasToken /\ tok \in OPS /\ current_clause # <<>> /\ clause_index = Len(clause_depths)
  \/ Popping /\ Len(clause_stack) < Arity
  \/ phase \in {"close", "ended"} /\ operator_stack = <<>>
  \/ phase = "final" /\ operator_stack = <<>> /\ clause_stack = <<>>
Reject == IndexError /\ NextCovpt /\ invalid' = invalid \cup {covpt}

Parse == \/ OpenBracket \/ CloseInClause \/ CloseAfterClause \/ CloseGroup
         \/ Operator \/ TextToken \/ EndOfTokens
         \/ Apply \/ PushOperator \/ GroupDone \/ ClauseDone \/ Parsed \/ Reject

-----------------------------------------------------------------------------
(***************************************************************************)
(* The stacks hold expressions over clauses that the coverpoint names; 0   *)
(* stands for a clause that is not recognised (parse_csr_covpt).           *)
(***************************************************************************)
ClausesOf(p) == {0} \cup {t.of : t \in ToSet(Covpt[p].toks)}
Solution(p) == [t : Seq(ClausesOf(p)), f : Seq(ClausesOf(p))]
Expression(p) == [SAT : Seq(Solution(p)), holds : SUBSET Worlds]

Reading == {"scan", "operator", "close", "ended", "final"}
ParseTypeOK ==
  /\ csr_comb \in CsrCombs
  /\ covpt \in 1..(Len(csr_comb) + 1) /\ pos \in Nat \ {0}
  /\ phase \in Reading \cup {"solve", "write_test", "run", "done"}
  /\ invalid \subseteq DOMAIN csr_comb
  /\ phase \in Reading \cup {"solve"} =>
       /\ covpt \in DOMAIN csr_comb
       /\ bracket_depth \in Int /\ clause_index \in Nat \ {0}
       /\ operator_stack \in Seq({"("} \cup OPS)
       /\ clause_stack \in Seq(Expression(csr_comb[covpt]))
       /\ current_clause \in Seq(ToSet(toks))
  /\ phase = "operator" => pos \in DOMAIN toks /\ tok \in OPS
  /\ phase = "solve" => clause_stack # <<>>

(***************************************************************************)
(* A coverpoint that is accepted is understood as Python understands it:   *)
(* not before and before or, brackets first, whatever brackets its clauses *)
(* have of their own (parse_csr_covpt).                                    *)
(***************************************************************************)
ParsedRight == phase = "solve" => bool_expr.holds = Covpt[csr_comb[covpt]].holds

(***************************************************************************)
(* A coverpoint that is an expression (has a meaning) is accepted, unless  *)
(* two or more brackets follow its last clause: of those, the loop of      *)
(* parse_csr_covpt reads the first only, and the opening ones of the       *)
(* others are taken for operators.                                         *)
(***************************************************************************)
EndsInOneBracket(t) == ~(Len(t) > 1 /\ t[Len(t)].sym = ")" /\ t[Len(t) - 1].sym = ")")
ExpressionsAccepted ==
  \A i \in invalid : LET p == Covpt[csr_comb[i]] IN p.holds # {} => ~EndsInOneBracket(p.toks)
=============================================================================
