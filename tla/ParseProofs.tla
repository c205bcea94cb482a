----------------------------- MODULE ParseProofs ----------------------------
(***************************************************************************)
(* Proofs about the parser of CSR coverpoints, for all coverpoints.        *)
(*                                                                         *)
(* What the parser has read and what it has not read yet are, together, an *)
(* expression in which values stand for what was evaluated; it goes on     *)
(* having the meaning of the coverpoint.                                   *)
(***************************************************************************)
EXTENDS CombProofs

-----------------------------------------------------------------------------
(***************************************************************************)
(* Forms: sequences of values, sets of worlds, and of symbols.  What the   *)
(* parser has on its stacks and has not read yet is one.                   *)
(***************************************************************************)
Symbols == {"(", ")", "not", "and", "or"}
Openers == {"(", "not", "and", "or"}      \* what an operand follows
Starters == {"value", "(", "not"}         \* what an operand starts with
Part == [sym : Symbols, worlds : {{}}] \cup [sym : {"value"}, worlds : SUBSET Worlds]
Mark(s)  == [sym |-> s, worlds |-> {}]
Value(V) == [sym |-> "value", worlds |-> V]

Form(w, H, p) == [form |-> w, holds |-> H, prec |-> p]
Inside(w) == [j \in 1..(Len(w) + 2) |->
  IF j = 1 THEN Mark("(") ELSE IF j = Len(w) + 2 THEN Mark(")") ELSE w[j - 1]]
Negated(w) == [j \in 1..(Len(w) + 1) |-> IF j = 1 THEN Mark("not") ELSE w[j - 1]]
Join(l, s, r) == [j \in 1..(Len(l) + 1 + Len(r)) |->
  IF j <= Len(l) THEN l[j] ELSE IF j = Len(l) + 1 THEN Mark(s) ELSE r[j - Len(l) - 1]]

ValueForm(V)   == Form(<<Value(V)>>, V, 3)
InsideForm(e)  == Form(Inside(e.form), e.holds, 3)
NegatedForm(e) == Form(Negated(e.form), Worlds \ e.holds, 3)
AndForm(l, r)  == Form(Join(l.form, "and", r.form), l.holds \cap r.holds, 2)
OrForm(l, r)   == Form(Join(l.form, "or", r.form), l.holds \cup r.holds, 1)

\* The grammar of CsrParse, for forms.
AnyForm == [form : Seq(Part), holds : SUBSET Worlds, prec : 1..3]
Shut(G) ==
  /\ \A V \in SUBSET Worlds : ValueForm(V) \in G
  /\ \A e \in G : InsideForm(e) \in G /\ (e.prec = 3 => NegatedForm(e) \in G)
  /\ \A l, r \in G : OrForm(l, r) \in G /\ (l.prec >= 2 /\ r.prec >= 2 => AndForm(l, r) \in G)
Forms == {e \in AnyForm : \A G \in SUBSET AnyForm : Shut(G) => e \in G}

LEMMA FormIs ==
  ASSUME NEW w, NEW H, NEW p
  PROVE  /\ Form(w, H, p).form = w /\ Form(w, H, p).holds = H /\ Form(w, H, p).prec = p
         /\ w \in Seq(Part) /\ H \in SUBSET Worlds /\ p \in 1..3 => Form(w, H, p) \in AnyForm
  BY DEF Form, AnyForm

LEMMA FormParts ==
  ASSUME NEW e \in Forms
  PROVE  /\ e \in AnyForm /\ e.form \in Seq(Part) /\ e.holds \in SUBSET Worlds /\ e.prec \in 1..3
         /\ Form(e.form, e.holds, e.prec) = e
         /\ Len(e.form) \in Nat
  BY DEF Forms, AnyForm, Form

LEMMA MarkIs == \A s \in Symbols : Mark(s) \in Part /\ Mark(s).sym = s
  BY DEF Mark, Part

LEMMA ValueIs == \A V \in SUBSET Worlds : Value(V) \in Part /\ Value(V).sym = "value" /\ Value(V).worlds = V
  BY DEF Value, Part

LEMMA PartIs ==
  ASSUME NEW x \in Part
  PROVE  /\ x.sym \in Symbols \cup {"value"} /\ x.worlds \in SUBSET Worlds
         /\ x.sym # "value" => x = Mark(x.sym)
         /\ x.sym = "value" => x = Value(x.worlds)
  BY DEF Part, Mark, Value, Symbols

LEMMA InsideIs ==
  ASSUME NEW w \in Seq(Part)
  PROVE  /\ Inside(w) \in Seq(Part) /\ Len(Inside(w)) = Len(w) + 2
         /\ Inside(w)[1] = Mark("(") /\ Inside(w)[Len(w) + 2] = Mark(")")
         /\ \A j \in 1..Len(w) : Inside(w)[j + 1] = w[j]
<1>1. Len(w) \in Nat /\ \A j \in 1..Len(w) : w[j] \in Part
  OBVIOUS
<1>2. Mark("(") \in Part /\ Mark(")") \in Part
  BY MarkIs DEF Symbols
<1>3. PICK n \in Nat : n = Len(w)
  BY <1>1
<1>4. \A j \in 1..(n + 2) : (IF j = 1 THEN Mark("(") ELSE IF j = n + 2 THEN Mark(")") ELSE w[j - 1]) \in Part
  BY <1>1, <1>2, <1>3
<1>5. Inside(w) \in Seq(Part) /\ Len(Inside(w)) = n + 2
  BY <1>3, <1>4 DEF Inside
<1>6. QED
  BY <1>1, <1>3, <1>5 DEF Inside

LEMMA NegatedIs ==
  ASSUME NEW w \in Seq(Part)
  PROVE  /\ Negated(w) \in Seq(Part) /\ Len(Negated(w)) = Len(w) + 1
         /\ Negated(w)[1] = Mark("not")
         /\ \A j \in 1..Len(w) : Negated(w)[j + 1] = w[j]
<1>1. Len(w) \in Nat /\ \A j \in 1..Len(w) : w[j] \in Part
  OBVIOUS
<1>2. Mark("not") \in Part
  BY MarkIs DEF Symbols
<1>3. PICK n \in Nat : n = Len(w)
  BY <1>1
<1>4. \A j \in 1..(n + 1) : (IF j = 1 THEN Mark("not") ELSE w[j - 1]) \in Part
  BY <1>1, <1>2, <1>3
<1>5. Negated(w) \in Seq(Part) /\ Len(Negated(w)) = n + 1
  BY <1>3, <1>4 DEF Negated
<1>6. QED
  BY <1>1, <1>3, <1>5 DEF Negated

LEMMA JoinIs ==
  ASSUME NEW l \in Seq(Part), NEW r \in Seq(Part), NEW s \in Symbols
  PROVE  /\ Join(l, s, r) \in Seq(Part) /\ Len(Join(l, s, r)) = Len(l) + 1 + Len(r)
         /\ \A j \in 1..Len(l) : Join(l, s, r)[j] = l[j]
         /\ Join(l, s, r)[Len(l) + 1] = Mark(s)
         /\ \A j \in 1..Len(r) : Join(l, s, r)[Len(l) + 1 + j] = r[j]
<1>1. PICK m, n : m = Len(l) /\ n = Len(r)
  OBVIOUS
<1>2. /\ m \in Nat /\ n \in Nat
      /\ \A j \in 1..m : l[j] \in Part
      /\ \A j \in 1..n : r[j] \in Part
  BY <1>1
<1>3. Mark(s) \in Part
  BY MarkIs
<1>4. \A j \in 1..(m + 1 + n) : (IF j <= m THEN l[j] ELSE IF j = m + 1 THEN Mark(s) ELSE r[j - m - 1]) \in Part
  BY <1>2, <1>3
<1>5. Join(l, s, r) \in Seq(Part) /\ Len(Join(l, s, r)) = m + 1 + n
  BY <1>1, <1>2, <1>4 DEF Join
<1>6. Join(l, s, r) = [j \in 1..(m + 1 + n) |-> IF j <= m THEN l[j] ELSE IF j = m + 1 THEN Mark(s) ELSE r[j - m - 1]]
  BY <1>1 DEF Join
<1>7. \A j \in 1..m : Join(l, s, r)[j] = l[j]
  BY <1>2, <1>6
<1>8. \A j \in 1..n : m + 1 + j \in 1..(m + 1 + n) /\ ~ (m + 1 + j <= m) /\ m + 1 + j # m + 1 /\ (m + 1 + j) - m - 1 = j
  BY <1>2
<1>9. \A j \in 1..n : Join(l, s, r)[m + 1 + j] = r[j]
  BY <1>6, <1>8
<1>10. Join(l, s, r)[m + 1] = Mark(s)
  BY <1>2, <1>6
<1>11. QED
  BY <1>1, <1>5, <1>7, <1>9, <1>10

LEMMA FormFields ==
  /\ \A V : ValueForm(V).form = <<Value(V)>> /\ ValueForm(V).holds = V /\ ValueForm(V).prec = 3
  /\ \A e : InsideForm(e).form = Inside(e.form) /\ InsideForm(e).holds = e.holds /\ InsideForm(e).prec = 3
  /\ \A e : /\ NegatedForm(e).form = Negated(e.form) /\ NegatedForm(e).holds = Worlds \ e.holds
            /\ NegatedForm(e).prec = 3
  /\ \A l, r : /\ AndForm(l, r).form = Join(l.form, "and", r.form)
               /\ AndForm(l, r).holds = l.holds \cap r.holds /\ AndForm(l, r).prec = 2
  /\ \A l, r : /\ OrForm(l, r).form = Join(l.form, "or", r.form)
               /\ OrForm(l, r).holds = l.holds \cup r.holds /\ OrForm(l, r).prec = 1
  BY DEF ValueForm, InsideForm, NegatedForm, AndForm, OrForm, Form

LEMMA AnyFormShut == Shut(AnyForm)
<1>1. ASSUME NEW V \in SUBSET Worlds
      PROVE  ValueForm(V) \in AnyForm
  <2>1. PICK w : w = <<Value(V)>>
    OBVIOUS
  <2>2. w \in Seq(Part)
    BY <2>1, ValueIs
  <2>3. Form(w, V, 3) \in AnyForm
    BY <2>2, FormIs
  <2>4. QED
    BY <2>1, <2>3 DEF ValueForm
<1>2. ASSUME NEW e \in AnyForm
      PROVE  e.form \in Seq(Part) /\ e.holds \in SUBSET Worlds /\ e.prec \in 1..3
  BY DEF AnyForm
<1>3. ASSUME NEW e \in AnyForm
      PROVE  InsideForm(e) \in AnyForm /\ NegatedForm(e) \in AnyForm
  <2>1. PICK w, v, H : w = Inside(e.form) /\ v = Negated(e.form) /\ H = Worlds \ e.holds
    OBVIOUS
  <2>2. w \in Seq(Part) /\ v \in Seq(Part) /\ e.holds \in SUBSET Worlds /\ H \in SUBSET Worlds
    BY <1>2, <2>1, InsideIs, NegatedIs
  <2>3. Form(w, e.holds, 3) \in AnyForm /\ Form(v, H, 3) \in AnyForm
    BY <2>2, FormIs
  <2>4. QED
    BY <2>1, <2>3 DEF InsideForm, NegatedForm
<1>4. ASSUME NEW l \in AnyForm, NEW r \in AnyForm
      PROVE  AndForm(l, r) \in AnyForm /\ OrForm(l, r) \in AnyForm
  <2>1. PICK w, v, H, K : /\ w = Join(l.form, "and", r.form) /\ v = Join(l.form, "or", r.form)
                          /\ H = l.holds \cap r.holds /\ K = l.holds \cup r.holds
    OBVIOUS
  <2>2. w \in Seq(Part) /\ v \in Seq(Part)
    BY <1>2, <2>1, JoinIs DEF Symbols
  <2>3. H \in SUBSET Worlds /\ K \in SUBSET Worlds
    BY <1>2, <2>1
  <2>4. Form(w, H, 2) \in AnyForm /\ Form(v, K, 1) \in AnyForm
    BY <2>2, <2>3, FormIs
  <2>5. QED
    BY <2>1, <2>4 DEF AndForm, OrForm
<1>5. QED
  BY <1>1, <1>3, <1>4 DEF Shut

LEMMA FormsShut == Shut(Forms)
<1>1. ASSUME NEW V \in SUBSET Worlds
      PROVE  ValueForm(V) \in Forms
  BY AnyFormShut DEF Forms, Shut
<1>2. ASSUME NEW e \in Forms
      PROVE  InsideForm(e) \in Forms
  BY AnyFormShut DEF Forms, Shut
<1>3. ASSUME NEW e \in Forms, e.prec = 3
      PROVE  NegatedForm(e) \in Forms
  BY <1>3, AnyFormShut DEF Forms, Shut
<1>4. ASSUME NEW l \in Forms, NEW r \in Forms
      PROVE  OrForm(l, r) \in Forms
  BY AnyFormShut DEF Forms, Shut
<1>5. ASSUME NEW l \in Forms, NEW r \in Forms, l.prec >= 2, r.prec >= 2
      PROVE  AndForm(l, r) \in Forms
  BY <1>5, AnyFormShut DEF Forms, Shut
<1>6. QED
  BY <1>1, <1>2, <1>3, <1>4, <1>5 DEF Shut

LEMMA BuiltForms ==
  /\ \A V \in SUBSET Worlds : ValueForm(V) \in Forms
  /\ \A e \in Forms : InsideForm(e) \in Forms /\ (e.prec = 3 => NegatedForm(e) \in Forms)
  /\ \A l, r \in Forms : OrForm(l, r) \in Forms /\ (l.prec >= 2 /\ r.prec >= 2 => AndForm(l, r) \in Forms)
  BY FormsShut DEF Shut

LEMMA OrIs ==
  ASSUME NEW l \in Forms, NEW r \in Forms, NEW f, f = OrForm(l, r)
  PROVE  f \in Forms /\ f.form = Join(l.form, "or", r.form) /\ f.holds = l.holds \cup r.holds /\ f.prec = 1
<1>1. f \in Forms
  BY BuiltForms
<1>2. f.form = Join(l.form, "or", r.form) /\ f.prec = 1
  BY DEF OrForm, Form
<1>3. f.holds = l.holds \cup r.holds
  BY DEF OrForm, Form
<1>4. QED
  BY <1>1, <1>2, <1>3

LEMMA AndIs ==
  ASSUME NEW l \in Forms, NEW r \in Forms, l.prec >= 2, r.prec >= 2, NEW f, f = AndForm(l, r)
  PROVE  f \in Forms /\ f.form = Join(l.form, "and", r.form) /\ f.holds = l.holds \cap r.holds /\ f.prec = 2
<1>1. f \in Forms
  BY BuiltForms
<1>2. f.form = Join(l.form, "and", r.form) /\ f.prec = 2
  BY DEF AndForm, Form
<1>3. f.holds = l.holds \cap r.holds
  BY DEF AndForm, Form
<1>4. QED
  BY <1>1, <1>2, <1>3

\* Induction over the grammar, for a set of forms.
LEMMA FormInduction ==
  ASSUME NEW G \in SUBSET Forms, Shut(G)
  PROVE  G = Forms
<1>1. G \in SUBSET AnyForm
  BY DEF Forms
<1>2. QED
  BY <1>1 DEF Forms
-----------------------------------------------------------------------------
(***************************************************************************)
(* What forms look like: operands and operators alternate, and no bracket  *)
(* is without another one on its side.                                     *)
(***************************************************************************)
Alternates(w) == \A i \in 1..(Len(w) - 1) : w[i].sym \in Openers <=> w[i + 1].sym \in Starters
Paired(w) == /\ \A i \in 1..Len(w) : w[i].sym = ")" => \E j \in 1..(i - 1) : w[j].sym = "("
             /\ \A i \in 1..Len(w) : w[i].sym = "(" => \E j \in (i + 1)..Len(w) : w[j].sym = ")"
Shaped(w) == /\ Len(w) >= 1 /\ w[1].sym \in Starters /\ w[Len(w)].sym \notin Openers
             /\ Alternates(w) /\ Paired(w)

LEMMA ShapedInside ==
  ASSUME NEW w \in Seq(Part), Shaped(w)
  PROVE  Shaped(Inside(w))
<1>1. PICK v, n : v = Inside(w) /\ n = Len(w)
  OBVIOUS
<1>2. /\ n \in Nat /\ n >= 1 /\ Len(v) = n + 2
      /\ v[1].sym = "(" /\ v[n + 2].sym = ")"
      /\ \A j \in 1..n : v[j + 1] = w[j]
  BY <1>1, InsideIs, MarkIs DEF Shaped, Symbols
<1>3. w[1].sym \in Starters /\ w[n].sym \notin Openers /\ Alternates(w) /\ Paired(w)
  BY <1>1 DEF Shaped
<1>4. Alternates(v)
  <2>1. SUFFICES ASSUME NEW i \in 1..(n + 1)
                 PROVE  v[i].sym \in Openers <=> v[i + 1].sym \in Starters
    BY <1>2 DEF Alternates
  <2>2. CASE i = 1
    <3>1. v[2] = w[1]
      BY <1>2
    <3>2. QED
      BY <1>2, <1>3, <2>2, <3>1 DEF Openers
  <2>3. CASE i = n + 1
    <3>1. v[i] = w[n] /\ v[i + 1].sym = ")"
      BY <1>2, <2>3
    <3>2. QED
      BY <1>3, <3>1 DEF Starters
  <2>4. CASE i # 1 /\ i # n + 1
    <3>1. i - 1 \in 1..(n - 1) /\ i \in 1..n /\ (i - 1) + 1 = i
      BY <1>2, <2>4
    <3>2. v[i] = w[i - 1] /\ v[i + 1] = w[i]
      BY <1>2, <3>1
    <3>3. w[i - 1].sym \in Openers <=> w[i].sym \in Starters
      BY <1>1, <1>3, <3>1 DEF Alternates
    <3>4. QED
      BY <3>2, <3>3
  <2>5. QED
    BY <2>2, <2>3, <2>4
<1>5. Paired(v)
  <2>1. ASSUME NEW i \in 1..(n + 2), v[i].sym = ")"
        PROVE  \E j \in 1..(i - 1) : v[j].sym = "("
    <3>1. i # 1 /\ 1 \in 1..(i - 1)
      BY <1>2, <2>1
    <3>2. QED
      BY <1>2, <3>1
  <2>2. ASSUME NEW i \in 1..(n + 2), v[i].sym = "("
        PROVE  \E j \in (i + 1)..(n + 2) : v[j].sym = ")"
    <3>1. i # n + 2 /\ n + 2 \in (i + 1)..(n + 2)
      BY <1>2, <2>2
    <3>2. QED
      BY <1>2, <3>1
  <2>3. QED
    BY <1>2, <2>1, <2>2 DEF Paired
<1>6. v[Len(v)].sym \notin Openers /\ v[1].sym \in Starters
  BY <1>2 DEF Openers, Starters
<1>7. QED
  BY <1>1, <1>2, <1>4, <1>5, <1>6 DEF Shaped

LEMMA ShapedNegated ==
  ASSUME NEW w \in Seq(Part), Shaped(w)
  PROVE  Shaped(Negated(w))
<1>1. PICK v, n : v = Negated(w) /\ n = Len(w)
  OBVIOUS
<1>2. /\ n \in Nat /\ n >= 1 /\ Len(v) = n + 1 /\ v[1].sym = "not"
      /\ \A j \in 1..n : v[j + 1] = w[j]
  BY <1>1, NegatedIs, MarkIs DEF Shaped, Symbols
<1>3. w[1].sym \in Starters /\ w[n].sym \notin Openers /\ Alternates(w) /\ Paired(w)
  BY <1>1 DEF Shaped
<1>4. Alternates(v)
  <2>1. SUFFICES ASSUME NEW i \in 1..n
                 PROVE  v[i].sym \in Openers <=> v[i + 1].sym \in Starters
    BY <1>2 DEF Alternates
  <2>2. CASE i = 1
    <3>1. v[2] = w[1]
      BY <1>2
    <3>2. QED
      BY <1>2, <1>3, <2>2, <3>1 DEF Openers
  <2>3. CASE i # 1
    <3>1. i - 1 \in 1..(n - 1) /\ i \in 1..n /\ (i - 1) + 1 = i
      BY <1>2, <2>3
    <3>2. v[i] = w[i - 1] /\ v[i + 1] = w[i]
      BY <1>2, <3>1
    <3>3. w[i - 1].sym \in Openers <=> w[i].sym \in Starters
      BY <1>1, <1>3, <3>1 DEF Alternates
    <3>4. QED
      BY <3>2, <3>3
  <2>4. QED
    BY <2>2, <2>3
<1>5. Paired(v)
  <2>1. ASSUME NEW i \in 1..(n + 1), v[i].sym = ")"
        PROVE  \E j \in 1..(i - 1) : v[j].sym = "("
    <3>0. i # 1
      BY <1>2, <2>1
    <3>1. i # 1 /\ i - 1 \in 1..n /\ (i - 1) + 1 = i
      BY <1>2, <2>1, <3>0
    <3>2. w[i - 1].sym = ")"
      BY <1>2, <2>1, <3>1
    <3>3. PICK j \in 1..((i - 1) - 1) : w[j].sym = "("
      BY <1>1, <1>3, <3>1, <3>2 DEF Paired
    <3>4. j \in 1..n /\ j + 1 \in 1..(i - 1)
      BY <1>2, <3>1
    <3>5. v[j + 1].sym = "("
      BY <1>2, <3>3, <3>4
    <3>6. QED
      BY <3>4, <3>5
  <2>2. ASSUME NEW i \in 1..(n + 1), v[i].sym = "("
        PROVE  \E j \in (i + 1)..(n + 1) : v[j].sym = ")"
    <3>0. i # 1
      BY <1>2, <2>2
    <3>1. i # 1 /\ i - 1 \in 1..n /\ (i - 1) + 1 = i
      BY <1>2, <2>2, <3>0
    <3>2. w[i - 1].sym = "("
      BY <1>2, <2>2, <3>1
    <3>3. PICK j \in ((i - 1) + 1)..n : w[j].sym = ")"
      BY <1>1, <1>3, <3>1, <3>2 DEF Paired
    <3>4. j \in 1..n /\ j + 1 \in (i + 1)..(n + 1)
      BY <1>2, <3>1
    <3>5. v[j + 1].sym = ")"
      BY <1>2, <3>3, <3>4
    <3>6. QED
      BY <3>4, <3>5
  <2>3. QED
    BY <1>2, <2>1, <2>2 DEF Paired
<1>6. v[Len(v)].sym \notin Openers /\ v[1].sym \in Starters
  <2>1. v[n + 1] = w[n]
    BY <1>2
  <2>2. QED
    BY <1>2, <1>3, <2>1 DEF Starters
<1>7. QED
  BY <1>1, <1>2, <1>4, <1>5, <1>6 DEF Shaped

LEMMA ShapedJoin ==
  ASSUME NEW l \in Seq(Part), NEW r \in Seq(Part), NEW s \in {"and", "or"}, Shaped(l), Shaped(r)
  PROVE  Shaped(Join(l, s, r))
<1>1. PICK v, m, n : v = Join(l, s, r) /\ m = Len(l) /\ n = Len(r)
  OBVIOUS
<1>2. s \in Symbols
  BY DEF Symbols
<1>3. /\ m \in Nat /\ m >= 1 /\ n \in Nat /\ n >= 1 /\ Len(v) = m + 1 + n /\ v[m + 1].sym = s
      /\ \A j \in 1..m : v[j] = l[j]
      /\ \A j \in 1..n : v[m + 1 + j] = r[j]
  <2>1. Len(l) >= 1 /\ Len(r) >= 1 /\ Len(l) \in Nat /\ Len(r) \in Nat
    BY DEF Shaped
  <2>2. v[m + 1] = Mark(s) /\ Mark(s).sym = s
    BY <1>1, <1>2, JoinIs, MarkIs
  <2>3. QED
    BY <1>1, <1>2, <2>1, <2>2, JoinIs
<1>4. /\ l[1].sym \in Starters /\ l[m].sym \notin Openers /\ Alternates(l) /\ Paired(l)
      /\ r[1].sym \in Starters /\ r[n].sym \notin Openers /\ Alternates(r) /\ Paired(r)
  BY <1>1 DEF Shaped
<1>5. \A i \in 1..(m + 1 + n) : i \in 1..m \/ i = m + 1 \/ \E j \in 1..n : i = m + 1 + j
  <2>1. SUFFICES ASSUME NEW i \in 1..(m + 1 + n), i \notin 1..m, i # m + 1
                 PROVE  \E j \in 1..n : i = m + 1 + j
    OBVIOUS
  <2>2. i - m - 1 \in 1..n /\ i = m + 1 + (i - m - 1)
    BY <1>3, <2>1
  <2>3. QED
    BY <2>2
<1>6. Alternates(v)
  <2>1. SUFFICES ASSUME NEW i \in 1..(m + n)
                 PROVE  v[i].sym \in Openers <=> v[i + 1].sym \in Starters
    BY <1>3 DEF Alternates
  <2>2. CASE i \in 1..(m - 1)
    <3>1. i \in 1..m /\ i + 1 \in 1..m
      BY <1>3, <2>2
    <3>2. v[i] = l[i] /\ v[i + 1] = l[i + 1]
      BY <1>3, <3>1
    <3>3. QED
      BY <1>1, <1>4, <2>2, <3>2 DEF Alternates
  <2>3. CASE i = m
    <3>1. v[i] = l[m] /\ v[i + 1].sym = s
      BY <1>3, <2>3
    <3>2. QED
      BY <1>4, <3>1 DEF Starters
  <2>4. CASE i = m + 1
    <3>1. v[i].sym = s /\ v[m + 1 + 1] = r[1] /\ i + 1 = m + 1 + 1
      BY <1>3, <2>4
    <3>2. QED
      BY <1>4, <3>1 DEF Openers
  <2>5. CASE i \in (m + 2)..(m + n)
    <3>1. PICK j \in 1..(n - 1) : i = m + 1 + j /\ i + 1 = m + 1 + (j + 1) /\ j \in 1..n /\ j + 1 \in 1..n
      <4>1. i - m - 1 \in 1..(n - 1) /\ i = m + 1 + (i - m - 1) /\ i + 1 = m + 1 + ((i - m - 1) + 1)
            /\ i - m - 1 \in 1..n /\ (i - m - 1) + 1 \in 1..n
        BY <1>3, <2>5
      <4>2. QED
        BY <4>1
    <3>2. v[i] = r[j] /\ v[i + 1] = r[j + 1]
      BY <1>3, <3>1
    <3>3. QED
      BY <1>1, <1>4, <3>1, <3>2 DEF Alternates
  <2>6. QED
    BY <1>3, <2>2, <2>3, <2>4, <2>5
<1>7. Paired(v)
  <2>1. ASSUME NEW i \in 1..(m + 1 + n), v[i].sym = ")"
        PROVE  \E j \in 1..(i - 1) : v[j].sym = "("
    <3>1. CASE i \in 1..m
      <4>1. PICK j \in 1..(i - 1) : l[j].sym = "("
        BY <1>1, <1>3, <1>4, <2>1, <3>1 DEF Paired
      <4>2. j \in 1..m
        BY <1>3, <3>1
      <4>3. QED
        BY <1>3, <4>1, <4>2
    <3>2. CASE \E k \in 1..n : i = m + 1 + k
      <4>1. PICK k \in 1..n : i = m + 1 + k
        BY <3>2
      <4>2. PICK j \in 1..(k - 1) : r[j].sym = "("
        BY <1>1, <1>3, <1>4, <2>1, <4>1 DEF Paired
      <4>3. j \in 1..n /\ m + 1 + j \in 1..(i - 1)
        BY <1>3, <4>1
      <4>4. QED
        BY <1>3, <4>2, <4>3
    <3>3. QED
      BY <1>3, <1>5, <2>1, <3>1, <3>2
  <2>2. ASSUME NEW i \in 1..(m + 1 + n), v[i].sym = "("
        PROVE  \E j \in (i + 1)..(m + 1 + n) : v[j].sym = ")"
    <3>1. CASE i \in 1..m
      <4>1. PICK j \in (i + 1)..m : l[j].sym = ")"
        BY <1>1, <1>3, <1>4, <2>2, <3>1 DEF Paired
      <4>2. j \in 1..m /\ j \in (i + 1)..(m + 1 + n)
        BY <1>3, <3>1
      <4>3. QED
        BY <1>3, <4>1, <4>2
    <3>2. CASE \E k \in 1..n : i = m + 1 + k
      <4>1. PICK k \in 1..n : i = m + 1 + k
        BY <3>2
      <4>2. PICK j \in (k + 1)..n : r[j].sym = ")"
        BY <1>1, <1>3, <1>4, <2>2, <4>1 DEF Paired
      <4>3. j \in 1..n /\ m + 1 + j \in (i + 1)..(m + 1 + n)
        BY <1>3, <4>1
      <4>4. QED
        BY <1>3, <4>2, <4>3
    <3>3. QED
      BY <1>3, <1>5, <2>2, <3>1, <3>2
  <2>3. QED
    BY <1>3, <2>1, <2>2 DEF Paired
<1>8. v[Len(v)].sym \notin Openers /\ v[1].sym \in Starters
  <2>1. v[m + 1 + n] = r[n] /\ v[1] = l[1]
    BY <1>3
  <2>2. QED
    BY <1>3, <1>4, <2>1
<1>9. QED
  BY <1>1, <1>3, <1>6, <1>7, <1>8 DEF Shaped

LEMMA FormsShaped == \A e \in Forms : Shaped(e.form)
<1> DEFINE G == {e \in Forms : Shaped(e.form)}
<1>1. ASSUME NEW V \in SUBSET Worlds
      PROVE  ValueForm(V) \in G
  <2>1. PICK w : w = <<Value(V)>>
    OBVIOUS
  <2>2. Len(w) = 1 /\ w[1].sym = "value"
    BY <2>1, ValueIs
  <2>3. Alternates(w) /\ Paired(w)
    BY <2>2 DEF Alternates, Paired
  <2>4. Shaped(w)
    BY <2>2, <2>3 DEF Shaped, Openers, Starters
  <2>5. QED
    BY <2>1, <2>4, BuiltForms, FormFields
<1>2. ASSUME NEW e \in G
      PROVE  InsideForm(e) \in G
  <2>1. e.form \in Seq(Part) /\ Shaped(e.form)
    BY FormParts
  <2>2. Shaped(Inside(e.form))
    BY <2>1, ShapedInside
  <2>3. InsideForm(e) \in Forms /\ InsideForm(e).form = Inside(e.form)
    BY BuiltForms, FormFields
  <2>4. QED
    BY <2>2, <2>3
<1>3. ASSUME NEW e \in G, e.prec = 3
      PROVE  NegatedForm(e) \in G
  <2>1. e.form \in Seq(Part) /\ Shaped(e.form)
    BY FormParts
  <2>2. Shaped(Negated(e.form))
    BY <2>1, ShapedNegated
  <2>3. NegatedForm(e) \in Forms /\ NegatedForm(e).form = Negated(e.form)
    BY <1>3, BuiltForms, FormFields
  <2>4. QED
    BY <2>2, <2>3
<1>4. ASSUME NEW l \in G, NEW r \in G
      PROVE  OrForm(l, r) \in G
  <2>1. PICK f : f = OrForm(l, r)
    OBVIOUS
  <2>2. f \in Forms /\ f.form = Join(l.form, "or", r.form)
    BY <2>1, OrIs
  <2>3. QED
    BY <2>1, <2>2, FormParts, ShapedJoin
<1>5. ASSUME NEW l \in G, NEW r \in G, l.prec >= 2, r.prec >= 2
      PROVE  AndForm(l, r) \in G
  <2>1. PICK f : f = AndForm(l, r)
    OBVIOUS
  <2>2. f \in Forms /\ f.form = Join(l.form, "and", r.form)
    BY <1>5, <2>1, AndIs
  <2>3. QED
    BY <2>1, <2>2, FormParts, ShapedJoin
<1>6. Shut(G)
  <2> HIDE DEF G
  <2>1. QED
    BY <1>1, <1>2, <1>3, <1>4, <1>5 DEF Shut
<1>7. G = Forms
  BY <1>6, FormInduction
<1>8. QED
  BY <1>7

-----------------------------------------------------------------------------
(***************************************************************************)
(* A value at the end of a form, or at its start, is all of it or belongs  *)
(* to the operator next to it, and the rest is a form.                     *)
(***************************************************************************)
IsPrefix2(v, w) == Len(v) = Len(w) - 2 /\ \A j \in 1..Len(v) : v[j] = w[j]
IsSuffix2(v, w) == Len(v) = Len(w) - 2 /\ \A j \in 1..Len(v) : v[j] = w[j + 2]

Single(e) == Len(e.form) = 1 => e.prec = 3 /\ e.form[1].sym = "value" /\ e.holds = e.form[1].worlds
EndsIn(e, s, V) ==
  \/ s = "not"
  \/ /\ s = "and" /\ e.prec <= 2
     /\ e.prec = 2 => \E l \in Forms : l.prec >= 2 /\ IsPrefix2(l.form, e.form) /\ e.holds = l.holds \cap V
  \/ /\ s = "or" /\ e.prec = 1
     /\ \E l \in Forms : IsPrefix2(l.form, e.form) /\ e.holds = l.holds \cup V
StartsIn(e, s, V) ==
  \/ /\ s = "and" /\ e.prec <= 2
     /\ e.prec = 2 => \E r \in Forms : r.prec >= 2 /\ IsSuffix2(r.form, e.form) /\ e.holds = V \cap r.holds
  \/ /\ s = "or" /\ e.prec = 1
     /\ \E r \in Forms : IsSuffix2(r.form, e.form) /\ e.holds = V \cup r.holds
Ends(e) == LET w == e.form
               n == Len(w)
           IN  n >= 2 /\ w[n].sym = "value" => EndsIn(e, w[n - 1].sym, w[n].worlds)
Leads(e) == LET w == e.form
             IN  Len(w) >= 2 /\ w[1].sym = "value" => StartsIn(e, w[2].sym, w[1].worlds)
Edges(e) == Single(e) /\ Ends(e) /\ Leads(e)

LEMMA JoinPlaces ==
  ASSUME NEW m \in Nat, NEW n \in Nat, NEW i \in 1..(m + 1 + n)
  PROVE  i \in 1..m \/ i = m + 1 \/ \E j \in 1..n : i = m + 1 + j
<1>1. SUFFICES ASSUME i \notin 1..m, i # m + 1
               PROVE  \E j \in 1..n : i = m + 1 + j
  OBVIOUS
<1>2. i - m - 1 \in 1..n /\ i = m + 1 + (i - m - 1)
  BY <1>1
<1>3. QED
  BY <1>2

LEMMA JoinPrefix ==
  ASSUME NEW l \in Seq(Part), NEW r \in Seq(Part), NEW v \in Seq(Part), NEW s \in Symbols, IsPrefix2(v, r)
  PROVE  IsPrefix2(Join(l, s, v), Join(l, s, r))
<1> DEFINE m == Len(l)
           n == Len(v)
           a == Join(l, s, v)
           b == Join(l, s, r)
<1>1. m = Len(l) /\ n = Len(v) /\ a = Join(l, s, v) /\ b = Join(l, s, r)
  OBVIOUS
<1>2. m \in Nat /\ n \in Nat /\ Len(r) = n + 2 /\ \A j \in 1..n : v[j] = r[j]
  <2>1. Len(l) \in Nat /\ Len(v) \in Nat /\ Len(r) \in Nat
    OBVIOUS
  <2>2. QED
    BY <1>1, <2>1 DEF IsPrefix2
<1>3. /\ Len(a) = m + 1 + n
      /\ \A j \in 1..m : a[j] = l[j]
      /\ a[m + 1] = Mark(s)
      /\ \A j \in 1..n : a[m + 1 + j] = v[j]
  BY JoinIs
<1>4. /\ Len(b) = m + 1 + Len(r)
      /\ \A j \in 1..m : b[j] = l[j]
      /\ b[m + 1] = Mark(s)
      /\ \A j \in 1..Len(r) : b[m + 1 + j] = r[j]
  BY JoinIs
<1> HIDE DEF m, n, a, b
<1>5. ASSUME NEW i \in 1..(m + 1 + n)
      PROVE  a[i] = b[i]
  <2>1. CASE i \in 1..m \/ i = m + 1
    BY <1>3, <1>4, <2>1
  <2>2. ASSUME NEW j \in 1..n, i = m + 1 + j
        PROVE  a[i] = b[i]
    <3>1. j \in 1..Len(r)
      BY <1>2
    <3>2. QED
      BY <1>2, <1>3, <1>4, <2>2, <3>1
  <2>3. QED
    BY <1>2, <2>1, <2>2, JoinPlaces
<1>6. QED
  BY <1>1, <1>2, <1>3, <1>4, <1>5 DEF IsPrefix2

LEMMA JoinSuffix ==
  ASSUME NEW l \in Seq(Part), NEW r \in Seq(Part), NEW v \in Seq(Part), NEW s \in Symbols, IsSuffix2(v, l)
  PROVE  IsSuffix2(Join(v, s, r), Join(l, s, r))
<1> DEFINE m == Len(v)
           n == Len(r)
           a == Join(v, s, r)
           b == Join(l, s, r)
<1>1. m = Len(v) /\ n = Len(r) /\ a = Join(v, s, r) /\ b = Join(l, s, r)
  OBVIOUS
<1>2. m \in Nat /\ n \in Nat /\ Len(l) = m + 2 /\ \A j \in 1..m : v[j] = l[j + 2]
  <2>1. Len(l) \in Nat /\ Len(v) \in Nat /\ Len(r) \in Nat
    OBVIOUS
  <2>2. QED
    BY <1>1, <2>1 DEF IsSuffix2
<1>3. /\ Len(a) = m + 1 + n
      /\ \A j \in 1..m : a[j] = v[j]
      /\ a[m + 1] = Mark(s)
      /\ \A j \in 1..n : a[m + 1 + j] = r[j]
  BY JoinIs
<1>4. /\ Len(b) = Len(l) + 1 + n
      /\ \A j \in 1..Len(l) : b[j] = l[j]
      /\ b[Len(l) + 1] = Mark(s)
      /\ \A j \in 1..n : b[Len(l) + 1 + j] = r[j]
  BY JoinIs
<1> HIDE DEF m, n, a, b
<1>5. ASSUME NEW i \in 1..(m + 1 + n)
      PROVE  a[i] = b[i + 2]
  <2>1. CASE i \in 1..m
    <3>1. i + 2 \in 1..(m + 2)
      BY <1>2, <2>1
    <3>2. QED
      BY <1>2, <1>3, <1>4, <2>1, <3>1
  <2>2. CASE i = m + 1
    <3>1. i + 2 = Len(l) + 1
      BY <1>2, <2>2
    <3>2. QED
      BY <1>3, <1>4, <2>2, <3>1
  <2>3. ASSUME NEW j \in 1..n, i = m + 1 + j
        PROVE  a[i] = b[i + 2]
    <3>1. i + 2 = Len(l) + 1 + j
      BY <1>2, <2>3
    <3>2. QED
      BY <1>3, <1>4, <2>3, <3>1
  <2>4. QED
    BY <1>2, <2>1, <2>2, <2>3, JoinPlaces
<1>6. QED
  BY <1>1, <1>2, <1>3, <1>4, <1>5 DEF IsSuffix2

LEMMA OrEdges ==
  ASSUME NEW l \in Forms, NEW r \in Forms, Edges(l), Edges(r), NEW e \in Forms,
         e.form = Join(l.form, "or", r.form), e.holds = l.holds \cup r.holds, e.prec = 1
  PROVE  Edges(e)
<1> DEFINE a == l.form
           b == r.form
           w == e.form
           m == Len(a)
           n == Len(b)
<1>1. a = l.form /\ b = r.form /\ w = e.form /\ m = Len(a) /\ n = Len(b)
  OBVIOUS
<1>2. a \in Seq(Part) /\ b \in Seq(Part) /\ m \in Nat /\ n \in Nat /\ m >= 1 /\ n >= 1
  BY FormParts, FormsShaped DEF Shaped
<1>3. w = Join(a, "or", b) /\ "or" \in Symbols /\ Mark("or").sym = "or"
  BY MarkIs DEF Symbols
<1>4. /\ Len(w) = m + 1 + n /\ w[m + 1].sym = "or"
      /\ \A j \in 1..m : w[j] = a[j]
      /\ \A j \in 1..n : w[m + 1 + j] = b[j]
  <2>1. PICK s : s = "or"
    OBVIOUS
  <2>2. w = Join(a, s, b) /\ s \in {"and", "or"} /\ m = Len(a) /\ n = Len(b)
    BY <1>3, <2>1
  <2> HIDE DEF a, b, w, m, n
  <2>3. a \in Seq(Part) /\ b \in Seq(Part)
    BY <1>2
  <2>4. /\ Len(w) = m + 1 + n /\ w[m + 1].sym = s
        /\ \A j \in 1..m : w[j] = a[j]
        /\ \A j \in 1..n : w[m + 1 + j] = b[j]
    <3>1. s \in Symbols /\ Mark(s).sym = s
      BY <2>2, MarkIs DEF Symbols
    <3>2. /\ Len(Join(a, s, b)) = Len(a) + 1 + Len(b)
          /\ \A j \in 1..Len(a) : Join(a, s, b)[j] = a[j]
          /\ Join(a, s, b)[Len(a) + 1] = Mark(s)
          /\ \A j \in 1..Len(b) : Join(a, s, b)[Len(a) + 1 + j] = b[j]
      BY ONLY <2>3, <3>1, JoinIs
    <3>3. QED
      BY <2>2, <3>1, <3>2, Zenon
  <2>5. QED
    BY <2>1, <2>4
<1> HIDE DEF a, b, w, m, n
<1>5. Ends(e)
  <2>1. SUFFICES ASSUME w[m + 1 + n].sym = "value"
                 PROVE  EndsIn(e, w[m + n].sym, w[m + 1 + n].worlds)
    <3>1. (m + 1 + n) - 1 = m + n
      BY <1>2
    <3>2. QED
      BY <1>1, <1>4, <3>1 DEF Ends
  <2>2. w[m + 1 + n] = b[n] /\ b[n].sym = "value"
    BY <1>2, <1>4, <2>1
  <2>3. CASE n = 1
    <3>1. r.holds = b[n].worlds
      BY <1>1, <2>3 DEF Edges, Single
    <3>2. w[m + n].sym = "or"
      BY <1>4, <2>3
    <3>3. IsPrefix2(a, w)
      <4>1. Len(w) - 2 = m
        BY <1>2, <1>4, <2>3
      <4>2. QED
        BY <1>1, <1>4, <4>1 DEF IsPrefix2
    <3>4. e.holds = l.holds \cup b[n].worlds
      BY <3>1
    <3>5. EndsIn(e, "or", b[n].worlds)
      BY <1>1, <3>3, <3>4 DEF EndsIn
    <3>6. QED
      BY <2>2, <3>2, <3>5
  <2>4. CASE n >= 2
    <3>1. m + n = m + 1 + (n - 1) /\ n - 1 \in 1..n
      BY <1>2, <2>4
    <3>2. w[m + n] = b[n - 1]
      BY <1>4, <3>1
    <3>3. EndsIn(r, b[n - 1].sym, b[n].worlds)
      BY <1>1, <2>2, <2>4 DEF Edges, Ends
    <3>4. CASE b[n - 1].sym \in {"not", "and"}
      BY <3>2, <3>4 DEF EndsIn
    <3>5. CASE b[n - 1].sym = "or"
      <4>1. PICK k \in Forms : IsPrefix2(k.form, b) /\ r.holds = k.holds \cup b[n].worlds
        BY <1>1, <3>3, <3>5 DEF EndsIn
      <4>2. PICK f : f = OrForm(l, k)
        OBVIOUS
      <4>2a. f \in Forms /\ f.form = Join(a, "or", k.form) /\ f.holds = l.holds \cup k.holds
        BY <1>1, <4>2, OrIs
      <4>3. IsPrefix2(f.form, w)
        BY <1>2, <1>3, <4>1, <4>2, <4>2a, FormParts, JoinPrefix
      <4>4. e.holds = f.holds \cup b[n].worlds
        BY <4>1, <4>2, <4>2a
      <4>5. EndsIn(e, "or", b[n].worlds)
        BY <1>1, <4>2a, <4>3, <4>4 DEF EndsIn
      <4>6. QED
        BY <2>2, <3>2, <3>5, <4>5
    <3>6. QED
      BY <3>3, <3>4, <3>5 DEF EndsIn
  <2>5. QED
    BY <1>2, <2>3, <2>4
<1>6. Leads(e)
  <2>1. SUFFICES ASSUME w[1].sym = "value"
                 PROVE  StartsIn(e, w[2].sym, w[1].worlds)
    BY <1>1 DEF Leads
  <2>2. w[1] = a[1] /\ a[1].sym = "value"
    BY <1>2, <1>4, <2>1
  <2>3. CASE m = 1
    <3>1. l.holds = a[1].worlds
      BY <1>1, <2>3 DEF Edges, Single
    <3>2. w[2].sym = "or"
      BY <1>4, <2>3
    <3>3. IsSuffix2(b, w)
      <4>1. ASSUME NEW j \in 1..n
            PROVE  b[j] = w[j + 2]
        <5>1. m + 1 + j = j + 2
          BY <1>2, <2>3
        <5>2. QED
          BY <1>4, <5>1
      <4>2. Len(w) - 2 = n
        BY <1>2, <1>4, <2>3
      <4>3. QED
        BY <1>1, <4>1, <4>2 DEF IsSuffix2
    <3>4. QED
      BY <1>1, <2>2, <3>1, <3>2, <3>3 DEF StartsIn
  <2>4. CASE m >= 2
    <3>1. w[2] = a[2]
      BY <1>2, <1>4, <2>4
    <3>2. StartsIn(l, a[2].sym, a[1].worlds)
      BY <1>1, <2>2, <2>4 DEF Edges, Leads
    <3>3. CASE a[2].sym = "and"
      BY <3>1, <3>3 DEF StartsIn
    <3>4. CASE a[2].sym = "or"
      <4>1. PICK k \in Forms : IsSuffix2(k.form, a) /\ l.holds = a[1].worlds \cup k.holds
        BY <1>1, <3>2, <3>4 DEF StartsIn
      <4>2. PICK f : f = OrForm(k, r)
        OBVIOUS
      <4>2a. f \in Forms /\ f.form = Join(k.form, "or", b) /\ f.holds = k.holds \cup r.holds
        BY <1>1, <4>2, OrIs
      <4>3. IsSuffix2(f.form, w)
        BY <1>2, <1>3, <4>1, <4>2, <4>2a, FormParts, JoinSuffix
      <4>4. e.holds = a[1].worlds \cup f.holds
        BY <4>1, <4>2, <4>2a
      <4>5. StartsIn(e, "or", a[1].worlds)
        BY <1>1, <4>2a, <4>3, <4>4 DEF StartsIn
      <4>6. QED
        BY <2>2, <3>1, <3>4, <4>5
    <3>5. QED
      BY <3>2, <3>3, <3>4 DEF StartsIn
  <2>5. QED
    BY <1>2, <2>3, <2>4
<1>7. Single(e)
  <2>1. Len(w) # 1
    BY <1>2, <1>4
  <2>2. QED
    BY <1>1, <2>1 DEF Single
<1>8. QED
  BY <1>5, <1>6, <1>7 DEF Edges

LEMMA AndEdges ==
  ASSUME NEW l \in Forms, NEW r \in Forms, Edges(l), Edges(r), NEW e \in Forms, l.prec >= 2, r.prec >= 2,
         e.form = Join(l.form, "and", r.form), e.holds = l.holds \cap r.holds, e.prec = 2
  PROVE  Edges(e)
<1> DEFINE a == l.form
           b == r.form
           w == e.form
           m == Len(a)
           n == Len(b)
<1>1. a = l.form /\ b = r.form /\ w = e.form /\ m = Len(a) /\ n = Len(b)
  OBVIOUS
<1>2. a \in Seq(Part) /\ b \in Seq(Part) /\ m \in Nat /\ n \in Nat /\ m >= 1 /\ n >= 1
  BY FormParts, FormsShaped DEF Shaped
<1>3. w = Join(a, "and", b) /\ "and" \in Symbols /\ Mark("and").sym = "and"
  BY MarkIs DEF Symbols
<1>4. /\ Len(w) = m + 1 + n /\ w[m + 1].sym = "and"
      /\ \A j \in 1..m : w[j] = a[j]
      /\ \A j \in 1..n : w[m + 1 + j] = b[j]
  <2>1. PICK s : s = "and"
    OBVIOUS
  <2>2. w = Join(a, s, b) /\ s \in {"and", "or"} /\ m = Len(a) /\ n = Len(b)
    BY <1>3, <2>1
  <2> HIDE DEF a, b, w, m, n
  <2>3. a \in Seq(Part) /\ b \in Seq(Part)
    BY <1>2
  <2>4. /\ Len(w) = m + 1 + n /\ w[m + 1].sym = s
        /\ \A j \in 1..m : w[j] = a[j]
        /\ \A j \in 1..n : w[m + 1 + j] = b[j]
    <3>1. s \in Symbols /\ Mark(s).sym = s
      BY <2>2, MarkIs DEF Symbols
    <3>2. /\ Len(Join(a, s, b)) = Len(a) + 1 + Len(b)
          /\ \A j \in 1..Len(a) : Join(a, s, b)[j] = a[j]
          /\ Join(a, s, b)[Len(a) + 1] = Mark(s)
          /\ \A j \in 1..Len(b) : Join(a, s, b)[Len(a) + 1 + j] = b[j]
      BY ONLY <2>3, <3>1, JoinIs
    <3>3. QED
      BY <2>2, <3>1, <3>2, Zenon
  <2>5. QED
    BY <2>1, <2>4
<1> HIDE DEF a, b, w, m, n
<1>5. Ends(e)
  <2>1. SUFFICES ASSUME w[m + 1 + n].sym = "value"
                 PROVE  EndsIn(e, w[m + n].sym, w[m + 1 + n].worlds)
    <3>1. (m + 1 + n) - 1 = m + n
      BY <1>2
    <3>2. QED
      BY <1>1, <1>4, <3>1 DEF Ends
  <2>2. w[m + 1 + n] = b[n] /\ b[n].sym = "value"
    BY <1>2, <1>4, <2>1
  <2>3. CASE n = 1
    <3>1. r.holds = b[n].worlds
      BY <1>1, <2>3 DEF Edges, Single
    <3>2. w[m + n].sym = "and"
      BY <1>4, <2>3
    <3>3. IsPrefix2(a, w)
      <4>1. Len(w) - 2 = m
        BY <1>2, <1>4, <2>3
      <4>2. QED
        BY <1>1, <1>4, <4>1 DEF IsPrefix2
    <3>4. e.holds = l.holds \cap b[n].worlds
      BY <3>1
    <3>5. EndsIn(e, "and", b[n].worlds)
      BY <1>1, <3>3, <3>4 DEF EndsIn
    <3>6. QED
      BY <2>2, <3>2, <3>5
  <2>4. CASE n >= 2
    <3>1. m + n = m + 1 + (n - 1) /\ n - 1 \in 1..n
      BY <1>2, <2>4
    <3>2. w[m + n] = b[n - 1]
      BY <1>4, <3>1
    <3>3. EndsIn(r, b[n - 1].sym, b[n].worlds)
      BY <1>1, <2>2, <2>4 DEF Edges, Ends
    <3>4. CASE b[n - 1].sym = "not"
      BY <3>2, <3>4 DEF EndsIn
    <3>5. CASE b[n - 1].sym = "and"
      <4>1. r.prec = 2
        BY <3>3, <3>5, FormParts DEF EndsIn
      <4>2. PICK k \in Forms : k.prec >= 2 /\ IsPrefix2(k.form, b) /\ r.holds = k.holds \cap b[n].worlds
        BY <1>1, <3>3, <3>5, <4>1 DEF EndsIn
      <4>3. PICK f : f = AndForm(l, k)
        OBVIOUS
      <4>3a. f \in Forms /\ f.form = Join(a, "and", k.form) /\ f.holds = l.holds \cap k.holds /\ f.prec = 2
        BY <1>1, <4>3, <4>2, AndIs
      <4>4. IsPrefix2(f.form, w)
        BY <1>2, <1>3, <4>2, <4>3, <4>3a, FormParts, JoinPrefix
      <4>5. e.holds = f.holds \cap b[n].worlds
        BY <4>2, <4>3, <4>3a
      <4>6. EndsIn(e, "and", b[n].worlds)
        BY <1>1, <4>3, <4>3a, <4>4, <4>5 DEF EndsIn
      <4>7. QED
        BY <2>2, <3>2, <3>5, <4>6
    <3>6. QED
      BY <3>3, <3>4, <3>5 DEF EndsIn
  <2>5. QED
    BY <1>2, <2>3, <2>4
<1>6. Leads(e)
  <2>1. SUFFICES ASSUME w[1].sym = "value"
                 PROVE  StartsIn(e, w[2].sym, w[1].worlds)
    BY <1>1 DEF Leads
  <2>2. w[1] = a[1] /\ a[1].sym = "value"
    BY <1>2, <1>4, <2>1
  <2>3. CASE m = 1
    <3>1. l.holds = a[1].worlds
      BY <1>1, <2>3 DEF Edges, Single
    <3>2. w[2].sym = "and"
      BY <1>4, <2>3
    <3>3. IsSuffix2(b, w)
      <4>1. ASSUME NEW j \in 1..n
            PROVE  b[j] = w[j + 2]
        <5>1. m + 1 + j = j + 2
          BY <1>2, <2>3
        <5>2. QED
          BY <1>4, <5>1
      <4>2. Len(w) - 2 = n
        BY <1>2, <1>4, <2>3
      <4>3. QED
        BY <1>1, <4>1, <4>2 DEF IsSuffix2
    <3>4. QED
      BY <1>1, <2>2, <3>1, <3>2, <3>3 DEF StartsIn
  <2>4. CASE m >= 2
    <3>1. w[2] = a[2]
      BY <1>2, <1>4, <2>4
    <3>2. StartsIn(l, a[2].sym, a[1].worlds)
      BY <1>1, <2>2, <2>4 DEF Edges, Leads
    <3>3. CASE a[2].sym = "and"
      <4>1. l.prec = 2
        BY <3>2, <3>3, FormParts DEF StartsIn
      <4>2. PICK k \in Forms : k.prec >= 2 /\ IsSuffix2(k.form, a) /\ l.holds = a[1].worlds \cap k.holds
        BY <1>1, <3>2, <3>3, <4>1 DEF StartsIn
      <4>3. PICK f : f = AndForm(k, r)
        OBVIOUS
      <4>3a. f \in Forms /\ f.form = Join(k.form, "and", b) /\ f.holds = k.holds \cap r.holds /\ f.prec = 2
        BY <1>1, <4>3, <4>2, AndIs
      <4>4. IsSuffix2(f.form, w)
        BY <1>2, <1>3, <4>2, <4>3, <4>3a, FormParts, JoinSuffix
      <4>5. e.holds = a[1].worlds \cap f.holds
        BY <4>2, <4>3, <4>3a
      <4>6. QED
        BY <1>1, <2>2, <3>1, <3>3, <4>3, <4>3a, <4>4, <4>5 DEF StartsIn
    <3>4. QED
      BY <3>2, <3>3, FormParts DEF StartsIn
  <2>5. QED
    BY <1>2, <2>3, <2>4
<1>7. Single(e)
  <2>1. Len(w) # 1
    BY <1>2, <1>4
  <2>2. QED
    BY <1>1, <2>1 DEF Single
<1>8. QED
  BY <1>5, <1>6, <1>7 DEF Edges

LEMMA InsideEdges ==
  ASSUME NEW d \in Forms, NEW e \in Forms, e.form = Inside(d.form)
  PROVE  Edges(e)
<1>1. PICK w, n : w = e.form /\ n = Len(d.form)
  OBVIOUS
<1>2. n \in Nat /\ n >= 1 /\ d.form \in Seq(Part)
  BY <1>1, FormParts, FormsShaped DEF Shaped
<1>3. Len(w) = n + 2 /\ w[1].sym = "(" /\ w[n + 2].sym = ")"
  BY <1>1, <1>2, InsideIs, MarkIs DEF Symbols
<1>4. QED
  BY <1>1, <1>2, <1>3 DEF Edges, Single, Ends, Leads

LEMMA NegatedEdges ==
  ASSUME NEW d \in Forms, Edges(d), d.prec = 3, NEW e \in Forms, e.form = Negated(d.form)
  PROVE  Edges(e)
<1>1. PICK w, v, n : w = e.form /\ v = d.form /\ n = Len(v)
  OBVIOUS
<1>2. n \in Nat /\ n >= 1 /\ v \in Seq(Part)
  BY <1>1, FormParts, FormsShaped DEF Shaped
<1>3. Len(w) = n + 1 /\ w[1].sym = "not" /\ \A j \in 1..n : w[j + 1] = v[j]
  BY <1>1, <1>2, NegatedIs, MarkIs DEF Symbols
<1>4. Ends(e)
  <2>1. SUFFICES ASSUME w[n + 1].sym = "value"
                 PROVE  w[n].sym = "not"
    BY <1>1, <1>2, <1>3 DEF Ends, EndsIn
  <2>2. CASE n = 1
    BY <1>3, <2>2
  <2>3. CASE n >= 2
    <3>1. w[n + 1] = v[n] /\ w[(n - 1) + 1] = v[n - 1] /\ (n - 1) + 1 = n
      BY <1>2, <1>3, <2>3
    <3>2. EndsIn(d, v[n - 1].sym, v[n].worlds)
      BY <1>1, <2>1, <2>3, <3>1 DEF Edges, Ends
    <3>3. v[n - 1].sym = "not"
      BY <3>2 DEF EndsIn
    <3>4. QED
      BY <3>1, <3>3
  <2>4. QED
    BY <1>2, <2>2, <2>3
<1>5. QED
  BY <1>1, <1>2, <1>3, <1>4 DEF Edges, Single, Leads

LEMMA FormsEdges == \A e \in Forms : Edges(e)
<1> DEFINE G == {e \in Forms : Edges(e)}
<1>1. ASSUME NEW V \in SUBSET Worlds
      PROVE  ValueForm(V) \in G
  <2>1. PICK e \in Forms : e = ValueForm(V) /\ e.form = <<Value(V)>> /\ e.holds = V /\ e.prec = 3
    BY BuiltForms, FormFields
  <2>2. Len(e.form) = 1 /\ e.form[1].sym = "value" /\ e.form[1].worlds = V
    BY <2>1, ValueIs
  <2>3. Edges(e)
    BY <2>1, <2>2 DEF Edges, Single, Ends, Leads
  <2>4. QED
    BY <2>1, <2>3
<1>2. ASSUME NEW d \in G
      PROVE  InsideForm(d) \in G
  BY InsideEdges, BuiltForms, FormFields
<1>3. ASSUME NEW d \in G, d.prec = 3
      PROVE  NegatedForm(d) \in G
  BY <1>3, NegatedEdges, BuiltForms, FormFields
<1>4. ASSUME NEW l \in G, NEW r \in G
      PROVE  OrForm(l, r) \in G
  <2>1. PICK f : f = OrForm(l, r)
    OBVIOUS
  <2>2. f \in Forms /\ f.form = Join(l.form, "or", r.form) /\ f.holds = l.holds \cup r.holds /\ f.prec = 1
    BY <2>1, OrIs
  <2>3. Edges(f)
    BY <2>2, OrEdges
  <2>4. QED
    BY <2>1, <2>2, <2>3
<1>5. ASSUME NEW l \in G, NEW r \in G, l.prec >= 2, r.prec >= 2
      PROVE  AndForm(l, r) \in G
  <2>1. PICK f : f = AndForm(l, r)
    OBVIOUS
  <2>2. f \in Forms /\ f.form = Join(l.form, "and", r.form) /\ f.holds = l.holds \cap r.holds /\ f.prec = 2
    BY <1>5, <2>1, AndIs
  <2>3. Edges(f)
    BY <1>5, <2>2, AndEdges
  <2>4. QED
    BY <2>1, <2>2, <2>3
<1>6. Shut(G)
  <2> HIDE DEF G
  <2>1. QED
    BY <1>1, <1>2, <1>3, <1>4, <1>5 DEF Shut
<1>7. G = Forms
  BY <1>6, FormInduction
<1>8. QED
  BY <1>7

-----------------------------------------------------------------------------
(***************************************************************************)
(* What a loop of the parser does to a form: an operator and its operands, *)
(* or brackets and the value in them, become one value.  The operators on  *)
(* either side must not bind closer.                                       *)
(***************************************************************************)
Redex(w, i, k, V) ==
  /\ i \in Nat \ {0} /\ k \in {2, 3} /\ i + k <= Len(w) + 1
  /\ \/ k = 2 /\ w[i].sym = "not" /\ w[i + 1].sym = "value" /\ V = Worlds \ w[i + 1].worlds
     \/ /\ k = 3 /\ w[i].sym = "(" /\ w[i + 1].sym = "value" /\ w[i + 2].sym = ")"
        /\ V = w[i + 1].worlds
     \/ /\ k = 3 /\ w[i].sym = "value" /\ w[i + 1].sym = "and" /\ w[i + 2].sym = "value"
        /\ V = w[i].worlds \cap w[i + 2].worlds
        /\ i > 1 => w[i - 1].sym # "not"
     \/ /\ k = 3 /\ w[i].sym = "value" /\ w[i + 1].sym = "or" /\ w[i + 2].sym = "value"
        /\ V = w[i].worlds \cup w[i + 2].worlds
        /\ i > 1 => w[i - 1].sym \notin {"not", "and"}
        /\ i + 3 <= Len(w) => w[i + 3].sym # "and"

Widths == {2, 3}
Replaced(v, w, i, k, V) ==
  /\ Len(w) = Len(v) + k - 1
  /\ \A j \in 1..(i - 1) : v[j] = w[j]
  /\ v[i] = Value(V)
  /\ \A j \in (i + 1)..Len(v) : v[j] = w[j + k - 1]

Reduces(e) == \A i, k, V : Redex(e.form, i, k, V) =>
  \E f \in Forms : Replaced(f.form, e.form, i, k, V) /\ f.holds = e.holds /\ f.prec >= e.prec

\* A sequence of which another one is a part.
Within(d, e, h) == h + Len(d) <= Len(e) /\ \A j \in 1..Len(d) : e[h + j] = d[j]
SameAround(d, e, c, g, h, t) ==
  /\ Len(e) = h + Len(d) + t /\ Len(g) = h + Len(c) + t
  /\ Within(d, e, h) /\ Within(c, g, h)
  /\ \A j \in 1..h : g[j] = e[j]
  /\ \A j \in 1..t : g[h + Len(c) + j] = e[h + Len(d) + j]

LEMMA RedexWithin ==
  ASSUME NEW d \in Seq(Part), NEW e \in Seq(Part), NEW h \in Nat, Within(d, e, h),
         NEW i \in Nat, i >= 1, NEW k, NEW V, i + k <= Len(d) + 1, Redex(e, h + i, k, V)
  PROVE  Redex(d, i, k, V)
<1> DEFINE n == Len(d)
           p == Len(e)
<1>1. n \in Nat /\ p \in Nat /\ k \in {2, 3} /\ i + k <= n + 1 /\ h + n <= p
  BY DEF Redex, Within
<1>2. \A j \in 1..n : e[h + j] = d[j]
  BY DEF Within
<1>3. \/ k = 2 /\ e[h + i].sym = "not" /\ e[h + i + 1].sym = "value" /\ V = Worlds \ e[h + i + 1].worlds
      \/ /\ k = 3 /\ e[h + i].sym = "(" /\ e[h + i + 1].sym = "value" /\ e[h + i + 2].sym = ")"
         /\ V = e[h + i + 1].worlds
      \/ /\ k = 3 /\ e[h + i].sym = "value" /\ e[h + i + 1].sym = "and" /\ e[h + i + 2].sym = "value"
         /\ V = e[h + i].worlds \cap e[h + i + 2].worlds
         /\ h + i > 1 => e[h + i - 1].sym # "not"
      \/ /\ k = 3 /\ e[h + i].sym = "value" /\ e[h + i + 1].sym = "or" /\ e[h + i + 2].sym = "value"
         /\ V = e[h + i].worlds \cup e[h + i + 2].worlds
         /\ h + i > 1 => e[h + i - 1].sym \notin {"not", "and"}
         /\ h + i + 3 <= p => e[h + i + 3].sym # "and"
  BY DEF Redex
<1> HIDE DEF n, p
<1>4. e[h + i] = d[i] /\ e[h + i + 1] = d[i + 1]
  <2>1. i \in 1..n /\ i + 1 \in 1..n /\ h + (i + 1) = h + i + 1
    BY <1>1
  <2>2. QED
    BY <1>2, <2>1
<1>5. k = 3 => e[h + i + 2] = d[i + 2]
  <2>1. k = 3 => i + 2 \in 1..n /\ h + (i + 2) = h + i + 2
    BY <1>1
  <2>2. QED
    BY <1>2, <2>1
<1>6. i > 1 => h + i > 1 /\ e[h + i - 1] = d[i - 1]
  <2>1. i > 1 => i - 1 \in 1..n /\ h + (i - 1) = h + i - 1 /\ h + i > 1
    BY <1>1
  <2>2. QED
    BY <1>2, <2>1
<1>7. i + 3 <= n => h + i + 3 <= p /\ e[h + i + 3] = d[i + 3]
  <2>1. i + 3 <= n => i + 3 \in 1..n /\ h + (i + 3) = h + i + 3 /\ h + i + 3 <= p
    BY <1>1
  <2>2. QED
    BY <1>2, <2>1
<1>8. n = Len(d)
  BY DEF n
<1>9. i \in Nat \ {0}
  OBVIOUS
<1>10. QED
  BY <1>1, <1>3, <1>4, <1>5, <1>6, <1>7, <1>8, <1>9 DEF Redex

LEMMA ReplacedWithin ==
  ASSUME NEW d \in Seq(Part), NEW e \in Seq(Part), NEW c \in Seq(Part), NEW g \in Seq(Part),
         NEW h \in Nat, NEW t \in Nat, SameAround(d, e, c, g, h, t),
         NEW i \in Nat, i >= 1, NEW k \in Widths, NEW V, i + k <= Len(d) + 1, Replaced(c, d, i, k, V)
  PROVE  Replaced(g, e, h + i, k, V)
<1> USE DEF Widths
<1> DEFINE n == Len(d)
           m == Len(c)
<1>1. n \in Nat /\ m \in Nat /\ n = m + k - 1
  BY DEF Replaced
<1>2. /\ \A j \in 1..(i - 1) : c[j] = d[j]
      /\ c[i] = Value(V)
      /\ \A j \in (i + 1)..m : c[j] = d[j + k - 1]
  BY DEF Replaced
<1>3. /\ Len(e) = h + n + t /\ Len(g) = h + m + t
      /\ \A j \in 1..n : e[h + j] = d[j]
      /\ \A j \in 1..m : g[h + j] = c[j]
      /\ \A j \in 1..h : g[j] = e[j]
      /\ \A j \in 1..t : g[h + m + j] = e[h + n + j]
  BY DEF SameAround, Within
<1>4. i + k <= n + 1
  OBVIOUS
<1> HIDE DEF n, m
<1>5. Len(e) = Len(g) + k - 1
  <2>1. Len(e) = h + n + t /\ Len(g) = h + m + t
    BY <1>3
  <2>2. h + n + t = (h + m + t) + k - 1
    BY <1>1
  <2>3. QED
    BY <2>1, <2>2
<1>6. ASSUME NEW j \in 1..(h + i - 1)
      PROVE  g[j] = e[j]
  <2>1. CASE j <= h
    BY <1>3, <2>1
  <2>2. CASE j > h
    <3>1. PICK x \in 1..(i - 1) : j = h + x
      <4>1. j - h \in 1..(i - 1) /\ j = h + (j - h)
        BY <2>2
      <4>2. QED
        BY <4>1
    <3>2. x \in 1..n /\ x \in 1..m
      BY <1>1, <1>4
    <3>3. QED
      BY <1>2, <1>3, <3>1, <3>2
  <2>3. QED
    BY <2>1, <2>2
<1>7. g[h + i] = Value(V)
  <2>1. i \in 1..m
    BY <1>1, <1>4
  <2>2. QED
    BY <1>2, <1>3, <2>1
<1>8. ASSUME NEW j \in (h + i + 1)..(h + m + t)
      PROVE  g[j] = e[j + k - 1]
  <2>1. CASE j <= h + m
    <3>1. PICK x \in (i + 1)..m : j = h + x
      <4>1. j - h \in (i + 1)..m /\ j = h + (j - h)
        BY <2>1, <1>1
      <4>2. QED
        BY <4>1
    <3>2. x \in 1..m /\ x + k - 1 \in 1..n /\ h + (x + k - 1) = j + k - 1
      BY <1>1, <1>4, <3>1
    <3>3. QED
      BY <1>2, <1>3, <3>1, <3>2
  <2>2. CASE j > h + m
    <3>1. PICK x \in 1..t : j = h + m + x
      <4>1. j - (h + m) \in 1..t /\ j = h + m + (j - (h + m))
        BY <2>2, <1>1
      <4>2. QED
        BY <4>1
    <3>2. h + n + x = j + k - 1
      BY <1>1, <3>1
    <3>3. QED
      BY <1>3, <3>1, <3>2
  <2>3. QED
    BY <2>1, <2>2, <1>1
<1>9. QED
  BY <1>3, <1>5, <1>6, <1>7, <1>8 DEF Replaced

Infix == {"and", "or"}
Meet(s, X, Y) == IF s = "and" THEN X \cap Y ELSE X \cup Y
Level(s) == IF s = "and" THEN 2 ELSE 1

IsJoin(e, l, s, r) ==
  /\ s = "and" => l.prec >= 2 /\ r.prec >= 2
  /\ e.form = Join(l.form, s, r.form) /\ e.holds = Meet(s, l.holds, r.holds) /\ e.prec = Level(s)

LEMMA JoinedForm ==
  ASSUME NEW l \in Forms, NEW r \in Forms, NEW s \in Infix,
         s = "and" => l.prec >= 2 /\ r.prec >= 2
  PROVE  \E f \in Forms : /\ f.form = Join(l.form, s, r.form)
                          /\ f.holds = Meet(s, l.holds, r.holds) /\ f.prec = Level(s)
<1> USE DEF Infix
<1>1. CASE s = "and"
  <2>1. PICK f : f = AndForm(l, r)
    OBVIOUS
  <2>2. /\ f \in Forms /\ f.form = Join(l.form, "and", r.form)
        /\ f.holds = l.holds \cap r.holds /\ f.prec = 2
    BY <1>1, <2>1, AndIs
  <2>3. f.holds = Meet(s, l.holds, r.holds)
    BY <1>1, <2>2, Zenon DEF Meet
  <2>4. QED
    BY <1>1, <2>2, <2>3, Zenon DEF Level
<1>2. CASE s = "or"
  <2>1. PICK f : f = OrForm(l, r)
    OBVIOUS
  <2>2. /\ f \in Forms /\ f.form = Join(l.form, "or", r.form)
        /\ f.holds = l.holds \cup r.holds /\ f.prec = 1
    BY <2>1, OrIs
  <2>3. f.holds = Meet(s, l.holds, r.holds)
    BY <1>2, <2>2, Zenon DEF Meet
  <2>4. QED
    BY <1>2, <2>2, <2>3, Zenon DEF Level
<1>3. QED
  BY <1>1, <1>2

LEMMA OneValue ==
  ASSUME NEW V \in SUBSET Worlds
  PROVE  \E f \in Forms : f.form = <<Value(V)>> /\ f.holds = V /\ f.prec = 3
<1>1. PICK f : f = ValueForm(V)
  OBVIOUS
<1>2. f \in Forms /\ f.form = <<Value(V)>> /\ f.holds = V /\ f.prec = 3
  BY <1>1, BuiltForms, FormFields
<1>3. QED
  BY <1>2

\* The value at the start of a form takes in one before it.
SetFirst(a, r, V) == Len(a) = Len(r) /\ a[1] = Value(V) /\ \A j \in 2..Len(r) : a[j] = r[j]
LEMMA TakeIn ==
  ASSUME NEW r \in Forms, NEW s \in Infix, NEW V \in SUBSET Worlds, r.form[1].sym = "value",
         s = "and" => r.prec >= 2, s = "or" /\ Len(r.form) >= 2 => r.form[2].sym # "and"
  PROVE  \E f \in Forms : /\ SetFirst(f.form, r.form, Meet(s, V, r.form[1].worlds))
                          /\ f.holds = Meet(s, V, r.holds) /\ f.prec >= Level(s)
<1> USE DEF Infix
<1> DEFINE b == r.form
           n == Len(b)
           X == b[1].worlds
           U == Meet(s, V, X)
<1>1. b = r.form /\ n = Len(b) /\ U = Meet(s, V, X) /\ X = b[1].worlds
  OBVIOUS
<1>2. b \in Seq(Part) /\ n \in Nat /\ n >= 1 /\ Edges(r)
  BY FormParts, FormsShaped, FormsEdges DEF Shaped
<1>3. X \in SUBSET Worlds /\ r.prec \in 1..3
  BY <1>2, PartIs, FormParts
<1>4. U \in SUBSET Worlds
  BY <1>3 DEF Meet
<1>5. PICK v \in Forms : v.form = <<Value(U)>> /\ v.holds = U /\ v.prec = 3
  BY <1>4, OneValue
<1> HIDE DEF b, n, X, U
<1>6. Level(s) \in 1..2
  BY DEF Level
<1>7. CASE n = 1
  <2>1. r.holds = X
    BY <1>1, <1>2, <1>7 DEF Edges, Single
  <2>2. SetFirst(v.form, b, U)
    BY <1>1, <1>5, <1>7 DEF SetFirst
  <2>3. v.prec >= Level(s)
    BY <1>5, <1>6
  <2>4. QED
    BY <1>1, <1>5, <2>1, <2>2, <2>3
<1>8. CASE n >= 2
  <2>1. StartsIn(r, b[2].sym, X)
    BY <1>1, <1>2, <1>8 DEF Edges, Leads
  <2>2. b[2].sym = s
    <3>1. b[2].sym \in {"and", "or"}
      BY <2>1 DEF StartsIn
    <3>2. CASE s = "and"
      BY <1>3, <2>1, <3>1, <3>2 DEF StartsIn
    <3>3. CASE s = "or"
      BY <1>1, <1>8, <3>1, <3>3
    <3>4. QED
      BY <3>2, <3>3
  <2>3. \E k \in Forms : /\ s = "and" => k.prec >= 2
                         /\ IsSuffix2(k.form, b) /\ r.holds = Meet(s, X, k.holds)
    <3>1. CASE s = "and"
      <4>1. r.prec = 2
        BY <1>3, <2>1, <2>2, <3>1 DEF StartsIn
      <4>2. PICK k \in Forms : k.prec >= 2 /\ IsSuffix2(k.form, b) /\ r.holds = X \cap k.holds
        BY <1>1, <2>1, <2>2, <3>1, <4>1 DEF StartsIn
      <4>3. r.holds = Meet(s, X, k.holds)
        BY <4>2, <3>1, Zenon DEF Meet
      <4>4. QED
        BY <4>2, <4>3
    <3>2. CASE s = "or"
      <4>1. PICK k \in Forms : IsSuffix2(k.form, b) /\ r.holds = X \cup k.holds
        BY <1>1, <2>1, <2>2, <3>2 DEF StartsIn
      <4>2. r.holds = Meet(s, X, k.holds)
        BY <4>1, <3>2, Zenon DEF Meet
      <4>3. QED
        BY <4>1, <4>2, <3>2
    <3>3. QED
      BY <3>1, <3>2
  <2>4. PICK k \in Forms : /\ s = "and" => k.prec >= 2
                           /\ IsSuffix2(k.form, b) /\ r.holds = Meet(s, X, k.holds)
    BY <2>3
  <2>5. PICK f \in Forms : /\ f.form = Join(v.form, s, k.form)
                           /\ f.holds = Meet(s, v.holds, k.holds) /\ f.prec = Level(s)
    <3>1. s = "and" => v.prec >= 2 /\ k.prec >= 2
      BY <1>5, <2>4
    <3>2. QED
      BY <3>1, JoinedForm
  <2>6. f.holds = Meet(s, V, r.holds)
    <3>1. f.holds = Meet(s, Meet(s, V, X), k.holds) /\ r.holds = Meet(s, X, k.holds)
      BY <1>1, <1>5, <2>4, <2>5
    <3>2. CASE s = "and"
      BY <3>1, <3>2 DEF Meet
    <3>3. CASE s = "or"
      BY <3>1, <3>3 DEF Meet
    <3>4. QED
      BY <3>2, <3>3
  <2>7. SetFirst(f.form, b, U)
    <3>1. PICK a, c, g, m : a = v.form /\ c = k.form /\ g = f.form /\ m = Len(c)
      OBVIOUS
    <3>2. a \in Seq(Part) /\ c \in Seq(Part) /\ Len(a) = 1 /\ a[1] = Value(U) /\ m \in Nat
      <4>1. a \in Seq(Part) /\ c \in Seq(Part)
        BY <3>1, FormParts
      <4>2. a = <<Value(U)>>
        BY <3>1, <1>5
      <4>3. QED
        BY <3>1, <4>1, <4>2
    <3>3. Len(b) = m + 2 /\ \A j \in 1..m : c[j] = b[j + 2]
      BY <1>2, <2>4, <3>1, <3>2, FormParts DEF IsSuffix2
    <3>4. s \in Symbols
      BY DEF Symbols
    <3>5. /\ Len(g) = 1 + 1 + m /\ g[1] = Value(U) /\ g[1 + 1] = Mark(s)
          /\ \A j \in 1..m : g[1 + 1 + j] = c[j]
      <4>1. g = Join(a, s, c)
        BY <2>5, <3>1
      <4>2. /\ Len(Join(a, s, c)) = Len(a) + 1 + Len(c)
            /\ \A j \in 1..Len(a) : Join(a, s, c)[j] = a[j]
            /\ Join(a, s, c)[Len(a) + 1] = Mark(s)
            /\ \A j \in 1..Len(c) : Join(a, s, c)[Len(a) + 1 + j] = c[j]
        BY ONLY <3>2, <3>4, JoinIs
      <4>3. 1 \in 1..Len(a)
        BY <3>2
      <4>4. QED
        BY <3>1, <3>2, <4>1, <4>2, <4>3, Zenon
    <3>6. b[2] = Mark(s)
      <4>1. b[2] \in Part
        BY <1>1, <1>2, <1>8
      <4>2. QED
        BY <2>2, <4>1, PartIs
    <3>7. ASSUME NEW j \in 2..(m + 2)
          PROVE  g[j] = b[j]
      <4>1. CASE j = 2
        BY <3>5, <3>6, <4>1
      <4>2. CASE j > 2
        <5>1. PICK x \in 1..m : j = x + 2 /\ j = 1 + 1 + x
          <6>1. j - 2 \in 1..m /\ j = (j - 2) + 2 /\ j = 1 + 1 + (j - 2)
            BY <3>2, <4>2
          <6>2. QED
            BY <6>1
        <5>2. QED
          BY <3>3, <3>5, <5>1
      <4>3. QED
        BY <4>1, <4>2
    <3>8. 1 + 1 + m = m + 2
      BY <3>2
    <3>9. QED
      BY <3>1, <3>3, <3>5, <3>7, <3>8 DEF SetFirst
  <2>8. QED
    BY <1>1, <1>6, <2>5, <2>6, <2>7
<1>9. QED
  BY <1>2, <1>7, <1>8

\* The value at the end of a form, and what is before it.
LEMMA GiveUp ==
  ASSUME NEW l \in Forms, NEW s \in Infix,
         l.form[Len(l.form)].sym = "value", s = "and" => l.prec >= 2,
         s = "and" /\ Len(l.form) > 1 => l.form[Len(l.form) - 1].sym # "not",
         s = "or" /\ Len(l.form) > 1 => l.form[Len(l.form) - 1].sym \notin {"not", "and"}
  PROVE  \/ Len(l.form) = 1 /\ l.holds = l.form[Len(l.form)].worlds
         \/ /\ Len(l.form) >= 2 /\ l.form[Len(l.form) - 1] = Mark(s)
            /\ \E k \in Forms :
                 /\ s = "and" => k.prec >= 2
                 /\ IsPrefix2(k.form, l.form) /\ l.holds = Meet(s, k.holds, l.form[Len(l.form)].worlds)
<1> USE DEF Infix
<1> DEFINE a == l.form
           m == Len(a)
<1>0. /\ a = l.form /\ m = Len(a) /\ a[m].sym = "value"
      /\ s = "and" /\ m > 1 => a[m - 1].sym # "not"
      /\ s = "or" /\ m > 1 => a[m - 1].sym \notin {"not", "and"}
  OBVIOUS
<1>1. a \in Seq(Part) /\ m \in Nat /\ m >= 1 /\ Edges(l) /\ l.prec \in 1..3
  BY FormParts, FormsShaped, FormsEdges DEF Shaped
<1> HIDE DEF a, m
<1>a. SUFFICES \/ m = 1 /\ l.holds = a[m].worlds
               \/ /\ m >= 2 /\ a[m - 1] = Mark(s)
                  /\ \E k \in Forms : /\ s = "and" => k.prec >= 2
                                      /\ IsPrefix2(k.form, a) /\ l.holds = Meet(s, k.holds, a[m].worlds)
  BY <1>0, Zenon
<1>2. CASE m = 1
  BY <1>0, <1>1, <1>2 DEF Edges, Single
<1>3. CASE m >= 2
  <2>1. EndsIn(l, a[m - 1].sym, a[m].worlds)
    BY <1>0, <1>1, <1>3 DEF Edges, Ends
  <2>2. a[m - 1].sym = s
    <3>1. a[m - 1].sym \in {"not", "and", "or"}
      BY <2>1 DEF EndsIn
    <3>2. CASE s = "and"
      BY <1>0, <1>1, <1>3, <2>1, <3>1, <3>2 DEF EndsIn
    <3>3. CASE s = "or"
      BY <1>0, <1>1, <1>3, <3>1, <3>3
    <3>4. QED
      BY <3>2, <3>3
  <2>3. a[m - 1] = Mark(s)
    <3>1. a[m - 1] \in Part
      BY <1>0, <1>1, <1>3
    <3>2. QED
      BY <2>2, <3>1, PartIs
  <2>4. CASE s = "and"
    <3>1. l.prec = 2
      <4>1. l.prec <= 2 /\ l.prec >= 2
        BY <2>1, <2>2, <2>4 DEF EndsIn
      <4>2. QED
        BY <1>1, <4>1
    <3>2. PICK k \in Forms : k.prec >= 2 /\ IsPrefix2(k.form, a) /\ l.holds = k.holds \cap a[m].worlds
      BY <1>0, <2>1, <2>2, <2>4, <3>1 DEF EndsIn
    <3>3. l.holds = Meet(s, k.holds, a[m].worlds)
      BY <3>2, <2>4, Zenon DEF Meet
    <3>4. QED
      BY <1>3, <2>3, <3>2, <3>3
  <2>5. CASE s = "or"
    <3>1. PICK k \in Forms : IsPrefix2(k.form, a) /\ l.holds = k.holds \cup a[m].worlds
      BY <1>0, <2>1, <2>2, <2>5 DEF EndsIn
    <3>2. l.holds = Meet(s, k.holds, a[m].worlds)
      BY <3>1, <2>5, Zenon DEF Meet
    <3>3. QED
      BY <1>3, <2>3, <2>5, <3>1, <3>2
  <2>6. QED
    BY <2>4, <2>5
<1>4. m = 1 \/ m >= 2
  <2>1. m \in Nat /\ m >= 1
    BY <1>1
  <2>2. QED
    BY ONLY <2>1
<1>5. QED
  BY <1>0, <1>2, <1>3, <1>4, Zenon

LEMMA SameInside ==
  ASSUME NEW d \in Seq(Part), NEW c \in Seq(Part)
  PROVE  SameAround(d, Inside(d), c, Inside(c), 1, 1)
<1> DEFINE e == Inside(d)
           g == Inside(c)
           n == Len(d)
           m == Len(c)
<1>1. /\ n \in Nat /\ Len(e) = n + 2 /\ e[1] = Mark("(") /\ e[n + 2] = Mark(")")
      /\ \A j \in 1..n : e[j + 1] = d[j]
  BY InsideIs
<1>2. /\ m \in Nat /\ Len(g) = m + 2 /\ g[1] = Mark("(") /\ g[m + 2] = Mark(")")
      /\ \A j \in 1..m : g[j + 1] = c[j]
  BY InsideIs
<1>3. n = Len(d) /\ m = Len(c) /\ e = Inside(d) /\ g = Inside(c)
  OBVIOUS
<1> HIDE DEF e, g, n, m
<1>4. Len(e) = 1 + n + 1 /\ Len(g) = 1 + m + 1 /\ 1 + n + 1 = n + 2 /\ 1 + m + 1 = m + 2
  BY <1>1, <1>2
<1>5. Within(d, e, 1)
  <2>1. 1 + n <= n + 2 /\ \A j \in 1..n : 1 + j = j + 1
    BY <1>1
  <2>2. QED
    BY <1>1, <1>3, <2>1 DEF Within
<1>6. Within(c, g, 1)
  <2>1. 1 + m <= m + 2 /\ \A j \in 1..m : 1 + j = j + 1
    BY <1>2
  <2>2. QED
    BY <1>2, <1>3, <2>1 DEF Within
<1>7. g[1] = e[1] /\ g[1 + m + 1] = e[1 + n + 1]
  BY <1>1, <1>2, <1>4
<1>8. /\ \A j \in 1..1 : g[j] = e[j]
      /\ \A j \in 1..1 : g[1 + m + j] = e[1 + n + j]
  BY <1>7
<1>9. QED
  BY <1>3, <1>4, <1>5, <1>6, <1>8 DEF SameAround

LEMMA SameNegated ==
  ASSUME NEW d \in Seq(Part), NEW c \in Seq(Part)
  PROVE  SameAround(d, Negated(d), c, Negated(c), 1, 0)
<1> DEFINE e == Negated(d)
           g == Negated(c)
           n == Len(d)
           m == Len(c)
<1>1. n \in Nat /\ Len(e) = n + 1 /\ e[1] = Mark("not") /\ \A j \in 1..n : e[j + 1] = d[j]
  BY NegatedIs
<1>2. m \in Nat /\ Len(g) = m + 1 /\ g[1] = Mark("not") /\ \A j \in 1..m : g[j + 1] = c[j]
  BY NegatedIs
<1>3. n = Len(d) /\ m = Len(c) /\ e = Negated(d) /\ g = Negated(c)
  OBVIOUS
<1> HIDE DEF e, g, n, m
<1>4. Len(e) = 1 + n + 0 /\ Len(g) = 1 + m + 0
  BY <1>1, <1>2
<1>5. Within(d, e, 1)
  <2>1. 1 + n <= n + 1 /\ \A j \in 1..n : 1 + j = j + 1
    BY <1>1
  <2>2. QED
    BY <1>1, <1>3, <2>1 DEF Within
<1>6. Within(c, g, 1)
  <2>1. 1 + m <= m + 1 /\ \A j \in 1..m : 1 + j = j + 1
    BY <1>2
  <2>2. QED
    BY <1>2, <1>3, <2>1 DEF Within
<1>7. \A j \in 1..1 : g[j] = e[j]
  BY <1>1, <1>2
<1>8. QED
  BY <1>3, <1>4, <1>5, <1>6, <1>7 DEF SameAround

LEMMA SameLeft ==
  ASSUME NEW d \in Seq(Part), NEW c \in Seq(Part), NEW r \in Seq(Part), NEW s \in Symbols
  PROVE  SameAround(d, Join(d, s, r), c, Join(c, s, r), 0, 1 + Len(r))
<1> DEFINE e == Join(d, s, r)
           g == Join(c, s, r)
           n == Len(d)
           m == Len(c)
           p == Len(r)
<1>0. n \in Nat /\ m \in Nat /\ p \in Nat
  OBVIOUS
<1>1. /\ Len(e) = n + 1 + p /\ e[n + 1] = Mark(s)
      /\ \A j \in 1..n : e[j] = d[j]
      /\ \A j \in 1..p : e[n + 1 + j] = r[j]
  BY JoinIs
<1>2. /\ Len(g) = m + 1 + p /\ g[m + 1] = Mark(s)
      /\ \A j \in 1..m : g[j] = c[j]
      /\ \A j \in 1..p : g[m + 1 + j] = r[j]
  BY JoinIs
<1>3. n = Len(d) /\ m = Len(c) /\ e = Join(d, s, r) /\ g = Join(c, s, r) /\ p = Len(r)
  OBVIOUS
<1> HIDE DEF e, g, n, m, p
<1>4. Len(e) = 0 + n + (1 + p) /\ Len(g) = 0 + m + (1 + p)
  BY <1>0, <1>1, <1>2
<1>5. Within(d, e, 0)
  <2>1. 0 + n <= n + 1 + p /\ \A j \in 1..n : 0 + j = j
    BY <1>0, <1>1
  <2>2. QED
    BY <1>0, <1>1, <1>3, <2>1 DEF Within
<1>6. Within(c, g, 0)
  <2>1. 0 + m <= m + 1 + p /\ \A j \in 1..m : 0 + j = j
    BY <1>0, <1>1, <1>2
  <2>2. QED
    BY <1>0, <1>2, <1>3, <2>1 DEF Within
<1>7. ASSUME NEW j \in 1..(1 + p)
      PROVE  g[0 + m + j] = e[0 + n + j]
  <2>1. CASE j = 1
    <3>1. 0 + m + j = m + 1 /\ 0 + n + j = n + 1
      BY <1>0, <1>1, <1>2, <2>1
    <3>2. QED
      BY <1>0, <1>1, <1>2, <3>1
  <2>2. CASE j # 1
    <3>1. PICK x \in 1..p : 0 + m + j = m + 1 + x /\ 0 + n + j = n + 1 + x
      <4>1. j - 1 \in 1..p /\ 0 + m + j = m + 1 + (j - 1) /\ 0 + n + j = n + 1 + (j - 1)
        BY <1>0, <1>1, <1>2, <2>2
      <4>2. QED
        BY <4>1
    <3>2. QED
      BY <1>0, <1>1, <1>2, <3>1
  <2>3. QED
    BY <2>1, <2>2
<1>8. \A j \in 1..0 : g[j] = e[j]
  OBVIOUS
<1>9. QED
  BY <1>3, <1>4, <1>5, <1>6, <1>7, <1>8 DEF SameAround

LEMMA SameRight ==
  ASSUME NEW d \in Seq(Part), NEW c \in Seq(Part), NEW l \in Seq(Part), NEW s \in Symbols
  PROVE  SameAround(d, Join(l, s, d), c, Join(l, s, c), Len(l) + 1, 0)
<1> DEFINE e == Join(l, s, d)
           g == Join(l, s, c)
           n == Len(d)
           m == Len(c)
           p == Len(l)
<1>0. n \in Nat /\ m \in Nat /\ p \in Nat
  OBVIOUS
<1>1. /\ Len(e) = p + 1 + n /\ e[p + 1] = Mark(s)
      /\ \A j \in 1..p : e[j] = l[j]
      /\ \A j \in 1..n : e[p + 1 + j] = d[j]
  BY JoinIs
<1>2. /\ Len(g) = p + 1 + m /\ g[p + 1] = Mark(s)
      /\ \A j \in 1..p : g[j] = l[j]
      /\ \A j \in 1..m : g[p + 1 + j] = c[j]
  BY JoinIs
<1>3. n = Len(d) /\ m = Len(c) /\ e = Join(l, s, d) /\ g = Join(l, s, c) /\ p = Len(l)
  OBVIOUS
<1> HIDE DEF e, g, n, m, p
<1>4. Len(e) = (p + 1) + n + 0 /\ Len(g) = (p + 1) + m + 0
  BY <1>0, <1>1, <1>2
<1>5. Within(d, e, p + 1)
  <2>1. (p + 1) + n <= p + 1 + n
    BY <1>0, <1>1
  <2>2. QED
    BY <1>0, <1>1, <1>3, <2>1 DEF Within
<1>6. Within(c, g, p + 1)
  <2>1. (p + 1) + m <= p + 1 + m
    BY <1>0, <1>1, <1>2
  <2>2. QED
    BY <1>0, <1>2, <1>3, <2>1 DEF Within
<1>7. \A j \in 1..(p + 1) : g[j] = e[j]
  <2>1. \A j \in 1..(p + 1) : j \in 1..p \/ j = p + 1
    BY <1>0, <1>1
  <2>2. QED
    BY <1>0, <1>1, <1>2, <2>1
<1>8. QED
  BY <1>3, <1>4, <1>5, <1>6, <1>7 DEF SameAround

LEMMA ReplacedAt ==
  ASSUME NEW d \in Seq(Part), NEW e \in Seq(Part), NEW c \in Seq(Part), NEW g \in Seq(Part),
         NEW h \in Nat, NEW t \in Nat, SameAround(d, e, c, g, h, t),
         NEW i \in Nat, i >= 1, NEW k \in Widths, NEW V, i + k <= Len(d) + 1, Replaced(c, d, i, k, V),
         NEW z, z = h + i
  PROVE  Replaced(g, e, z, k, V)
<1>1. Replaced(g, e, h + i, k, V)
  BY ReplacedWithin
<1>2. QED
  BY <1>1

LEMMA ValueReduces ==
  ASSUME NEW e \in Forms, NEW V, e.form = <<V>>
  PROVE  Reduces(e)
  BY DEF Reduces, Redex

LEMMA InsideReduces ==
  ASSUME NEW d \in Forms, Reduces(d), NEW e \in Forms,
         e.form = Inside(d.form), e.holds = d.holds, e.prec = 3
  PROVE  Reduces(e)
<1> DEFINE a == d.form
           w == e.form
           n == Len(a)
<1>1. a = d.form /\ w = e.form /\ n = Len(a) /\ w = Inside(a)
  OBVIOUS
<1>2. a \in Seq(Part) /\ w \in Seq(Part) /\ n \in Nat /\ n >= 1 /\ Edges(d)
  BY FormParts, FormsShaped, FormsEdges DEF Shaped
<1> HIDE DEF a, w, n
<1>3. Len(w) = n + 2 /\ w[1].sym = "(" /\ w[n + 2].sym = ")" /\ \A j \in 1..n : w[j + 1] = a[j]
  BY <1>1, <1>2, InsideIs, MarkIs DEF Symbols
<1>4. SUFFICES ASSUME NEW i, NEW k, NEW V, Redex(w, i, k, V)
               PROVE  \E f \in Forms : Replaced(f.form, w, i, k, V) /\ f.holds = e.holds /\ f.prec >= e.prec
  BY <1>1 DEF Reduces
<1>5. i \in Nat \ {0} /\ k \in {2, 3} /\ i + k <= n + 3
  BY <1>2, <1>3, <1>4 DEF Redex
<1>6. CASE i >= 2 /\ i + k <= n + 2
  <2>1. PICK x \in Nat : x >= 1 /\ i = 1 + x /\ x + k <= n + 1
    <3>1. i - 1 \in Nat /\ i - 1 >= 1 /\ i = 1 + (i - 1) /\ (i - 1) + k <= n + 1
      BY <1>2, <1>5, <1>6
    <3>2. QED
      BY <3>1
  <2>2. SameAround(a, w, a, w, 1, 1)
    BY <1>1, <1>2, SameInside
  <2>3. Redex(a, x, k, V)
    BY <1>1, <1>2, <1>4, <2>1, <2>2, RedexWithin DEF SameAround
  <2>4. PICK c \in Forms : Replaced(c.form, a, x, k, V) /\ c.holds = d.holds
    BY <1>1, <2>3 DEF Reduces
  <2>5. PICK f : f = InsideForm(c)
    OBVIOUS
  <2>6. f \in Forms /\ f.form = Inside(c.form) /\ f.holds = c.holds /\ f.prec = 3
    BY <2>5, BuiltForms, FormFields
  <2>7. SameAround(a, w, c.form, f.form, 1, 1)
    BY <1>1, <1>2, <2>6, FormParts, SameInside
  <2>8. Replaced(f.form, w, i, k, V)
    <3>1. PICK u, g : u = c.form /\ g = f.form
      OBVIOUS
    <3>2. u \in Seq(Part) /\ g \in Seq(Part) /\ x + k <= Len(a) + 1 /\ k \in Widths
      BY <1>1, <1>5, <2>1, <2>6, <3>1, FormParts DEF Widths
    <3>3. SameAround(a, w, u, g, 1, 1) /\ Replaced(u, a, x, k, V)
      BY <2>4, <2>7, <3>1, Zenon
    <3>4. Replaced(g, w, i, k, V)
      BY ONLY <1>2, <1>5, <2>1, <3>2, <3>3, ReplacedAt
    <3>5. QED
      BY <3>1, <3>4, Zenon
  <2>9. QED
    BY <2>4, <2>6, <2>8
<1>7. CASE i = 1
  <2>1. k = 3 /\ w[2].sym = "value" /\ w[3].sym = ")" /\ V = w[2].worlds
    BY <1>3, <1>4, <1>7 DEF Redex
  <2>2. w[2] = a[1]
    BY <1>2, <1>3
  <2>3. n = 1
    <3>1. SUFFICES ASSUME n >= 2
                   PROVE  FALSE
      BY <1>2
    <3>2. w[3] = a[2]
      BY <1>3, <3>1
    <3>3. StartsIn(d, ")", a[1].worlds)
      BY <1>1, <1>2, <2>1, <2>2, <3>1, <3>2 DEF Edges, Leads
    <3>4. QED
      BY <3>3 DEF StartsIn
  <2>4. d.holds = V /\ V \in SUBSET Worlds
    BY <1>1, <1>2, <2>1, <2>2, <2>3, FormParts DEF Edges, Single
  <2>5. PICK f \in Forms : f.form = <<Value(V)>> /\ f.holds = V /\ f.prec = 3
    BY <2>4, OneValue
  <2>6. Replaced(f.form, w, i, k, V)
    BY <1>3, <1>7, <2>1, <2>3, <2>5 DEF Replaced
  <2>7. QED
    BY <2>4, <2>5, <2>6
<1>8. CASE i >= 2 /\ i + k = n + 3
  <2>1. w[i + k - 1].sym = ")"
    BY <1>2, <1>3, <1>5, <1>8
  <2>2. k = 3 /\ w[i].sym = "(" /\ w[i + 1].sym = "value"
    <3>1. CASE k = 2
      <4>1. w[i + 1].sym = ")"
        BY <1>5, <2>1, <3>1
      <4>2. QED
        BY <1>4, <3>1, <4>1 DEF Redex
    <3>2. CASE k = 3
      <4>1. w[i + 2].sym = ")"
        BY <1>5, <2>1, <3>2
      <4>2. QED
        BY <1>4, <3>2, <4>1 DEF Redex
    <3>3. QED
      BY <1>5, <3>1, <3>2
  <2>3. i = n /\ n >= 2 /\ n - 1 \in 1..n /\ (n - 1) + 1 = n /\ n \in 1..n
    BY <1>2, <1>5, <1>8, <2>2
  <2>4. w[i + 1] = a[n] /\ w[i] = a[n - 1]
    BY <1>3, <2>3
  <2>5. EndsIn(d, "(", a[n].worlds)
    BY <1>1, <1>2, <2>2, <2>3, <2>4 DEF Edges, Ends
  <2>6. QED
    BY <2>5 DEF EndsIn
<1>9. QED
  BY <1>2, <1>5, <1>6, <1>7, <1>8

LEMMA NegatedReduces ==
  ASSUME NEW d \in Forms, Reduces(d), d.prec = 3, NEW e \in Forms,
         e.form = Negated(d.form), e.holds = Worlds \ d.holds, e.prec = 3
  PROVE  Reduces(e)
<1> DEFINE a == d.form
           w == e.form
           n == Len(a)
<1>1. a = d.form /\ w = e.form /\ n = Len(a) /\ w = Negated(a)
  OBVIOUS
<1>2. a \in Seq(Part) /\ w \in Seq(Part) /\ n \in Nat /\ n >= 1 /\ Edges(d)
  BY FormParts, FormsShaped, FormsEdges DEF Shaped
<1> HIDE DEF a, w, n
<1>3. Len(w) = n + 1 /\ w[1].sym = "not" /\ \A j \in 1..n : w[j + 1] = a[j]
  BY <1>1, <1>2, NegatedIs, MarkIs DEF Symbols
<1>4. SUFFICES ASSUME NEW i, NEW k, NEW V, Redex(w, i, k, V)
               PROVE  \E f \in Forms : Replaced(f.form, w, i, k, V) /\ f.holds = e.holds /\ f.prec >= e.prec
  BY <1>1 DEF Reduces
<1>5. i \in Nat \ {0} /\ k \in {2, 3} /\ i + k <= n + 2
  BY <1>2, <1>3, <1>4 DEF Redex
<1>6. CASE i >= 2
  <2>1. PICK x \in Nat : x >= 1 /\ i = 1 + x /\ x + k <= n + 1
    <3>1. i - 1 \in Nat /\ i - 1 >= 1 /\ i = 1 + (i - 1) /\ (i - 1) + k <= n + 1
      BY <1>2, <1>5, <1>6
    <3>2. QED
      BY <3>1
  <2>2. SameAround(a, w, a, w, 1, 0)
    BY <1>1, <1>2, SameNegated
  <2>3. Redex(a, x, k, V)
    BY <1>1, <1>2, <1>4, <2>1, <2>2, RedexWithin DEF SameAround
  <2>4. PICK c \in Forms : Replaced(c.form, a, x, k, V) /\ c.holds = d.holds /\ c.prec >= 3
    BY <1>1, <2>3 DEF Reduces
  <2>5. PICK f : f = NegatedForm(c)
    OBVIOUS
  <2>6. f \in Forms /\ f.form = Negated(c.form) /\ f.holds = Worlds \ c.holds /\ f.prec = 3
    <3>1. c.prec = 3
      BY <2>4, FormParts
    <3>2. QED
      BY <2>5, <3>1, BuiltForms, FormFields
  <2>7. SameAround(a, w, c.form, f.form, 1, 0)
    BY <1>1, <1>2, <2>6, FormParts, SameNegated
  <2>8. Replaced(f.form, w, i, k, V)
    <3>1. PICK u, g : u = c.form /\ g = f.form
      OBVIOUS
    <3>2. u \in Seq(Part) /\ g \in Seq(Part) /\ x + k <= Len(a) + 1 /\ k \in Widths
      BY <1>1, <1>5, <2>1, <2>6, <3>1, FormParts DEF Widths
    <3>3. SameAround(a, w, u, g, 1, 0) /\ Replaced(u, a, x, k, V)
      BY <2>4, <2>7, <3>1, Zenon
    <3>4. Replaced(g, w, i, k, V)
      BY ONLY <1>2, <1>5, <2>1, <3>2, <3>3, ReplacedAt
    <3>5. QED
      BY <3>1, <3>4, Zenon
  <2>9. QED
    BY <2>4, <2>6, <2>8
<1>7. CASE i = 1
  <2>1. k = 2 /\ w[2].sym = "value" /\ V = Worlds \ w[2].worlds
    <3>1. w[i].sym = "not" /\ i + 1 = 2
      BY <1>3, <1>7
    <3>2. k = 2 /\ w[i + 1].sym = "value" /\ V = Worlds \ w[i + 1].worlds
      BY <1>4, <3>1 DEF Redex
    <3>3. QED
      BY <3>1, <3>2
  <2>2. w[2] = a[1]
    <3>1. 1 \in 1..n /\ 1 + 1 = 2
      BY <1>2
    <3>2. w[1 + 1] = a[1]
      BY <1>3, <3>1
    <3>3. QED
      BY <3>1, <3>2
  <2>3. n = 1
    <3>1. SUFFICES ASSUME n >= 2
                   PROVE  FALSE
      BY <1>2
    <3>2. StartsIn(d, a[2].sym, a[1].worlds)
      BY <1>1, <1>2, <2>1, <2>2, <3>1 DEF Edges, Leads
    <3>3. QED
      BY <3>2 DEF StartsIn
  <2>4. d.holds = w[2].worlds /\ V \in SUBSET Worlds
    BY <1>1, <1>2, <2>1, <2>2, <2>3 DEF Edges, Single
  <2>5. PICK f \in Forms : f.form = <<Value(V)>> /\ f.holds = V /\ f.prec = 3
    BY <2>4, OneValue
  <2>6. Replaced(f.form, w, i, k, V)
    BY <1>3, <1>7, <2>1, <2>3, <2>5 DEF Replaced
  <2>7. f.holds = e.holds
    BY <2>1, <2>4, <2>5, Zenon
  <2>8. QED
    BY <2>5, <2>6, <2>7
<1>8. QED
  BY <1>5, <1>6, <1>7

\* The redex is in the middle: the last operand of the left form, the first of the right one.
LEMMA MiddleReduces ==
  ASSUME NEW l \in Forms, NEW r \in Forms, NEW s \in Infix, NEW e \in Forms,
         IsJoin(e, l, s, r), NEW V, Redex(e.form, Len(l.form), 3, V)
  PROVE  \E f \in Forms :
           Replaced(f.form, e.form, Len(l.form), 3, V) /\ f.holds = e.holds /\ f.prec >= e.prec
<1>i. PICK i : i = Len(l.form)
  OBVIOUS
<1> USE DEF Infix, IsJoin
<1> DEFINE a == l.form
           b == r.form
           w == e.form
           m == Len(a)
           n == Len(b)
<1>1. a = l.form /\ b = r.form /\ w = e.form /\ m = Len(a) /\ n = Len(b) /\ w = Join(a, s, b) /\ i = m
  BY <1>i
<1>2. /\ a \in Seq(Part) /\ b \in Seq(Part) /\ w \in Seq(Part)
      /\ m \in Nat /\ n \in Nat /\ m >= 1 /\ n >= 1
  BY FormParts, FormsShaped DEF Shaped
<1>3. s \in Symbols /\ Mark(s).sym = s
  BY MarkIs DEF Symbols
<1> HIDE DEF a, b, w, m, n
<1>4. /\ Len(w) = m + 1 + n /\ w[m + 1] = Mark(s)
      /\ \A j \in 1..m : w[j] = a[j]
      /\ \A j \in 1..n : w[m + 1 + j] = b[j]
  <2>1. /\ Len(Join(a, s, b)) = Len(a) + 1 + Len(b)
        /\ \A j \in 1..Len(a) : Join(a, s, b)[j] = a[j]
        /\ Join(a, s, b)[Len(a) + 1] = Mark(s)
        /\ \A j \in 1..Len(b) : Join(a, s, b)[Len(a) + 1 + j] = b[j]
    BY ONLY <1>2, <1>3, JoinIs
  <2>2. QED
    BY ONLY <1>1, <2>1, Zenon
<1>5. PICK X, Y : X = a[m].worlds /\ Y = b[1].worlds
  OBVIOUS
<1>6. w[m] = a[m] /\ w[m + 2] = b[1]
  <2>1. 1 \in 1..n /\ m + 1 + 1 = m + 2 /\ m \in 1..m
    BY <1>2
  <2>2. QED
    BY <1>4, <2>1
<1>7. w[m + 1].sym = s
  BY <1>3, <1>4
<1>8. /\ a[m].sym = "value" /\ b[1].sym = "value" /\ V = Meet(s, X, Y)
      /\ s = "and" /\ m > 1 => w[m - 1].sym # "not"
      /\ s = "or" => /\ m > 1 => w[m - 1].sym \notin {"not", "and"}
                     /\ m + 3 <= Len(w) => w[m + 3].sym # "and"
  <2>1. Redex(w, m, 3, V)
    BY <1>1
  <2>2. CASE s = "and"
    <3>1. /\ w[m].sym = "value" /\ w[m + 2].sym = "value" /\ V = w[m].worlds \cap w[m + 2].worlds
          /\ m > 1 => w[m - 1].sym # "not"
      BY <1>7, <2>1, <2>2 DEF Redex
    <3>2. V = Meet(s, X, Y)
      BY <1>5, <1>6, <2>2, <3>1 DEF Meet
    <3>3. QED
      BY <1>6, <2>2, <3>1, <3>2
  <2>3. CASE s = "or"
    <3>1. /\ w[m].sym = "value" /\ w[m + 2].sym = "value" /\ V = w[m].worlds \cup w[m + 2].worlds
          /\ m > 1 => w[m - 1].sym \notin {"not", "and"}
          /\ m + 3 <= Len(w) => w[m + 3].sym # "and"
      BY <1>7, <2>1, <2>3 DEF Redex
    <3>2. V = Meet(s, X, Y)
      BY <1>5, <1>6, <2>3, <3>1 DEF Meet
    <3>3. QED
      BY <1>6, <2>3, <3>1, <3>2
  <2>4. QED
    BY ONLY <2>2, <2>3, s \in {"and", "or"}
<1>9. X \in SUBSET Worlds /\ Y \in SUBSET Worlds
  <2>1. a[m] \in Part /\ b[1] \in Part
    BY <1>1, <1>2
  <2>2. QED
    BY <1>5, <2>1, PartIs
<1>10. PICK t \in Forms : /\ SetFirst(t.form, b, V)
                          /\ t.holds = Meet(s, X, r.holds) /\ t.prec >= Level(s)
  <2>1. s = "or" /\ Len(b) >= 2 => b[2].sym # "and"
    <3>1. SUFFICES ASSUME s = "or", n >= 2
                   PROVE  b[2].sym # "and"
      BY <1>1
    <3>2. 2 \in 1..n /\ m + 1 + 2 = m + 3 /\ m + 3 <= Len(w)
      BY <1>2, <1>4, <3>1
    <3>3. w[m + 1 + 2] = b[2]
      BY <1>4, <3>2
    <3>4. QED
      BY <1>8, <3>1, <3>2, <3>3
  <2>2. r.form[1].sym = "value" /\ (s = "and" => r.prec >= 2) /\ V = Meet(s, X, r.form[1].worlds)
        /\ (s = "or" /\ Len(r.form) >= 2 => r.form[2].sym # "and")
    BY <1>1, <1>5, <1>8, <2>1, Zenon
  <2>3. \E f \in Forms : /\ SetFirst(f.form, r.form, Meet(s, X, r.form[1].worlds))
                         /\ f.holds = Meet(s, X, r.holds) /\ f.prec >= Level(s)
    BY ONLY <1>9, <2>2, TakeIn, s \in Infix, r \in Forms
  <2>4. QED
    BY <1>1, <2>2, <2>3, Zenon
<1>11. PICK c, p : c = t.form /\ p = Len(c)
  OBVIOUS
<1>12. c \in Seq(Part) /\ p = n /\ c[1] = Value(V) /\ \A j \in 2..n : c[j] = b[j]
  BY <1>1, <1>10, <1>11, FormParts DEF SetFirst
<1>13. /\ s = "and" /\ m > 1 => a[m - 1].sym # "not"
       /\ s = "or" /\ m > 1 => a[m - 1].sym \notin {"not", "and"}
  <2>1. m > 1 => m - 1 \in 1..m
    BY <1>2
  <2>2. QED
    BY <1>4, <1>8, <2>1
<1>14. \/ m = 1 /\ l.holds = X
       \/ /\ m >= 2 /\ a[m - 1] = Mark(s)
          /\ \E k \in Forms : /\ s = "and" => k.prec >= 2
                              /\ IsPrefix2(k.form, a) /\ l.holds = Meet(s, k.holds, X)
  <2>1. a[m].sym = "value" /\ (s = "and" => l.prec >= 2)
    BY <1>8
  <2>2. m = Len(l.form) /\ l.form[Len(l.form)].sym = "value"
        /\ (s = "and" /\ Len(l.form) > 1 => l.form[Len(l.form) - 1].sym # "not")
        /\ (s = "or" /\ Len(l.form) > 1 => l.form[Len(l.form) - 1].sym \notin {"not", "and"})
    BY ONLY <1>1, <1>13, <2>1, Zenon
  <2>3. \/ m = 1 /\ l.holds = a[m].worlds
        \/ /\ m >= 2 /\ a[m - 1] = Mark(s)
           /\ \E k \in Forms : /\ s = "and" => k.prec >= 2
                               /\ IsPrefix2(k.form, a) /\ l.holds = Meet(s, k.holds, a[m].worlds)
    BY ONLY <1>1, <2>1, <2>2, GiveUp, s \in Infix, l \in Forms
  <2>4. QED
    BY <1>5, <2>3, Zenon
<1>15. CASE m = 1 /\ l.holds = X
  <2>1. t.holds = e.holds /\ t.prec >= e.prec
    BY <1>10, <1>15
  <2>2. Replaced(c, w, 1, 3, V)
    <3>1. Len(w) = p + 3 - 1
      BY <1>2, <1>4, <1>12, <1>15
    <3>2. ASSUME NEW j \in 2..p
          PROVE  c[j] = w[j + 3 - 1]
      <4>1. j \in 1..n /\ j \in 2..n /\ m + 1 + j = j + 3 - 1
        BY <1>2, <1>12, <1>15, <3>2
      <4>2. QED
        BY <1>4, <1>12, <4>1
    <3>3. QED
      BY <1>11, <1>12, <3>1, <3>2 DEF Replaced
  <2>3. QED
    BY <1>1, <1>11, <1>15, <2>1, <2>2
<1>16. CASE /\ m >= 2 /\ a[m - 1] = Mark(s)
            /\ \E k \in Forms : /\ s = "and" => k.prec >= 2
                                /\ IsPrefix2(k.form, a) /\ l.holds = Meet(s, k.holds, X)
  <2>1. PICK k \in Forms : /\ s = "and" => k.prec >= 2
                           /\ IsPrefix2(k.form, a) /\ l.holds = Meet(s, k.holds, X)
    BY <1>16
  <2>2. s = "and" => k.prec >= 2 /\ t.prec >= 2
    BY <1>10, <2>1 DEF Level
  <2>3. PICK f \in Forms : /\ f.form = Join(k.form, s, t.form)
                           /\ f.holds = Meet(s, k.holds, t.holds) /\ f.prec = Level(s)
    BY <2>2, JoinedForm
  <2>4. f.holds = e.holds
    <3>1. f.holds = Meet(s, k.holds, Meet(s, X, r.holds)) /\ e.holds = Meet(s, Meet(s, k.holds, X), r.holds)
      BY <1>10, <2>1, <2>3
    <3>2. CASE s = "and"
      BY <3>1, <3>2 DEF Meet
    <3>3. CASE s = "or"
      BY <3>1, <3>3 DEF Meet
    <3>4. QED
      BY <3>2, <3>3
  <2>5. f.prec >= e.prec
    BY <2>3 DEF Level
  <2>6. PICK u, g, q : u = k.form /\ g = f.form /\ q = Len(u)
    OBVIOUS
  <2>7. u \in Seq(Part) /\ q \in Nat /\ q = m - 2 /\ \A j \in 1..q : u[j] = a[j]
    <3>1. u \in Seq(Part) /\ q \in Nat
      BY <2>6, FormParts
    <3>2. QED
      BY <1>1, <2>1, <2>6, <3>1 DEF IsPrefix2
  <2>8. /\ Len(g) = q + 1 + n /\ g[q + 1] = Mark(s)
        /\ \A j \in 1..q : g[j] = u[j]
        /\ \A j \in 1..n : g[q + 1 + j] = c[j]
    <3>1. g = Join(u, s, c) /\ q = Len(u) /\ n = Len(c)
      BY <1>11, <1>12, <2>3, <2>6
    <3>2. /\ Len(Join(u, s, c)) = Len(u) + 1 + Len(c)
          /\ \A j \in 1..Len(u) : Join(u, s, c)[j] = u[j]
          /\ Join(u, s, c)[Len(u) + 1] = Mark(s)
          /\ \A j \in 1..Len(c) : Join(u, s, c)[Len(u) + 1 + j] = c[j]
      BY ONLY <1>3, <1>12, <2>7, JoinIs
    <3>3. QED
      BY ONLY <3>1, <3>2, Zenon
  <2>9. Len(w) = Len(g) + 3 - 1
    <3>1. m + 1 + n = (q + 1 + n) + 3 - 1
      BY <1>2, <2>7
    <3>2. Len(w) = m + 1 + n /\ Len(g) = q + 1 + n
      BY <1>4, <2>8
    <3>3. QED
      BY <3>1, <3>2
  <2>10. ASSUME NEW j \in 1..(m - 1)
         PROVE  g[j] = w[j]
    <3>1. CASE j \in 1..q
      <4>1. j \in 1..m
        BY <1>2, <2>7, <3>1
      <4>2. QED
        BY <1>4, <2>7, <2>8, <3>1, <4>1
    <3>2. CASE j = q + 1
      <4>1. j = m - 1 /\ m - 1 \in 1..m
        BY <1>2, <2>7, <3>2
      <4>2. QED
        BY <1>4, <1>16, <2>8, <3>2, <4>1
    <3>3. QED
      BY <1>2, <2>7, <3>1, <3>2
  <2>11. g[m] = Value(V)
    <3>1. q + 1 + 1 = m /\ 1 \in 1..n
      BY <1>2, <2>7
    <3>2. g[q + 1 + 1] = c[1]
      BY <2>8, <3>1
    <3>3. QED
      BY <1>12, <3>1, <3>2
  <2>12. ASSUME NEW j \in (m + 1)..Len(g)
         PROVE  g[j] = w[j + 3 - 1]
    <3>1. PICK y \in 2..n : j = q + 1 + y /\ j + 3 - 1 = m + 1 + y
      <4>1. PICK z : z = j - q - 1
        OBVIOUS
      <4>2. z \in 2..n /\ j = q + 1 + z /\ j + 3 - 1 = m + 1 + z
        BY <1>2, <2>7, <2>8, <4>1
      <4>3. QED
        BY <4>2
    <3>2. y \in 1..n
      OBVIOUS
    <3>3. QED
      BY <1>4, <1>12, <2>8, <3>1, <3>2
  <2>13. Replaced(g, w, m, 3, V)
    BY <2>9, <2>10, <2>11, <2>12 DEF Replaced
  <2>14. QED
    BY <1>1, <2>4, <2>5, <2>6, <2>13
<1>17. QED
  BY <1>14, <1>15, <1>16

LEMMA JoinReduces ==
  ASSUME NEW l \in Forms, NEW r \in Forms, NEW s \in Infix, Reduces(l), Reduces(r),
         NEW e \in Forms, s = "and" => l.prec >= 2 /\ r.prec >= 2,
         e.form = Join(l.form, s, r.form), e.holds = Meet(s, l.holds, r.holds), e.prec = Level(s)
  PROVE  Reduces(e)
<1> DEFINE a == l.form
           b == r.form
           w == e.form
           m == Len(a)
           n == Len(b)
<1>1. a = l.form /\ b = r.form /\ w = e.form /\ m = Len(a) /\ n = Len(b) /\ w = Join(a, s, b)
  OBVIOUS
<1>2. /\ a \in Seq(Part) /\ b \in Seq(Part) /\ w \in Seq(Part)
      /\ m \in Nat /\ n \in Nat /\ m >= 1 /\ n >= 1
  BY FormParts, FormsShaped DEF Shaped
<1>3. s \in Symbols /\ Mark(s).sym = s
  BY MarkIs DEF Symbols, Infix
<1>b. s \in {"and", "or"}
  BY DEF Infix
<1> HIDE DEF a, b, w, m, n
<1>4. Len(w) = m + 1 + n /\ w[m + 1].sym = s
  <2>1. /\ Len(Join(a, s, b)) = Len(a) + 1 + Len(b)
        /\ Join(a, s, b)[Len(a) + 1] = Mark(s)
    BY ONLY <1>2, <1>3, JoinIs
  <2>2. QED
    BY ONLY <1>1, <1>3, <2>1, Zenon
<1>5. SUFFICES ASSUME NEW i, NEW k, NEW V, Redex(w, i, k, V)
               PROVE  \E f \in Forms : Replaced(f.form, w, i, k, V) /\ f.holds = e.holds /\ f.prec >= e.prec
  BY <1>1 DEF Reduces
<1>6. i \in Nat \ {0} /\ k \in {2, 3} /\ i + k <= m + 1 + n + 1
  BY <1>2, <1>4, <1>5 DEF Redex
<1>7. CASE i + k <= m + 1
  <2>1. i \in Nat /\ i >= 1 /\ i = 0 + i /\ 0 \in Nat /\ 1 + n \in Nat
    BY <1>2, <1>6
  <2>2. SameAround(a, w, a, w, 0, 1 + n)
    BY ONLY <1>1, <1>2, <1>3, SameLeft
  <2>3. Redex(a, i, k, V)
    <3>1. Within(a, w, 0)
      BY <2>2 DEF SameAround
    <3>2. Redex(w, 0 + i, k, V)
      BY <1>5, <2>1
    <3>3. i + k <= Len(a) + 1
      BY <1>1, <1>7
    <3>4. QED
      BY ONLY <1>2, <2>1, <3>1, <3>2, <3>3, RedexWithin
  <2>4. PICK c \in Forms : Replaced(c.form, a, i, k, V) /\ c.holds = l.holds /\ c.prec >= l.prec
    BY <1>1, <2>3 DEF Reduces
  <2>5. s = "and" => c.prec >= 2 /\ r.prec >= 2
    BY <2>4, FormParts
  <2>6. PICK f \in Forms : /\ f.form = Join(c.form, s, r.form)
                           /\ f.holds = Meet(s, c.holds, r.holds) /\ f.prec = Level(s)
    BY ONLY <2>5, JoinedForm, Zenon
  <2>7. Replaced(f.form, w, i, k, V)
    <3>1. PICK u, g : u = c.form /\ g = f.form
      OBVIOUS
    <3>2. u \in Seq(Part) /\ g \in Seq(Part) /\ i + k <= Len(a) + 1 /\ g = Join(u, s, b)
      BY <1>1, <1>7, <2>6, <3>1, FormParts
    <3>3. SameAround(a, w, u, g, 0, 1 + n)
      BY ONLY <1>1, <1>2, <1>3, <3>2, SameLeft
    <3>a. PICK h, t : h = 0 /\ t = 1 + n
      OBVIOUS
    <3>4. Replaced(u, a, i, k, V) /\ SameAround(a, w, u, g, h, t) /\ h \in Nat /\ t \in Nat /\ k \in Widths
      BY <1>2, <1>6, <2>4, <3>1, <3>3, <3>a DEF Widths
    <3>b. Replaced(g, w, h + i, k, V)
      <4>1. i \in Nat /\ i >= 1
        BY <2>1
      <4>2. QED
        BY ONLY <1>2, <4>1, <3>2, <3>4, ReplacedWithin, Zenon
    <3>5. Replaced(g, w, i, k, V)
      BY <2>1, <3>a, <3>b
    <3>6. QED
      BY <3>1, <3>5, Zenon
  <2>8. f.holds = e.holds /\ f.prec >= e.prec
    <3>1. f.holds = e.holds
      BY <2>4, <2>6, Zenon
    <3>2. f.prec = e.prec /\ f.prec \in 1..3
      BY <2>6, FormParts
    <3>3. QED
      BY <3>1, <3>2
  <2>9. QED
    BY <2>7, <2>8
<1>8. CASE i >= m + 2
  <2>1. PICK x \in Nat : x >= 1 /\ i = (m + 1) + x /\ x + k <= n + 1
    <3>1. i - m - 1 \in Nat /\ i - m - 1 >= 1 /\ i = (m + 1) + (i - m - 1) /\ (i - m - 1) + k <= n + 1
      BY <1>2, <1>6, <1>8
    <3>2. QED
      BY <3>1
  <2>a. m + 1 \in Nat /\ 0 \in Nat
    BY <1>2
  <2>2. SameAround(b, w, b, w, m + 1, 0)
    BY ONLY <1>1, <1>2, <1>3, SameRight
  <2>3. Redex(b, x, k, V)
    <3>1. Within(b, w, m + 1)
      BY <2>2 DEF SameAround
    <3>2. Redex(w, (m + 1) + x, k, V)
      BY <1>5, <2>1
    <3>3. x + k <= Len(b) + 1
      BY <1>1, <2>1
    <3>4. QED
      BY ONLY <1>2, <2>a, <2>1, <3>1, <3>2, <3>3, RedexWithin
  <2>4. PICK c \in Forms : Replaced(c.form, b, x, k, V) /\ c.holds = r.holds /\ c.prec >= r.prec
    BY <1>1, <2>3 DEF Reduces
  <2>5. s = "and" => l.prec >= 2 /\ c.prec >= 2
    BY <2>4, FormParts
  <2>6. PICK f \in Forms : /\ f.form = Join(l.form, s, c.form)
                           /\ f.holds = Meet(s, l.holds, c.holds) /\ f.prec = Level(s)
    BY ONLY <2>5, JoinedForm, Zenon
  <2>7. Replaced(f.form, w, i, k, V)
    <3>1. PICK u, g : u = c.form /\ g = f.form
      OBVIOUS
    <3>2. u \in Seq(Part) /\ g \in Seq(Part) /\ x + k <= Len(b) + 1 /\ g = Join(a, s, u)
      BY <1>1, <2>1, <2>6, <3>1, FormParts
    <3>3. SameAround(b, w, u, g, m + 1, 0)
      BY ONLY <1>1, <1>2, <1>3, <3>2, SameRight
    <3>a. PICK h, t : h = m + 1 /\ t = 0
      OBVIOUS
    <3>4. Replaced(u, b, x, k, V) /\ SameAround(b, w, u, g, h, t) /\ h \in Nat /\ t \in Nat /\ k \in Widths
      BY <1>2, <1>6, <2>4, <3>1, <3>3, <3>a DEF Widths
    <3>b. Replaced(g, w, h + x, k, V)
      BY ONLY <1>2, <2>1, <3>2, <3>4, ReplacedWithin, Zenon
    <3>5. Replaced(g, w, i, k, V)
      BY <2>1, <3>a, <3>b
    <3>6. QED
      BY <3>1, <3>5, Zenon
  <2>8. f.holds = e.holds /\ f.prec >= e.prec
    <3>1. f.holds = e.holds
      BY <2>4, <2>6, Zenon
    <3>2. f.prec = e.prec /\ f.prec \in 1..3
      BY <2>6, FormParts
    <3>3. QED
      BY <3>1, <3>2
  <2>9. QED
    BY <2>7, <2>8
<1>9. CASE i <= m + 1 /\ i + k >= m + 2
  <2>1. i = m /\ k = 3
    <3>1. i = m + 1 \/ i = m \/ (i = m - 1 /\ k = 3)
      BY <1>2, <1>6, <1>9
    <3>2. CASE i = m + 1
      <4>1. w[i].sym = s
        BY <1>4, <3>2
      <4>2. w[i].sym \in {"not", "(", "value"}
        BY <1>5 DEF Redex
      <4>3. QED
        BY <1>b, <4>1, <4>2
    <3>3. CASE i = m
      <4>1. w[i + 1].sym = s
        BY <1>4, <3>3
      <4>2. k = 2 => w[i + 1].sym = "value"
        BY <1>5 DEF Redex
      <4>3. QED
        BY <1>6, <1>b, <3>3, <4>1, <4>2
    <3>4. CASE i = m - 1 /\ k = 3
      <4>1. i + 2 = m + 1
        BY <1>2, <3>4
      <4>2. w[i + 2].sym = s
        BY <1>4, <4>1
      <4>3. w[i + 2].sym \in {")", "value"}
        BY <1>5, <3>4 DEF Redex
      <4>4. QED
        BY <1>b, <4>2, <4>3
    <3>5. QED
      BY <3>1, <3>2, <3>3, <3>4
  <2>2. i = Len(l.form) /\ Redex(e.form, Len(l.form), 3, V)
    BY <1>1, <1>5, <2>1
  <2>3. \E f \in Forms : Replaced(f.form, e.form, Len(l.form), 3, V) /\ f.holds = e.holds /\ f.prec >= e.prec
    <3>1. IsJoin(e, l, s, r)
      BY DEF IsJoin
    <3>2. Redex(e.form, Len(l.form), 3, V)
      BY <2>2
    <3>3. QED
      BY ONLY <3>1, <3>2, MiddleReduces, Zenon
  <2>4. QED
    BY <1>1, <2>1, <2>2, <2>3
<1>10. QED
  BY <1>2, <1>6, <1>7, <1>8, <1>9

(***************************************************************************)
(* If an operator and its operands, or brackets and what is in them, are   *)
(* replaced by their value, and no neighbour binds closer, an expression   *)
(* remains an expression of the same meaning.  This is why the parser may  *)
(* take operators off its stack as it does (the loops of parse_csr_covpt). *)
(***************************************************************************)
LEMMA FormsReduce == \A e \in Forms : Reduces(e)
<1> DEFINE G == {e \in Forms : Reduces(e)}
<1>1. ASSUME NEW V \in SUBSET Worlds
      PROVE  ValueForm(V) \in G
  <2>1. PICK e : e = ValueForm(V)
    OBVIOUS
  <2>2. e \in Forms /\ e.form = <<Value(V)>>
    BY <2>1, BuiltForms, FormFields
  <2>3. Reduces(e)
    BY <2>2, ValueReduces
  <2>4. QED
    BY <2>1, <2>2, <2>3
<1>2. ASSUME NEW d \in G
      PROVE  InsideForm(d) \in G
  <2>1. PICK e : e = InsideForm(d)
    OBVIOUS
  <2>2. e \in Forms /\ e.form = Inside(d.form) /\ e.holds = d.holds /\ e.prec = 3
    BY <2>1, BuiltForms, FormFields
  <2>3. Reduces(e)
    BY <2>2, InsideReduces
  <2>4. QED
    BY <2>1, <2>2, <2>3
<1>3. ASSUME NEW d \in G, d.prec = 3
      PROVE  NegatedForm(d) \in G
  <2>1. PICK e : e = NegatedForm(d)
    OBVIOUS
  <2>2. e \in Forms /\ e.form = Negated(d.form) /\ e.holds = Worlds \ d.holds /\ e.prec = 3
    BY <1>3, <2>1, BuiltForms, FormFields
  <2>3. Reduces(e)
    BY <1>3, <2>2, NegatedReduces
  <2>4. QED
    BY <2>1, <2>2, <2>3
<1>4. ASSUME NEW l \in G, NEW r \in G
      PROVE  OrForm(l, r) \in G
  <2>1. PICK f, s : f = OrForm(l, r) /\ s = "or"
    OBVIOUS
  <2>2. f \in Forms /\ f.form = Join(l.form, "or", r.form) /\ f.holds = l.holds \cup r.holds /\ f.prec = 1
    BY <2>1, OrIs
  <2>3. s \in Infix /\ s # "and" /\ f.form = Join(l.form, s, r.form)
        /\ f.holds = Meet(s, l.holds, r.holds) /\ f.prec = Level(s)
    BY <2>1, <2>2, Zenon DEF Meet, Level, Infix
  <2>4. Reduces(f)
    BY <2>2, <2>3, JoinReduces
  <2>5. QED
    BY <2>1, <2>2, <2>4
<1>5. ASSUME NEW l \in G, NEW r \in G, l.prec >= 2, r.prec >= 2
      PROVE  AndForm(l, r) \in G
  <2>1. PICK f, s : f = AndForm(l, r) /\ s = "and"
    OBVIOUS
  <2>2. f \in Forms /\ f.form = Join(l.form, "and", r.form) /\ f.holds = l.holds \cap r.holds /\ f.prec = 2
    BY <1>5, <2>1, AndIs
  <2>3. s \in Infix /\ f.form = Join(l.form, s, r.form)
        /\ f.holds = Meet(s, l.holds, r.holds) /\ f.prec = Level(s)
    BY <2>1, <2>2, Zenon DEF Meet, Level, Infix
  <2>4. Reduces(f)
    BY <1>5, <2>2, <2>3, JoinReduces
  <2>5. QED
    BY <2>1, <2>2, <2>4
<1>6. Shut(G)
  <2> HIDE DEF G
  <2>1. QED
    BY <1>1, <1>2, <1>3, <1>4, <1>5 DEF Shut
<1>7. G = Forms
  BY <1>6, FormInduction
<1>8. QED
  BY <1>7

-----------------------------------------------------------------------------
(***************************************************************************)
(* Items: the tokens of an expression, those of a clause taken together.   *)
(* Item i has the tokens after the first base[i] ones.                       *)
(***************************************************************************)
Item == [sym : {"clause"}, of : DOMAIN Clause] \cup [sym : Symbols, of : {0}]
TextOf(it)  == IF it.sym = "clause" THEN Text(it.of) ELSE <<Sym(it.sym)>>
ValueOf(it) == IF it.sym = "clause" THEN Value({V \in Worlds : it.of \in V}) ELSE Mark(it.sym)
Laid(its, base, t) ==
  /\ base \in [1..(Len(its) + 1) -> Nat] /\ base[1] = 0 /\ base[Len(its) + 1] = Len(t)
  /\ \A i \in 1..Len(its) :
       /\ base[i + 1] = base[i] + Len(TextOf(its[i]))
       /\ \A j \in 1..Len(TextOf(its[i])) : t[base[i] + j] = TextOf(its[i])[j]
Stands(its, w) == Len(w) = Len(its) /\ \A i \in 1..Len(its) : w[i] = ValueOf(its[i])
Spells(w, t) ==
  /\ w \in Seq(Part) /\ t \in Seq(Lexeme)
  /\ \E its \in Seq(Item) : Stands(its, w) /\ \E base : Laid(its, base, t)

\* What follows a sequence.
LEMMA OneMore ==
  ASSUME NEW a \in Seq(Lexeme), NEW x \in Lexeme
  PROVE  /\ a \o <<x>> \in Seq(Lexeme) /\ Len(a \o <<x>>) = Len(a) + 1 /\ (a \o <<x>>)[Len(a) + 1] = x
         /\ \A j \in 1..Len(a) : (a \o <<x>>)[j] = a[j]
<1>1. <<x>> \in Seq(Lexeme) /\ Len(<<x>>) = 1 /\ <<x>>[1] = x /\ 1 \in 1..1
  OBVIOUS
<1>2. /\ a \o <<x>> \in Seq(Lexeme) /\ Len(a \o <<x>>) = Len(a) + Len(<<x>>)
      /\ \A j \in 1..Len(a) : (a \o <<x>>)[j] = a[j]
      /\ \A j \in 1..Len(<<x>>) : (a \o <<x>>)[Len(a) + j] = <<x>>[j]
  BY <1>1, JoinedPlace
<1>3. QED
  BY <1>1, <1>2

\* The texts of the four forms of a clause.
Short(t, c)   == Len(t) = 2 /\ t[1] = Word(c) /\ t[2] = End(c)
Plain(t, c)   == /\ Len(t) = 5 /\ t[1] = Word(c) /\ t[2] = Sym("(") /\ t[3] = Word(c)
                 /\ t[4] = Sym(")") /\ t[5] = End(c)
Moved(t, c)   == Len(t) = 4 /\ t[1] = Sym("(") /\ t[2] = Word(c) /\ t[3] = Sym(")") /\ t[4] = End(c)
Longest(t, c) == /\ Len(t) = 7 /\ t[1] = Sym("(") /\ t[2] = Word(c) /\ t[3] = Sym("(") /\ t[4] = Word(c)
                 /\ t[5] = Sym(")") /\ t[6] = Sym(")") /\ t[7] = End(c)

LEMMA TextIs ==
  ASSUME NEW c \in DOMAIN Clause
  PROVE  /\ Text(c) \in Seq(Lexeme)
         /\ Short(Text(c), c) \/ Plain(Text(c), c) \/ Moved(Text(c), c) \/ Longest(Text(c), c)
<1>1. Word(c) \in Lexeme /\ End(c) \in Lexeme /\ Sym("(") \in Lexeme /\ Sym(")") \in Lexeme
  BY DEF Word, End, Sym, Lexeme
<1>2. PICK w, e, o, s : w = Word(c) /\ e = End(c) /\ o = Sym("(") /\ s = Sym(")")
  OBVIOUS
<1>3. w \in Lexeme /\ e \in Lexeme /\ o \in Lexeme /\ s \in Lexeme
  BY <1>1, <1>2
<1>4. Text(c) = LET name == IF Clause[c].mod = None THEN <<w>> ELSE <<w, o, w, s>>
                IN  (IF Clause[c].shift THEN <<o>> \o name \o <<s>> ELSE name) \o <<e>>
  BY <1>2, Zenon DEF Text
<1>5. /\ <<w>> \in Seq(Lexeme) /\ Len(<<w>>) = 1 /\ <<w>>[1] = w
      /\ <<o>> \in Seq(Lexeme) /\ Len(<<o>>) = 1 /\ <<o>>[1] = o
  BY <1>3
<1>6. PICK q : q = <<w, o, w, s>>
  OBVIOUS
<1>7. q \in Seq(Lexeme) /\ Len(q) = 4 /\ q[1] = w /\ q[2] = o /\ q[3] = w /\ q[4] = s
  BY <1>3, <1>6
<1>8. CASE Clause[c].mod = None /\ ~ Clause[c].shift
  <2>1. PICK t : t = Text(c)
    OBVIOUS
  <2>2. t = <<w>> \o <<e>>
    BY <1>4, <1>6, <1>8, <2>1
  <2>3. t \in Seq(Lexeme) /\ Len(t) = 1 + 1 /\ t[1 + 1] = e /\ \A j \in 1..1 : t[j] = <<w>>[j]
    BY <2>2, <1>3, <1>5, <1>7, OneMore
  <2>4. t \in Seq(Lexeme) /\ Len(t) = 2 /\ t[1] = w /\ t[2] = e
    BY ONLY <2>3, <1>5, <1>7
  <2>5. QED
    BY <1>2, <2>1, <2>4 DEF Short
<1>9. CASE Clause[c].mod # None /\ ~ Clause[c].shift
  <2>1. PICK t : t = Text(c)
    OBVIOUS
  <2>2. t = q \o <<e>>
    BY <1>4, <1>6, <1>9, <2>1
  <2>3. t \in Seq(Lexeme) /\ Len(t) = 4 + 1 /\ t[4 + 1] = e /\ \A j \in 1..4 : t[j] = q[j]
    <3>1. PICK n : n = Len(q)
      OBVIOUS
    <3>2. q \in Seq(Lexeme) /\ e \in Lexeme
      BY ONLY <1>7, <2>2, <1>3
    <3>3. t = q \o <<e>>
      BY ONLY <2>2
    <3>6. PICK z : z = e
      OBVIOUS
    <3>7. z \in Lexeme
      BY ONLY <3>2, <3>6
    <3>4. t \in Seq(Lexeme) /\ Len(t) = n + 1 /\ t[n + 1] = e /\ \A j \in 1..n : t[j] = q[j]
      BY <3>1, <3>2, <3>3, OneMore
    <3>5. QED
      BY ONLY <3>1, <3>4, <1>7, <2>2
  <2>4. t \in Seq(Lexeme) /\ Len(t) = 5 /\ t[1] = w /\ t[2] = o /\ t[3] = w /\ t[4] = s /\ t[5] = e
    BY ONLY <2>3, <1>5, <1>7
  <2>5. QED
    BY <1>2, <2>1, <2>4 DEF Plain
<1>10. CASE Clause[c].mod = None /\ Clause[c].shift
  <2>1. PICK t, a, b : t = Text(c) /\ a = <<o>> \o <<w>> /\ b = a \o <<s>>
    OBVIOUS
  <2>2. t = b \o <<e>>
    BY <1>4, <1>6, <1>10, <2>1
  <2>3. /\ a \in Seq(Lexeme) /\ Len(a) = Len(<<o>>) + Len(<<w>>)
        /\ \A j \in 1..Len(<<o>>) : a[j] = <<o>>[j]
        /\ \A j \in 1..Len(<<w>>) : a[Len(<<o>>) + j] = <<w>>[j]
    BY <2>1, <1>5, <1>7, JoinedPlace
  <2>4. a \in Seq(Lexeme) /\ Len(a) = 2 /\ a[1] = o /\ a[2] = w
    BY ONLY <2>3, <1>5, <1>7
  <2>5. b \in Seq(Lexeme) /\ Len(b) = 2 + 1 /\ b[2 + 1] = s /\ \A j \in 1..2 : b[j] = a[j]
    BY <2>1, <2>4, <1>3, OneMore
  <2>6. b \in Seq(Lexeme) /\ Len(b) = 3 /\ b[1] = o /\ b[2] = w /\ b[3] = s
    BY ONLY <2>5, <2>4
  <2>7. t \in Seq(Lexeme) /\ Len(t) = 3 + 1 /\ t[3 + 1] = e /\ \A j \in 1..3 : t[j] = b[j]
    <3>1. PICK n : n = Len(b)
      OBVIOUS
    <3>2. b \in Seq(Lexeme) /\ e \in Lexeme
      BY ONLY <2>2, <2>6, <1>3
    <3>3. t = b \o <<e>>
      BY ONLY <2>2
    <3>6. PICK z : z = e
      OBVIOUS
    <3>7. z \in Lexeme
      BY ONLY <3>2, <3>6
    <3>4. t \in Seq(Lexeme) /\ Len(t) = n + 1 /\ t[n + 1] = e /\ \A j \in 1..n : t[j] = b[j]
      BY <3>1, <3>2, <3>3, OneMore
    <3>5. QED
      BY ONLY <3>1, <3>4, <2>2, <2>6
  <2>8. t \in Seq(Lexeme) /\ Len(t) = 4 /\ t[1] = o /\ t[2] = w /\ t[3] = s /\ t[4] = e
    BY ONLY <2>7, <2>6
  <2>9. QED
    BY <1>2, <2>1, <2>8 DEF Moved
<1>11. CASE Clause[c].mod # None /\ Clause[c].shift
  <2>1. PICK t, a, b : t = Text(c) /\ a = <<o>> \o q /\ b = a \o <<s>>
    OBVIOUS
  <2>2. t = b \o <<e>>
    BY <1>4, <1>6, <1>11, <2>1
  <2>3. /\ a \in Seq(Lexeme) /\ Len(a) = Len(<<o>>) + Len(q)
        /\ \A j \in 1..Len(<<o>>) : a[j] = <<o>>[j]
        /\ \A j \in 1..Len(q) : a[Len(<<o>>) + j] = q[j]
    <3>1. a = <<o>> \o q /\ <<o>> \in Seq(Lexeme) /\ q \in Seq(Lexeme)
      BY ONLY <2>1, <1>5, <1>7
    <3>2. <<o>> \o q \in Seq(Lexeme) /\ Len(<<o>> \o q) = Len(<<o>>) + Len(q)
          /\ (\A j \in 1..Len(<<o>>) : (<<o>> \o q)[j] = <<o>>[j])
          /\ (\A j \in 1..Len(q) : (<<o>> \o q)[Len(<<o>>) + j] = q[j])
      BY ONLY <3>1, JoinedPlace
    <3>3. QED
      BY ONLY <3>1, <3>2
  <2>4. a \in Seq(Lexeme) /\ Len(a) = 5 /\ a[1] = o /\ a[2] = w /\ a[3] = o /\ a[4] = w /\ a[5] = s
    BY ONLY <2>3, <1>5, <1>7
  <2>5. b \in Seq(Lexeme) /\ Len(b) = 5 + 1 /\ b[5 + 1] = s /\ \A j \in 1..5 : b[j] = a[j]
    BY <2>1, <2>4, <1>3, OneMore
  <2>6. b \in Seq(Lexeme) /\ Len(b) = 6 /\ b[1] = o /\ b[2] = w /\ b[3] = o /\ b[4] = w /\ b[5] = s /\ b[6] = s
    BY ONLY <2>5, <2>4
  <2>7. t \in Seq(Lexeme) /\ Len(t) = 6 + 1 /\ t[6 + 1] = e /\ \A j \in 1..6 : t[j] = b[j]
    <3>1. PICK n : n = Len(b)
      OBVIOUS
    <3>2. b \in Seq(Lexeme) /\ e \in Lexeme
      BY ONLY <2>2, <2>6, <1>3
    <3>3. t = b \o <<e>>
      BY ONLY <2>2
    <3>6. PICK z : z = e
      OBVIOUS
    <3>7. z \in Lexeme
      BY ONLY <3>2, <3>6
    <3>4. t \in Seq(Lexeme) /\ Len(t) = n + 1 /\ t[n + 1] = e /\ \A j \in 1..n : t[j] = b[j]
      BY <3>1, <3>2, <3>3, OneMore
    <3>5. QED
      BY ONLY <3>1, <3>4, <2>2, <2>6
  <2>8. t \in Seq(Lexeme) /\ Len(t) = 7 /\ t[1] = o /\ t[2] = w /\ t[3] = o /\ t[4] = w /\ t[5] = s /\ t[6] = s /\ t[7] = e
    BY ONLY <2>7, <2>6
  <2>9. QED
    BY <1>2, <2>1, <2>8 DEF Longest
<1>12. QED
  BY <1>8, <1>9, <1>10, <1>11

LEMMA ItemIs ==
  ASSUME NEW it \in Item
  PROVE  /\ TextOf(it) \in Seq(Lexeme) /\ ValueOf(it) \in Part
         /\ it.sym = "clause" => /\ it.of \in DOMAIN Clause /\ TextOf(it) = Text(it.of)
                                 /\ ValueOf(it) = Value({V \in Worlds : it.of \in V})
         /\ it.sym # "clause" => /\ it.sym \in Symbols /\ TextOf(it) = <<Sym(it.sym)>>
                                 /\ ValueOf(it) = Mark(it.sym)
<1>1. CASE it \in [sym : {"clause"}, of : DOMAIN Clause]
  <2>1. it.sym = "clause" /\ it.of \in DOMAIN Clause
    BY <1>1
  <2>2. TextOf(it) = Text(it.of) /\ Text(it.of) \in Seq(Lexeme)
    BY <2>1, TextIs DEF TextOf
  <2>3. ValueOf(it) = Value({V \in Worlds : it.of \in V})
    BY <2>1 DEF ValueOf
  <2>4. {V \in Worlds : it.of \in V} \in SUBSET Worlds
    OBVIOUS
  <2>5. ValueOf(it) \in Part
    BY <2>3, <2>4, ValueIs
  <2>6. QED
    BY <2>1, <2>2, <2>3, <2>5
<1>2. CASE it \in [sym : Symbols, of : {0}]
  <2>1. it.sym \in Symbols /\ it.sym # "clause"
    BY <1>2 DEF Symbols
  <2>2. TextOf(it) = <<Sym(it.sym)>> /\ ValueOf(it) = Mark(it.sym)
    BY <2>1 DEF TextOf, ValueOf
  <2>3. Sym(it.sym) \in Lexeme
    BY <2>1 DEF Sym, Lexeme, Symbols
  <2>4. Mark(it.sym) \in Part
    BY <2>1, MarkIs
  <2>5. QED
    BY <2>1, <2>2, <2>3, <2>4
<1>3. QED
  BY <1>1, <1>2 DEF Item

LEMMA TextOfIs ==
  /\ \A it \in Item : TextOf(it) \in Seq(Lexeme) /\ Len(TextOf(it)) \in Nat
  /\ \A it \in Item : ValueOf(it) \in Part
<1>1. \A it \in Item : TextOf(it) \in Seq(Lexeme) /\ ValueOf(it) \in Part
  BY ItemIs, Zenon
<1>2. \A s \in Seq(Lexeme) : Len(s) \in Nat
  OBVIOUS
<1>3. QED
  BY <1>1, <1>2, Zenon

\* One item.
LEMMA SpellsOne ==
  ASSUME NEW it \in Item
  PROVE  Spells(<<ValueOf(it)>>, TextOf(it))
<1> DEFINE n == Len(TextOf(it))
           base == [i \in 1..2 |-> IF i = 1 THEN 0 ELSE n]
<1>1. <<it>> \in Seq(Item) /\ Len(<<it>>) = 1 /\ <<it>>[1] = it
  OBVIOUS
<1>2. TextOf(it) \in Seq(Lexeme) /\ ValueOf(it) \in Part /\ n \in Nat
  BY TextOfIs
<1>3. Stands(<<it>>, <<ValueOf(it)>>)
  BY <1>1, <1>2 DEF Stands
<1> HIDE DEF n
<1>4. base \in [1..2 -> Nat] /\ base[1] = 0 /\ base[2] = n
  BY <1>2
<1> HIDE DEF base
<1>5. \A j \in 1..n : 0 + j = j
  BY <1>2
<1>6. Laid(<<it>>, base, TextOf(it))
  <2>1. n = Len(TextOf(it)) /\ 0 + n = n /\ 1 + 1 = 2
    BY <1>2 DEF n
  <2>2. \A i \in 1..1 : i = 1
    OBVIOUS
  <2>3. base[1 + 1] = base[1] + n
    BY <1>4, <2>1
  <2>4. \A j \in 1..n : TextOf(it)[base[1] + j] = TextOf(it)[j]
    BY <1>4, <1>5
  <2>5. QED
    BY <1>1, <1>4, <2>1, <2>2, <2>3, <2>4 DEF Laid
<1>7. <<ValueOf(it)>> \in Seq(Part)
  BY <1>2
<1>8. QED
  BY <1>1, <1>2, <1>3, <1>6, <1>7, Zenon DEF Spells

\* All items are in the text.
LEMMA LaidWithin ==
  ASSUME NEW its \in Seq(Item), NEW t \in Seq(Lexeme), NEW base, Laid(its, base, t)
  PROVE  \A i \in 1..(Len(its) + 1) : base[i] \in Nat /\ base[i] <= Len(t)
<1> DEFINE n == Len(its)
           k == Len(t)
           G == {g \in 0..n : base[n + 1 - g] <= k}
<1>1. n \in Nat /\ k \in Nat
  OBVIOUS
<1>2. /\ \A i \in 1..(n + 1) : base[i] \in Nat
      /\ base[n + 1] = k
      /\ \A i \in 1..n : base[i + 1] = base[i] + Len(TextOf(its[i]))
  BY DEF Laid
<1>3. \A i \in 1..n : Len(TextOf(its[i])) \in Nat
  <2>1. \A i \in 1..n : its[i] \in Item
    OBVIOUS
  <2>2. QED
    BY <2>1, TextOfIs, Zenon
<1> HIDE DEF n, k
<1>4. 0 \in G
  BY <1>1, <1>2
<1>5. ASSUME NEW g \in 0..(n - 1), g \in G
      PROVE  g + 1 \in G
  <2>1. n - g \in 1..n /\ (n - g) + 1 = n + 1 - g /\ n + 1 - (g + 1) = n - g /\ g + 1 \in 0..n
        /\ n - g \in 1..(n + 1)
    BY <1>1
  <2>2. base[n - g] \in Nat /\ Len(TextOf(its[n - g])) \in Nat
    BY <1>2, <1>3, <2>1
  <2>3. base[(n - g) + 1] = base[n - g] + Len(TextOf(its[n - g]))
    BY <1>2, <2>1
  <2>4. base[n + 1 - g] <= k
    BY <1>5
  <2>5. base[n - g] <= k
    BY <2>1, <2>2, <2>3, <2>4, <1>1
  <2>6. QED
    BY <2>1, <2>5
<1> HIDE DEF G
<1>6. 0..n \subseteq G
  BY <1>1, <1>4, <1>5, UpTo
<1>7. ASSUME NEW i \in 1..(n + 1)
      PROVE  base[i] <= k
  <2>1. n + 1 - i \in 0..n /\ n + 1 - (n + 1 - i) = i
    BY <1>1
  <2>2. QED
    BY <1>6, <2>1 DEF G
<1>8. QED
  BY <1>2, <1>7 DEF n, k

LEMMA LeqTransitive == \A p, q, r \in Nat : p <= q /\ q <= r => p <= r
  OBVIOUS

\* One expression after another.
LEMMA LaidOut ==
  ASSUME NEW a \in Seq(Item), NEW b \in Seq(Item), NEW s \in Seq(Lexeme), NEW t \in Seq(Lexeme),
         NEW x, Laid(a, x, s), NEW y, Laid(b, y, t)
  PROVE  \E z : Laid(a \o b, z, s \o t)
<1> DEFINE m == Len(a)
           n == Len(b)
           k == Len(s)
           z == [i \in 1..(m + n + 1) |-> IF i <= m THEN x[i] ELSE k + y[i - m]]
<1>1. m \in Nat /\ n \in Nat /\ k \in Nat /\ Len(t) \in Nat
  OBVIOUS
<1>2. /\ a \o b \in Seq(Item) /\ Len(a \o b) = m + n
      /\ \A i \in 1..m : (a \o b)[i] = a[i]
      /\ \A i \in 1..n : (a \o b)[m + i] = b[i]
  BY JoinedPlace
<1>3. /\ Len(s \o t) = k + Len(t)
      /\ \A i \in 1..k : (s \o t)[i] = s[i]
      /\ \A i \in 1..Len(t) : (s \o t)[k + i] = t[i]
  BY JoinedPlace
<1>4. \A i \in 1..m : a[i] \in Item /\ Len(TextOf(a[i])) \in Nat
  <2>1. \A i \in 1..m : a[i] \in Item
    OBVIOUS
  <2>2. QED
    BY <2>1, TextOfIs, Zenon
<1>5. \A i \in 1..n : b[i] \in Item /\ Len(TextOf(b[i])) \in Nat
  <2>1. \A i \in 1..n : b[i] \in Item
    OBVIOUS
  <2>2. QED
    BY <2>1, TextOfIs, Zenon
<1>6. /\ \A i \in 1..(m + 1) : x[i] \in Nat
      /\ x[1] = 0 /\ x[m + 1] = k
      /\ \A i \in 1..m : /\ x[i + 1] = x[i] + Len(TextOf(a[i]))
                         /\ \A j \in 1..Len(TextOf(a[i])) : s[x[i] + j] = TextOf(a[i])[j]
  BY DEF Laid
<1>7. /\ \A i \in 1..(n + 1) : y[i] \in Nat
      /\ y[1] = 0 /\ y[n + 1] = Len(t)
      /\ \A i \in 1..n : /\ y[i + 1] = y[i] + Len(TextOf(b[i]))
                         /\ \A j \in 1..Len(TextOf(b[i])) : t[y[i] + j] = TextOf(b[i])[j]
  BY DEF Laid
<1>18. \A i \in 1..(m + 1) : x[i] <= k
  BY LaidWithin
<1>19. \A i \in 1..(n + 1) : y[i] <= Len(t)
  BY LaidWithin
<1> HIDE DEF m, n, k
<1>8. \A i \in 1..(m + 1) : z[i] = x[i]
  <2>1. \A i \in 1..m : z[i] = x[i]
    BY <1>1
  <2>2. z[m + 1] = k + y[1] /\ k + 0 = k
    BY <1>1
  <2>3. z[m + 1] = x[m + 1]
    BY <2>2, <1>6, <1>7
  <2>4. \A i \in 1..(m + 1) : i \in 1..m \/ i = m + 1
    BY <1>1
  <2>5. QED
    BY <2>1, <2>3, <2>4
<1>9. \A i \in 1..(n + 1) : z[m + i] = k + y[i]
  <2>1. \A i \in 1..(n + 1) : m + i \in 1..(m + n + 1) /\ ~ (m + i <= m) /\ (m + i) - m = i
    BY <1>1
  <2>2. QED
    BY <2>1
<1>10. z \in [1..(m + n + 1) -> Nat]
  <2>1. \A i \in 1..(m + n + 1) : i \in 1..m \/ (i - m \in 1..(n + 1) /\ ~ (i <= m))
    BY <1>1
  <2>2. \A i \in 1..m : i \in 1..(m + 1) /\ i <= m
    BY <1>1
  <2>3. \A i \in 1..(n + 1) : k + y[i] \in Nat
    BY <1>1, <1>7
  <2>4. \A i \in 1..(m + n + 1) : (IF i <= m THEN x[i] ELSE k + y[i - m]) \in Nat
    BY <1>6, <2>1, <2>2, <2>3
  <2>5. QED
    BY <2>4
<1>11. z = [i \in 1..(m + n + 1) |-> z[i]]
  BY <1>1
<1> HIDE DEF z
<1>12. ASSUME NEW i \in 1..m
       PROVE  LET it == (a \o b)[i] IN
                /\ z[i + 1] = z[i] + Len(TextOf(it))
                /\ \A j \in 1..Len(TextOf(it)) : (s \o t)[z[i] + j] = TextOf(it)[j]
  <2>1. i \in 1..(m + 1) /\ i + 1 \in 1..(m + 1) /\ i + 1 <= m + 1
    BY <1>1
  <2>2. (a \o b)[i] = a[i]
    BY <1>2
  <2>3. z[i] = x[i] /\ z[i + 1] = x[i + 1] /\ x[i] \in Nat /\ x[i + 1] \in Nat
    BY <1>6, <1>8, <2>1
  <2>4. x[i + 1] = x[i] + Len(TextOf(a[i])) /\ Len(TextOf(a[i])) \in Nat
    BY <1>4, <1>6
  <2>5. x[i + 1] <= k
    BY <2>1, <1>18
  <2>6. ASSUME NEW j \in 1..Len(TextOf(a[i]))
        PROVE  (s \o t)[x[i] + j] = TextOf(a[i])[j]
    <3>1. x[i] + j \in 1..k
      BY <2>3, <2>4, <2>5, <1>1
    <3>2. QED
      BY <3>1, <1>3, <1>6
  <2>7. QED
    BY <2>2, <2>3, <2>4, <2>6
<1>13. ASSUME NEW i \in 1..n
       PROVE  LET it == (a \o b)[m + i] IN
                /\ z[m + i + 1] = z[m + i] + Len(TextOf(it))
                /\ \A j \in 1..Len(TextOf(it)) : (s \o t)[z[m + i] + j] = TextOf(it)[j]
  <2>1. i \in 1..(n + 1) /\ i + 1 \in 1..(n + 1) /\ m + i + 1 = m + (i + 1)
    BY <1>1
  <2>2. (a \o b)[m + i] = b[i]
    BY <1>2
  <2>3. z[m + i] = k + y[i] /\ z[m + (i + 1)] = k + y[i + 1] /\ y[i] \in Nat /\ y[i + 1] \in Nat
    BY <1>7, <1>9, <2>1
  <2>4. y[i + 1] = y[i] + Len(TextOf(b[i])) /\ Len(TextOf(b[i])) \in Nat
    BY <1>5, <1>7
  <2>5. k + (y[i] + Len(TextOf(b[i]))) = (k + y[i]) + Len(TextOf(b[i]))
    BY <2>3, <2>4, <1>1
  <2>6. z[m + i + 1] = z[m + i] + Len(TextOf(b[i]))
    BY <2>1, <2>3, <2>4, <2>5
  <2>7. y[i + 1] <= Len(t)
    BY <2>1, <1>19
  <2>8. ASSUME NEW j \in 1..Len(TextOf(b[i]))
        PROVE  (s \o t)[z[m + i] + j] = TextOf(b[i])[j]
    <3>3. j \in Nat /\ 1 <= j /\ j <= Len(TextOf(b[i]))
      BY <2>4
    <3>4. (k + y[i]) + j = k + (y[i] + j)
      BY <2>3, <3>3, <1>1
    <3>5. y[i] + j <= y[i + 1] /\ y[i] + j \in Nat /\ 1 <= y[i] + j
      BY <2>3, <2>4, <3>3
    <3>1. y[i] + j \in 1..Len(t) /\ (k + y[i]) + j = k + (y[i] + j)
      <4>1. y[i] + j <= Len(t)
        BY ONLY <2>3, <2>7, <3>5, <1>1, LeqTransitive, Zenon
      <4>2. QED
        BY <4>1, <3>4, <3>5, <1>1
    <3>2. (s \o t)[k + (y[i] + j)] = t[y[i] + j]
      BY <3>1, <1>3
    <3>6. QED
      BY <3>1, <3>2, <2>3, <1>7
  <2>9. QED
    BY <2>2, <2>6, <2>8
<1>14. \A i \in 1..(m + n) : /\ z[i + 1] = z[i] + Len(TextOf((a \o b)[i]))
                             /\ \A j \in 1..Len(TextOf((a \o b)[i])) : (s \o t)[z[i] + j] = TextOf((a \o b)[i])[j]
  <2> SUFFICES ASSUME NEW i \in 1..(m + n)
               PROVE  /\ z[i + 1] = z[i] + Len(TextOf((a \o b)[i]))
                      /\ \A j \in 1..Len(TextOf((a \o b)[i])) : (s \o t)[z[i] + j] = TextOf((a \o b)[i])[j]
    OBVIOUS
  <2>1. i \in 1..m \/ (i - m \in 1..n /\ m + (i - m) = i /\ m + (i - m) + 1 = i + 1)
    BY <1>1
  <2>2. CASE i \in 1..m
    BY <2>2, <1>12
  <2>3. CASE i - m \in 1..n /\ m + (i - m) = i /\ m + (i - m) + 1 = i + 1
    <3>1. PICK d : d = i - m
      OBVIOUS
    <3>2. d \in 1..n /\ m + d = i /\ m + d + 1 = i + 1
      BY <2>3, <3>1
    <3>3. QED
      BY <3>2, <1>13
  <2>4. QED
    BY <2>1, <2>2, <2>3
<1>15. z[1] = 0 /\ z[m + n + 1] = k + Len(t)
  <2>1. 1 \in 1..(m + 1) /\ n + 1 \in 1..(n + 1) /\ m + (n + 1) = m + n + 1
    BY <1>1
  <2>2. QED
    BY <2>1, <1>6, <1>7, <1>8, <1>9
<1>16. Laid(a \o b, z, s \o t)
  BY <1>2, <1>3, <1>10, <1>14, <1>15 DEF Laid
<1>17. QED
  BY <1>16

LEMMA SpellsAfter ==
  ASSUME NEW u, NEW s, Spells(u, s), NEW v, NEW t, Spells(v, t)
  PROVE  Spells(u \o v, s \o t)
<1>1. u \in Seq(Part) /\ s \in Seq(Lexeme) /\ v \in Seq(Part) /\ t \in Seq(Lexeme)
  BY DEF Spells
<1>2. PICK a, x : a \in Seq(Item) /\ Stands(a, u) /\ Laid(a, x, s)
  BY DEF Spells
<1>3. PICK b, y : b \in Seq(Item) /\ Stands(b, v) /\ Laid(b, y, t)
  BY DEF Spells
<1>4. PICK z : Laid(a \o b, z, s \o t)
  BY <1>1, <1>2, <1>3, LaidOut
<1>5. /\ a \o b \in Seq(Item) /\ Len(a \o b) = Len(a) + Len(b)
      /\ \A i \in 1..Len(a) : (a \o b)[i] = a[i]
      /\ \A i \in 1..Len(b) : (a \o b)[Len(a) + i] = b[i]
  BY <1>2, <1>3, JoinedPlace
<1>6. /\ u \o v \in Seq(Part) /\ Len(u \o v) = Len(u) + Len(v)
      /\ \A i \in 1..Len(u) : (u \o v)[i] = u[i]
      /\ \A i \in 1..Len(v) : (u \o v)[Len(u) + i] = v[i]
  BY <1>1, JoinedPlace
<1>7. s \o t \in Seq(Lexeme)
  BY <1>1
<1>8. PICK m, n : m = Len(a) /\ n = Len(b)
  OBVIOUS
<1>9. m \in Nat /\ n \in Nat
  BY <1>8
<1>10. /\ Len(u) = m /\ \A i \in 1..m : u[i] = ValueOf(a[i])
       /\ Len(v) = n /\ \A i \in 1..n : v[i] = ValueOf(b[i])
  BY <1>2, <1>3, <1>8 DEF Stands
<1>11. ASSUME NEW i \in 1..(m + n)
       PROVE  (u \o v)[i] = ValueOf((a \o b)[i])
  <2>1. i \in 1..m \/ (i - m \in 1..n /\ m + (i - m) = i)
    BY <1>9
  <2>2. CASE i \in 1..m
    BY <2>2, <1>5, <1>6, <1>8, <1>10
  <2>3. CASE i - m \in 1..n /\ m + (i - m) = i
    <3>1. PICK d : d = i - m
      OBVIOUS
    <3>2. d \in 1..n /\ m + d = i
      BY <2>3, <3>1
    <3>3. (u \o v)[m + d] = v[d] /\ (a \o b)[m + d] = b[d] /\ v[d] = ValueOf(b[d])
      BY <3>2, <1>5, <1>6, <1>8, <1>10
    <3>4. QED
      BY <3>2, <3>3
  <2>4. QED
    BY <2>1, <2>2, <2>3
<1>12. Stands(a \o b, u \o v)
  BY <1>5, <1>6, <1>8, <1>10, <1>11 DEF Stands
<1>13. QED
  BY <1>4, <1>5, <1>6, <1>7, <1>12 DEF Spells

LEMMA SymSpells ==
  ASSUME NEW s \in Symbols
  PROVE  Spells(<<Mark(s)>>, <<Sym(s)>>)
<1>1. PICK it : it = [sym |-> s, of |-> 0]
  OBVIOUS
<1>2. it \in Item /\ it.sym = s /\ s # "clause"
  BY <1>1 DEF Item, Symbols
<1>3. TextOf(it) = <<Sym(s)>> /\ ValueOf(it) = Mark(s)
  BY <1>2, ItemIs
<1>4. Spells(<<ValueOf(it)>>, TextOf(it))
  BY <1>2, SpellsOne
<1>5. QED
  BY <1>3, <1>4

LEMMA LitSpells ==
  ASSUME NEW c \in DOMAIN Clause
  PROVE  Spells(<<Value({V \in Worlds : c \in V})>>, Text(c))
<1>1. PICK it : it = [sym |-> "clause", of |-> c]
  OBVIOUS
<1>2. it \in Item /\ it.sym = "clause" /\ it.of = c
  BY <1>1 DEF Item
<1>3. TextOf(it) = Text(c) /\ ValueOf(it) = Value({V \in Worlds : c \in V})
  BY <1>2 DEF TextOf, ValueOf
<1>4. Spells(<<ValueOf(it)>>, TextOf(it))
  BY <1>2, SpellsOne
<1>5. QED
  BY <1>3, <1>4

LEMMA SamePlaces ==
  ASSUME NEW S, NEW a \in Seq(S), NEW b \in Seq(S), Len(a) = Len(b), \A i \in 1..Len(a) : a[i] = b[i]
  PROVE  a = b
  OBVIOUS

LEMMA JoinSpells ==
  ASSUME NEW l \in Seq(Part), NEW r \in Seq(Part), NEW s \in Symbols
  PROVE  Join(l, s, r) = (l \o <<Mark(s)>>) \o r
<1>1. PICK k : k = Mark(s)
  OBVIOUS
<1>2. k \in Part
  BY <1>1, MarkIs
<1>3. <<k>> \in Seq(Part) /\ Len(<<k>>) = 1 /\ <<k>>[1] = k
  BY <1>2
<1>4. PICK a : a = l \o <<k>>
  OBVIOUS
<1>5. /\ l \o <<k>> \in Seq(Part) /\ Len(l \o <<k>>) = Len(l) + Len(<<k>>)
      /\ \A i \in 1..Len(l) : (l \o <<k>>)[i] = l[i]
      /\ \A i \in 1..Len(<<k>>) : (l \o <<k>>)[Len(l) + i] = <<k>>[i]
  BY <1>3, JoinedPlace
<1>6. a \in Seq(Part) /\ Len(a) = Len(l) + 1 /\ a[Len(l) + 1] = k /\ \A i \in 1..Len(l) : a[i] = l[i]
  BY <1>3, <1>4, <1>5
<1>7. PICK b : b = a \o r
  OBVIOUS
<1>8. /\ b \in Seq(Part) /\ Len(b) = Len(a) + Len(r)
      /\ \A i \in 1..Len(a) : b[i] = a[i]
      /\ \A i \in 1..Len(r) : b[Len(a) + i] = r[i]
  <2>1. a \in Seq(Part) /\ r \in Seq(Part) /\ b = a \o r
    BY <1>6, <1>7
  <2>2. QED
    BY ONLY <2>1, JoinedPlace
<1>9. PICK c : c = Join(l, s, r)
  OBVIOUS
<1>10. /\ c \in Seq(Part) /\ Len(c) = Len(l) + 1 + Len(r)
       /\ \A j \in 1..Len(l) : c[j] = l[j]
       /\ c[Len(l) + 1] = k
       /\ \A j \in 1..Len(r) : c[Len(l) + 1 + j] = r[j]
  BY <1>1, <1>9, JoinIs
<1>11. PICK m, n : m = Len(l) /\ n = Len(r)
  OBVIOUS
<1>12. m \in Nat /\ n \in Nat
  BY <1>11
<1>13. Len(b) = Len(c)
  BY <1>6, <1>8, <1>10, <1>11, <1>12
<1>14. ASSUME NEW i \in 1..Len(b)
       PROVE  b[i] = c[i]
  <2>1. i \in 1..(m + 1 + n)
    BY <1>6, <1>8, <1>11, <1>12
  <2>2. i \in 1..m \/ i = m + 1 \/ \E j \in 1..n : i = m + 1 + j
    BY <2>1, <1>12, JoinPlaces
  <2>3. CASE i \in 1..m \/ i = m + 1
    <3>1. i \in 1..(m + 1)
      BY <2>3, <1>12
    <3>2. b[i] = a[i]
      BY <3>1, <1>6, <1>8, <1>11
    <3>3. QED
      BY <2>3, <3>2, <1>6, <1>10, <1>11
  <2>4. CASE \E j \in 1..n : i = m + 1 + j
    <3>1. PICK j \in 1..n : i = m + 1 + j
      BY <2>4
    <3>2. b[i] = r[j]
      BY <3>1, <1>6, <1>8, <1>11
    <3>3. QED
      BY <3>1, <3>2, <1>10, <1>11
  <2>5. QED
    BY <2>2, <2>3, <2>4
<1>15. b = c
  BY <1>8, <1>10, <1>13, <1>14, SamePlaces
<1>16. QED
  BY <1>1, <1>4, <1>7, <1>9, <1>15

LEMMA NegatedSpells ==
  ASSUME NEW w \in Seq(Part)
  PROVE  Negated(w) = <<Mark("not")>> \o w
<1>1. PICK k : k = Mark("not")
  OBVIOUS
<1>2. k \in Part
  BY <1>1, MarkIs DEF Symbols
<1>3. <<k>> \in Seq(Part) /\ Len(<<k>>) = 1 /\ <<k>>[1] = k
  BY <1>2
<1>4. PICK b : b = <<k>> \o w
  OBVIOUS
<1>5. /\ b \in Seq(Part) /\ Len(b) = Len(<<k>>) + Len(w)
      /\ \A i \in 1..Len(<<k>>) : b[i] = <<k>>[i]
      /\ \A i \in 1..Len(w) : b[Len(<<k>>) + i] = w[i]
  BY <1>3, <1>4, JoinedPlace
<1>6. PICK c : c = Negated(w)
  OBVIOUS
<1>7. c \in Seq(Part) /\ Len(c) = Len(w) + 1 /\ c[1] = k /\ \A j \in 1..Len(w) : c[j + 1] = w[j]
  BY <1>1, <1>6, NegatedIs
<1>8. PICK n : n = Len(w)
  OBVIOUS
<1>9. n \in Nat
  BY <1>8
<1>10. Len(b) = Len(c)
  BY <1>3, <1>5, <1>7, <1>8, <1>9
<1>11. ASSUME NEW i \in 1..Len(b)
       PROVE  b[i] = c[i]
  <2>1. i = 1 \/ (i - 1 \in 1..n /\ 1 + (i - 1) = i /\ (i - 1) + 1 = i)
    BY <1>3, <1>5, <1>8, <1>9
  <2>2. CASE i = 1
    BY <2>2, <1>3, <1>5, <1>7
  <2>3. CASE i - 1 \in 1..n /\ 1 + (i - 1) = i /\ (i - 1) + 1 = i
    <3>1. PICK j : j = i - 1
      OBVIOUS
    <3>2. j \in 1..n /\ 1 + j = i /\ j + 1 = i
      BY <2>3, <3>1
    <3>3. b[1 + j] = w[j] /\ c[j + 1] = w[j]
      BY <3>2, <1>3, <1>5, <1>7, <1>8
    <3>4. QED
      BY <3>2, <3>3
  <2>4. QED
    BY <2>1, <2>2, <2>3
<1>12. b = c
  BY <1>5, <1>7, <1>10, <1>11, SamePlaces
<1>13. QED
  BY <1>1, <1>4, <1>6, <1>12

LEMMA InsideSpells ==
  ASSUME NEW w \in Seq(Part)
  PROVE  Inside(w) = (<<Mark("(")>> \o w) \o <<Mark(")")>>
<1>1. PICK k, z : k = Mark("(") /\ z = Mark(")")
  OBVIOUS
<1>2. k \in Part /\ z \in Part
  BY <1>1, MarkIs DEF Symbols
<1>3. /\ <<k>> \in Seq(Part) /\ Len(<<k>>) = 1 /\ <<k>>[1] = k
      /\ <<z>> \in Seq(Part) /\ Len(<<z>>) = 1 /\ <<z>>[1] = z
  BY <1>2
<1>4. PICK a, b : a = <<k>> \o w /\ b = a \o <<z>>
  OBVIOUS
<1>5. /\ a \in Seq(Part) /\ Len(a) = Len(<<k>>) + Len(w)
      /\ \A i \in 1..Len(<<k>>) : a[i] = <<k>>[i]
      /\ \A i \in 1..Len(w) : a[Len(<<k>>) + i] = w[i]
  BY <1>3, <1>4, JoinedPlace
<1>6. /\ b \in Seq(Part) /\ Len(b) = Len(a) + Len(<<z>>)
      /\ \A i \in 1..Len(a) : b[i] = a[i]
      /\ \A i \in 1..Len(<<z>>) : b[Len(a) + i] = <<z>>[i]
  BY <1>3, <1>4, <1>5, JoinedPlace
<1>7. PICK c : c = Inside(w)
  OBVIOUS
<1>8. /\ c \in Seq(Part) /\ Len(c) = Len(w) + 2
      /\ c[1] = k /\ c[Len(w) + 2] = z
      /\ \A j \in 1..Len(w) : c[j + 1] = w[j]
  BY <1>1, <1>7, InsideIs
<1>9. PICK n : n = Len(w)
  OBVIOUS
<1>10. n \in Nat
  BY <1>9
<1>11. Len(a) = n + 1 /\ Len(b) = n + 2 /\ Len(c) = n + 2
  BY <1>3, <1>5, <1>6, <1>8, <1>9, <1>10
<1>12. a[1] = k /\ \A j \in 1..n : a[1 + j] = w[j]
  BY <1>3, <1>5, <1>9
<1>13. b[(n + 1) + 1] = z /\ \A j \in 1..(n + 1) : b[j] = a[j]
  BY <1>3, <1>6, <1>11
<1>14. ASSUME NEW i \in 1..Len(b)
       PROVE  b[i] = c[i]
  <2>1. i = 1 \/ i = n + 2 \/ (i - 1 \in 1..n /\ 1 + (i - 1) = i /\ (i - 1) + 1 = i)
    BY <1>11, <1>10
  <2>2. CASE i = 1
    BY <2>2, <1>8, <1>10, <1>12, <1>13
  <2>3. CASE i = n + 2
    <3>1. (n + 1) + 1 = n + 2
      BY <1>10
    <3>2. QED
      BY <2>3, <3>1, <1>8, <1>9, <1>13
  <2>4. CASE i - 1 \in 1..n /\ 1 + (i - 1) = i /\ (i - 1) + 1 = i
    <3>1. PICK j : j = i - 1
      OBVIOUS
    <3>2. j \in 1..n /\ 1 + j = i /\ j + 1 = i /\ i \in 1..(n + 1)
      BY <2>4, <3>1, <1>10
    <3>3. a[1 + j] = w[j] /\ c[j + 1] = w[j] /\ b[i] = a[i]
      BY <3>2, <1>8, <1>9, <1>12, <1>13
    <3>4. QED
      BY <3>2, <3>3
  <2>5. QED
    BY <2>1, <2>2, <2>3, <2>4
<1>15. b = c
  BY <1>6, <1>8, <1>11, <1>14, SamePlaces
<1>16. QED
  BY <1>1, <1>4, <1>7, <1>15

-----------------------------------------------------------------------------
\* An expression of the grammar is a form in which the clauses are spelled out.
Spelled(p) == \E e \in Forms : Spells(e.form, p.toks) /\ e.holds = p.holds /\ e.prec = p.prec
Made(t, H, n) == t \in Seq(Lexeme) /\ H \in SUBSET Worlds /\ n \in 1..3
                 /\ \E e \in Forms : Spells(e.form, t) /\ e.holds = H /\ e.prec = n

LEMMA MadeIs ==
  ASSUME NEW p
  PROVE  /\ p \in Printed => (Spelled(p) <=> Made(p.toks, p.holds, p.prec))
         /\ p \in Printed => /\ p = [toks |-> p.toks, holds |-> p.holds, prec |-> p.prec]
                            /\ p.toks \in Seq(Lexeme) /\ p.holds \in SUBSET Worlds /\ p.prec \in 1..3
  BY DEF Printed, Spelled, Made

LEMMA MadeSpelled ==
  ASSUME NEW t, NEW H, NEW n, Made(t, H, n), NEW p, p = [toks |-> t, holds |-> H, prec |-> n]
  PROVE  p \in Printed /\ Spelled(p)
  BY DEF Printed, Spelled, Made

LEMMA LitMade ==
  ASSUME NEW c \in DOMAIN Clause
  PROVE  Made(Text(c), {V \in Worlds : c \in V}, 3)
<1>1. PICK U : U = {V \in Worlds : c \in V}
  OBVIOUS
<1>2. U \in SUBSET Worlds
  BY <1>1
<1>3. PICK e \in Forms : e.form = <<Value(U)>> /\ e.holds = U /\ e.prec = 3
  BY <1>2, OneValue
<1>4. Spells(<<Value(U)>>, Text(c))
  BY <1>1, LitSpells
<1>5. Text(c) \in Seq(Lexeme)
  BY TextIs
<1>6. 3 \in 1..3
  OBVIOUS
<1>7. Made(Text(c), U, 3)
  BY <1>2, <1>3, <1>4, <1>5, <1>6, Zenon DEF Made
<1>8. QED
  BY <1>1, <1>7

LEMMA BracketMade ==
  ASSUME NEW t, NEW H, NEW n, Made(t, H, n)
  PROVE  Made(<<Sym("(")>> \o t \o <<Sym(")")>>, H, 3)
<1>1. PICK e \in Forms : Spells(e.form, t) /\ e.holds = H /\ e.prec = n
  BY DEF Made
<1>2. e.form \in Seq(Part)
  BY FormParts
<1>3. "(" \in Symbols /\ ")" \in Symbols
  BY DEF Symbols
<1>4. Spells(<<Mark("(")>>, <<Sym("(")>>) /\ Spells(<<Mark(")")>>, <<Sym(")")>>)
  BY <1>3, SymSpells, Zenon
<1>5. Spells((<<Mark("(")>> \o e.form), (<<Sym("(")>> \o t))
  BY <1>1, <1>4, SpellsAfter, Zenon
<1>6. Spells((<<Mark("(")>> \o e.form) \o <<Mark(")")>>, (<<Sym("(")>> \o t) \o <<Sym(")")>>)
  BY <1>4, <1>5, SpellsAfter, Zenon
<1>7. Spells(Inside(e.form), (<<Sym("(")>> \o t) \o <<Sym(")")>>)
  BY <1>2, <1>6, InsideSpells, Zenon
<1>8. InsideForm(e) \in Forms
  BY BuiltForms
<1>9. InsideForm(e).form = Inside(e.form) /\ InsideForm(e).holds = H /\ InsideForm(e).prec = 3
  BY <1>1, FormFields, Zenon
<1>10. H \in SUBSET Worlds /\ 3 \in 1..3
  BY DEF Made
<1>11. (<<Sym("(")>> \o t) \o <<Sym(")")>> \in Seq(Lexeme)
  BY <1>7, Zenon DEF Spells
<1>12. PICK f \in Forms : f.form = Inside(e.form) /\ f.holds = H /\ f.prec = 3
  BY <1>8, <1>9, Zenon
<1>13. QED
  BY <1>7, <1>10, <1>11, <1>12, Zenon DEF Made

LEMMA NotMade ==
  ASSUME NEW t, NEW H, Made(t, H, 3)
  PROVE  Made(<<Sym("not")>> \o t, Worlds \ H, 3)
<1>1. PICK e \in Forms : Spells(e.form, t) /\ e.holds = H /\ e.prec = 3
  BY DEF Made
<1>2. e.form \in Seq(Part)
  BY FormParts
<1>3. "not" \in Symbols
  BY DEF Symbols
<1>4. Spells(<<Mark("not")>>, <<Sym("not")>>)
  BY <1>3, SymSpells, Zenon
<1>5. Spells((<<Mark("not")>> \o e.form), (<<Sym("not")>> \o t))
  BY <1>1, <1>4, SpellsAfter, Zenon
<1>6. Spells(Negated(e.form), <<Sym("not")>> \o t)
  BY <1>2, <1>5, NegatedSpells, Zenon
<1>7. NegatedForm(e) \in Forms
  BY <1>1, BuiltForms
<1>8. NegatedForm(e).form = Negated(e.form) /\ NegatedForm(e).holds = Worlds \ H /\ NegatedForm(e).prec = 3
  BY <1>1, FormFields
<1>9. Worlds \ H \in SUBSET Worlds /\ 3 \in 1..3
  OBVIOUS
<1>10. <<Sym("not")>> \o t \in Seq(Lexeme)
  BY <1>6, Zenon DEF Spells
<1>11. PICK f \in Forms : f.form = Negated(e.form) /\ f.holds = Worlds \ H /\ f.prec = 3
  BY <1>7, <1>8, Zenon
<1>12. QED
  BY <1>6, <1>9, <1>10, <1>11, Zenon DEF Made

LEMMA InfixSpells ==
  ASSUME NEW l, NEW r, NEW s \in Infix, NEW t, NEW u, Spells(l, t), Spells(r, u)
  PROVE  Spells(Join(l, s, r), t \o <<Sym(s)>> \o u) /\ t \o <<Sym(s)>> \o u \in Seq(Lexeme)
<1>1. l \in Seq(Part) /\ r \in Seq(Part)
  BY DEF Spells
<1>2. s \in Symbols
  BY DEF Infix, Symbols
<1>3. Spells(<<Mark(s)>>, <<Sym(s)>>)
  BY <1>2, SymSpells, Zenon
<1>4. Spells(l \o <<Mark(s)>>, t \o <<Sym(s)>>)
  BY <1>3, SpellsAfter, Zenon
<1>5. Spells((l \o <<Mark(s)>>) \o r, (t \o <<Sym(s)>>) \o u)
  BY <1>4, SpellsAfter, Zenon
<1>6. Spells(Join(l, s, r), t \o <<Sym(s)>> \o u)
  BY <1>1, <1>2, <1>5, JoinSpells, Zenon
<1>7. QED
  BY <1>6, Zenon DEF Spells

LEMMA OrMade ==
  ASSUME NEW t, NEW H, NEW n, Made(t, H, n), NEW u, NEW I, NEW m, Made(u, I, m)
  PROVE  Made(t \o <<Sym("or")>> \o u, H \cup I, 1)
<1>1. PICK d \in Forms : Spells(d.form, t) /\ d.holds = H /\ d.prec = n
  BY DEF Made
<1>2. PICK e \in Forms : Spells(e.form, u) /\ e.holds = I /\ e.prec = m
  BY DEF Made
<1>3. "or" \in Infix
  BY DEF Infix
<1>4. Spells(Join(d.form, "or", e.form), t \o <<Sym("or")>> \o u) /\ t \o <<Sym("or")>> \o u \in Seq(Lexeme)
  BY <1>1, <1>2, <1>3, InfixSpells, Zenon
<1>5. PICK f : f = OrForm(d, e)
  OBVIOUS
<1>6. f \in Forms /\ f.form = Join(d.form, "or", e.form) /\ f.holds = d.holds \cup e.holds /\ f.prec = 1
  BY <1>5, OrIs
<1>7. H \cup I \in SUBSET Worlds /\ 1 \in 1..3
  BY DEF Made
<1>8. QED
  BY <1>1, <1>2, <1>4, <1>6, <1>7 DEF Made

LEMMA AndMade ==
  ASSUME NEW t, NEW H, NEW n, Made(t, H, n), NEW u, NEW I, NEW m, Made(u, I, m), n >= 2, m >= 2
  PROVE  Made(t \o <<Sym("and")>> \o u, H \cap I, 2)
<1>1. PICK d \in Forms : Spells(d.form, t) /\ d.holds = H /\ d.prec = n
  BY DEF Made
<1>2. PICK e \in Forms : Spells(e.form, u) /\ e.holds = I /\ e.prec = m
  BY DEF Made
<1>3. "and" \in Infix
  BY DEF Infix
<1>4. Spells(Join(d.form, "and", e.form), t \o <<Sym("and")>> \o u) /\ t \o <<Sym("and")>> \o u \in Seq(Lexeme)
  BY <1>1, <1>2, <1>3, InfixSpells, Zenon
<1>5. PICK f : f = AndForm(d, e)
  OBVIOUS
<1>6. f \in Forms /\ f.form = Join(d.form, "and", e.form) /\ f.holds = d.holds \cap e.holds /\ f.prec = 2
  BY <1>1, <1>2, <1>5, AndIs
<1>7. H \cap I \in SUBSET Worlds /\ 2 \in 1..3
  BY DEF Made
<1>8. QED
  BY <1>1, <1>2, <1>4, <1>6, <1>7 DEF Made

(***************************************************************************)
(* What the grammar of CsrParse has is spelled by forms.                   *)
(***************************************************************************)
LEMMA GrammarSpelled == \A p \in Grammar : Spelled(p)
<1> DEFINE G == {p \in Printed : Spelled(p)}
<1>1. G \in SUBSET Printed
  OBVIOUS
<1>2. \A c \in DOMAIN Clause : Lit(c) \in G
  <2> SUFFICES ASSUME NEW c \in DOMAIN Clause
               PROVE  Lit(c) \in Printed /\ Spelled(Lit(c))
    OBVIOUS
  <2>1. Made(Text(c), {V \in Worlds : c \in V}, 3)
    BY LitMade
  <2>2. QED
    BY <2>1, MadeSpelled, Zenon DEF Lit
<1>3. ASSUME NEW p \in G
      PROVE  Bracket(p) \in G
  <2>1. Made(p.toks, p.holds, p.prec)
    BY MadeIs
  <2>2. Made(<<Sym("(")>> \o p.toks \o <<Sym(")")>>, p.holds, 3)
    BY <2>1, BracketMade, Zenon
  <2>3. Bracket(p) \in Printed /\ Spelled(Bracket(p))
    BY <2>2, MadeSpelled, Zenon DEF Bracket
  <2>4. QED
    BY <2>3
<1>4. ASSUME NEW p \in G, p.prec = 3
      PROVE  Not(p) \in G
  <2>1. Made(p.toks, p.holds, 3)
    BY <1>4, MadeIs
  <2>2. Made(<<Sym("not")>> \o p.toks, Worlds \ p.holds, 3)
    BY <2>1, NotMade, Zenon
  <2>3. Not(p) \in Printed /\ Spelled(Not(p))
    BY <2>2, MadeSpelled, Zenon DEF Not
  <2>4. QED
    BY <2>3
<1>5. ASSUME NEW p \in G, NEW q \in G
      PROVE  Or(p, q) \in G
  <2>1. Made(p.toks, p.holds, p.prec) /\ Made(q.toks, q.holds, q.prec)
    BY MadeIs
  <2>2. Made(p.toks \o <<Sym("or")>> \o q.toks, p.holds \cup q.holds, 1)
    BY <2>1, OrMade, Zenon
  <2>3. Or(p, q) \in Printed /\ Spelled(Or(p, q))
    BY <2>2, MadeSpelled, Zenon DEF Or
  <2>4. QED
    BY <2>3
<1>6. ASSUME NEW p \in G, NEW q \in G, p.prec >= 2, q.prec >= 2
      PROVE  And(p, q) \in G
  <2>1. Made(p.toks, p.holds, p.prec) /\ Made(q.toks, q.holds, q.prec)
    BY MadeIs
  <2>2. Made(p.toks \o <<Sym("and")>> \o q.toks, p.holds \cap q.holds, 2)
    BY <1>6, <2>1, AndMade, Zenon
  <2>3. And(p, q) \in Printed /\ Spelled(And(p, q))
    BY <2>2, MadeSpelled, Zenon DEF And
  <2>4. QED
    BY <2>3
<1> HIDE DEF G
<1>7. Closed(G)
  BY <1>2, <1>3, <1>4, <1>5, <1>6, Zenon DEF Closed
<1>8. \A p \in Grammar : p \in G
  BY <1>1, <1>7 DEF Grammar
<1>9. QED
  BY <1>8 DEF G

-----------------------------------------------------------------------------
(***************************************************************************)
(* Counting tokens.                                                        *)
(***************************************************************************)
LEMMA CountStep ==
  ASSUME NEW t, NEW i \in Nat \ {0}, NEW s
  PROVE  /\ Count(t, i, s) \in Nat
         /\ t[i].sym = s => Count(t, i + 1, s) = Count(t, i, s) + 1
         /\ t[i].sym # s => Count(t, i + 1, s) = Count(t, i, s)
<1> DEFINE C(n) == {j \in 1..(n - 1) : t[j].sym = s}
<1>1. IsFiniteSet(1..(i - 1))
  BY FS_Interval
<1>2. IsFiniteSet(C(i))
  <2>1. C(i) \subseteq 1..(i - 1)
    OBVIOUS
  <2>2. QED
    BY <1>1, <2>1, FS_Subset
<1>3. Cardinality(C(i)) \in Nat
  BY <1>2, FS_CardinalityType
<1>4. ASSUME t[i].sym = s
      PROVE  C(i + 1) = C(i) \cup {i} /\ i \notin C(i)
  BY <1>4
<1>5. ASSUME t[i].sym # s
      PROVE  C(i + 1) = C(i)
  BY <1>5
<1>6. t[i].sym = s => Cardinality(C(i + 1)) = Cardinality(C(i)) + 1
  BY <1>2, <1>4, FS_AddElement
<1>7. t[i].sym # s => Cardinality(C(i + 1)) = Cardinality(C(i))
  BY <1>5
<1>8. QED
  BY <1>3, <1>6, <1>7 DEF Count

LEMMA CountFirst == \A t, s : Count(t, 1, s) = 0
<1> SUFFICES ASSUME NEW t, NEW s
             PROVE  Count(t, 1, s) = 0
  OBVIOUS
<1>1. {j \in 1..(1 - 1) : t[j].sym = s} = {}
  OBVIOUS
<1>2. QED
  BY <1>1, FS_EmptySet DEF Count

LEMMA CountGrows ==
  ASSUME NEW t, NEW s, NEW i \in Nat \ {0}, NEW k \in Nat \ {0}, i <= k
  PROVE  Count(t, i, s) <= Count(t, k, s)
<1> DEFINE C(n) == {j \in 1..(n - 1) : t[j].sym = s}
<1>1. IsFiniteSet(1..(k - 1))
  BY FS_Interval
<1>2. C(k) \subseteq 1..(k - 1) /\ C(i) \subseteq C(k)
  OBVIOUS
<1>3. IsFiniteSet(C(k))
  BY <1>1, <1>2, FS_Subset
<1>4. Cardinality(C(i)) <= Cardinality(C(k))
  BY <1>2, <1>3, FS_Subset
<1>5. QED
  BY <1>4 DEF Count

LEMMA DepthStep ==
  ASSUME NEW t, NEW i \in Nat \ {0}
  PROVE  /\ DepthAt(t, i) \in Int
         /\ t[i].sym = "(" => DepthAt(t, i + 1) = DepthAt(t, i) + 1
         /\ t[i].sym = ")" => DepthAt(t, i + 1) = DepthAt(t, i) - 1
         /\ t[i].sym \notin {"(", ")"} => DepthAt(t, i + 1) = DepthAt(t, i)
<1>1. PICK a, b, c, d : a = Count(t, i, "(") /\ b = Count(t, i, ")") /\ c = Count(t, i + 1, "(") /\ d = Count(t, i + 1, ")")
  OBVIOUS
<1>2. a \in Nat /\ (t[i].sym = "(" => c = a + 1) /\ (t[i].sym # "(" => c = a)
  BY <1>1, CountStep
<1>3. b \in Nat /\ (t[i].sym = ")" => d = b + 1) /\ (t[i].sym # ")" => d = b)
  BY <1>1, CountStep
<1>4. DepthAt(t, i) = a - b /\ DepthAt(t, i + 1) = c - d
  BY <1>1 DEF DepthAt
<1>5. QED
  BY <1>2, <1>3, <1>4

LEMMA DepthFirst == \A t : DepthAt(t, 1) = 0
  BY CountFirst DEF DepthAt

\* The depths of the clauses, found by the number of clauses before them.
LEMMA ClauseDepthsAt ==
  ASSUME NEW t \in Seq(Lexeme)
  PROVE  /\ Len(ClauseDepths(t)) = Count(t, Len(t) + 1, "==") /\ Len(ClauseDepths(t)) \in Nat
         /\ ClauseDepths(t) = <<>> => Len(ClauseDepths(t)) = 0
         /\ \A i \in 1..Len(t) : t[i].sym = "==" =>
              /\ Count(t, i, "==") + 1 \in 1..Len(ClauseDepths(t))
              /\ ClauseDepths(t)[Count(t, i, "==") + 1] = DepthAt(t, i)
<1>1. PICK n : n = Len(t)
  OBVIOUS
<1>2. n \in Nat /\ n + 1 \in Nat \ {0} /\ DOMAIN t = 1..n
  BY <1>1
<1>3. PICK k : k = Count(t, n + 1, "==")
  OBVIOUS
<1>4. k \in Nat
  BY <1>2, <1>3, CountStep
<1>5. PICK f : f = ClauseDepths(t)
  OBVIOUS
<1> DEFINE Found(g) == CHOOSE i \in DOMAIN t : t[i].sym = "==" /\ Count(t, i, "==") = g - 1
<1>6. f = [g \in 1..k |-> DepthAt(t, Found(g))]
  BY <1>1, <1>3, <1>5, Zenon DEF ClauseDepths
<1>7. Len(f) = k
  <2>1. DOMAIN f = 1..k
    BY <1>6
  <2> DEFINE S == {f[g] : g \in 1..k}
  <2>2. \A g \in 1..k : f[g] \in S
    OBVIOUS
  <2>3. f = [g \in 1..k |-> f[g]]
    <3> HIDE DEF Found
    <3>1. QED
      BY <1>6
  <2> HIDE DEF S
  <2>4. f \in [1..k -> S]
    BY <2>2, <2>3, Zenon
  <2>5. f \in Seq(S)
    BY <1>4, <2>4
  <2>6. QED
    BY <1>4, <2>1, <2>5
<1>8. ASSUME NEW i \in 1..n, t[i].sym = "=="
      PROVE  Count(t, i, "==") + 1 \in 1..k /\ f[Count(t, i, "==") + 1] = DepthAt(t, i)
  <2>1. i \in Nat \ {0} /\ i + 1 \in Nat \ {0} /\ i + 1 <= n + 1
    BY <1>2
  <2>2. PICK c : c = Count(t, i, "==")
    OBVIOUS
  <2>3. c \in Nat /\ Count(t, i + 1, "==") = c + 1
    BY <2>1, <2>2, <1>8, CountStep
  <2>4. c + 1 <= k
    BY <2>1, <2>3, <1>2, <1>3, CountGrows
  <2>5. c + 1 \in 1..k /\ (c + 1) - 1 = c
    BY <2>3, <2>4, <1>4
  <2>6. i \in DOMAIN t /\ t[i].sym = "==" /\ Count(t, i, "==") = (c + 1) - 1
    BY <1>2, <1>8, <2>2, <2>5
  <2>7. PICK h : h = Found(c + 1)
    OBVIOUS
  <2>8. h \in DOMAIN t /\ t[h].sym = "==" /\ Count(t, h, "==") = (c + 1) - 1
    BY <2>6, <2>7, Zenon
  <2>9. h \in Nat \ {0} /\ h + 1 \in Nat \ {0} /\ Count(t, h, "==") = c
    BY <1>2, <2>5, <2>8
  <2>10. Count(t, h + 1, "==") = c + 1
    BY <2>8, <2>9, CountStep
  <2>11. ~ (h + 1 <= i)
    <3>1. h + 1 <= i => Count(t, h + 1, "==") <= Count(t, i, "==")
      BY <2>1, <2>9, CountGrows
    <3>2. QED
      BY <3>1, <2>2, <2>3, <2>10
  <2>12. ~ (i + 1 <= h)
    <3>1. i + 1 <= h => Count(t, i + 1, "==") <= Count(t, h, "==")
      BY <2>1, <2>9, CountGrows
    <3>2. QED
      BY <3>1, <2>3, <2>9
  <2>13. h = i
    BY <2>1, <2>9, <2>11, <2>12
  <2>14. f[c + 1] = DepthAt(t, h)
    BY <1>6, <2>5, <2>7
  <2>15. QED
    BY <2>2, <2>5, <2>13, <2>14
<1>9. f = <<>> => Len(f) = 0
  OBVIOUS
<1>10. QED
  BY <1>1, <1>3, <1>4, <1>5, <1>7, <1>8, <1>9

-----------------------------------------------------------------------------
(***************************************************************************)
(* The tokens of a clause: its brackets are closed before the "==".        *)
(***************************************************************************)
Place(t, i, D, E) ==
  /\ DepthAt(t, i) \in Int /\ Count(t, i, "==") = E
  /\ t[i].sym \in {"(", ")", "text", "=="}
  /\ t[i].sym = "(" => DepthAt(t, i) >= D
  /\ t[i].sym = ")" => DepthAt(t, i) > D
ClauseTokens(t, A, n) ==
  /\ n \in Nat /\ n >= 2 /\ t[A + n].sym = "==" /\ t[A + 1].sym # ")"
  /\ \A i \in (A + 1)..(A + n) : Place(t, i, DepthAt(t, A + 1), Count(t, A + 1, "=="))
  /\ Count(t, A + n + 1, "==") = Count(t, A + 1, "==") + 1
  /\ DepthAt(t, A + n) = DepthAt(t, A + 1) /\ DepthAt(t, A + n + 1) = DepthAt(t, A + 1)

LEMMA LexemeSyms == \A c : Word(c).sym = "text" /\ End(c).sym = "==" /\ Sym(c).sym = c
  BY DEF Word, End, Sym

LEMMA ShortTokens ==
  ASSUME NEW t, NEW A \in Nat, NEW c, NEW u, Short(u, c), \A j \in 1..2 : t[A + j] = u[j]
  PROVE  ClauseTokens(t, A, 2)
<1>1. PICK D, E : D = DepthAt(t, A + 1) /\ E = Count(t, A + 1, "==")
  OBVIOUS
<1>2. A + 1 \in Nat \ {0}
  OBVIOUS
<1>3. D \in Int /\ E \in Nat
  BY <1>1, <1>2, DepthStep, CountStep
<1>4. 1 \in 1..2 /\ 2 \in 1..2
  OBVIOUS
<1>5. t[A + 1] = u[1] /\ t[A + 2] = u[2]
  BY <1>4
<1>6. t[A + 1].sym = "text" /\ t[A + 2].sym = "=="
  BY <1>5, LexemeSyms DEF Short
<1>7. DepthAt(t, A + 1) = D + 0 /\ Count(t, A + 1, "==") = E
  BY <1>1, <1>3
<1>8. DepthAt(t, A + 2) = D + 0 /\ Count(t, A + 2, "==") = E
  <2>1. A + 1 \in Nat \ {0} /\ A + 1 + 1 = A + 2
    OBVIOUS
  <2>2. DepthAt(t, A + 1 + 1) = DepthAt(t, A + 1)
    BY <1>6, <2>1, DepthStep
  <2>3. Count(t, A + 1 + 1, "==") = Count(t, A + 1, "==")
    BY <1>6, <2>1, CountStep
  <2>4. DepthAt(t, A + 2) = D + 0
    BY ONLY <2>1, <2>2, <1>7, <1>3
  <2>5. Count(t, A + 2, "==") = E
    BY ONLY <2>1, <2>3, <1>7, <1>3
  <2>6. QED
    BY <2>4, <2>5
<1>9. DepthAt(t, A + 3) = D + 0 /\ Count(t, A + 3, "==") = E + 1
  <2>1. A + 2 \in Nat \ {0} /\ A + 2 + 1 = A + 3
    OBVIOUS
  <2>2. DepthAt(t, A + 2 + 1) = DepthAt(t, A + 2)
    BY <1>6, <2>1, DepthStep
  <2>3. Count(t, A + 2 + 1, "==") = Count(t, A + 2, "==") + 1
    BY <1>6, <2>1, CountStep
  <2>4. DepthAt(t, A + 3) = D + 0
    BY ONLY <2>1, <2>2, <1>8, <1>3
  <2>5. Count(t, A + 3, "==") = E + 1
    BY ONLY <2>1, <2>3, <1>8, <1>3
  <2>6. QED
    BY <2>4, <2>5
<1>10. Place(t, A + 1, D, E)
  BY <1>3, <1>6, <1>7 DEF Place
<1>11. Place(t, A + 2, D, E)
  BY <1>3, <1>6, <1>8 DEF Place
<1>12. \A i \in (A + 1)..(A + 2) : i = A + 1 \/ i = A + 2
  OBVIOUS
<1>13. \A i \in (A + 1)..(A + 2) : Place(t, i, D, E)
  BY ONLY <1>10, <1>11, <1>12, Zenon
<1>14. A + 2 + 1 = A + 3 /\ D + 0 = D
  BY <1>3
<1>15. QED
  BY <1>1, <1>6, <1>8, <1>9, <1>13, <1>14 DEF ClauseTokens

LEMMA PlainTokens ==
  ASSUME NEW t, NEW A \in Nat, NEW c, NEW u, Plain(u, c), \A j \in 1..5 : t[A + j] = u[j]
  PROVE  ClauseTokens(t, A, 5)
<1>1. PICK D, E : D = DepthAt(t, A + 1) /\ E = Count(t, A + 1, "==")
  OBVIOUS
<1>2. A + 1 \in Nat \ {0}
  OBVIOUS
<1>3. D \in Int /\ E \in Nat
  BY <1>1, <1>2, DepthStep, CountStep
<1>4. 1 \in 1..5 /\ 2 \in 1..5 /\ 3 \in 1..5 /\ 4 \in 1..5 /\ 5 \in 1..5
  OBVIOUS
<1>5. t[A + 1] = u[1] /\ t[A + 2] = u[2] /\ t[A + 3] = u[3] /\ t[A + 4] = u[4] /\ t[A + 5] = u[5]
  BY <1>4
<1>6. t[A + 1].sym = "text" /\ t[A + 2].sym = "(" /\ t[A + 3].sym = "text" /\ t[A + 4].sym = ")" /\ t[A + 5].sym = "=="
  BY <1>5, LexemeSyms DEF Plain
<1>7. DepthAt(t, A + 1) = D + 0 /\ Count(t, A + 1, "==") = E
  BY <1>1, <1>3
<1>8. DepthAt(t, A + 2) = D + 0 /\ Count(t, A + 2, "==") = E
  <2>1. A + 1 \in Nat \ {0} /\ A + 1 + 1 = A + 2
    OBVIOUS
  <2>2. DepthAt(t, A + 1 + 1) = DepthAt(t, A + 1)
    BY <1>6, <2>1, DepthStep
  <2>3. Count(t, A + 1 + 1, "==") = Count(t, A + 1, "==")
    BY <1>6, <2>1, CountStep
  <2>4. DepthAt(t, A + 2) = D + 0
    BY ONLY <2>1, <2>2, <1>7, <1>3
  <2>5. Count(t, A + 2, "==") = E
    BY ONLY <2>1, <2>3, <1>7, <1>3
  <2>6. QED
    BY <2>4, <2>5
<1>9. DepthAt(t, A + 3) = D + 1 /\ Count(t, A + 3, "==") = E
  <2>1. A + 2 \in Nat \ {0} /\ A + 2 + 1 = A + 3
    OBVIOUS
  <2>2. DepthAt(t, A + 2 + 1) = DepthAt(t, A + 2) + 1
    BY <1>6, <2>1, DepthStep
  <2>3. Count(t, A + 2 + 1, "==") = Count(t, A + 2, "==")
    BY <1>6, <2>1, CountStep
  <2>4. DepthAt(t, A + 3) = D + 1
    BY ONLY <2>1, <2>2, <1>8, <1>3
  <2>5. Count(t, A + 3, "==") = E
    BY ONLY <2>1, <2>3, <1>8, <1>3
  <2>6. QED
    BY <2>4, <2>5
<1>10. DepthAt(t, A + 4) = D + 1 /\ Count(t, A + 4, "==") = E
  <2>1. A + 3 \in Nat \ {0} /\ A + 3 + 1 = A + 4
    OBVIOUS
  <2>2. DepthAt(t, A + 3 + 1) = DepthAt(t, A + 3)
    BY <1>6, <2>1, DepthStep
  <2>3. Count(t, A + 3 + 1, "==") = Count(t, A + 3, "==")
    BY <1>6, <2>1, CountStep
  <2>4. DepthAt(t, A + 4) = D + 1
    BY ONLY <2>1, <2>2, <1>9, <1>3
  <2>5. Count(t, A + 4, "==") = E
    BY ONLY <2>1, <2>3, <1>9, <1>3
  <2>6. QED
    BY <2>4, <2>5
<1>11. DepthAt(t, A + 5) = D + 0 /\ Count(t, A + 5, "==") = E
  <2>1. A + 4 \in Nat \ {0} /\ A + 4 + 1 = A + 5
    OBVIOUS
  <2>2. DepthAt(t, A + 4 + 1) = DepthAt(t, A + 4) - 1
    BY <1>6, <2>1, DepthStep
  <2>3. Count(t, A + 4 + 1, "==") = Count(t, A + 4, "==")
    BY <1>6, <2>1, CountStep
  <2>4. DepthAt(t, A + 5) = D + 0
    BY ONLY <2>1, <2>2, <1>10, <1>3
  <2>5. Count(t, A + 5, "==") = E
    BY ONLY <2>1, <2>3, <1>10, <1>3
  <2>6. QED
    BY <2>4, <2>5
<1>12. DepthAt(t, A + 6) = D + 0 /\ Count(t, A + 6, "==") = E + 1
  <2>1. A + 5 \in Nat \ {0} /\ A + 5 + 1 = A + 6
    OBVIOUS
  <2>2. DepthAt(t, A + 5 + 1) = DepthAt(t, A + 5)
    BY <1>6, <2>1, DepthStep
  <2>3. Count(t, A + 5 + 1, "==") = Count(t, A + 5, "==") + 1
    BY <1>6, <2>1, CountStep
  <2>4. DepthAt(t, A + 6) = D + 0
    BY ONLY <2>1, <2>2, <1>11, <1>3
  <2>5. Count(t, A + 6, "==") = E + 1
    BY ONLY <2>1, <2>3, <1>11, <1>3
  <2>6. QED
    BY <2>4, <2>5
<1>13. Place(t, A + 1, D, E)
  BY <1>3, <1>6, <1>7 DEF Place
<1>14. Place(t, A + 2, D, E)
  BY <1>3, <1>6, <1>8 DEF Place
<1>15. Place(t, A + 3, D, E)
  BY <1>3, <1>6, <1>9 DEF Place
<1>16. Place(t, A + 4, D, E)
  BY <1>3, <1>6, <1>10 DEF Place
<1>17. Place(t, A + 5, D, E)
  BY <1>3, <1>6, <1>11 DEF Place
<1>18. \A i \in (A + 1)..(A + 5) : i = A + 1 \/ i = A + 2 \/ i = A + 3 \/ i = A + 4 \/ i = A + 5
  OBVIOUS
<1>19. \A i \in (A + 1)..(A + 5) : Place(t, i, D, E)
  BY ONLY <1>13, <1>14, <1>15, <1>16, <1>17, <1>18, Zenon
<1>20. A + 5 + 1 = A + 6 /\ D + 0 = D
  BY <1>3
<1>21. QED
  BY <1>1, <1>6, <1>11, <1>12, <1>19, <1>20 DEF ClauseTokens

LEMMA MovedTokens ==
  ASSUME NEW t, NEW A \in Nat, NEW c, NEW u, Moved(u, c), \A j \in 1..4 : t[A + j] = u[j]
  PROVE  ClauseTokens(t, A, 4)
<1>1. PICK D, E : D = DepthAt(t, A + 1) /\ E = Count(t, A + 1, "==")
  OBVIOUS
<1>2. A + 1 \in Nat \ {0}
  OBVIOUS
<1>3. D \in Int /\ E \in Nat
  BY <1>1, <1>2, DepthStep, CountStep
<1>4. 1 \in 1..4 /\ 2 \in 1..4 /\ 3 \in 1..4 /\ 4 \in 1..4
  OBVIOUS
<1>5. t[A + 1] = u[1] /\ t[A + 2] = u[2] /\ t[A + 3] = u[3] /\ t[A + 4] = u[4]
  BY <1>4
<1>6. t[A + 1].sym = "(" /\ t[A + 2].sym = "text" /\ t[A + 3].sym = ")" /\ t[A + 4].sym = "=="
  BY <1>5, LexemeSyms DEF Moved
<1>7. DepthAt(t, A + 1) = D + 0 /\ Count(t, A + 1, "==") = E
  BY <1>1, <1>3
<1>8. DepthAt(t, A + 2) = D + 1 /\ Count(t, A + 2, "==") = E
  <2>1. A + 1 \in Nat \ {0} /\ A + 1 + 1 = A + 2
    OBVIOUS
  <2>2. DepthAt(t, A + 1 + 1) = DepthAt(t, A + 1) + 1
    BY <1>6, <2>1, DepthStep
  <2>3. Count(t, A + 1 + 1, "==") = Count(t, A + 1, "==")
    BY <1>6, <2>1, CountStep
  <2>4. DepthAt(t, A + 2) = D + 1
    BY ONLY <2>1, <2>2, <1>7, <1>3
  <2>5. Count(t, A + 2, "==") = E
    BY ONLY <2>1, <2>3, <1>7, <1>3
  <2>6. QED
    BY <2>4, <2>5
<1>9. DepthAt(t, A + 3) = D + 1 /\ Count(t, A + 3, "==") = E
  <2>1. A + 2 \in Nat \ {0} /\ A + 2 + 1 = A + 3
    OBVIOUS
  <2>2. DepthAt(t, A + 2 + 1) = DepthAt(t, A + 2)
    BY <1>6, <2>1, DepthStep
  <2>3. Count(t, A + 2 + 1, "==") = Count(t, A + 2, "==")
    BY <1>6, <2>1, CountStep
  <2>4. DepthAt(t, A + 3) = D + 1
    BY ONLY <2>1, <2>2, <1>8, <1>3
  <2>5. Count(t, A + 3, "==") = E
    BY ONLY <2>1, <2>3, <1>8, <1>3
  <2>6. QED
    BY <2>4, <2>5
<1>10. DepthAt(t, A + 4) = D + 0 /\ Count(t, A + 4, "==") = E
  <2>1. A + 3 \in Nat \ {0} /\ A + 3 + 1 = A + 4
    OBVIOUS
  <2>2. DepthAt(t, A + 3 + 1) = DepthAt(t, A + 3) - 1
    BY <1>6, <2>1, DepthStep
  <2>3. Count(t, A + 3 + 1, "==") = Count(t, A + 3, "==")
    BY <1>6, <2>1, CountStep
  <2>4. DepthAt(t, A + 4) = D + 0
    BY ONLY <2>1, <2>2, <1>9, <1>3
  <2>5. Count(t, A + 4, "==") = E
    BY ONLY <2>1, <2>3, <1>9, <1>3
  <2>6. QED
    BY <2>4, <2>5
<1>11. DepthAt(t, A + 5) = D + 0 /\ Count(t, A + 5, "==") = E + 1
  <2>1. A + 4 \in Nat \ {0} /\ A + 4 + 1 = A + 5
    OBVIOUS
  <2>2. DepthAt(t, A + 4 + 1) = DepthAt(t, A + 4)
    BY <1>6, <2>1, DepthStep
  <2>3. Count(t, A + 4 + 1, "==") = Count(t, A + 4, "==") + 1
    BY <1>6, <2>1, CountStep
  <2>4. DepthAt(t, A + 5) = D + 0
    BY ONLY <2>1, <2>2, <1>10, <1>3
  <2>5. Count(t, A + 5, "==") = E + 1
    BY ONLY <2>1, <2>3, <1>10, <1>3
  <2>6. QED
    BY <2>4, <2>5
<1>12. Place(t, A + 1, D, E)
  BY <1>3, <1>6, <1>7 DEF Place
<1>13. Place(t, A + 2, D, E)
  BY <1>3, <1>6, <1>8 DEF Place
<1>14. Place(t, A + 3, D, E)
  BY <1>3, <1>6, <1>9 DEF Place
<1>15. Place(t, A + 4, D, E)
  BY <1>3, <1>6, <1>10 DEF Place
<1>16. \A i \in (A + 1)..(A + 4) : i = A + 1 \/ i = A + 2 \/ i = A + 3 \/ i = A + 4
  OBVIOUS
<1>17. \A i \in (A + 1)..(A + 4) : Place(t, i, D, E)
  BY ONLY <1>12, <1>13, <1>14, <1>15, <1>16, Zenon
<1>18. A + 4 + 1 = A + 5 /\ D + 0 = D
  BY <1>3
<1>19. QED
  BY <1>1, <1>6, <1>10, <1>11, <1>17, <1>18 DEF ClauseTokens

LEMMA LongestTokens ==
  ASSUME NEW t, NEW A \in Nat, NEW c, NEW u, Longest(u, c), \A j \in 1..7 : t[A + j] = u[j]
  PROVE  ClauseTokens(t, A, 7)
<1>1. PICK D, E : D = DepthAt(t, A + 1) /\ E = Count(t, A + 1, "==")
  OBVIOUS
<1>2. A + 1 \in Nat \ {0}
  OBVIOUS
<1>3. D \in Int /\ E \in Nat
  BY <1>1, <1>2, DepthStep, CountStep
<1>4. 1 \in 1..7 /\ 2 \in 1..7 /\ 3 \in 1..7 /\ 4 \in 1..7 /\ 5 \in 1..7 /\ 6 \in 1..7 /\ 7 \in 1..7
  OBVIOUS
<1>5. t[A + 1] = u[1] /\ t[A + 2] = u[2] /\ t[A + 3] = u[3] /\ t[A + 4] = u[4] /\ t[A + 5] = u[5] /\ t[A + 6] = u[6] /\ t[A + 7] = u[7]
  BY <1>4
<1>6. t[A + 1].sym = "(" /\ t[A + 2].sym = "text" /\ t[A + 3].sym = "(" /\ t[A + 4].sym = "text" /\ t[A + 5].sym = ")" /\ t[A + 6].sym = ")" /\ t[A + 7].sym = "=="
  BY <1>5, LexemeSyms DEF Longest
<1>7. DepthAt(t, A + 1) = D + 0 /\ Count(t, A + 1, "==") = E
  BY <1>1, <1>3
<1>8. DepthAt(t, A + 2) = D + 1 /\ Count(t, A + 2, "==") = E
  <2>1. A + 1 \in Nat \ {0} /\ A + 1 + 1 = A + 2
    OBVIOUS
  <2>2. DepthAt(t, A + 1 + 1) = DepthAt(t, A + 1) + 1
    BY <1>6, <2>1, DepthStep
  <2>3. Count(t, A + 1 + 1, "==") = Count(t, A + 1, "==")
    BY <1>6, <2>1, CountStep
  <2>4. DepthAt(t, A + 2) = D + 1
    BY ONLY <2>1, <2>2, <1>7, <1>3
  <2>5. Count(t, A + 2, "==") = E
    BY ONLY <2>1, <2>3, <1>7, <1>3
  <2>6. QED
    BY <2>4, <2>5
<1>9. DepthAt(t, A + 3) = D + 1 /\ Count(t, A + 3, "==") = E
  <2>1. A + 2 \in Nat \ {0} /\ A + 2 + 1 = A + 3
    OBVIOUS
  <2>2. DepthAt(t, A + 2 + 1) = DepthAt(t, A + 2)
    BY <1>6, <2>1, DepthStep
  <2>3. Count(t, A + 2 + 1, "==") = Count(t, A + 2, "==")
    BY <1>6, <2>1, CountStep
  <2>4. DepthAt(t, A + 3) = D + 1
    BY ONLY <2>1, <2>2, <1>8, <1>3
  <2>5. Count(t, A + 3, "==") = E
    BY ONLY <2>1, <2>3, <1>8, <1>3
  <2>6. QED
    BY <2>4, <2>5
<1>10. DepthAt(t, A + 4) = D + 2 /\ Count(t, A + 4, "==") = E
  <2>1. A + 3 \in Nat \ {0} /\ A + 3 + 1 = A + 4
    OBVIOUS
  <2>2. DepthAt(t, A + 3 + 1) = DepthAt(t, A + 3) + 1
    BY <1>6, <2>1, DepthStep
  <2>3. Count(t, A + 3 + 1, "==") = Count(t, A + 3, "==")
    BY <1>6, <2>1, CountStep
  <2>4. DepthAt(t, A + 4) = D + 2
    BY ONLY <2>1, <2>2, <1>9, <1>3
  <2>5. Count(t, A + 4, "==") = E
    BY ONLY <2>1, <2>3, <1>9, <1>3
  <2>6. QED
    BY <2>4, <2>5
<1>11. DepthAt(t, A + 5) = D + 2 /\ Count(t, A + 5, "==") = E
  <2>1. A + 4 \in Nat \ {0} /\ A + 4 + 1 = A + 5
    OBVIOUS
  <2>2. DepthAt(t, A + 4 + 1) = DepthAt(t, A + 4)
    BY <1>6, <2>1, DepthStep
  <2>3. Count(t, A + 4 + 1, "==") = Count(t, A + 4, "==")
    BY <1>6, <2>1, CountStep
  <2>4. DepthAt(t, A + 5) = D + 2
    BY ONLY <2>1, <2>2, <1>10, <1>3
  <2>5. Count(t, A + 5, "==") = E
    BY ONLY <2>1, <2>3, <1>10, <1>3
  <2>6. QED
    BY <2>4, <2>5
<1>12. DepthAt(t, A + 6) = D + 1 /\ Count(t, A + 6, "==") = E
  <2>1. A + 5 \in Nat \ {0} /\ A + 5 + 1 = A + 6
    OBVIOUS
  <2>2. DepthAt(t, A + 5 + 1) = DepthAt(t, A + 5) - 1
    BY <1>6, <2>1, DepthStep
  <2>3. Count(t, A + 5 + 1, "==") = Count(t, A + 5, "==")
    BY <1>6, <2>1, CountStep
  <2>4. DepthAt(t, A + 6) = D + 1
    BY ONLY <2>1, <2>2, <1>11, <1>3
  <2>5. Count(t, A + 6, "==") = E
    BY ONLY <2>1, <2>3, <1>11, <1>3
  <2>6. QED
    BY <2>4, <2>5
<1>13. DepthAt(t, A + 7) = D + 0 /\ Count(t, A + 7, "==") = E
  <2>1. A + 6 \in Nat \ {0} /\ A + 6 + 1 = A + 7
    OBVIOUS
  <2>2. DepthAt(t, A + 6 + 1) = DepthAt(t, A + 6) - 1
    BY <1>6, <2>1, DepthStep
  <2>3. Count(t, A + 6 + 1, "==") = Count(t, A + 6, "==")
    BY <1>6, <2>1, CountStep
  <2>4. DepthAt(t, A + 7) = D + 0
    BY ONLY <2>1, <2>2, <1>12, <1>3
  <2>5. Count(t, A + 7, "==") = E
    BY ONLY <2>1, <2>3, <1>12, <1>3
  <2>6. QED
    BY <2>4, <2>5
<1>14. DepthAt(t, A + 8) = D + 0 /\ Count(t, A + 8, "==") = E + 1
  <2>1. A + 7 \in Nat \ {0} /\ A + 7 + 1 = A + 8
    OBVIOUS
  <2>2. DepthAt(t, A + 7 + 1) = DepthAt(t, A + 7)
    BY <1>6, <2>1, DepthStep
  <2>3. Count(t, A + 7 + 1, "==") = Count(t, A + 7, "==") + 1
    BY <1>6, <2>1, CountStep
  <2>4. DepthAt(t, A + 8) = D + 0
    BY ONLY <2>1, <2>2, <1>13, <1>3
  <2>5. Count(t, A + 8, "==") = E + 1
    BY ONLY <2>1, <2>3, <1>13, <1>3
  <2>6. QED
    BY <2>4, <2>5
<1>15. Place(t, A + 1, D, E)
  BY <1>3, <1>6, <1>7 DEF Place
<1>16. Place(t, A + 2, D, E)
  BY <1>3, <1>6, <1>8 DEF Place
<1>17. Place(t, A + 3, D, E)
  BY <1>3, <1>6, <1>9 DEF Place
<1>18. Place(t, A + 4, D, E)
  BY <1>3, <1>6, <1>10 DEF Place
<1>19. Place(t, A + 5, D, E)
  BY <1>3, <1>6, <1>11 DEF Place
<1>20. Place(t, A + 6, D, E)
  BY <1>3, <1>6, <1>12 DEF Place
<1>21. Place(t, A + 7, D, E)
  BY <1>3, <1>6, <1>13 DEF Place
<1>22. \A i \in (A + 1)..(A + 7) : i = A + 1 \/ i = A + 2 \/ i = A + 3 \/ i = A + 4 \/ i = A + 5 \/ i = A + 6 \/ i = A + 7
  OBVIOUS
<1>23. \A i \in (A + 1)..(A + 7) : Place(t, i, D, E)
  BY ONLY <1>15, <1>16, <1>17, <1>18, <1>19, <1>20, <1>21, <1>22, Zenon
<1>24. A + 7 + 1 = A + 8 /\ D + 0 = D
  BY <1>3
<1>25. QED
  BY <1>1, <1>6, <1>13, <1>14, <1>23, <1>24 DEF ClauseTokens

LEMMA TokensOfClause ==
  ASSUME NEW t, NEW A \in Nat, NEW c \in DOMAIN Clause, \A j \in 1..Len(Text(c)) : t[A + j] = Text(c)[j]
  PROVE  ClauseTokens(t, A, Len(Text(c)))
<1>1. PICK u : u = Text(c)
  OBVIOUS
<1>2. Short(u, c) \/ Plain(u, c) \/ Moved(u, c) \/ Longest(u, c)
  BY <1>1, TextIs
<1>3. CASE Short(u, c)
  <2>1. Len(u) = 2
    BY <1>3 DEF Short
  <2>2. \A j \in 1..2 : t[A + j] = u[j]
    BY <1>1, <2>1
  <2>3. ClauseTokens(t, A, 2)
    BY <1>3, <2>2, ShortTokens
  <2>4. QED
    BY <1>1, <2>1, <2>3
<1>4. CASE Plain(u, c)
  <2>1. Len(u) = 5
    BY <1>4 DEF Plain
  <2>2. \A j \in 1..5 : t[A + j] = u[j]
    BY <1>1, <2>1
  <2>3. ClauseTokens(t, A, 5)
    BY <1>4, <2>2, PlainTokens
  <2>4. QED
    BY <1>1, <2>1, <2>3
<1>5. CASE Moved(u, c)
  <2>1. Len(u) = 4
    BY <1>5 DEF Moved
  <2>2. \A j \in 1..4 : t[A + j] = u[j]
    BY <1>1, <2>1
  <2>3. ClauseTokens(t, A, 4)
    BY <1>5, <2>2, MovedTokens
  <2>4. QED
    BY <1>1, <2>1, <2>3
<1>6. CASE Longest(u, c)
  <2>1. Len(u) = 7
    BY <1>6 DEF Longest
  <2>2. \A j \in 1..7 : t[A + j] = u[j]
    BY <1>1, <2>1
  <2>3. ClauseTokens(t, A, 7)
    BY <1>6, <2>2, LongestTokens
  <2>4. QED
    BY <1>1, <2>1, <2>3
<1>7. QED
  BY <1>2, <1>3, <1>4, <1>5, <1>6

-----------------------------------------------------------------------------
(***************************************************************************)
(* Items, one after another.                                               *)
(***************************************************************************)
Texted(its, base, t) == its \in Seq(Item) /\ t \in Seq(Lexeme) /\ Laid(its, base, t)

LEMMA RoleIs ==
  ASSUME NEW it \in Item
  PROVE  /\ it.sym = "clause" => ValueOf(it).sym = "value"
         /\ it.sym # "clause" => it.sym \in Symbols /\ ValueOf(it).sym = it.sym
<1>1. CASE it.sym = "clause"
  <2>1. PICK V : V = {X \in Worlds : it.of \in X}
    OBVIOUS
  <2>2. V \in SUBSET Worlds
    BY <2>1
  <2>3. ValueOf(it) = Value(V)
    BY <1>1, <2>1 DEF ValueOf
  <2>4. Value(V).sym = "value"
    BY <2>2, ValueIs
  <2>5. QED
    BY <1>1, <2>3, <2>4
<1>2. CASE it.sym # "clause"
  <2>1. it.sym \in Symbols
    BY <1>2 DEF Item
  <2>2. ValueOf(it) = Mark(it.sym)
    BY <1>2 DEF ValueOf
  <2>3. Mark(it.sym).sym = it.sym
    BY <2>1, MarkIs
  <2>4. QED
    BY <1>2, <2>1, <2>2, <2>3
<1>3. QED
  BY <1>1, <1>2

\* An item that is a symbol.
LEMMA SymItem ==
  ASSUME NEW its, NEW base, NEW t, Texted(its, base, t), NEW q \in 1..Len(its), its[q].sym # "clause"
  PROVE  LET i == base[q] + 1 IN
           /\ base[q] \in Nat /\ i \in 1..Len(t) /\ base[q + 1] = i /\ t[i] = Sym(its[q].sym)
           /\ t[i].sym = its[q].sym /\ its[q].sym \in Symbols
           /\ Count(t, i + 1, "==") = Count(t, i, "==")
           /\ its[q].sym = "(" => DepthAt(t, i + 1) = DepthAt(t, i) + 1
           /\ its[q].sym = ")" => DepthAt(t, i + 1) = DepthAt(t, i) - 1
           /\ its[q].sym \notin {"(", ")"} => DepthAt(t, i + 1) = DepthAt(t, i)
<1>1. its \in Seq(Item) /\ t \in Seq(Lexeme) /\ Laid(its, base, t)
  BY DEF Texted
<1>2. Len(its) \in Nat /\ its[q] \in Item /\ q \in 1..(Len(its) + 1) /\ q + 1 \in 1..(Len(its) + 1)
  BY <1>1
<1>3. /\ base[q] \in Nat /\ base[q + 1] \in Nat /\ base[q + 1] = base[q] + Len(TextOf(its[q]))
      /\ \A j \in 1..Len(TextOf(its[q])) : t[base[q] + j] = TextOf(its[q])[j]
  BY <1>1, <1>2 DEF Laid
<1>4. PICK it, A : it = its[q] /\ A = base[q]
  OBVIOUS
<1>5. it.sym \in Symbols /\ TextOf(it) = <<Sym(it.sym)>>
  BY <1>2, <1>4, ItemIs
<1>6. PICK x : x = Sym(it.sym)
  OBVIOUS
<1>7. x.sym = it.sym
  BY <1>6, LexemeSyms
<1>8. Len(TextOf(it)) = 1 /\ TextOf(it)[1] = x
  BY <1>5, <1>6
<1>9. A \in Nat /\ base[q + 1] = A + 1 /\ t[A + 1] = x
  BY <1>3, <1>4, <1>8
<1>10. base[q + 1] <= Len(t)
  BY <1>1, <1>2, LaidWithin
<1>11. A + 1 \in 1..Len(t) /\ A + 1 \in Nat \ {0}
  BY <1>1, <1>9, <1>10
<1>12. t[A + 1].sym = it.sym /\ it.sym # "=="
  BY <1>5, <1>7, <1>9 DEF Symbols
<1>13. Count(t, A + 1 + 1, "==") = Count(t, A + 1, "==")
  BY <1>11, <1>12, CountStep
<1>14. /\ it.sym = "(" => DepthAt(t, A + 1 + 1) = DepthAt(t, A + 1) + 1
       /\ it.sym = ")" => DepthAt(t, A + 1 + 1) = DepthAt(t, A + 1) - 1
       /\ it.sym \notin {"(", ")"} => DepthAt(t, A + 1 + 1) = DepthAt(t, A + 1)
  BY <1>11, <1>12, DepthStep
<1>15. QED
  BY <1>4, <1>5, <1>6, <1>9, <1>11, <1>12, <1>13, <1>14

\* An item that is a clause.
LEMMA ClauseItem ==
  ASSUME NEW its, NEW base, NEW t, Texted(its, base, t), NEW q \in 1..Len(its), its[q].sym = "clause"
  PROVE  LET u == Text(its[q].of) IN
           /\ its[q].of \in DOMAIN Clause /\ u \in Seq(Lexeme)
           /\ base[q] \in Nat /\ base[q + 1] = base[q] + Len(u) /\ base[q] + Len(u) <= Len(t)
           /\ \A j \in 1..Len(u) : t[base[q] + j] = u[j]
           /\ ClauseTokens(t, base[q], Len(u))
<1>1. its \in Seq(Item) /\ t \in Seq(Lexeme) /\ Laid(its, base, t)
  BY DEF Texted
<1>2. Len(its) \in Nat /\ its[q] \in Item /\ q \in 1..(Len(its) + 1) /\ q + 1 \in 1..(Len(its) + 1)
  BY <1>1
<1>3. /\ base[q] \in Nat /\ base[q + 1] \in Nat /\ base[q + 1] = base[q] + Len(TextOf(its[q]))
      /\ \A j \in 1..Len(TextOf(its[q])) : t[base[q] + j] = TextOf(its[q])[j]
  BY <1>1, <1>2 DEF Laid
<1>4. PICK it, A : it = its[q] /\ A = base[q]
  OBVIOUS
<1>5. it.of \in DOMAIN Clause /\ TextOf(it) = Text(it.of) /\ Text(it.of) \in Seq(Lexeme)
  BY <1>2, <1>4, ItemIs, TextIs
<1>6. base[q + 1] <= Len(t)
  BY <1>1, <1>2, LaidWithin
<1>7. \A j \in 1..Len(Text(it.of)) : t[A + j] = Text(it.of)[j]
  BY <1>3, <1>4, <1>5
<1>8. ClauseTokens(t, A, Len(Text(it.of)))
  BY <1>3, <1>4, <1>5, <1>7, TokensOfClause
<1>9. QED
  BY <1>3, <1>4, <1>5, <1>6, <1>7, <1>8

\* What clause_index and the bracket depth say of the next clause.
Next1(t, i) == Count(t, i, "==") + 1
Sees(its, base, t, q) ==
  /\ Next1(t, base[q] + 1) \in 1..Len(ClauseDepths(t))
  /\ ClauseDepths(t)[Next1(t, base[q] + 1)] >= DepthAt(t, base[q] + 1)
  /\ its[q].sym = "(" => ClauseDepths(t)[Next1(t, base[q] + 1)] >= DepthAt(t, base[q] + 1) + 1
  /\ its[q].sym = "clause" => ClauseDepths(t)[Next1(t, base[q] + 1)] = DepthAt(t, base[q] + 1)
  /\ ClauseDepths(t)[Next1(t, base[q] + 1)] \in Int

LEMMA ClauseSees ==
  ASSUME NEW its, NEW base, NEW t, Texted(its, base, t), NEW q \in 1..Len(its), its[q].sym = "clause"
  PROVE  Sees(its, base, t, q)
<1>1. PICK A, n : A = base[q] /\ n = Len(Text(its[q].of))
  OBVIOUS
<1>2. A \in Nat /\ A + n <= Len(t) /\ ClauseTokens(t, A, n)
  BY <1>1, ClauseItem
<1>3. /\ n \in Nat /\ n >= 2 /\ t[A + n].sym = "=="
      /\ Place(t, A + n, DepthAt(t, A + 1), Count(t, A + 1, "=="))
      /\ DepthAt(t, A + n) = DepthAt(t, A + 1)
  <2>1. n \in Nat /\ n >= 2
    BY <1>2 DEF ClauseTokens
  <2>2. A + n \in (A + 1)..(A + n)
    BY <1>2, <2>1
  <2>3. QED
    BY <1>2, <2>1, <2>2 DEF ClauseTokens
<1>4. DepthAt(t, A + n) \in Int /\ Count(t, A + n, "==") = Count(t, A + 1, "==")
  BY <1>3 DEF Place
<1>5. t \in Seq(Lexeme)
  BY DEF Texted
<1>6. A + n \in 1..Len(t)
  BY <1>2, <1>3, <1>5
<1>7. /\ Count(t, A + n, "==") + 1 \in 1..Len(ClauseDepths(t))
      /\ ClauseDepths(t)[Count(t, A + n, "==") + 1] = DepthAt(t, A + n)
  BY <1>3, <1>5, <1>6, ClauseDepthsAt
<1>8. PICK d, k, e : d = DepthAt(t, A + 1) /\ k = Next1(t, A + 1) /\ e = ClauseDepths(t)[k]
  OBVIOUS
<1>9. k \in 1..Len(ClauseDepths(t)) /\ e = d /\ d \in Int
  BY <1>3, <1>4, <1>7, <1>8 DEF Next1
<1>10. e >= d
  BY <1>9
<1>11. QED
  BY <1>1, <1>8, <1>9, <1>10 DEF Sees

LEMMA SymSees ==
  ASSUME NEW its, NEW base, NEW t, Texted(its, base, t), NEW q \in 1..Len(its),
         its[q].sym \in {"(", "not"}, Sees(its, base, t, q + 1)
  PROVE  Sees(its, base, t, q)
<1>1. PICK i : i = base[q] + 1
  OBVIOUS
<1>2. its[q].sym # "clause"
  OBVIOUS
<1>3. /\ i \in Nat \ {0} /\ base[q + 1] = i
      /\ Count(t, i + 1, "==") = Count(t, i, "==")
      /\ its[q].sym = "(" => DepthAt(t, i + 1) = DepthAt(t, i) + 1
      /\ its[q].sym \notin {"(", ")"} => DepthAt(t, i + 1) = DepthAt(t, i)
  BY <1>1, <1>2, SymItem
<1>4. PICK d, f, k, e : d = DepthAt(t, i) /\ f = DepthAt(t, i + 1) /\ k = Next1(t, i + 1) /\ e = ClauseDepths(t)[k]
  OBVIOUS
<1>5. k = Next1(t, i)
  BY <1>3, <1>4 DEF Next1
<1>6. k \in 1..Len(ClauseDepths(t)) /\ e >= f /\ e \in Int
  BY <1>3, <1>4 DEF Sees
<1>7. d \in Int
  BY <1>3, <1>4, DepthStep
<1>8. (its[q].sym = "(" => f = d + 1) /\ (its[q].sym # "(" => f = d)
  BY <1>3, <1>4
<1>9. e >= d /\ (its[q].sym = "(" => e >= d + 1)
  BY <1>6, <1>7, <1>8
<1>10. QED
  BY <1>1, <1>2, <1>4, <1>5, <1>6, <1>9 DEF Sees

\* Wherever an operand starts there is a clause to come.
LEMMA StarterSees ==
  ASSUME NEW its, NEW base, NEW t, Texted(its, base, t), NEW w, Stands(its, w), Shaped(w)
  PROVE  \A q \in 1..Len(its) : w[q].sym \in Starters => Sees(its, base, t, q)
<1>1. PICK n : n = Len(its)
  OBVIOUS
<1>2. its \in Seq(Item)
  BY DEF Texted
<1>3. n \in Nat /\ Len(w) = n /\ n >= 1 /\ \A q \in 1..n : its[q] \in Item /\ w[q] = ValueOf(its[q])
  BY <1>1, <1>2 DEF Stands, Shaped
<1>4. \A q \in 1..n : /\ its[q].sym = "clause" => w[q].sym = "value"
                      /\ its[q].sym # "clause" => its[q].sym \in Symbols /\ w[q].sym = its[q].sym
  BY <1>3, RoleIs
<1> DEFINE Good(q) == w[q].sym \in Starters => Sees(its, base, t, q)
           G == {g \in 0..(n - 1) : Good(n - g)}
<1>5. 0 \in G
  <2>1. n \in 1..n /\ n - 0 = n /\ 0 \in 0..(n - 1)
    BY <1>3
  <2>2. w[n].sym \notin Openers
    BY <1>3 DEF Shaped
  <2>3. ASSUME w[n].sym \in Starters
        PROVE  Sees(its, base, t, n)
    <3>1. w[n].sym = "value"
      BY <2>2, <2>3 DEF Openers, Starters
    <3>2. its[n].sym = "clause"
      BY <2>1, <3>1, <1>4 DEF Symbols
    <3>3. QED
      BY <2>1, <3>2, <1>1, ClauseSees
  <2>4. QED
    BY <2>1, <2>3
<1>6. ASSUME NEW g \in 0..(n - 1 - 1), g \in G
      PROVE  g + 1 \in G
  <2>1. PICK q : q = n - (g + 1)
    OBVIOUS
  <2>2. q \in 1..(n - 1) /\ q + 1 = n - g /\ g + 1 \in 0..(n - 1) /\ q \in 1..n /\ q + 1 \in 1..n
    BY <1>3, <2>1
  <2>3. ASSUME w[q].sym \in Starters
        PROVE  Sees(its, base, t, q)
    <3>1. CASE w[q].sym = "value"
      <4>1. its[q].sym = "clause"
        BY <2>2, <3>1, <1>4 DEF Symbols
      <4>2. QED
        BY <2>2, <4>1, <1>1, ClauseSees
    <3>2. CASE w[q].sym # "value"
      <4>1. w[q].sym \in {"(", "not"} /\ w[q].sym \in Openers
        BY <2>3, <3>2 DEF Starters, Openers
      <4>2. its[q].sym \in {"(", "not"}
        BY <2>2, <3>2, <4>1, <1>4
      <4>3. w[q + 1].sym \in Starters
        BY <2>2, <4>1, <1>3 DEF Shaped, Alternates
      <4>4. Sees(its, base, t, q + 1)
        BY <2>2, <4>3, <1>6
      <4>5. QED
        BY <2>2, <4>2, <4>4, <1>1, SymSees
    <3>3. QED
      BY <3>1, <3>2
  <2>4. QED
    BY <2>1, <2>2, <2>3
<1> HIDE DEF G
<1>7. n - 1 \in Nat
  BY <1>3
<1>8. 0..(n - 1) \subseteq G
  BY <1>5, <1>6, <1>7, UpTo
<1>9. ASSUME NEW q \in 1..n
      PROVE  Good(q)
  <2>1. n - q \in 0..(n - 1) /\ n - (n - q) = q
    BY <1>3
  <2>2. QED
    BY <2>1, <1>8 DEF G
<1>10. QED
  BY <1>1, <1>9

LEMMA BasesGrow ==
  ASSUME NEW its, NEW base, NEW t, Texted(its, base, t), NEW i \in 1..(Len(its) + 1), NEW k \in 1..(Len(its) + 1), i <= k
  PROVE  base[i] \in Nat /\ base[k] \in Nat /\ base[i] <= base[k]
<1>1. its \in Seq(Item) /\ t \in Seq(Lexeme) /\ Laid(its, base, t)
  BY DEF Texted
<1>2. PICK n : n = Len(its)
  OBVIOUS
<1>3. n \in Nat
  BY <1>1, <1>2
<1>4. /\ \A q \in 1..(n + 1) : base[q] \in Nat
      /\ \A q \in 1..n : base[q + 1] = base[q] + Len(TextOf(its[q]))
  BY <1>1, <1>2 DEF Laid
<1>5. \A q \in 1..n : Len(TextOf(its[q])) \in Nat
  <2>1. \A q \in 1..n : its[q] \in Item
    BY <1>1, <1>2
  <2>2. QED
    BY <2>1, TextOfIs, Zenon
<1> DEFINE G == {g \in 0..(k - i) : base[i] <= base[i + g]}
<1>6. k - i \in Nat /\ i \in Nat /\ k \in Nat /\ i + (k - i) = k /\ i + 0 = i
  BY <1>2, <1>3
<1>7. 0 \in G
  BY <1>2, <1>4, <1>6
<1>8. ASSUME NEW g \in 0..(k - i - 1), g \in G
      PROVE  g + 1 \in G
  <2>1. PICK q : q = i + g
    OBVIOUS
  <2>2. q \in 1..n /\ q \in 1..(n + 1) /\ q + 1 = i + (g + 1) /\ g + 1 \in 0..(k - i)
    BY <1>2, <1>3, <1>6, <2>1
  <2>3. base[q + 1] = base[q] + Len(TextOf(its[q])) /\ base[q] \in Nat /\ Len(TextOf(its[q])) \in Nat
    BY <1>4, <1>5, <2>2
  <2>4. base[i] <= base[q] /\ base[i] \in Nat
    BY <1>2, <1>4, <1>8, <2>1
  <2>5. base[i] <= base[q + 1]
    BY <2>3, <2>4
  <2>6. QED
    BY <2>2, <2>5
<1> HIDE DEF G
<1>9. 0..(k - i) \subseteq G
  BY <1>6, <1>7, <1>8, UpTo
<1>10. k - i \in G
  BY <1>6, <1>9
<1>11. base[i] <= base[i + (k - i)]
  BY <1>10 DEF G
<1>12. QED
  BY <1>2, <1>4, <1>6, <1>11

\* After the last clause there are only closing brackets.
LEMMA TailCloses ==
  ASSUME NEW its, NEW base, NEW t, Texted(its, base, t), NEW w, Stands(its, w), Shaped(w),
         NEW q \in 2..(Len(its) + 1), its[q - 1].sym = ")", Count(t, base[q] + 1, "==") = Len(ClauseDepths(t))
  PROVE  \A i \in (q - 1)..Len(its) : its[i].sym = ")"
<1>1. PICK n : n = Len(its)
  OBVIOUS
<1>2. its \in Seq(Item)
  BY DEF Texted
<1>3. n \in Nat /\ Len(w) = n /\ n >= 1 /\ \A i \in 1..n : its[i] \in Item /\ w[i] = ValueOf(its[i])
  BY <1>1, <1>2 DEF Stands, Shaped
<1>4. \A i \in 1..n : /\ its[i].sym = "clause" => w[i].sym = "value"
                      /\ its[i].sym # "clause" => its[i].sym \in Symbols /\ w[i].sym = its[i].sym
  BY <1>3, RoleIs
<1>5. \A i \in q..n : w[i].sym \notin Starters
  <2> SUFFICES ASSUME NEW i \in q..n, w[i].sym \in Starters
               PROVE  FALSE
    OBVIOUS
  <2>1. i \in 1..n /\ i \in 1..(n + 1) /\ q \in 1..(n + 1) /\ q <= i
    BY <1>1, <1>3
  <2>2. Next1(t, base[i] + 1) \in 1..Len(ClauseDepths(t))
    BY <1>1, <2>1, StarterSees DEF Sees
  <2>3. base[q] \in Nat /\ base[i] \in Nat /\ base[q] <= base[i]
    BY <1>1, <2>1, BasesGrow
  <2>4. Count(t, base[q] + 1, "==") <= Count(t, base[i] + 1, "==")
    BY <2>3, CountGrows
  <2>5. Count(t, base[i] + 1, "==") \in Nat
    <3>1. PICK y : y = base[i] + 1
      OBVIOUS
    <3>2. y \in Nat \ {0}
      BY <2>3, <3>1
    <3>3. Count(t, y, "==") \in Nat
      BY <3>2, CountStep
    <3>4. QED
      BY <3>1, <3>3
  <2>6. Len(ClauseDepths(t)) \in Nat
    BY ClauseDepthsAt DEF Texted
  <2>7. QED
    BY <2>2, <2>4, <2>5, <2>6 DEF Next1
<1>6. q - 1 \in 1..n /\ q \in Nat /\ n - (q - 1) \in Nat
  BY <1>1, <1>3
<1> DEFINE G == {g \in 0..(n - (q - 1)) : its[(q - 1) + g].sym = ")"}
<1>7. 0 \in G
  BY <1>6
<1>8. ASSUME NEW g \in 0..(n - (q - 1) - 1), g \in G
      PROVE  g + 1 \in G
  <2>1. PICK i : i = (q - 1) + g
    OBVIOUS
  <2>2. i \in 1..(n - 1) /\ i \in 1..n /\ i + 1 \in q..n /\ i + 1 \in 1..n /\ i + 1 = (q - 1) + (g + 1)
        /\ g + 1 \in 0..(n - (q - 1))
    BY <1>3, <1>6, <2>1
  <2>3. w[i + 1].sym \notin Starters
    BY <1>5, <2>2
  <2>4. its[i + 1].sym # "clause"
    BY <1>4, <2>2, <2>3 DEF Starters
  <2>5. its[i + 1].sym \in Symbols /\ w[i + 1].sym = its[i + 1].sym
    BY <1>4, <2>2, <2>4
  <2>6. its[i + 1].sym \notin {"and", "or"}
    <3> SUFFICES ASSUME its[i + 1].sym \in {"and", "or"}
                 PROVE  FALSE
      OBVIOUS
    <3>1. w[i + 1].sym \in Openers
      BY <2>5 DEF Openers
    <3>2. i + 1 # n
      BY <1>3, <3>1 DEF Shaped
    <3>3. i + 1 \in 1..(n - 1) /\ i + 1 + 1 \in q..n
      BY <1>3, <2>2, <3>2
    <3>4. w[i + 1 + 1].sym \in Starters
      BY <1>3, <3>1, <3>3 DEF Shaped, Alternates
    <3>5. QED
      BY <1>5, <3>3, <3>4
  <2>7. its[i + 1].sym = ")"
    BY <2>3, <2>5, <2>6 DEF Symbols, Starters
  <2>8. QED
    BY <2>2, <2>7
<1> HIDE DEF G
<1>9. 0..(n - (q - 1)) \subseteq G
  BY <1>6, <1>7, <1>8, UpTo
<1>10. ASSUME NEW i \in (q - 1)..n
       PROVE  its[i].sym = ")"
  <2>1. i - (q - 1) \in 0..(n - (q - 1)) /\ (q - 1) + (i - (q - 1)) = i
    BY <1>3, <1>6
  <2>2. QED
    BY <1>9, <2>1 DEF G
<1>11. QED
  BY <1>1, <1>10

\* Two of them or more.
LEMMA TailTokens ==
  ASSUME NEW its, NEW base, NEW t, Texted(its, base, t), NEW q \in 2..Len(its),
         \A i \in (q - 1)..Len(its) : its[i].sym = ")"
  PROVE  ~ EndsInOneBracket(t)
<1>1. PICK n : n = Len(its)
  OBVIOUS
<1>2. n \in Nat /\ n >= 2 /\ n \in 1..n /\ n - 1 \in 1..n /\ n \in (q - 1)..n /\ n - 1 \in (q - 1)..n /\ (n - 1) + 1 = n
  BY <1>1 DEF Texted
<1>3. its[n].sym = ")" /\ its[n - 1].sym = ")" /\ ")" # "clause"
  BY <1>1, <1>2
<1>4. base[n] \in Nat /\ base[n] + 1 \in 1..Len(t) /\ base[n + 1] = base[n] + 1 /\ t[base[n] + 1].sym = ")"
  <2>1. n \in 1..n /\ its[n].sym = ")"
    BY <1>2, <1>3
  <2>2. base[n] \in Nat /\ base[n + 1] = base[n] + 1 /\ base[n] + 1 \in 1..Len(t) /\ t[base[n] + 1].sym = ")"
    BY <1>1, <1>3, <2>1, SymItem
  <2>3. QED
    BY <2>2
<1>5. base[n - 1] \in Nat /\ base[n] = base[n - 1] + 1 /\ t[base[n - 1] + 1].sym = ")"
  <2>1. PICK m : m = n - 1
    OBVIOUS
  <2>2. m \in 1..n /\ its[m].sym = ")" /\ m + 1 = n
    BY <1>2, <1>3, <2>1
  <2>3. base[m] \in Nat /\ base[m + 1] = base[m] + 1 /\ t[base[m] + 1].sym = ")"
    BY <1>1, <1>3, <2>2, SymItem
  <2>4. QED
    BY <2>1, <2>2, <2>3
<1>6. base[n + 1] = Len(t) /\ Len(t) \in Nat
  BY <1>1 DEF Texted, Laid
<1>7. Len(t) = base[n] + 1 /\ Len(t) - 1 = base[n - 1] + 1 /\ Len(t) > 1
  BY <1>4, <1>5, <1>6
<1>8. QED
  BY <1>4, <1>5, <1>7 DEF EndsInOneBracket

\* There is a clause.
LEMMA HasClauses ==
  ASSUME NEW its, NEW base, NEW t, Texted(its, base, t), NEW w, Stands(its, w), Shaped(w)
  PROVE  ClauseDepths(t) # <<>> /\ Len(ClauseDepths(t)) \in Nat
<1>1. Len(w) = Len(its) /\ Len(w) >= 1 /\ w[1].sym \in Starters
  BY DEF Stands, Shaped
<1>2. its \in Seq(Item) /\ t \in Seq(Lexeme)
  BY DEF Texted
<1>3. 1 \in 1..Len(its)
  BY <1>1, <1>2
<1>4. Sees(its, base, t, 1)
  BY <1>1, <1>3, StarterSees
<1>5. Next1(t, base[1] + 1) \in 1..Len(ClauseDepths(t))
  BY <1>4 DEF Sees
<1>6. Len(ClauseDepths(t)) \in Nat /\ (ClauseDepths(t) = <<>> => Len(ClauseDepths(t)) = 0)
  BY <1>2, ClauseDepthsAt
<1>7. QED
  BY <1>5, <1>6

-----------------------------------------------------------------------------
(***************************************************************************)
(* The stacks of the parser keep the part of a form that was read: what    *)
(* they were after each element of it.                                     *)
(***************************************************************************)
OpSyms == {"("} \cup OPS
Stack(X) == [ops : Seq(OpSyms), vals : Seq(X)]
Grown(x, s, t) ==
  \/ x.sym = "value" /\ t.ops = s.ops /\ \E v : t.vals = Append(s.vals, v) /\ v.holds = x.worlds
  \/ x.sym \in OpSyms /\ t.vals = s.vals /\ t.ops = Append(s.ops, x.sym)
History(st, w, h, X) ==
  /\ st \in [0..h -> Stack(X)] /\ st[0].ops = <<>> /\ st[0].vals = <<>>
  /\ \A i \in 1..h : Grown(w[i], st[i - 1], st[i])
Stacked(w, h, ops, vals, X) == \E st : History(st, w, h, X) /\ st[h].ops = ops /\ st[h].vals = vals

LEMMA PushedIs ==
  ASSUME NEW S, NEW s \in Seq(S), NEW x \in S
  PROVE  /\ Append(s, x) \in Seq(S) /\ Len(Append(s, x)) = Len(s) + 1 /\ Append(s, x) # <<>>
         /\ Front(Append(s, x)) = s /\ Last(Append(s, x)) = x
         /\ Append(s, x)[Len(s) + 1] = x /\ \A i \in 1..Len(s) : Append(s, x)[i] = s[i]
         /\ SubSeq(Append(s, x), 1, Len(s)) = s
<1>1. PICK t, n : t = Append(s, x) /\ n = Len(s)
  OBVIOUS
<1>2. t \in Seq(S) /\ Len(t) = n + 1 /\ n \in Nat /\ t[n + 1] = x /\ \A i \in 1..n : t[i] = s[i]
  BY <1>1
<1>3. t # <<>>
  <2>1. Len(t) # 0 /\ Len(<<>>) = 0
    BY <1>2
  <2>2. QED
    BY <2>1
<1>4. Last(t) = x
  BY <1>2 DEF Last
<1>5. PICK f : f = SubSeq(t, 1, n)
  OBVIOUS
<1>6. f \in Seq(S) /\ Len(f) = n /\ \A i \in 1..n : f[i] = t[i]
  BY <1>2, <1>5
<1>7. f = s
  BY <1>1, <1>2, <1>6, SamePlaces
<1>8. Len(t) - 1 = n
  BY <1>2
<1>9. Front(t) = f
  BY <1>5, <1>8 DEF Front
<1>10. QED
  BY <1>1, <1>2, <1>3, <1>4, <1>5, <1>7, <1>9

LEMMA PushedSame ==
  ASSUME NEW S, NEW s \in Seq(S), NEW x \in S, NEW t \in Seq(S), NEW y \in S, Append(s, x) = Append(t, y)
  PROVE  s = t /\ x = y
<1>1. Front(Append(s, x)) = s /\ Last(Append(s, x)) = x
  BY PushedIs
<1>2. Front(Append(t, y)) = t /\ Last(Append(t, y)) = y
  BY PushedIs
<1>3. QED
  BY <1>1, <1>2

LEMMA GrownIs ==
  ASSUME NEW X, NEW x, NEW s \in Stack(X), NEW t \in Stack(X), Grown(x, s, t)
  PROVE  /\ s.ops \in Seq(OpSyms) /\ s.vals \in Seq(X) /\ t.ops \in Seq(OpSyms) /\ t.vals \in Seq(X)
         /\ \/ x.sym = "value" /\ t.ops = s.ops /\ \E v \in X : t.vals = Append(s.vals, v) /\ v.holds = x.worlds
            \/ x.sym \in OpSyms /\ t.vals = s.vals /\ t.ops = Append(s.ops, x.sym)
<1>1. s.ops \in Seq(OpSyms) /\ s.vals \in Seq(X) /\ t.ops \in Seq(OpSyms) /\ t.vals \in Seq(X)
  BY DEF Stack
<1>2. ASSUME NEW v, t.vals = Append(s.vals, v)
      PROVE  v \in X
  <2>1. PICK a, b : a = s.vals /\ b = t.vals
    OBVIOUS
  <2>2. a \in Seq(X) /\ b \in Seq(X) /\ b = Append(a, v)
    BY <1>1, <1>2, <2>1
  <2>3. Len(a) \in Nat /\ Len(b) = Len(a) + 1 /\ b[Len(a) + 1] = v
    BY <2>2
  <2>4. b[Len(a) + 1] \in X
    BY <2>2, <2>3
  <2>5. QED
    BY <2>3, <2>4
<1>3. QED
  BY <1>1, <1>2 DEF Grown

LEMMA StackedTypes ==
  ASSUME NEW w, NEW h \in Nat, NEW ops, NEW vals, NEW X, Stacked(w, h, ops, vals, X)
  PROVE  ops \in Seq(OpSyms) /\ vals \in Seq(X)
<1>1. PICK st : History(st, w, h, X) /\ st[h].ops = ops /\ st[h].vals = vals
  BY DEF Stacked
<1>2. st[h] \in Stack(X)
  BY <1>1 DEF History
<1>3. QED
  BY <1>1, <1>2 DEF Stack

LEMMA StackedNone ==
  ASSUME NEW w, NEW X
  PROVE  Stacked(w, 0, <<>>, <<>>, X)
<1> DEFINE e == [ops |-> <<>>, vals |-> <<>>]
           st == [i \in 0..0 |-> e]
<1>1. e \in Stack(X)
  BY DEF Stack
<1>2. e.ops = <<>> /\ e.vals = <<>>
  OBVIOUS
<1> HIDE DEF e
<1>3. st \in [0..0 -> Stack(X)] /\ st[0] = e
  BY <1>1
<1> HIDE DEF st
<1>4. 1..0 = {}
  OBVIOUS
<1>5. History(st, w, 0, X)
  BY <1>2, <1>3, <1>4 DEF History
<1>6. QED
  BY <1>2, <1>3, <1>5 DEF Stacked

LEMMA StackedMore ==
  ASSUME NEW w, NEW h \in Nat, NEW ops, NEW vals, NEW X, Stacked(w, h, ops, vals, X),
         NEW t \in Stack(X), NEW s, s.ops = ops, s.vals = vals, Grown(w[h + 1], s, t)
  PROVE  Stacked(w, h + 1, t.ops, t.vals, X)
<1>1. PICK st : History(st, w, h, X) /\ st[h].ops = ops /\ st[h].vals = vals
  BY DEF Stacked
<1>2. st \in [0..h -> Stack(X)] /\ st[0].ops = <<>> /\ st[0].vals = <<>> /\ \A i \in 1..h : Grown(w[i], st[i - 1], st[i])
  BY <1>1 DEF History
<1> DEFINE su == [i \in 0..(h + 1) |-> IF i = h + 1 THEN t ELSE st[i]]
<1>3. su \in [0..(h + 1) -> Stack(X)]
  <2>1. \A i \in 0..(h + 1) : i = h + 1 \/ i \in 0..h
    OBVIOUS
  <2>2. QED
    BY <1>2, <2>1
<1>4. su[h + 1] = t /\ \A i \in 0..h : su[i] = st[i]
  OBVIOUS
<1> HIDE DEF su
<1>5. 0 \in 0..h /\ h \in 0..h
  OBVIOUS
<1>6. ASSUME NEW i \in 1..(h + 1)
      PROVE  Grown(w[i], su[i - 1], su[i])
  <2>1. i \in 1..h \/ i = h + 1
    OBVIOUS
  <2>2. CASE i \in 1..h
    <3>1. i - 1 \in 0..h /\ i \in 0..h
      BY <2>2
    <3>2. QED
      BY <2>2, <3>1, <1>2, <1>4
  <2>3. CASE i = h + 1
    <3>1. i - 1 = h
      BY <2>3
    <3>2. su[i - 1] = st[h] /\ su[i] = t
      BY <2>3, <3>1, <1>4, <1>5
    <3>3. Grown(w[h + 1], st[h], t)
      BY <1>1 DEF Grown
    <3>4. QED
      BY <2>3, <3>2, <3>3
  <2>4. QED
    BY <2>1, <2>2, <2>3
<1>7. History(su, w, h + 1, X)
  BY <1>2, <1>3, <1>4, <1>5, <1>6 DEF History
<1>8. QED
  BY <1>4, <1>7 DEF Stacked

LEMMA StackedValue ==
  ASSUME NEW w, NEW h \in Nat, NEW ops, NEW vals, NEW X, Stacked(w, h, ops, vals, X),
         w[h + 1].sym = "value", NEW e \in X, e.holds = w[h + 1].worlds
  PROVE  Stacked(w, h + 1, ops, Append(vals, e), X)
<1>1. ops \in Seq(OpSyms) /\ vals \in Seq(X)
  BY StackedTypes
<1>2. PICK a : a = Append(vals, e)
  OBVIOUS
<1>3. a \in Seq(X)
  BY <1>1, <1>2
<1>4. PICK s, t : s = [ops |-> ops, vals |-> vals] /\ t = [ops |-> ops, vals |-> a]
  OBVIOUS
<1>5. s.ops = ops /\ s.vals = vals /\ t.ops = ops /\ t.vals = a /\ t \in Stack(X)
  BY <1>1, <1>3, <1>4 DEF Stack
<1>6. Grown(w[h + 1], s, t)
  BY <1>2, <1>5 DEF Grown
<1>7. Stacked(w, h + 1, t.ops, t.vals, X)
  BY <1>5, <1>6, StackedMore
<1>8. QED
  BY <1>2, <1>5, <1>7

LEMMA StackedOp ==
  ASSUME NEW w, NEW h \in Nat, NEW ops, NEW vals, NEW X, Stacked(w, h, ops, vals, X),
         NEW o \in OpSyms, w[h + 1].sym = o
  PROVE  Stacked(w, h + 1, Append(ops, o), vals, X)
<1>1. ops \in Seq(OpSyms) /\ vals \in Seq(X)
  BY StackedTypes
<1>2. PICK a : a = Append(ops, o)
  OBVIOUS
<1>3. a \in Seq(OpSyms)
  BY <1>1, <1>2
<1>4. PICK s, t : s = [ops |-> ops, vals |-> vals] /\ t = [ops |-> a, vals |-> vals]
  OBVIOUS
<1>5. s.ops = ops /\ s.vals = vals /\ t.ops = a /\ t.vals = vals /\ t \in Stack(X)
  BY <1>1, <1>3, <1>4 DEF Stack
<1>6. Grown(w[h + 1], s, t)
  BY <1>2, <1>5 DEF Grown
<1>7. Stacked(w, h + 1, t.ops, t.vals, X)
  BY <1>5, <1>6, StackedMore
<1>8. QED
  BY <1>2, <1>5, <1>7

\* What was on the stacks before the last element.
Topped(w, h, ops, vals, X) ==
  \E o \in Seq(OpSyms), v \in Seq(X) :
     /\ Stacked(w, h - 1, o, v, X)
     /\ \/ w[h].sym = "value" /\ ops = o /\ \E e \in X : vals = Append(v, e) /\ e.holds = w[h].worlds
        \/ w[h].sym \in OpSyms /\ vals = v /\ ops = Append(o, w[h].sym)

LEMMA StackedTop ==
  ASSUME NEW w, NEW h \in Nat, h >= 1, NEW ops, NEW vals, NEW X, Stacked(w, h, ops, vals, X)
  PROVE  Topped(w, h, ops, vals, X)
<1>1. PICK st : History(st, w, h, X) /\ st[h].ops = ops /\ st[h].vals = vals
  BY DEF Stacked
<1>2. st \in [0..h -> Stack(X)] /\ st[0].ops = <<>> /\ st[0].vals = <<>> /\ \A i \in 1..h : Grown(w[i], st[i - 1], st[i])
  BY <1>1 DEF History
<1>3. PICK k : k = h - 1
  OBVIOUS
<1>4. k \in Nat /\ k \in 0..h /\ h \in 0..h /\ h \in 1..h
  BY <1>3
<1>5. st[k] \in Stack(X) /\ st[h] \in Stack(X) /\ Grown(w[h], st[k], st[h])
  BY <1>2, <1>3, <1>4
<1> DEFINE su == [i \in 0..k |-> st[i]]
<1>6. \A i \in 0..k : i \in 0..h
  BY <1>3, <1>4
<1>7. su \in [0..k -> Stack(X)] /\ \A i \in 0..k : su[i] = st[i]
  BY <1>2, <1>6
<1> HIDE DEF su
<1>8. 0 \in 0..k /\ k \in 0..k
  BY <1>4
<1>9. ASSUME NEW i \in 1..k
      PROVE  Grown(w[i], su[i - 1], su[i])
  <2>1. i \in 1..h /\ i - 1 \in 0..k /\ i \in 0..k
    BY <1>3, <1>4
  <2>2. QED
    BY <2>1, <1>2, <1>7
<1>10. History(su, w, k, X)
  BY <1>2, <1>7, <1>8, <1>9 DEF History
<1>11. PICK o, v : o = st[k].ops /\ v = st[k].vals
  OBVIOUS
<1>12. Stacked(w, k, o, v, X)
  BY <1>7, <1>8, <1>10, <1>11 DEF Stacked
<1>13. o \in Seq(OpSyms) /\ v \in Seq(X)
  BY <1>5, <1>11 DEF Stack
<1>14. \/ w[h].sym = "value" /\ ops = o /\ \E e \in X : vals = Append(v, e) /\ e.holds = w[h].worlds
       \/ w[h].sym \in OpSyms /\ vals = v /\ ops = Append(o, w[h].sym)
  <2>1. PICK s, t, x : s = st[k] /\ t = st[h] /\ x = w[h]
    OBVIOUS
  <2>2. s \in Stack(X) /\ t \in Stack(X) /\ Grown(x, s, t)
    BY <1>5, <2>1
  <2>3. \/ x.sym = "value" /\ t.ops = s.ops /\ \E e \in X : t.vals = Append(s.vals, e) /\ e.holds = x.worlds
        \/ x.sym \in OpSyms /\ t.vals = s.vals /\ t.ops = Append(s.ops, x.sym)
    BY ONLY <2>2, GrownIs
  <2>4. t.ops = ops /\ t.vals = vals /\ s.ops = o /\ s.vals = v
    BY <1>1, <1>11, <2>1
  <2>5. QED
    BY <2>1, <2>3, <2>4, Zenon
<1>15. QED
  BY <1>3, <1>12, <1>13, <1>14 DEF Topped

LEMMA StackedSame ==
  ASSUME NEW w, NEW u, NEW h \in Nat, \A i \in 1..h : u[i] = w[i],
         NEW ops, NEW vals, NEW X, Stacked(w, h, ops, vals, X)
  PROVE  Stacked(u, h, ops, vals, X)
<1>1. PICK st : History(st, w, h, X) /\ st[h].ops = ops /\ st[h].vals = vals
  BY DEF Stacked
<1>2. \A i \in 1..h : Grown(u[i], st[i - 1], st[i])
  BY <1>1 DEF History
<1>3. History(st, u, h, X)
  BY <1>1, <1>2 DEF History
<1>4. QED
  BY <1>1, <1>3 DEF Stacked

\* No operators: only values.
LEMMA StackedBare ==
  ASSUME NEW w, NEW h \in Nat, NEW ops, NEW vals, NEW X, Stacked(w, h, ops, vals, X), NEW j \in 1..h, w[j].sym \in OpSyms
  PROVE  ops # <<>>
<1>1. PICK st : History(st, w, h, X) /\ st[h].ops = ops /\ st[h].vals = vals
  BY DEF Stacked
<1>2. st \in [0..h -> Stack(X)] /\ \A i \in 1..h : Grown(w[i], st[i - 1], st[i])
  BY <1>1 DEF History
<1> DEFINE G == {g \in 0..(h - j) : st[j + g].ops # <<>>}
<1>3. h - j \in Nat /\ j \in Nat /\ j >= 1 /\ j + (h - j) = h /\ j + 0 = j /\ "value" \notin OpSyms
  BY DEF OpSyms, OPS
<1>4. 0 \in G
  <2>1. PICK k : k = j - 1
    OBVIOUS
  <2>2. k \in 0..h /\ j \in 0..h
    BY <2>1
  <2>3. st[k] \in Stack(X) /\ st[j] \in Stack(X) /\ Grown(w[j], st[k], st[j])
    BY <1>2, <2>1, <2>2
  <2>4. st[k].ops \in Seq(OpSyms) /\ st[j].ops = Append(st[k].ops, w[j].sym)
    <3>1. PICK s, t, x : s = st[k] /\ t = st[j] /\ x = w[j]
      OBVIOUS
    <3>2. s \in Stack(X) /\ t \in Stack(X) /\ Grown(x, s, t) /\ x.sym # "value"
      BY <1>3, <2>3, <3>1
    <3>3. s.ops \in Seq(OpSyms) /\ t.ops = Append(s.ops, x.sym)
      BY ONLY <3>2, GrownIs
    <3>4. QED
      BY <3>1, <3>3
  <2>5. st[j].ops # <<>>
    BY <2>4, PushedIs
  <2>6. QED
    BY <1>3, <2>5
<1>5. ASSUME NEW g \in 0..(h - j - 1), g \in G
      PROVE  g + 1 \in G
  <2>1. PICK k, i : k = j + g /\ i = k + 1
    OBVIOUS
  <2>2. k \in 0..h /\ i \in 0..h /\ i \in 1..h /\ i - 1 = k /\ i = j + (g + 1) /\ g + 1 \in 0..(h - j)
    BY <1>3, <2>1
  <2>3. st[k] \in Stack(X) /\ st[i] \in Stack(X) /\ Grown(w[i], st[k], st[i])
    BY <1>2, <2>2
  <2>4. st[k].ops # <<>>
    BY <1>5, <2>1
  <2>5. st[i].ops # <<>>
    <3>1. CASE st[i].ops = st[k].ops
      BY <2>4, <3>1
    <3>2. CASE w[i].sym \in OpSyms /\ st[i].ops = Append(st[k].ops, w[i].sym) /\ st[k].ops \in Seq(OpSyms)
      BY <3>2, PushedIs
    <3>3. QED
      <4>1. PICK s, t, x : s = st[k] /\ t = st[i] /\ x = w[i]
        OBVIOUS
      <4>2. s \in Stack(X) /\ t \in Stack(X) /\ Grown(x, s, t)
        BY <2>3, <4>1
      <4>3. t.ops = s.ops \/ (x.sym \in OpSyms /\ t.ops = Append(s.ops, x.sym) /\ s.ops \in Seq(OpSyms))
        BY ONLY <4>2, GrownIs
      <4>4. QED
        BY <4>1, <4>3, <3>1, <3>2
  <2>6. QED
    BY <2>2, <2>5
<1> HIDE DEF G
<1>6. 0..(h - j) \subseteq G
  BY <1>3, <1>4, <1>5, UpTo
<1>7. h - j \in G
  BY <1>3, <1>6
<1>8. st[j + (h - j)].ops # <<>>
  BY <1>7 DEF G
<1>9. QED
  BY <1>1, <1>3, <1>8

-----------------------------------------------------------------------------
(***************************************************************************)
(* How many values the operators on a stack take away.                     *)
(***************************************************************************)
Tally(ops) == Cardinality({k \in 1..Len(ops) : ops[k] # "not"})

LEMMA TallyNone == Tally(<<>>) = 0
<1>1. {k \in 1..Len(<<>>) : <<>>[k] # "not"} = {}
  OBVIOUS
<1>2. QED
  BY <1>1, FS_EmptySet DEF Tally

LEMMA TallyMore ==
  ASSUME NEW ops \in Seq(OpSyms), NEW o \in OpSyms
  PROVE  /\ Tally(ops) \in Nat
         /\ o = "not" => Tally(Append(ops, o)) = Tally(ops)
         /\ o # "not" => Tally(Append(ops, o)) = Tally(ops) + 1
<1>1. PICK a, n : a = Append(ops, o) /\ n = Len(ops)
  OBVIOUS
<1>2. n \in Nat /\ Len(a) = n + 1 /\ a[n + 1] = o /\ \A i \in 1..n : a[i] = ops[i]
  BY <1>1, PushedIs
<1>3. PICK A, B : A = {k \in 1..n : ops[k] # "not"} /\ B = {k \in 1..(n + 1) : a[k] # "not"}
  OBVIOUS
<1>4. IsFiniteSet(A)
  <2>1. IsFiniteSet(1..n) /\ A \subseteq 1..n
    BY <1>2, <1>3, FS_Interval
  <2>2. QED
    BY <2>1, FS_Subset
<1>5. Cardinality(A) \in Nat
  BY <1>4, FS_CardinalityType
<1>6. \A k \in 1..(n + 1) : k \in 1..n \/ k = n + 1
  BY <1>2
<1>7. ASSUME o = "not"
      PROVE  B = A
  BY <1>2, <1>3, <1>6, <1>7
<1>8. ASSUME o # "not"
      PROVE  B = A \cup {n + 1} /\ n + 1 \notin A
  BY <1>2, <1>3, <1>6, <1>8
<1>9. o # "not" => Cardinality(B) = Cardinality(A) + 1
  BY <1>4, <1>8, FS_AddElement
<1>10. Tally(ops) = Cardinality(A) /\ Tally(a) = Cardinality(B)
  BY <1>1, <1>2, <1>3 DEF Tally
<1>11. QED
  BY <1>1, <1>5, <1>7, <1>9, <1>10

LEMMA TallyLess ==
  ASSUME NEW ops \in Seq(OpSyms), ops # <<>>
  PROVE  /\ Front(ops) \in Seq(OpSyms) /\ Last(ops) \in OpSyms /\ ops = Append(Front(ops), Last(ops))
         /\ Tally(Front(ops)) \in Nat
         /\ Last(ops) = "not" => Tally(ops) = Tally(Front(ops))
         /\ Last(ops) # "not" => Tally(ops) = Tally(Front(ops)) + 1
<1>1. PICK f, l, n : f = Front(ops) /\ l = Last(ops) /\ n = Len(ops)
  OBVIOUS
<1>2. f \in Seq(OpSyms) /\ l \in OpSyms
  BY <1>1, StackOps
<1>3. n \in Nat /\ n >= 1
  BY <1>1
<1>4. Len(f) = n - 1 /\ (\A i \in 1..(n - 1) : f[i] = ops[i]) /\ l = ops[n]
  BY <1>1, <1>3 DEF Front, Last
<1>5. Append(f, l) \in Seq(OpSyms) /\ Len(Append(f, l)) = Len(f) + 1 /\ Append(f, l)[Len(f) + 1] = l
      /\ \A i \in 1..Len(f) : Append(f, l)[i] = f[i]
  BY <1>2, PushedIs
<1>6. \A i \in 1..n : i \in 1..(n - 1) \/ i = n
  BY <1>3
<1>7. Len(Append(f, l)) = n /\ \A i \in 1..n : Append(f, l)[i] = ops[i]
  BY <1>3, <1>4, <1>5, <1>6
<1>8. ops = Append(f, l)
  BY <1>1, <1>5, <1>7, SamePlaces
<1>9. QED
  BY <1>1, <1>2, <1>8, TallyMore

\* The values on the stack are at most one more than the operators take away,
\* and not even that if there is a bracket among them.
Open(w, h) == \E j \in 1..h : w[j].sym = "("
Extra(w, h) == IF h > 0 /\ w[h].sym = "value" THEN 1 ELSE 0
Short1(w, h, ops, vals) ==
  /\ Len(vals) <= Tally(ops) + Extra(w, h)
  /\ Open(w, h) => Len(vals) + 1 <= Tally(ops) + Extra(w, h)

LEMMA StackedShort ==
  ASSUME NEW w \in Seq(Part), Shaped(w), NEW h \in Nat, h <= Len(w), \A i \in 1..h : w[i].sym # ")",
         NEW X, NEW ops, NEW vals, Stacked(w, h, ops, vals, X)
  PROVE  Short1(w, h, ops, vals)
<1> DEFINE Good(g) == \A o, v : Stacked(w, g, o, v, X) => Short1(w, g, o, v)
           G == {g \in 0..h : Good(g)}
<1>0. 0 \in G
  <2> SUFFICES ASSUME NEW o, NEW v, Stacked(w, 0, o, v, X)
               PROVE  Short1(w, 0, o, v)
    OBVIOUS
  <2>1. o = <<>> /\ v = <<>>
    BY DEF Stacked, History
  <2>2. Tally(o) = 0 /\ Len(v) = 0
    BY <2>1, TallyNone
  <2>3. ~ Open(w, 0) /\ Extra(w, 0) = 0
    BY DEF Open, Extra
  <2>4. QED
    BY <2>2, <2>3 DEF Short1
<1>1. ASSUME NEW g \in 0..(h - 1), g \in G
      PROVE  g + 1 \in G
  <2>1. PICK i : i = g + 1
    OBVIOUS
  <2>2. g \in Nat /\ i \in Nat /\ i >= 1 /\ i - 1 = g /\ i \in 0..h /\ i \in 1..h /\ i \in 1..Len(w)
    BY <2>1
  <2> SUFFICES ASSUME NEW o, NEW v, Stacked(w, i, o, v, X)
               PROVE  Short1(w, i, o, v)
    BY <2>1, <2>2
  <2>3. PICK p \in Seq(OpSyms), u \in Seq(X) :
           /\ Stacked(w, g, p, u, X)
           /\ \/ w[i].sym = "value" /\ o = p /\ \E e \in X : v = Append(u, e) /\ e.holds = w[i].worlds
              \/ w[i].sym \in OpSyms /\ v = u /\ o = Append(p, w[i].sym)
    <3>1. Topped(w, i, o, v, X)
      BY <2>2, StackedTop
    <3>2. \E p \in Seq(OpSyms), u \in Seq(X) :
           /\ Stacked(w, i - 1, p, u, X)
           /\ \/ w[i].sym = "value" /\ o = p /\ \E e \in X : v = Append(u, e) /\ e.holds = w[i].worlds
              \/ w[i].sym \in OpSyms /\ v = u /\ o = Append(p, w[i].sym)
      BY ONLY <3>1 DEF Topped
    <3>3. i - 1 = g
      BY <2>2
    <3>4. QED
      BY ONLY <3>2, <3>3, Zenon
  <2>4. Short1(w, g, p, u)
    BY <1>1, <2>3
  <2>5. PICK a, b, c, d : a = Len(u) /\ b = Tally(p) /\ c = Len(v) /\ d = Tally(o)
    OBVIOUS
  <2>6. a \in Nat /\ b \in Nat
    <3>1. "not" \in OpSyms
      BY DEF OpSyms, OPS
    <3>2. b \in Nat
      BY <2>3, <2>5, <3>1, TallyMore
    <3>3. QED
      BY <2>5, <3>2
  <2>7. a <= b + Extra(w, g) /\ (Open(w, g) => a + 1 <= b + Extra(w, g))
    BY <2>4, <2>5 DEF Short1
  <2>8. Extra(w, g) \in {0, 1} /\ Extra(w, i) = IF w[i].sym = "value" THEN 1 ELSE 0
    BY <2>2 DEF Extra
  <2>9. w[i].sym # "(" => (Open(w, i) => Open(w, g))
    <3> SUFFICES ASSUME w[i].sym # "(", NEW j \in 1..i, w[j].sym = "("
                 PROVE  Open(w, g)
      BY DEF Open
    <3>1. j # i /\ j \in 1..g
      BY <2>1, <2>2
    <3>2. QED
      BY <3>1 DEF Open
  \* What comes before an operand, and before an infix operator.
  <2>10. w[i].sym \in Starters => Extra(w, g) = 0
    <3> SUFFICES ASSUME w[i].sym \in Starters, g > 0, w[g].sym = "value"
                 PROVE  FALSE
      BY DEF Extra
    <3>1. g \in 1..(Len(w) - 1)
      BY <2>2
    <3>2. w[g].sym \in Openers
      BY <2>1, <3>1 DEF Shaped, Alternates
    <3>3. QED
      BY <3>2 DEF Openers
  <2>11. w[i].sym \in {"and", "or"} => Extra(w, g) = 1
    <3> SUFFICES ASSUME w[i].sym \in {"and", "or"}
                 PROVE  g > 0 /\ w[g].sym = "value"
      BY DEF Extra
    <3>1. g # 0
      BY <2>1 DEF Shaped, Starters
    <3>2. g \in 1..(Len(w) - 1) /\ g \in 1..h /\ g \in 1..Len(w)
      BY <2>2, <3>1
    <3>3. w[g].sym \notin Openers
      BY <2>1, <3>2 DEF Shaped, Alternates, Starters
    <3>4. w[g].sym # ")"
      BY <3>2
    <3>5. w[g] \in Part
      BY <3>2
    <3>6. w[g].sym \in Symbols \cup {"value"}
      BY <3>5, PartIs
    <3>7. w[g].sym = "value"
      BY <3>3, <3>4, <3>6 DEF Symbols, Openers
    <3>8. QED
      BY <2>2, <3>1, <3>7
  <2>12. CASE w[i].sym = "value"
    <3>1. "value" \notin OpSyms /\ "value" \in Starters /\ "value" # "("
      BY DEF OpSyms, OPS, Starters
    <3>2. PICK e \in X : v = Append(u, e)
      BY <2>3, <2>12, <3>1
    <3>3. c = a + 1 /\ d = b
      BY <2>3, <2>5, <2>12, <3>1, <3>2
    <3>4. Extra(w, g) = 0 /\ Extra(w, i) = 1
      BY <2>8, <2>10, <2>12, <3>1
    <3>5. c <= d + 1 /\ (Open(w, i) => c + 1 <= d + 1)
      BY <2>6, <2>7, <2>9, <2>12, <3>1, <3>3, <3>4
    <3>6. QED
      BY <2>5, <3>4, <3>5 DEF Short1
  <2>13. CASE w[i].sym # "value"
    <3>1. w[i].sym \in OpSyms /\ v = u /\ o = Append(p, w[i].sym)
      BY <2>3, <2>13
    <3>2. c = a /\ Extra(w, i) = 0
      BY <2>5, <2>8, <2>13, <3>1
    <3>3. (w[i].sym = "not" => d = b) /\ (w[i].sym # "not" => d = b + 1)
      BY <2>3, <2>5, <3>1, TallyMore
    <3>4. CASE w[i].sym = "not"
      <4>1. Extra(w, g) = 0
        BY <2>10, <3>4 DEF Starters
      <4>2. c <= d + 0 /\ (Open(w, i) => c + 1 <= d + 0)
        BY <2>6, <2>7, <2>9, <3>2, <3>3, <3>4, <4>1
      <4>3. QED
        BY <2>5, <3>2, <4>2 DEF Short1
    <3>5. CASE w[i].sym = "("
      <4>1. Extra(w, g) = 0
        BY <2>10, <3>5 DEF Starters
      <4>2. c <= d + 0 /\ c + 1 <= d + 0
        BY <2>6, <2>7, <3>2, <3>3, <3>5, <4>1
      <4>3. QED
        BY <2>5, <3>2, <4>2 DEF Short1
    <3>6. CASE w[i].sym \in {"and", "or"}
      <4>1. Extra(w, g) = 1
        BY <2>11, <3>6
      <4>2. c <= d + 0 /\ (Open(w, i) => c + 1 <= d + 0)
        BY <2>6, <2>7, <2>9, <3>2, <3>3, <3>6, <4>1
      <4>3. QED
        BY <2>5, <3>2, <4>2 DEF Short1
    <3>7. QED
      BY <3>1, <3>4, <3>5, <3>6 DEF OpSyms, OPS
  <2>14. QED
    BY <2>12, <2>13
<1> HIDE DEF G
<1>2. 0..h \subseteq G
  BY <1>0, <1>1, UpTo
<1>3. h \in G
  BY <1>2
<1>4. Good(h)
  BY <1>3 DEF G
<1>5. QED
  BY <1>4

-----------------------------------------------------------------------------
(***************************************************************************)
(* A coverpoint that was read up to item q: of a form that means what the  *)
(* coverpoint means, the first h elements are on the stacks and the others *)
(* are the items that were not read.  The operators on the stack bind no   *)
(* closer than those above them.                                           *)
(***************************************************************************)
Rest(its, w, h, q) ==
  /\ Len(w) = h + (Len(its) + 1 - q)
  /\ \A j \in q..Len(its) : w[h + 1 + (j - q)] = ValueOf(its[j])
Tidy(w, h) ==
  /\ \A i \in 1..h : w[i].sym # ")"
  /\ \A i \in 2..(h - 1) : w[i].sym = "value" => /\ w[i - 1].sym # "not"
                                                 /\ w[i + 1].sym = "or" => w[i - 1].sym # "and"
Reads(F, its, h, q, ops, vals, X) ==
  /\ F \in Forms /\ its \in Seq(Item) /\ h \in Nat /\ q \in 1..(Len(its) + 1)
  /\ Rest(its, F.form, h, q) /\ Tidy(F.form, h) /\ Stacked(F.form, h, ops, vals, X)

LEMMA ReadsIs ==
  ASSUME NEW F, NEW its, NEW h, NEW q, NEW ops, NEW vals, NEW X, Reads(F, its, h, q, ops, vals, X)
  PROVE  LET w == F.form
             n == Len(its) IN
           /\ F \in Forms /\ w \in Seq(Part) /\ Shaped(w) /\ n \in Nat /\ h \in Nat /\ Len(w) \in Nat
           /\ Len(w) = h + (n + 1 - q) /\ h <= Len(w) /\ Len(w) >= 1 /\ q \in 1..(n + 1)
           /\ ops \in Seq(OpSyms) /\ vals \in Seq(X)
           /\ q <= n => /\ its[q] \in Item /\ h + 1 <= Len(w) /\ w[h + 1] = ValueOf(its[q])
           /\ q = n + 1 => h = Len(w)
<1>1. PICK w, n : w = F.form /\ n = Len(its)
  OBVIOUS
<1>2. F \in Forms /\ its \in Seq(Item) /\ h \in Nat /\ q \in 1..(n + 1) /\ Rest(its, w, h, q) /\ Stacked(w, h, ops, vals, X)
  BY <1>1 DEF Reads
<1>3. w \in Seq(Part) /\ Len(w) \in Nat /\ Shaped(w)
  BY <1>1, <1>2, FormParts, FormsShaped
<1>4. n \in Nat /\ Len(w) >= 1
  BY <1>1, <1>2, <1>3 DEF Shaped
<1>5. Len(w) = h + (n + 1 - q) /\ \A j \in q..n : w[h + 1 + (j - q)] = ValueOf(its[j])
  BY <1>1, <1>2 DEF Rest
<1>6. h <= Len(w) /\ (q = n + 1 => h = Len(w))
  BY <1>2, <1>4, <1>5
<1>7. ASSUME q <= n
      PROVE  its[q] \in Item /\ h + 1 <= Len(w) /\ w[h + 1] = ValueOf(its[q])
  <2>1. q \in q..n /\ q \in 1..n /\ h + 1 + (q - q) = h + 1 /\ h + 1 <= Len(w)
    BY <1>2, <1>4, <1>5, <1>7
  <2>2. QED
    BY <2>1, <1>1, <1>2, <1>5
<1>8. ops \in Seq(OpSyms) /\ vals \in Seq(X)
  BY <1>2, StackedTypes
<1>9. QED
  BY <1>1, <1>2, <1>3, <1>4, <1>5, <1>6, <1>7, <1>8

LEMMA RestNext ==
  ASSUME NEW its \in Seq(Item), NEW w, NEW h \in Nat, NEW q \in 1..Len(its), Rest(its, w, h, q)
  PROVE  Rest(its, w, h + 1, q + 1)
<1>1. PICK n : n = Len(its)
  OBVIOUS
<1>2. n \in Nat /\ q \in 1..n
  BY <1>1
<1>3. Len(w) = h + (n + 1 - q) /\ \A j \in q..n : w[h + 1 + (j - q)] = ValueOf(its[j])
  BY <1>1 DEF Rest
<1>4. Len(w) = (h + 1) + (n + 1 - (q + 1))
  BY <1>2, <1>3
<1>5. ASSUME NEW j \in (q + 1)..n
      PROVE  w[(h + 1) + 1 + (j - (q + 1))] = ValueOf(its[j])
  <2>1. j \in q..n /\ (h + 1) + 1 + (j - (q + 1)) = h + 1 + (j - q)
    BY <1>2
  <2>2. QED
    BY <1>3, <2>1
<1>6. QED
  BY <1>1, <1>4, <1>5 DEF Rest

\* Where the loops start: an operand is on the top.
Stops(its, q) == q <= Len(its) => its[q].sym \in {")", "and", "or"}

LEMMA TopValue ==
  ASSUME NEW F, NEW its, NEW h, NEW q, NEW ops, NEW vals, NEW X, Reads(F, its, h, q, ops, vals, X), Stops(its, q)
  PROVE  LET w == F.form IN
           /\ h >= 1 /\ w[h].sym = "value" /\ w[h].worlds \in SUBSET Worlds
           /\ h >= 2 => w[h - 1].sym \in OpSyms
<1>1. PICK w, n : w = F.form /\ n = Len(its)
  OBVIOUS
<1>2. /\ w \in Seq(Part) /\ Shaped(w) /\ n \in Nat /\ h \in Nat /\ Len(w) \in Nat
      /\ Len(w) = h + (n + 1 - q) /\ h <= Len(w) /\ Len(w) >= 1 /\ q \in 1..(n + 1)
      /\ q <= n => /\ its[q] \in Item /\ h + 1 <= Len(w) /\ w[h + 1] = ValueOf(its[q])
      /\ q = n + 1 => h = Len(w)
  BY <1>1, ReadsIs
<1>3. Tidy(w, h)
  BY <1>1 DEF Reads
<1>4. ASSUME q <= n
      PROVE  w[h + 1].sym \notin Starters
  <2>1. its[q].sym \in {")", "and", "or"} /\ its[q] \in Item /\ w[h + 1] = ValueOf(its[q])
    BY <1>1, <1>2, <1>4 DEF Stops
  <2>2. ValueOf(its[q]).sym = its[q].sym
    BY <2>1, RoleIs
  <2>3. QED
    BY <2>1, <2>2 DEF Starters
<1>5. q <= n \/ q = n + 1
  BY <1>2
<1>6. h >= 1
  <2> SUFFICES ASSUME h = 0
               PROVE  FALSE
    BY <1>2
  <2>1. q <= n
    BY <1>2, <1>5
  <2>2. h + 1 = 1
    OBVIOUS
  <2>3. QED
    BY <2>1, <2>2, <1>2, <1>4 DEF Shaped
<1>7. h \in 1..h /\ h \in 1..Len(w)
  BY <1>2, <1>6
<1>8. w[h].sym \notin Openers
  <2>1. CASE q <= n
    <3>1. h \in 1..(Len(w) - 1)
      BY <1>2, <1>6, <2>1
    <3>2. QED
      BY <3>1, <2>1, <1>2, <1>4 DEF Shaped, Alternates
  <2>2. CASE q = n + 1
    BY <2>2, <1>2 DEF Shaped
  <2>3. QED
    BY <1>5, <2>1, <2>2
<1>9. w[h] \in Part /\ w[h].sym # ")"
  BY <1>2, <1>3, <1>7 DEF Tidy
<1>10. w[h].sym \in Symbols \cup {"value"} /\ w[h].worlds \in SUBSET Worlds
  BY <1>9, PartIs
<1>11. w[h].sym = "value"
  BY <1>8, <1>9, <1>10 DEF Symbols, Openers
<1>12. ASSUME h >= 2
       PROVE  w[h - 1].sym \in OpSyms
  <2>1. PICK k : k = h - 1
    OBVIOUS
  <2>2. k \in 1..(Len(w) - 1) /\ k + 1 = h
    BY <1>2, <1>12, <2>1
  <2>3. w[k].sym \in Openers
    BY <2>2, <1>2, <1>11 DEF Shaped, Alternates, Starters
  <2>4. QED
    BY <2>1, <2>3 DEF OpSyms, OPS, Openers
<1>13. QED
  BY <1>1, <1>6, <1>10, <1>11, <1>12

\* The operand on the top, and the operator before it.
LEMMA TopStack ==
  ASSUME NEW F, NEW its, NEW h, NEW q, NEW ops, NEW vals, NEW X, Reads(F, its, h, q, ops, vals, X), Stops(its, q)
  PROVE  \E v \in Seq(X), e \in X :
           /\ vals = Append(v, e) /\ e.holds = F.form[h].worlds
           /\ h = 1 <=> ops = <<>>
           /\ ops # <<>> => /\ h >= 2 /\ F.form[h - 1].sym = Last(ops)
                            /\ Stacked(F.form, h - 2, Front(ops), v, X)
<1>1. PICK w : w = F.form
  OBVIOUS
<1>2. h \in Nat /\ Stacked(w, h, ops, vals, X)
  BY <1>1 DEF Reads
<1>3. h >= 1 /\ w[h].sym = "value" /\ (h >= 2 => w[h - 1].sym \in OpSyms) /\ "value" \notin OpSyms
  BY <1>1, TopValue DEF OpSyms, OPS
<1>4. PICK o \in Seq(OpSyms), v \in Seq(X) :
           /\ Stacked(w, h - 1, o, v, X)
           /\ \/ w[h].sym = "value" /\ ops = o /\ \E e \in X : vals = Append(v, e) /\ e.holds = w[h].worlds
              \/ w[h].sym \in OpSyms /\ vals = v /\ ops = Append(o, w[h].sym)
  <2>1. Topped(w, h, ops, vals, X)
    BY ONLY <1>2, <1>3, StackedTop
  <2>2. QED
    BY ONLY <2>1 DEF Topped
<1>5. PICK e \in X : ops = o /\ vals = Append(v, e) /\ e.holds = w[h].worlds
  BY <1>3, <1>4
<1>6. PICK k : k = h - 1
  OBVIOUS
<1>7. k \in Nat /\ Stacked(w, k, ops, v, X)
  BY <1>2, <1>3, <1>4, <1>5, <1>6
<1>8. CASE h = 1
  <2>1. k = 0
    BY <1>6, <1>8
  <2>2. ops = <<>>
    BY <1>7, <2>1 DEF Stacked, History
  <2>3. QED
    BY <1>1, <1>5, <1>8, <2>2
<1>9. CASE h # 1
  <2>1. h >= 2 /\ k >= 1 /\ k - 1 = h - 2 /\ k - 1 \in Nat
    BY <1>2, <1>3, <1>6, <1>9
  <2>2. w[k].sym \in OpSyms
    BY <1>3, <1>6, <2>1
  <2>3. PICK p \in Seq(OpSyms), u \in Seq(X) :
           /\ Stacked(w, k - 1, p, u, X)
           /\ \/ w[k].sym = "value" /\ ops = p /\ \E g \in X : v = Append(u, g) /\ g.holds = w[k].worlds
              \/ w[k].sym \in OpSyms /\ v = u /\ ops = Append(p, w[k].sym)
    <3>1. Topped(w, k, ops, v, X)
      BY <1>7, <2>1, StackedTop
    <3>2. QED
      BY ONLY <3>1 DEF Topped
  <2>4. v = u /\ ops = Append(p, w[k].sym)
    BY <1>3, <2>2, <2>3
  <2>5. ops # <<>> /\ Front(ops) = p /\ Last(ops) = w[k].sym
    BY <2>2, <2>4, PushedIs
  <2>6. Stacked(w, h - 2, Front(ops), v, X)
    BY <2>1, <2>3, <2>4, <2>5
  <2>7. QED
    BY <1>1, <1>5, <1>6, <1>9, <2>1, <2>5, <2>6
<1>10. QED
  BY <1>8, <1>9

\* The operand before an infix operator.
LEMMA LeftStack ==
  ASSUME NEW F, NEW its, NEW h, NEW q, NEW ops, NEW vals, NEW X, Reads(F, its, h, q, ops, vals, X), Stops(its, q),
         ops # <<>>, Last(ops) \in {"and", "or"}
  PROVE  \E v \in Seq(X), d \in X, e \in X :
           /\ vals = Append(Append(v, d), e) /\ e.holds = F.form[h].worlds
           /\ h >= 3 /\ F.form[h - 1].sym = Last(ops)
           /\ F.form[h - 2].sym = "value" /\ d.holds = F.form[h - 2].worlds
           /\ Stacked(F.form, h - 3, Front(ops), v, X)
<1>1. PICK w : w = F.form
  OBVIOUS
<1>2. PICK u \in Seq(X), e \in X :
        /\ vals = Append(u, e) /\ e.holds = w[h].worlds
        /\ h >= 2 /\ w[h - 1].sym = Last(ops)
        /\ Stacked(w, h - 2, Front(ops), u, X)
  BY <1>1, TopStack
<1>3. w \in Seq(Part) /\ Shaped(w) /\ h \in Nat /\ Len(w) \in Nat /\ h <= Len(w)
  BY <1>1, ReadsIs
<1>4. Tidy(w, h)
  BY <1>1 DEF Reads
<1>5. PICK k, o : k = h - 2 /\ o = Front(ops)
  OBVIOUS
<1>6. k \in Nat /\ k + 1 = h - 1
  BY <1>2, <1>3, <1>5
<1>7. w[k + 1].sym \in {"and", "or"}
  BY <1>2, <1>6
<1>8. k >= 1
  <2> SUFFICES ASSUME k = 0
               PROVE  FALSE
    BY <1>6
  <2>1. w[1].sym \in {"and", "or"}
    BY <1>7
  <2>2. QED
    BY <2>1, <1>3 DEF Shaped, Starters
<1>9. k \in 1..(Len(w) - 1) /\ k \in 1..h /\ k \in 1..Len(w)
  BY <1>3, <1>5, <1>6, <1>8
<1>10. w[k].sym \notin Openers
  BY <1>3, <1>7, <1>9 DEF Shaped, Alternates, Starters
<1>11. w[k].sym # ")" /\ w[k] \in Part
  BY <1>3, <1>4, <1>9 DEF Tidy
<1>12. w[k].sym \in Symbols \cup {"value"}
  BY <1>11, PartIs
<1>13. w[k].sym = "value" /\ "value" \notin OpSyms
  BY <1>10, <1>11, <1>12 DEF Symbols, Openers, OpSyms, OPS
<1>14. Stacked(w, k, o, u, X)
  BY <1>2, <1>5
<1>15. PICK p \in Seq(OpSyms), v \in Seq(X) :
           /\ Stacked(w, k - 1, p, v, X)
           /\ \/ w[k].sym = "value" /\ o = p /\ \E d \in X : u = Append(v, d) /\ d.holds = w[k].worlds
              \/ w[k].sym \in OpSyms /\ u = v /\ o = Append(p, w[k].sym)
  <2>1. Topped(w, k, o, u, X)
    BY <1>6, <1>8, <1>14, StackedTop
  <2>2. QED
    BY ONLY <2>1 DEF Topped
<1>16. PICK d \in X : o = p /\ u = Append(v, d) /\ d.holds = w[k].worlds
  BY <1>13, <1>15
<1>17. k - 1 = h - 3 /\ h >= 3
  BY <1>3, <1>5, <1>8
<1>18. Stacked(w, h - 3, o, v, X)
  BY <1>15, <1>16, <1>17
<1>19. QED
  BY <1>1, <1>2, <1>5, <1>13, <1>16, <1>17, <1>18

LEMMA Shrunk ==
  ASSUME NEW F, NEW its, NEW h, NEW q, NEW ops, NEW vals, NEW X, Reads(F, its, h, q, ops, vals, X),
         NEW G \in Forms, NEW i \in 1..h, NEW k \in Widths, NEW V \in SUBSET Worlds, Replaced(G.form, F.form, i, k, V),
         NEW p \in 1..(Len(its) + 1), Rest(its, F.form, i + k - 1, p),
         NEW o, NEW v, Stacked(F.form, i - 1, o, v, X), NEW e \in X, e.holds = V
  PROVE  Reads(G, its, i, p, o, Append(v, e), X)
<1>1. PICK w, u, n : w = F.form /\ u = G.form /\ n = Len(its)
  OBVIOUS
<1>2. its \in Seq(Item) /\ h \in Nat /\ n \in Nat /\ Tidy(w, h) /\ i \in Nat /\ i >= 1 /\ k \in Nat /\ p \in 1..(n + 1)
  BY <1>1 DEF Reads, Widths
<1>3. u \in Seq(Part) /\ Len(u) \in Nat
  BY <1>1, FormParts
<1>4. /\ Len(w) = Len(u) + k - 1 /\ u[i] = Value(V)
      /\ \A j \in 1..(i - 1) : u[j] = w[j]
      /\ \A j \in (i + 1)..Len(u) : u[j] = w[j + k - 1]
  BY <1>1 DEF Replaced
<1>5. Len(w) = (i + k - 1) + (n + 1 - p) /\ \A j \in p..n : w[(i + k - 1) + 1 + (j - p)] = ValueOf(its[j])
  BY <1>1 DEF Rest
<1>6. Len(u) = i + (n + 1 - p)
  <2>1. PICK a, b : a = Len(u) /\ b = Len(w)
    OBVIOUS
  <2>2. a \in Nat /\ p \in Int
    BY <1>2, <1>3, <2>1
  <2>3. b = a + k - 1
    BY <1>4, <2>1, Zenon
  <2>4. b = (i + k - 1) + (n + 1 - p)
    BY <1>5, <2>1, Zenon
  <2>5. i \in Nat /\ k \in Nat /\ n \in Nat
    BY <1>2
  <2>6. a = i + (n + 1 - p)
    BY ONLY <2>2, <2>3, <2>4, <2>5
  <2>7. QED
    BY <2>1, <2>6
<1>7. ASSUME NEW j \in p..n
      PROVE  u[i + 1 + (j - p)] = ValueOf(its[j])
  <2>1. PICK m : m = i + 1 + (j - p)
    OBVIOUS
  <2>2. m \in (i + 1)..Len(u) /\ m + k - 1 = (i + k - 1) + 1 + (j - p)
    <3>1. j \in p..n /\ i \in Nat /\ k \in Nat /\ n \in Nat /\ p \in 1..(n + 1) /\ m = i + 1 + (j - p) /\ Len(u) = i + (n + 1 - p)
      BY <1>2, <1>6, <2>1
    <3>2. m \in (i + 1)..(i + (n + 1 - p)) /\ m + k - 1 = (i + k - 1) + 1 + (j - p)
      BY ONLY <3>1
    <3>3. QED
      BY <3>1, <3>2
  <2>3. u[m] = w[m + k - 1]
    BY <1>4, <2>2
  <2>4. QED
    BY <1>5, <2>1, <2>2, <2>3
<1>8. Rest(its, u, i, p)
  BY <1>1, <1>6, <1>7 DEF Rest
<1>9. u[i].sym = "value" /\ u[i].worlds = V
  BY <1>4, ValueIs
<1>10. Tidy(u, i)
  <2>1. ASSUME NEW a \in 1..i
        PROVE  u[a].sym # ")"
    <3>1. CASE a = i
      BY <3>1, <1>9
    <3>2. CASE a # i
      <4>1. a \in 1..(i - 1) /\ a \in 1..h
        BY <1>2, <3>2
      <4>2. QED
        BY <4>1, <1>2, <1>4 DEF Tidy
    <3>3. QED
      BY <3>1, <3>2
  <2>2. ASSUME NEW a \in 2..(i - 1), u[a].sym = "value"
        PROVE  u[a - 1].sym # "not" /\ (u[a + 1].sym = "or" => u[a - 1].sym # "and")
    <3>1. PICK b, c : b = a - 1 /\ c = a + 1
      OBVIOUS
    <3>2. a \in 1..(i - 1) /\ b \in 1..(i - 1) /\ a \in 2..(h - 1) /\ c \in 1..i
      BY <1>2, <3>1
    <3>3. u[a] = w[a] /\ u[b] = w[b]
      BY <1>4, <3>2
    <3>4. w[b].sym # "not" /\ (w[c].sym = "or" => w[b].sym # "and")
      <4>1. w[a].sym = "value"
        BY <2>2, <3>3
      <4>2. w[a - 1].sym # "not" /\ (w[a + 1].sym = "or" => w[a - 1].sym # "and")
        BY <1>2, <3>2, <4>1 DEF Tidy
      <4>3. QED
        BY <3>1, <4>2
    <3>5. u[c].sym = "or" => u[c] = w[c]
      <4>1. c = i \/ c \in 1..(i - 1)
        BY <1>2, <3>2
      <4>2. QED
        BY <1>4, <1>9, <4>1
    <3>6. u[b].sym # "not" /\ (u[c].sym = "or" => u[b].sym # "and")
      BY <3>3, <3>4, <3>5
    <3>7. QED
      BY <3>1, <3>6
  <2>3. QED
    BY <2>1, <2>2 DEF Tidy
<1>11. PICK l : l = i - 1
  OBVIOUS
<1>12. l \in Nat /\ l + 1 = i /\ Stacked(w, l, o, v, X) /\ \A j \in 1..l : u[j] = w[j]
  BY <1>1, <1>2, <1>4, <1>11
<1>13. Stacked(u, l, o, v, X)
  BY <1>12, StackedSame
<1>14. u[l + 1].sym = "value" /\ e.holds = u[l + 1].worlds
  BY <1>9, <1>12
<1>15. Stacked(u, l + 1, o, Append(v, e), X)
  BY <1>12, <1>13, <1>14, StackedValue
<1>16. QED
  BY <1>1, <1>2, <1>8, <1>10, <1>12, <1>15 DEF Reads

Partly(its, q, ops, vals, X, H) == \E F, h : Reads(F, its, h, q, ops, vals, X) /\ F.holds = H

LEMMA PartlyIs ==
  ASSUME NEW its, NEW q, NEW ops, NEW vals, NEW X, NEW H, Partly(its, q, ops, vals, X, H)
  PROVE  its \in Seq(Item) /\ q \in 1..(Len(its) + 1) /\ ops \in Seq(OpSyms) /\ vals \in Seq(X)
<1>1. PICK F, h : Reads(F, its, h, q, ops, vals, X)
  BY DEF Partly
<1>2. QED
  BY <1>1, ReadsIs DEF Reads

\* Nothing was read yet.
LEMMA PartlyNone ==
  ASSUME NEW its \in Seq(Item), NEW F \in Forms, Stands(its, F.form), NEW X
  PROVE  Partly(its, 1, <<>>, <<>>, X, F.holds)
<1>1. PICK w, n : w = F.form /\ n = Len(its)
  OBVIOUS
<1>2. n \in Nat /\ Len(w) = n /\ \A i \in 1..n : w[i] = ValueOf(its[i])
  BY <1>1 DEF Stands
<1>3. Rest(its, w, 0, 1)
  <2>1. Len(w) = 0 + (n + 1 - 1)
    BY <1>2
  <2>2. ASSUME NEW j \in 1..n
        PROVE  w[0 + 1 + (j - 1)] = ValueOf(its[j])
    <3>1. 0 + 1 + (j - 1) = j
      OBVIOUS
    <3>2. QED
      BY <3>1, <1>2
  <2>3. QED
    BY <1>1, <2>1, <2>2 DEF Rest
<1>4. 1..0 = {} /\ 2..(0 - 1) = {}
  OBVIOUS
<1>5. Tidy(w, 0)
  BY <1>4 DEF Tidy
<1>6. Stacked(w, 0, <<>>, <<>>, X)
  BY StackedNone
<1>7. 0 \in Nat /\ 1 \in 1..(n + 1)
  BY <1>2
<1>8. Reads(F, its, 0, 1, <<>>, <<>>, X)
  BY <1>1, <1>3, <1>5, <1>6, <1>7 DEF Reads
<1>9. QED
  BY <1>8 DEF Partly

\* An operator is pushed if none on the stack binds closer.
Pushes(s, ops) == s \in Infix /\ ops # <<>> => Last(ops) # "not" /\ (s = "or" => Last(ops) # "and")

LEMMA TidyNext ==
  ASSUME NEW F, NEW its, NEW h, NEW q, NEW ops, NEW vals, NEW X, Reads(F, its, h, q, ops, vals, X),
         q <= Len(its), its[q].sym # ")", Pushes(its[q].sym, ops)
  PROVE  /\ Tidy(F.form, h + 1) /\ h + 1 \in Nat /\ q + 1 \in 1..(Len(its) + 1)
         /\ Rest(its, F.form, h + 1, q + 1) /\ F.form[h + 1] = ValueOf(its[q]) /\ its[q] \in Item
<1>1. PICK w, n, it : w = F.form /\ n = Len(its) /\ it = its[q]
  OBVIOUS
<1>2. /\ w \in Seq(Part) /\ Shaped(w) /\ n \in Nat /\ h \in Nat /\ Len(w) \in Nat /\ h + 1 <= Len(w)
      /\ q \in 1..(n + 1) /\ it \in Item /\ w[h + 1] = ValueOf(it)
  BY <1>1, ReadsIs
<1>3. Tidy(w, h) /\ its \in Seq(Item) /\ Rest(its, w, h, q)
  BY <1>1 DEF Reads
<1>4. q \in 1..n /\ q + 1 \in 1..(n + 1) /\ h + 1 \in Nat
  BY <1>1, <1>2
<1>5. Rest(its, w, h + 1, q + 1)
  BY <1>1, <1>2, <1>3, <1>4, RestNext
<1>6. PICK x : x = w[h + 1]
  OBVIOUS
<1>7. (it.sym = "clause" => x.sym = "value") /\ (it.sym # "clause" => it.sym \in Symbols /\ x.sym = it.sym)
  BY <1>2, <1>6, RoleIs
<1>8. x.sym # ")"
  BY <1>1, <1>7
<1>9. ASSUME h >= 2, w[h].sym = "value"
      PROVE  w[h - 1].sym # "not" /\ (x.sym = "or" => w[h - 1].sym # "and")
  <2>1. h \in 1..(Len(w) - 1)
    BY <1>2, <1>9
  <2>2. x.sym \notin Starters
    BY <1>2, <1>6, <1>9, <2>1 DEF Shaped, Alternates, Openers
  <2>3. x.sym \in Infix /\ it.sym = x.sym
    BY <1>7, <1>8, <2>2 DEF Starters, Symbols, Infix
  <2>4. Stops(its, q)
    BY <1>1, <2>3 DEF Stops, Infix
  <2>5. ops # <<>> /\ w[h - 1].sym = Last(ops)
    <3>1. (h = 1 <=> ops = <<>>) /\ (ops # <<>> => w[h - 1].sym = Last(ops))
      BY <1>1, <2>4, TopStack
    <3>2. h # 1
      BY <1>9
    <3>3. QED
      BY <3>1, <3>2
  <2>6. QED
    BY <1>1, <2>3, <2>5 DEF Pushes
<1>10. Tidy(w, h + 1)
  <2>1. ASSUME NEW a \in 1..(h + 1)
        PROVE  w[a].sym # ")"
    <3>1. a = h + 1 \/ a \in 1..h
      BY <1>2
    <3>2. QED
      BY <3>1, <1>3, <1>6, <1>8 DEF Tidy
  <2>2. ASSUME NEW a \in 2..h, w[a].sym = "value"
        PROVE  w[a - 1].sym # "not" /\ (w[a + 1].sym = "or" => w[a - 1].sym # "and")
    <3>1. a = h \/ a \in 2..(h - 1)
      BY <1>2
    <3>2. CASE a = h
      <4>1. h >= 2 /\ w[h].sym = "value"
        BY <1>2, <2>2, <3>2
      <4>2. QED
        BY <4>1, <3>2, <1>6, <1>9
    <3>3. CASE a \in 2..(h - 1)
      BY <2>2, <3>3, <1>3 DEF Tidy
    <3>4. QED
      BY <3>1, <3>2, <3>3
  <2>4. PICK g : g = h + 1
    OBVIOUS
  <2>5. \A a \in 1..g : w[a].sym # ")"
    BY <2>1, <2>4
  <2>6. \A a \in 2..(g - 1) : w[a].sym = "value" => w[a - 1].sym # "not" /\ (w[a + 1].sym = "or" => w[a - 1].sym # "and")
    <3>1. g - 1 = h
      BY <1>2, <2>4
    <3>2. \A a \in 2..h : w[a].sym = "value" => w[a - 1].sym # "not" /\ (w[a + 1].sym = "or" => w[a - 1].sym # "and")
      BY <2>2
    <3>3. QED
      BY ONLY <3>1, <3>2, Zenon
  <2>7. Tidy(w, g)
    BY <2>5, <2>6, Zenon DEF Tidy
  <2>8. QED
    BY <2>4, <2>7
<1>11. QED
  BY <1>1, <1>2, <1>4, <1>5, <1>10

LEMMA PartlyOp ==
  ASSUME NEW its, NEW q, NEW ops, NEW vals, NEW X, NEW H, Partly(its, q, ops, vals, X, H),
         q <= Len(its), its[q].sym \in OpSyms, Pushes(its[q].sym, ops)
  PROVE  Partly(its, q + 1, Append(ops, its[q].sym), vals, X, H)
<1>1. PICK F, h : Reads(F, its, h, q, ops, vals, X) /\ F.holds = H
  BY DEF Partly
<1>2. its[q].sym # ")" /\ its[q].sym # "clause"
  BY DEF OpSyms, OPS
<1>3. /\ Tidy(F.form, h + 1) /\ h + 1 \in Nat /\ q + 1 \in 1..(Len(its) + 1)
      /\ Rest(its, F.form, h + 1, q + 1) /\ F.form[h + 1] = ValueOf(its[q]) /\ its[q] \in Item
  BY <1>1, <1>2, TidyNext
<1>4. F.form[h + 1].sym = its[q].sym
  BY <1>2, <1>3, RoleIs
<1>5. F \in Forms /\ its \in Seq(Item) /\ h \in Nat /\ Stacked(F.form, h, ops, vals, X)
  BY <1>1 DEF Reads
<1>6. Stacked(F.form, h + 1, Append(ops, its[q].sym), vals, X)
  BY <1>4, <1>5, StackedOp
<1>7. Reads(F, its, h + 1, q + 1, Append(ops, its[q].sym), vals, X)
  BY <1>3, <1>5, <1>6 DEF Reads
<1>8. QED
  BY <1>1, <1>7 DEF Partly

LEMMA PartlyValue ==
  ASSUME NEW its, NEW q, NEW ops, NEW vals, NEW X, NEW H, Partly(its, q, ops, vals, X, H),
         q <= Len(its), its[q].sym = "clause", NEW e \in X, e.holds = {V \in Worlds : its[q].of \in V}
  PROVE  Partly(its, q + 1, ops, Append(vals, e), X, H)
<1>1. PICK F, h : Reads(F, its, h, q, ops, vals, X) /\ F.holds = H
  BY DEF Partly
<1>2. its[q].sym # ")" /\ Pushes(its[q].sym, ops)
  BY DEF Pushes, Infix
<1>3. /\ Tidy(F.form, h + 1) /\ h + 1 \in Nat /\ q + 1 \in 1..(Len(its) + 1)
      /\ Rest(its, F.form, h + 1, q + 1) /\ F.form[h + 1] = ValueOf(its[q]) /\ its[q] \in Item
  BY <1>1, <1>2, TidyNext
<1>4. PICK W : W = {V \in Worlds : its[q].of \in V}
  OBVIOUS
<1>5. W \in SUBSET Worlds /\ F.form[h + 1] = Value(W)
  BY <1>3, <1>4, ItemIs
<1>6. F.form[h + 1].sym = "value" /\ F.form[h + 1].worlds = W
  BY <1>5, ValueIs
<1>7. F \in Forms /\ its \in Seq(Item) /\ h \in Nat /\ Stacked(F.form, h, ops, vals, X)
  BY <1>1 DEF Reads
<1>8. Stacked(F.form, h + 1, ops, Append(vals, e), X)
  BY <1>4, <1>6, <1>7, StackedValue
<1>9. Reads(F, its, h + 1, q + 1, ops, Append(vals, e), X)
  BY <1>3, <1>7, <1>8 DEF Reads
<1>10. QED
  BY <1>1, <1>9 DEF Partly

\* One form for another, and one operator less on the stack.
LEMMA Taken ==
  ASSUME NEW F, NEW its, NEW h, NEW q, NEW ops, NEW vals, NEW X, Reads(F, its, h, q, ops, vals, X),
         NEW i \in 1..h, NEW k \in Widths, NEW V \in SUBSET Worlds, Redex(F.form, i, k, V),
         NEW p \in 1..(Len(its) + 1), Rest(its, F.form, i + k - 1, p),
         NEW o, NEW v, Stacked(F.form, i - 1, o, v, X), NEW e \in X, e.holds = V
  PROVE  Partly(its, p, o, Append(v, e), X, F.holds)
<1>1. F \in Forms
  BY DEF Reads
<1>2. PICK G \in Forms : Replaced(G.form, F.form, i, k, V) /\ G.holds = F.holds
  BY <1>1, FormsReduce DEF Reduces
<1>3. Reads(G, its, i, p, o, Append(v, e), X)
  BY <1>2, Shrunk
<1>4. QED
  BY <1>2, <1>3 DEF Partly

LEMMA PartlyNot ==
  ASSUME NEW its, NEW q, NEW ops, NEW vals, NEW X, NEW H, Partly(its, q, ops, vals, X, H),
         Stops(its, q), ops # <<>>, Last(ops) = "not"
  PROVE  \E v \in Seq(X), e \in X :
           /\ vals = Append(v, e)
           /\ \A d \in X : d.holds = Worlds \ e.holds => Partly(its, q, Front(ops), Append(v, d), X, H)
<1>1. PICK F, h : Reads(F, its, h, q, ops, vals, X) /\ F.holds = H
  BY DEF Partly
<1>2. PICK w, i : w = F.form /\ i = h - 1
  OBVIOUS
<1>3. w \in Seq(Part) /\ h \in Nat /\ Len(w) \in Nat /\ h <= Len(w) /\ q \in 1..(Len(its) + 1)
  BY <1>1, <1>2, ReadsIs
<1>4. w[h].sym = "value" /\ w[h].worlds \in SUBSET Worlds
  BY <1>1, <1>2, TopValue
<1>5. PICK v \in Seq(X), e \in X :
        /\ vals = Append(v, e) /\ e.holds = w[h].worlds
        /\ h >= 2 /\ w[h - 1].sym = Last(ops) /\ Stacked(w, h - 2, Front(ops), v, X)
  BY <1>1, <1>2, TopStack
<1>6. i \in 1..h /\ i \in Nat \ {0} /\ i + 1 = h /\ i + 2 <= Len(w) + 1 /\ i - 1 = h - 2 /\ i + 2 - 1 = h
  BY <1>2, <1>3, <1>5
<1>7. PICK V : V = Worlds \ w[i + 1].worlds
  OBVIOUS
<1>8. V \in SUBSET Worlds /\ V = Worlds \ e.holds
  BY <1>5, <1>6, <1>7
<1>9. w[i].sym = "not" /\ w[i + 1].sym = "value"
  BY <1>2, <1>4, <1>5, <1>6
<1>10. 2 \in Widths
  BY DEF Widths
<1>11. Redex(w, i, 2, V)
  BY <1>6, <1>7, <1>9 DEF Redex
<1>12. Rest(its, w, i + 2 - 1, q)
  BY <1>1, <1>2, <1>6 DEF Reads
<1>13. Stacked(w, i - 1, Front(ops), v, X)
  BY <1>5, <1>6
<1>14. ASSUME NEW d \in X, d.holds = Worlds \ e.holds
       PROVE  Partly(its, q, Front(ops), Append(v, d), X, H)
  <2>1. d.holds = V
    BY <1>8, <1>14
  <2>2. PICK o : o = Front(ops)
    OBVIOUS
  <2>3. Partly(its, q, o, Append(v, d), X, F.holds)
    BY <2>1, <2>2, <1>1, <1>2, <1>3, <1>6, <1>8, <1>10, <1>11, <1>12, <1>13, Taken
  <2>4. QED
    BY <2>2, <2>3, <1>1
<1>15. QED
  BY <1>5, <1>14

LEMMA PartlyInfix ==
  ASSUME NEW its, NEW q, NEW ops, NEW vals, NEW X, NEW H, Partly(its, q, ops, vals, X, H),
         Stops(its, q), ops # <<>>, Last(ops) \in Infix, Last(ops) = "or" /\ q <= Len(its) => its[q].sym # "and"
  PROVE  \E v \in Seq(X), d \in X, e \in X :
           /\ vals = Append(Append(v, d), e)
           /\ \A c \in X : c.holds = Meet(Last(ops), d.holds, e.holds) =>
                             Partly(its, q, Front(ops), Append(v, c), X, H)
<1>1. PICK F, h : Reads(F, its, h, q, ops, vals, X) /\ F.holds = H
  BY DEF Partly
<1>2. PICK w, i : w = F.form /\ i = h - 2
  OBVIOUS
<1>3. /\ w \in Seq(Part) /\ h \in Nat /\ Len(w) \in Nat /\ h <= Len(w) /\ q \in 1..(Len(its) + 1)
      /\ Len(its) \in Nat /\ Len(w) = h + (Len(its) + 1 - q)
      /\ q <= Len(its) => its[q] \in Item /\ h + 1 <= Len(w) /\ w[h + 1] = ValueOf(its[q])
  BY <1>1, <1>2, ReadsIs
<1>4. w[h].sym = "value" /\ w[h].worlds \in SUBSET Worlds
  BY <1>1, <1>2, TopValue
<1>5. Last(ops) \in {"and", "or"}
  BY DEF Infix
<1>6. PICK v \in Seq(X), d \in X, e \in X :
        /\ vals = Append(Append(v, d), e) /\ e.holds = w[h].worlds
        /\ h >= 3 /\ w[h - 1].sym = Last(ops)
        /\ w[h - 2].sym = "value" /\ d.holds = w[h - 2].worlds
        /\ Stacked(w, h - 3, Front(ops), v, X)
  <2>1. Reads(F, its, h, q, ops, vals, X) /\ Stops(its, q) /\ ops # <<>> /\ Last(ops) \in {"and", "or"}
    BY <1>1, <1>5
  <2>2. \E v \in Seq(X), d \in X, e \in X :
           /\ vals = Append(Append(v, d), e) /\ e.holds = F.form[h].worlds
           /\ h >= 3 /\ F.form[h - 1].sym = Last(ops)
           /\ F.form[h - 2].sym = "value" /\ d.holds = F.form[h - 2].worlds
           /\ Stacked(F.form, h - 3, Front(ops), v, X)
    BY ONLY <2>1, LeftStack
  <2>3. w = F.form
    BY <1>2
  <2>4. QED
    BY ONLY <2>2, <2>3, Zenon
<1>7. /\ i \in 1..h /\ i \in Nat \ {0} /\ i + 1 = h - 1 /\ i + 2 = h /\ i + 3 = h + 1 /\ i + 3 <= Len(w) + 1
      /\ i - 1 = h - 3 /\ i + 3 - 1 = h /\ i \in 1..Len(w)
  <2>1. PICK l : l = Len(w)
    OBVIOUS
  <2>2. i = h - 2 /\ h \in Nat /\ h >= 3 /\ l \in Nat /\ h <= l
    BY <1>2, <1>3, <1>6, <2>1
  <2>3. /\ i \in 1..h /\ i \in Nat \ {0} /\ i + 1 = h - 1 /\ i + 2 = h /\ i + 3 = h + 1 /\ i + 3 <= l + 1
        /\ i - 1 = h - 3 /\ i + 3 - 1 = h /\ i \in 1..l
    BY ONLY <2>2
  <2>4. QED
    BY <2>1, <2>3
<1>8. w[i].sym = "value" /\ w[i + 1].sym = Last(ops) /\ w[i + 2].sym = "value"
      /\ w[i].worlds = d.holds /\ w[i + 2].worlds = e.holds
  BY <1>2, <1>4, <1>6, <1>7
<1>9. PICK V : V = Meet(Last(ops), d.holds, e.holds)
  OBVIOUS
<1>10. V \in SUBSET Worlds
  <2>1. w[i] \in Part
    BY <1>3, <1>7
  <2>2. w[i].worlds \in SUBSET Worlds
    BY <2>1, PartIs
  <2>3. d.holds \in SUBSET Worlds /\ e.holds \in SUBSET Worlds
    BY <2>2, <1>4, <1>6, <1>8
  <2>4. QED
    BY <2>3, <1>9 DEF Meet
<1>11. i > 1 => w[i - 1].sym # "not" /\ (Last(ops) = "or" => w[i - 1].sym # "and")
  <2> SUFFICES ASSUME i > 1
               PROVE  w[i - 1].sym # "not" /\ (Last(ops) = "or" => w[i - 1].sym # "and")
    OBVIOUS
  <2>1. i \in 2..(h - 1)
    BY <1>7
  <2>2. Tidy(w, h)
    BY <1>1, <1>2 DEF Reads
  <2>3. w[i - 1].sym # "not" /\ (w[i + 1].sym = "or" => w[i - 1].sym # "and")
    BY <1>8, <2>1, <2>2 DEF Tidy
  <2>4. QED
    BY <1>8, <2>3
<1>12. Last(ops) = "or" => (i + 3 <= Len(w) => w[i + 3].sym # "and")
  <2> SUFFICES ASSUME Last(ops) = "or", i + 3 <= Len(w)
               PROVE  w[h + 1].sym # "and"
    BY <1>7
  <2>1. q <= Len(its)
    BY <1>3, <1>7
  <2>2. its[q].sym # "and" /\ its[q].sym # "clause" /\ its[q] \in Item /\ w[h + 1] = ValueOf(its[q])
    BY <2>1, <1>3 DEF Stops
  <2>3. QED
    BY <2>2, RoleIs
<1>13. 3 \in Widths
  BY DEF Widths
<1>14. Redex(w, i, 3, V)
  <2>1. CASE Last(ops) = "and"
    <3>1. V = w[i].worlds \cap w[i + 2].worlds
      BY <2>1, <1>8, <1>9 DEF Meet
    <3>2. w[i + 1].sym = "and"
      BY <2>1, <1>8
    <3>3. QED
      BY <3>1, <3>2, <1>7, <1>8, <1>11 DEF Redex
  <2>2. CASE Last(ops) = "or"
    <3>1. V = w[i].worlds \cup w[i + 2].worlds
      BY <2>2, <1>8, <1>9 DEF Meet
    <3>2. w[i + 1].sym = "or"
      BY <2>2, <1>8
    <3>3. (i > 1 => w[i - 1].sym \notin {"not", "and"}) /\ (i + 3 <= Len(w) => w[i + 3].sym # "and")
      BY <2>2, <1>11, <1>12
    <3>4. QED
      BY <3>1, <3>2, <3>3, <1>7, <1>8 DEF Redex
  <2>3. QED
    BY <1>5, <2>1, <2>2
<1>15. Rest(its, w, i + 3 - 1, q)
  BY <1>1, <1>2, <1>7 DEF Reads
<1>16. Stacked(w, i - 1, Front(ops), v, X)
  BY <1>6, <1>7
<1>17. ASSUME NEW c \in X, c.holds = Meet(Last(ops), d.holds, e.holds)
       PROVE  Partly(its, q, Front(ops), Append(v, c), X, H)
  <2>1. c.holds = V
    BY <1>9, <1>17
  <2>2. PICK o : o = Front(ops)
    OBVIOUS
  <2>3. Partly(its, q, o, Append(v, c), X, F.holds)
    BY <2>1, <2>2, <1>1, <1>2, <1>3, <1>7, <1>10, <1>13, <1>14, <1>15, <1>16, Taken
  <2>4. QED
    BY <2>2, <2>3, <1>1
<1>18. QED
  BY <1>6, <1>17

\* A closing bracket, when the operand before it follows its bracket.
LEMMA PartlyClosed ==
  ASSUME NEW its, NEW q, NEW ops, NEW vals, NEW X, NEW H, Partly(its, q, ops, vals, X, H),
         q <= Len(its), its[q].sym = ")"
  PROVE  /\ ops # <<>>
         /\ Last(ops) = "(" => Partly(its, q + 1, Front(ops), vals, X, H)
<1>1. PICK F, h : Reads(F, its, h, q, ops, vals, X) /\ F.holds = H
  BY DEF Partly
<1>2. PICK w, i : w = F.form /\ i = h - 1
  OBVIOUS
<1>3. /\ w \in Seq(Part) /\ Shaped(w) /\ h \in Nat /\ Len(w) \in Nat /\ h + 1 <= Len(w) /\ q \in 1..(Len(its) + 1)
      /\ Len(its) \in Nat /\ its[q] \in Item /\ w[h + 1] = ValueOf(its[q]) /\ ops \in Seq(OpSyms)
  BY <1>1, <1>2, ReadsIs
<1>4. w[h + 1].sym = ")"
  <2>1. its[q].sym # "clause"
    OBVIOUS
  <2>2. QED
    BY <2>1, <1>3, RoleIs
<1>5. Stops(its, q)
  BY DEF Stops
<1>6. its \in Seq(Item) /\ Rest(its, w, h, q) /\ Stacked(w, h, ops, vals, X) /\ Tidy(w, h)
  BY <1>1, <1>2 DEF Reads
<1>7. ops # <<>>
  <2>1. h + 1 \in 1..Len(w)
    BY <1>3
  <2>2. PICK j \in 1..(h + 1 - 1) : w[j].sym = "("
    BY <2>1, <1>3, <1>4 DEF Shaped, Paired
  <2>3. j \in 1..h
    BY <1>3
  <2>4. w[j].sym \in OpSyms
    BY <2>2 DEF OpSyms
  <2>5. QED
    BY <2>3, <2>4, <1>3, <1>6, StackedBare
<1>8. w[h].sym = "value" /\ w[h].worlds \in SUBSET Worlds
  BY <1>1, <1>2, <1>5, TopValue
<1>9. PICK v \in Seq(X), e \in X :
        /\ vals = Append(v, e) /\ e.holds = w[h].worlds
        /\ h >= 2 /\ w[h - 1].sym = Last(ops) /\ Stacked(w, h - 2, Front(ops), v, X)
  BY <1>1, <1>2, <1>5, <1>7, TopStack
<1>10. ASSUME Last(ops) = "("
       PROVE  Partly(its, q + 1, Front(ops), vals, X, H)
  <2>1. i \in 1..h /\ i \in Nat \ {0} /\ i + 1 = h /\ i + 2 = h + 1 /\ i + 3 <= Len(w) + 1 /\ i - 1 = h - 2 /\ i + 3 - 1 = h + 1
    BY <1>2, <1>3, <1>9
  <2>2. PICK V : V = w[h].worlds
    OBVIOUS
  <2>3. w[i].sym = "(" /\ w[i + 1].sym = "value" /\ w[i + 2].sym = ")" /\ V = w[i + 1].worlds
    BY <1>2, <1>4, <1>8, <1>9, <1>10, <2>1, <2>2
  <2>4. Redex(w, i, 3, V)
    BY <2>1, <2>3 DEF Redex
  <2>5. q \in 1..Len(its) /\ q + 1 \in 1..(Len(its) + 1)
    BY <1>3
  <2>6. Rest(its, w, h + 1, q + 1)
    BY <1>3, <1>6, <2>5, RestNext
  <2>7. PICK p, o : p = q + 1 /\ o = Front(ops)
    OBVIOUS
  <2>8. Rest(its, w, i + 3 - 1, p) /\ Stacked(w, i - 1, o, v, X) /\ p \in 1..(Len(its) + 1)
    BY <1>9, <2>1, <2>5, <2>6, <2>7
  <2>9. 3 \in Widths /\ V \in SUBSET Worlds /\ e.holds = V
    BY <1>8, <1>9, <2>2 DEF Widths
  <2>10. Partly(its, p, o, Append(v, e), X, F.holds)
    BY <1>1, <1>2, <2>1, <2>4, <2>8, <2>9, Taken
  <2>11. QED
    BY <1>1, <1>9, <2>7, <2>10
<1>11. QED
  BY <1>7, <1>10

\* The end.
LEMMA PartlyEnd ==
  ASSUME NEW its, NEW ops, NEW vals, NEW X, NEW H, Partly(its, Len(its) + 1, ops, vals, X, H)
  PROVE  /\ ops # <<>> => Last(ops) # "("
         /\ ops = <<>> => vals # <<>> /\ Last(vals).holds = H
<1>1. PICK n, q : n = Len(its) /\ q = n + 1
  OBVIOUS
<1>2. PICK F, h : Reads(F, its, h, q, ops, vals, X) /\ F.holds = H
  BY <1>1 DEF Partly
<1>3. PICK w : w = F.form
  OBVIOUS
<1>4. /\ F \in Forms /\ w \in Seq(Part) /\ Shaped(w) /\ h \in Nat /\ Len(w) \in Nat /\ n \in Nat /\ h = Len(w)
      /\ vals \in Seq(X)
  BY <1>1, <1>2, <1>3, ReadsIs
<1>5. Stops(its, q)
  BY <1>1, <1>4 DEF Stops
<1>6. w[h].sym = "value" /\ w[h].worlds \in SUBSET Worlds
  BY <1>2, <1>3, <1>5, TopValue
<1>7. PICK v \in Seq(X), e \in X :
        /\ vals = Append(v, e) /\ e.holds = w[h].worlds /\ (h = 1 <=> ops = <<>>)
        /\ ops # <<>> => h >= 2 /\ w[h - 1].sym = Last(ops)
  BY <1>2, <1>3, <1>5, TopStack
<1>8. ASSUME ops # <<>>
      PROVE  Last(ops) # "("
  <2> SUFFICES ASSUME Last(ops) = "("
               PROVE  FALSE
    OBVIOUS
  <2>1. PICK i : i = h - 1
    OBVIOUS
  <2>2. i \in 1..Len(w) /\ i + 1 = h /\ w[i].sym = "("
    BY <1>4, <1>7, <1>8, <2>1
  <2>3. PICK j \in (i + 1)..Len(w) : w[j].sym = ")"
    BY <1>4, <2>2 DEF Shaped, Paired
  <2>4. j = h
    BY <1>4, <2>2
  <2>5. QED
    BY <1>6, <2>3, <2>4
<1>9. ASSUME ops = <<>>
      PROVE  vals # <<>> /\ Last(vals).holds = H
  <2>1. Len(w) = 1
    BY <1>4, <1>7, <1>9
  <2>2. F.holds = w[1].worlds
    BY <2>1, <1>3, <1>4, FormsEdges DEF Edges, Single
  <2>3. vals # <<>> /\ Last(vals) = e
    BY <1>7, PushedIs
  <2>4. QED
    BY <1>2, <1>4, <1>7, <2>1, <2>2, <2>3
<1>10. QED
  BY <1>8, <1>9

\* Before a closing bracket, the operators take all the values away.
LEMMA PartlyShort ==
  ASSUME NEW its, NEW q, NEW ops, NEW vals, NEW X, NEW H, Partly(its, q, ops, vals, X, H),
         q <= Len(its), its[q].sym = ")"
  PROVE  Len(vals) <= Tally(ops)
<1>1. PICK F, h : Reads(F, its, h, q, ops, vals, X) /\ F.holds = H
  BY DEF Partly
<1>2. PICK w : w = F.form
  OBVIOUS
<1>3. /\ w \in Seq(Part) /\ Shaped(w) /\ h \in Nat /\ Len(w) \in Nat /\ h + 1 <= Len(w) /\ h <= Len(w)
      /\ its[q] \in Item /\ w[h + 1] = ValueOf(its[q]) /\ ops \in Seq(OpSyms) /\ vals \in Seq(X)
  BY <1>1, <1>2, ReadsIs
<1>4. w[h + 1].sym = ")"
  <2>1. its[q].sym # "clause"
    OBVIOUS
  <2>2. QED
    BY <2>1, <1>3, RoleIs
<1>5. Stops(its, q)
  BY DEF Stops
<1>6. w[h].sym = "value" /\ h >= 1
  BY <1>1, <1>2, <1>5, TopValue
<1>7. Open(w, h)
  <2>1. h + 1 \in 1..Len(w) /\ 1..(h + 1 - 1) = 1..h
    BY <1>3
  <2>2. PICK j \in 1..(h + 1 - 1) : w[j].sym = "("
    BY <2>1, <1>3, <1>4 DEF Shaped, Paired
  <2>3. QED
    BY <2>1, <2>2 DEF Open
<1>8. Extra(w, h) = 1
  BY <1>3, <1>6 DEF Extra
<1>9. Stacked(w, h, ops, vals, X) /\ \A i \in 1..h : w[i].sym # ")"
  BY <1>1, <1>2 DEF Reads, Tidy
<1>10. Short1(w, h, ops, vals)
  BY <1>3, <1>9, StackedShort
<1>11. Len(vals) + 1 <= Tally(ops) + 1
  BY <1>7, <1>8, <1>10 DEF Short1
<1>12. Tally(ops) \in Nat
  <2>1. "not" \in OpSyms
    BY DEF OpSyms, OPS
  <2>2. QED
    BY <2>1, <1>3, TallyMore
<1>13. QED
  BY <1>3, <1>11, <1>12

-----------------------------------------------------------------------------
(***************************************************************************)
(* Where the parser is in the tokens of an expression.                     *)
(***************************************************************************)
Readable(its, base, t) == Texted(its, base, t) /\ \E w : Stands(its, w) /\ Shaped(w)

\* In item q, or before it, with the tokens cc of it read.
ScanAt(its, base, t, q, ps, b, ci, cc) ==
  /\ cc \in Seq(Lexeme) /\ ps = base[q] + Len(cc) + 1
  /\ b = DepthAt(t, ps) /\ ci = Count(t, base[q] + 1, "==") + 1
  /\ cc # <<>> => /\ q <= Len(its) /\ its[q].sym = "clause" /\ Len(cc) <= Len(Text(its[q].of))
                  /\ \A j \in 1..Len(cc) : cc[j] = Text(its[q].of)[j]

InClause(its, base, t, q, ps, b, ci, cc) ==
  /\ ps \in 1..Len(t) /\ t[ps].sym \in {"(", ")", "text", "=="}
  /\ t[ps].sym = "(" => b + 1 > ClauseDepths(t)[ci]
  /\ t[ps].sym = ")" => cc # <<>> /\ ~ (b - 1 < ClauseDepths(t)[ci])
  /\ ScanAt(its, base, t, q, ps + 1, DepthAt(t, ps + 1), ci, Append(cc, t[ps]))
AtSym(its, base, t, q, ps, b, ci, cc) ==
  /\ q <= Len(its) /\ its[q].sym \in Symbols /\ cc = <<>>
  /\ ps = base[q] + 1 /\ ps \in 1..Len(t) /\ t[ps].sym = its[q].sym
  /\ b = DepthAt(t, ps) /\ ci = Count(t, ps, "==") + 1
  /\ its[q].sym = "(" => ~ (b + 1 > ClauseDepths(t)[ci])
AfterClause(its, base, t, q, ps, b, ci, cc) ==
  /\ q <= Len(its) /\ its[q].sym = "clause" /\ cc # <<>> /\ Recognised(cc) = its[q].of
  /\ ps = base[q + 1] + 1 /\ b = DepthAt(t, ps) /\ ci = Count(t, ps, "==")
  /\ b - 1 < ClauseDepths(t)[ci] /\ ~ (b - 1 >= ClauseDepths(t)[ci])
  /\ q < Len(its) => ps \in 1..Len(t) /\ its[q + 1].sym \in {")", "and", "or"} /\ t[ps].sym = its[q + 1].sym
  /\ q = Len(its) => ps = Len(t) + 1
AtEnd(its, base, t, q, ps, b, ci, cc) == q = Len(its) + 1 /\ cc = <<>> /\ ps = Len(t) + 1

LEMMA ReadableIs ==
  ASSUME NEW its, NEW base, NEW t, Readable(its, base, t)
  PROVE  /\ Texted(its, base, t) /\ its \in Seq(Item) /\ t \in Seq(Lexeme)
         /\ Len(its) \in Nat /\ Len(its) >= 1 /\ Len(t) \in Nat
         /\ base[1] = 0 /\ base[Len(its) + 1] = Len(t)
         /\ \A q \in 1..(Len(its) + 1) : base[q] \in Nat
         /\ \A q \in 1..Len(its) : its[q] \in Item
<1>1. its \in Seq(Item) /\ t \in Seq(Lexeme) /\ Laid(its, base, t)
  BY DEF Readable, Texted
<1>2. Len(its) >= 1
  BY DEF Readable, Stands, Shaped
<1>3. Len(its) \in Nat /\ Len(t) \in Nat /\ \A q \in 1..Len(its) : its[q] \in Item
  BY <1>1
<1>4. base[1] = 0 /\ base[Len(its) + 1] = Len(t) /\ \A q \in 1..(Len(its) + 1) : base[q] \in Nat
  BY <1>1 DEF Laid
<1>5. QED
  BY <1>1, <1>2, <1>3, <1>4 DEF Readable

\* What follows what.
LEMMA FollowIs ==
  ASSUME NEW its, NEW base, NEW t, Readable(its, base, t), NEW q \in 1..Len(its)
  PROVE  /\ its[q].sym \in {"(", "not", "clause"} => Sees(its, base, t, q)
         /\ q < Len(its) /\ its[q].sym \in {"and", "or", "not", "("} =>
              its[q + 1].sym \in {"(", "not", "clause"} /\ Sees(its, base, t, q + 1)
         /\ its[q].sym \in {"and", "or", "not", "("} => q < Len(its)
         /\ q < Len(its) /\ its[q].sym = "clause" => its[q + 1].sym \in {")", "and", "or"}
<1>1. Texted(its, base, t) /\ Len(its) \in Nat /\ \A i \in 1..Len(its) : its[i] \in Item
  BY ReadableIs
<1>2. PICK w : Stands(its, w) /\ Shaped(w)
  BY DEF Readable
<1>3. PICK n : n = Len(its)
  OBVIOUS
<1>4. n \in Nat /\ q \in 1..n /\ Len(w) = n /\ \A i \in 1..n : its[i] \in Item /\ w[i] = ValueOf(its[i])
  BY <1>1, <1>2, <1>3 DEF Stands
<1>5. \A i \in 1..n : /\ its[i].sym = "clause" => w[i].sym = "value"
                      /\ its[i].sym # "clause" => its[i].sym \in Symbols /\ w[i].sym = its[i].sym
  BY <1>4, RoleIs
<1>6. \A i \in 1..n : its[i].sym \in {"(", "not", "clause"} <=> w[i].sym \in Starters
  BY <1>5 DEF Starters, Symbols
<1>7. \A i \in 1..n : its[i].sym \in {"and", "or", "not", "("} <=> w[i].sym \in Openers
  BY <1>5 DEF Openers, Symbols
<1>8. \A i \in 1..n : w[i].sym \in Starters => Sees(its, base, t, i)
  BY <1>1, <1>2, <1>3, StarterSees
<1>9. its[q].sym \in {"(", "not", "clause"} => Sees(its, base, t, q)
  BY <1>4, <1>6, <1>8
<1>10. its[q].sym \in {"and", "or", "not", "("} => q < n
  <2>1. w[n].sym \notin Openers
    BY <1>2, <1>4 DEF Shaped
  <2>2. its[q].sym \in {"and", "or", "not", "("} => q # n
    BY <1>4, <1>7, <2>1
  <2>3. QED
    BY <1>4, <2>2
<1>11. ASSUME q < n
       PROVE  /\ its[q].sym \in {"and", "or", "not", "("} =>
                   its[q + 1].sym \in {"(", "not", "clause"} /\ Sees(its, base, t, q + 1)
              /\ its[q].sym = "clause" => its[q + 1].sym \in {")", "and", "or"}
  <2>1. q \in 1..(n - 1) /\ q + 1 \in 1..n
    BY <1>4, <1>11
  <2>2. w[q].sym \in Openers <=> w[q + 1].sym \in Starters
    BY <1>2, <1>4, <2>1 DEF Shaped, Alternates
  <2>3. its[q].sym \in {"and", "or", "not", "("} <=> its[q + 1].sym \in {"(", "not", "clause"}
    BY <1>4, <1>6, <1>7, <2>1, <2>2
  <2>4. its[q + 1].sym \in Symbols \cup {"clause"}
    BY <1>5, <2>1
  <2>5. its[q].sym = "clause" => its[q + 1].sym \in {")", "and", "or"}
    BY <2>3, <2>4 DEF Symbols
  <2>6. its[q + 1].sym \in {"(", "not", "clause"} => Sees(its, base, t, q + 1)
    BY <1>6, <1>8, <2>1
  <2>7. QED
    BY <2>3, <2>5, <2>6
<1>12. QED
  BY <1>3, <1>9, <1>10, <1>11

LEMMA ScanSym ==
  ASSUME NEW its, NEW base, NEW t, Readable(its, base, t), NEW q \in 1..Len(its), its[q].sym # "clause",
         NEW ps, NEW b, NEW ci, NEW cc, ScanAt(its, base, t, q, ps, b, ci, cc)
  PROVE  AtSym(its, base, t, q, ps, b, ci, cc)
<1>1. Texted(its, base, t) /\ Len(its) \in Nat
  BY ReadableIs
<1>2. cc = <<>> /\ Len(cc) = 0
  BY DEF ScanAt
<1>3. PICK i : i = base[q] + 1
  OBVIOUS
<1>4. base[q] \in Nat /\ i \in 1..Len(t) /\ t[i].sym = its[q].sym /\ its[q].sym \in Symbols
  BY <1>1, <1>3, SymItem
<1>5. ps = i /\ b = DepthAt(t, ps) /\ ci = Count(t, i, "==") + 1
  BY <1>2, <1>3, <1>4 DEF ScanAt
<1>6. ASSUME its[q].sym = "("
      PROVE  ~ (b + 1 > ClauseDepths(t)[ci])
  <2>1. Sees(its, base, t, q)
    BY <1>6, FollowIs
  <2>2. PICK e : e = ClauseDepths(t)[ci]
    OBVIOUS
  <2>3. ci = Next1(t, i)
    BY <1>5 DEF Next1
  <2>4. e >= b + 1 /\ e \in Int
    BY <1>3, <1>5, <1>6, <2>1, <2>2, <2>3 DEF Sees
  <2>5. b \in Int
    <3>1. i \in Nat \ {0}
      BY <1>4
    <3>2. QED
      BY <3>1, <1>5, DepthStep
  <2>6. QED
    BY <2>2, <2>4, <2>5
<1>7. q <= Len(its)
  BY <1>1
<1>8. QED
  BY <1>2, <1>3, <1>4, <1>5, <1>6, <1>7 DEF AtSym

LEMMA TextSame ==
  ASSUME NEW c \in DOMAIN Clause
  PROVE  Recognised(Text(c)) = c
<1>1. ASSUME NEW d \in DOMAIN Clause
      PROVE  Text(d)[Len(Text(d))] = End(d)
  <2>1. PICK u : u = Text(d)
    OBVIOUS
  <2>2. Short(u, d) \/ Plain(u, d) \/ Moved(u, d) \/ Longest(u, d)
    BY <2>1, TextIs
  <2>3. u[Len(u)] = End(d)
    BY <2>2 DEF Short, Plain, Moved, Longest
  <2>4. QED
    BY <2>1, <2>3
<1>2. \A d \in DOMAIN Clause : Text(d) = Text(c) => d = c
  <2> SUFFICES ASSUME NEW d \in DOMAIN Clause, Text(d) = Text(c)
               PROVE  d = c
    OBVIOUS
  <2>1. End(d) = End(c)
    <3>1. Text(d)[Len(Text(d))] = End(d) /\ Text(c)[Len(Text(c))] = End(c)
      BY <1>1
    <3>2. QED
      BY <3>1
  <2>2. End(d).of = d /\ End(c).of = c
    BY DEF End
  <2>3. QED
    BY <2>1, <2>2
<1>3. PICK h : h = Recognised(Text(c))
  OBVIOUS
<1>4. h \in DOMAIN Clause /\ Text(h) = Text(c)
  BY <1>3 DEF Recognised
<1>5. QED
  BY <1>2, <1>3, <1>4

LEMMA ScanClause ==
  ASSUME NEW its, NEW base, NEW t, Readable(its, base, t), NEW q \in 1..Len(its), its[q].sym = "clause",
         NEW ps, NEW b, NEW ci, NEW cc, ScanAt(its, base, t, q, ps, b, ci, cc)
  PROVE  \/ InClause(its, base, t, q, ps, b, ci, cc)
         \/ AfterClause(its, base, t, q, ps, b, ci, cc)
<1>1. Texted(its, base, t) /\ t \in Seq(Lexeme) /\ Len(t) \in Nat /\ Len(its) \in Nat
  BY ReadableIs
<1>2. PICK A, c, u, k : A = base[q] /\ c = its[q].of /\ u = Text(c) /\ k = Len(u)
  OBVIOUS
<1>3. /\ c \in DOMAIN Clause /\ u \in Seq(Lexeme)
      /\ A \in Nat /\ base[q + 1] = A + k /\ A + k <= Len(t)
      /\ \A j \in 1..k : t[A + j] = u[j]
      /\ ClauseTokens(t, A, k)
  <2>1. Texted(its, base, t) /\ q \in 1..Len(its) /\ its[q].sym = "clause"
    BY <1>1
  <2>2. LET v == Text(its[q].of) IN
           /\ its[q].of \in DOMAIN Clause /\ v \in Seq(Lexeme)
           /\ base[q] \in Nat /\ base[q + 1] = base[q] + Len(v) /\ base[q] + Len(v) <= Len(t)
           /\ \A j \in 1..Len(v) : t[base[q] + j] = v[j]
           /\ ClauseTokens(t, base[q], Len(v))
    BY ONLY <2>1, ClauseItem
  <2>3. QED
    BY ONLY <1>2, <2>2, Zenon
<1>4. PICK d, e : d = DepthAt(t, A + 1) /\ e = Count(t, A + 1, "==")
  OBVIOUS
<1>5. /\ k \in Nat /\ k >= 2 /\ t[A + 1].sym # ")"
      /\ \A i \in (A + 1)..(A + k) : Place(t, i, d, e)
      /\ Count(t, A + k + 1, "==") = e + 1 /\ DepthAt(t, A + k + 1) = d
  BY <1>3, <1>4 DEF ClauseTokens
<1>6. PICK m : m = Len(cc)
  OBVIOUS
<1>7. /\ cc \in Seq(Lexeme) /\ m \in Nat /\ ps = A + m + 1 /\ b = DepthAt(t, ps) /\ ci = e + 1
      /\ cc # <<>> => m <= k /\ \A j \in 1..m : cc[j] = u[j]
  BY <1>2, <1>4, <1>6 DEF ScanAt
<1>8. ClauseDepths(t)[ci] = d /\ d \in Int
  <2>1. Sees(its, base, t, q)
    BY <1>1, ClauseSees
  <2>2. ci = Next1(t, base[q] + 1)
    BY <1>2, <1>4, <1>7 DEF Next1
  <2>3. QED
    BY <2>1, <2>2, <1>2, <1>4 DEF Sees
<1>9. m <= k /\ \A j \in 1..m : cc[j] = u[j]
  <2>1. CASE cc = <<>>
    <3>1. m = 0
      BY <1>6, <2>1
    <3>2. QED
      BY <3>1, <1>5
  <2>2. QED
    BY <1>7, <2>1
<1>10. CASE m < k
  <2>1. ps \in (A + 1)..(A + k) /\ ps \in 1..Len(t) /\ m + 1 \in 1..k /\ A + (m + 1) = ps /\ q <= Len(its)
    BY <1>1, <1>3, <1>5, <1>7, <1>10
  <2>2. Place(t, ps, d, e)
    BY <1>5, <2>1
  <2>3. /\ b \in Int /\ t[ps].sym \in {"(", ")", "text", "=="}
        /\ t[ps].sym = "(" => b >= d
        /\ t[ps].sym = ")" => b > d
    BY <1>7, <2>2 DEF Place
  <2>4. t[ps].sym = "(" => b + 1 > ClauseDepths(t)[ci]
    BY <1>8, <2>3
  <2>5. t[ps].sym = ")" => cc # <<>> /\ ~ (b - 1 < ClauseDepths(t)[ci])
    <3>1. cc = <<>> => ps = A + 1
      BY <1>3, <1>6, <1>7
    <3>2. t[ps].sym = ")" => cc # <<>>
      BY <1>5, <3>1
    <3>3. t[ps].sym = ")" => ~ (b - 1 < d)
      BY <1>8, <2>3
    <3>4. QED
      BY <1>8, <3>2, <3>3
  <2>6. PICK x, v : x = t[ps] /\ v = Append(cc, x)
    OBVIOUS
  <2>7. x \in Lexeme /\ x = u[m + 1]
    BY <1>1, <1>3, <2>1, <2>6
  <2>8. v \in Seq(Lexeme) /\ Len(v) = m + 1 /\ v # <<>> /\ v[m + 1] = x /\ \A j \in 1..m : v[j] = cc[j]
    BY <1>6, <1>7, <2>6, <2>7, PushedIs
  <2>9. \A j \in 1..(m + 1) : v[j] = u[j]
    <3>1. \A j \in 1..(m + 1) : j \in 1..m \/ j = m + 1
      BY <1>7
    <3>2. QED
      BY <3>1, <1>9, <2>7, <2>8
  <2>10. ps + 1 = A + (m + 1) + 1 /\ m + 1 <= k
    BY <1>3, <1>5, <1>7, <1>10
  <2>11. ScanAt(its, base, t, q, ps + 1, DepthAt(t, ps + 1), ci, v)
    BY <1>2, <1>4, <1>7, <2>1, <2>8, <2>9, <2>10 DEF ScanAt
  <2>12. InClause(its, base, t, q, ps, b, ci, cc)
    BY <2>1, <2>3, <2>4, <2>5, <2>6, <2>11 DEF InClause
  <2>13. QED
    BY <2>12
<1>11. CASE m = k
  <2>1. cc = u
    BY <1>3, <1>5, <1>6, <1>7, <1>9, <1>11, <1>2, SamePlaces
  <2>2. Recognised(cc) = c
    BY <1>2, <1>3, <2>1, TextSame
  <2>3. cc # <<>>
    <3>1. Len(cc) # 0 /\ Len(<<>>) = 0
      BY <1>5, <1>6, <1>11
    <3>2. QED
      BY <3>1
  <2>4. PICK r : r = q + 1
    OBVIOUS
  <2>5. ps = base[r] + 1 /\ ps = A + k + 1
    BY <1>3, <1>5, <1>7, <1>11, <2>4
  <2>6. ci = Count(t, ps, "==") /\ b = d
    BY <1>5, <1>7, <2>5
  <2>7. b - 1 < ClauseDepths(t)[ci] /\ ~ (b - 1 >= ClauseDepths(t)[ci])
    BY <1>8, <2>6
  <2>8. ASSUME q < Len(its)
        PROVE  ps \in 1..Len(t) /\ its[r].sym \in {")", "and", "or"} /\ t[ps].sym = its[r].sym
    <3>1. r \in 1..Len(its) /\ its[r].sym \in {")", "and", "or"}
      <4>1. its[q + 1].sym \in {")", "and", "or"}
        BY <2>8, FollowIs
      <4>2. r \in 1..Len(its)
        BY <1>1, <2>4, <2>8
      <4>3. QED
        BY <2>4, <4>1, <4>2
    <3>2. its[r].sym # "clause"
      BY <3>1
    <3>3. base[r] + 1 \in 1..Len(t) /\ t[base[r] + 1].sym = its[r].sym
      BY <1>1, <3>1, <3>2, SymItem
    <3>4. QED
      BY <2>5, <3>1, <3>3
  <2>9. ASSUME q = Len(its)
        PROVE  ps = Len(t) + 1
    <3>1. base[Len(its) + 1] = Len(t)
      BY ReadableIs
    <3>2. QED
      BY <3>1, <2>4, <2>5, <2>9
  <2>10. q <= Len(its)
    BY <1>1
  <2>11. AfterClause(its, base, t, q, ps, b, ci, cc)
    BY <1>2, <1>7, <2>2, <2>3, <2>4, <2>5, <2>6, <2>7, <2>8, <2>9, <2>10 DEF AfterClause
  <2>12. QED
    BY <2>11
<1>12. QED
  BY <1>5, <1>7, <1>9, <1>10, <1>11

LEMMA ScanCases ==
  ASSUME NEW its, NEW base, NEW t, Readable(its, base, t), NEW q \in 1..(Len(its) + 1),
         NEW ps, NEW b, NEW ci, NEW cc, ScanAt(its, base, t, q, ps, b, ci, cc)
  PROVE  \/ InClause(its, base, t, q, ps, b, ci, cc)
         \/ AtSym(its, base, t, q, ps, b, ci, cc)
         \/ AfterClause(its, base, t, q, ps, b, ci, cc)
         \/ AtEnd(its, base, t, q, ps, b, ci, cc)
<1>1. Len(its) \in Nat /\ base[Len(its) + 1] = Len(t) /\ Len(t) \in Nat
  BY ReadableIs
<1>2. q \in 1..Len(its) \/ q = Len(its) + 1
  BY <1>1
<1>3. CASE q \in 1..Len(its) /\ its[q].sym = "clause"
  BY <1>3, ScanClause
<1>4. CASE q \in 1..Len(its) /\ its[q].sym # "clause"
  BY <1>4, ScanSym
<1>5. CASE q = Len(its) + 1
  <2>1. cc = <<>>
    <3>1. ~ (q <= Len(its))
      BY <1>1, <1>5
    <3>2. QED
      BY <3>1 DEF ScanAt
  <2>2. Len(cc) = 0
    BY <2>1
  <2>3. ps = Len(t) + 0 + 1
    BY <1>1, <1>5, <2>2 DEF ScanAt
  <2>4. ps = Len(t) + 1
    BY <1>1, <2>3
  <2>5. QED
    BY <1>5, <2>1, <2>4 DEF AtEnd
<1>6. QED
  BY <1>2, <1>3, <1>4, <1>5

-----------------------------------------------------------------------------
(***************************************************************************)
(* What the variables of the parser are while it reads an expression of    *)
(* the tokens t that means H.                                              *)
(***************************************************************************)
OpAt(its, base, t, q, ps, b, ci, cc) ==
  /\ q <= Len(its) /\ its[q].sym \in OPS /\ ps = base[q] + 1
  /\ b = DepthAt(t, ps) /\ ci = Count(t, ps, "==") + 1 /\ cc = <<>>
CloseAt(its, base, t, q, ps, b, ci, cc) ==
  /\ q <= Len(its) /\ its[q].sym = ")" /\ ps = base[q] + 1
  /\ b = DepthAt(t, ps) - 1 /\ ci = Count(t, ps, "==") + 1 /\ cc = <<>>
EndAt(its, base, t, q, ps, b, ci) ==
  /\ q <= Len(its) /\ its[q].sym = ")" /\ ps = base[q] + 1
  /\ b = DepthAt(t, ps) - 1 /\ ci = Count(t, ps, "==")
Located(its, base, t, q, ph, ps, b, ci, cc) ==
  \/ ph = "scan" /\ ScanAt(its, base, t, q, ps, b, ci, cc)
  \/ ph = "operator" /\ OpAt(its, base, t, q, ps, b, ci, cc)
  \/ ph = "close" /\ CloseAt(its, base, t, q, ps, b, ci, cc)
  \/ ph = "ended" /\ EndAt(its, base, t, q, ps, b, ci)
  \/ ph = "final" /\ q = Len(its) + 1
Progress(t, H, X, ph, ps, b, os, cs, ci, cc) == \E its, base, q :
  Readable(its, base, t) /\ Partly(its, q, os, cs, X, H) /\ Located(its, base, t, q, ph, ps, b, ci, cc)

LEMMA Begun ==
  ASSUME NEW cp, IsExpression(cp), NEW X
  PROVE  Progress(cp.toks, cp.holds, X, "scan", 1, 0, <<>>, <<>>, 1, <<>>)
<1>1. PICK p \in Grammar : p.toks = cp.toks /\ p.holds = cp.holds
  BY DEF IsExpression
<1>2. PICK t : t = cp.toks
  OBVIOUS
<1>3. PICK e \in Forms : Spells(e.form, t) /\ e.holds = cp.holds
  BY <1>1, <1>2, GrammarSpelled DEF Spelled
<1>4. PICK its \in Seq(Item) : Stands(its, e.form) /\ \E base : Laid(its, base, t)
  BY <1>3 DEF Spells
<1>5. PICK base : Laid(its, base, t)
  BY <1>4
<1>6. Shaped(e.form) /\ t \in Seq(Lexeme)
  BY <1>3, FormsShaped DEF Spells
<1>7. Readable(its, base, t)
  BY <1>4, <1>5, <1>6 DEF Readable, Texted
<1>8. Partly(its, 1, <<>>, <<>>, X, cp.holds)
  BY <1>3, <1>4, PartlyNone
<1>9. base[1] = 0
  BY <1>7, ReadableIs
<1>10. DepthAt(t, 1) = 0 /\ Count(t, 1, "==") = 0
  BY DepthFirst, CountFirst
<1>11. 0 + Len(<<>>) + 1 = 1 /\ 0 + 1 = 1 /\ <<>> \in Seq(Lexeme)
  OBVIOUS
<1>12. ScanAt(its, base, t, 1, 1, 0, 1, <<>>)
  BY <1>9, <1>10, <1>11 DEF ScanAt
<1>13. Located(its, base, t, 1, "scan", 1, 0, 1, <<>>)
  BY <1>12 DEF Located
<1>14. QED
  BY <1>2, <1>7, <1>8, <1>13 DEF Progress

LEMMA Scanning ==
  ASSUME NEW t, NEW H, NEW X, NEW ps, NEW b, NEW os, NEW cs, NEW ci, NEW cc,
         Progress(t, H, X, "scan", ps, b, os, cs, ci, cc)
  PROVE  \E its, base, q :
           /\ Readable(its, base, t) /\ Partly(its, q, os, cs, X, H) /\ ScanAt(its, base, t, q, ps, b, ci, cc)
           /\ Len(its) \in Nat /\ q \in 1..(Len(its) + 1) /\ Len(t) \in Nat
           /\ \/ InClause(its, base, t, q, ps, b, ci, cc)
              \/ AtSym(its, base, t, q, ps, b, ci, cc)
              \/ AfterClause(its, base, t, q, ps, b, ci, cc)
              \/ AtEnd(its, base, t, q, ps, b, ci, cc)
<1>1. PICK its, base, q : /\ Readable(its, base, t) /\ Partly(its, q, os, cs, X, H)
                          /\ Located(its, base, t, q, "scan", ps, b, ci, cc)
  BY DEF Progress
<1>2. ScanAt(its, base, t, q, ps, b, ci, cc)
  BY <1>1 DEF Located
<1>3. q \in 1..(Len(its) + 1)
  BY <1>1, PartlyIs
<1>4. Len(its) \in Nat /\ Len(t) \in Nat
  BY <1>1, ReadableIs
<1>5. QED
  BY <1>1, <1>2, <1>3, <1>4, ScanCases

LEMMA MovesOn ==
  ASSUME NEW t, NEW H, NEW X, NEW ph, NEW ps, NEW b, NEW os, NEW cs, NEW ci, NEW cc,
         NEW its, NEW base, NEW q, Readable(its, base, t), Partly(its, q, os, cs, X, H),
         Located(its, base, t, q, ph, ps, b, ci, cc)
  PROVE  Progress(t, H, X, ph, ps, b, os, cs, ci, cc)
  BY DEF Progress

\* A token of a clause.
LEMMA InClauseMoves ==
  ASSUME NEW t, NEW H, NEW X, NEW ps, NEW b, NEW os, NEW cs, NEW ci, NEW cc,
         NEW its, NEW base, NEW q, Readable(its, base, t), Partly(its, q, os, cs, X, H),
         ScanAt(its, base, t, q, ps, b, ci, cc), InClause(its, base, t, q, ps, b, ci, cc)
  PROVE  /\ t[ps].sym = "(" => Progress(t, H, X, "scan", ps + 1, b + 1, os, cs, ci, Append(cc, t[ps]))
         /\ t[ps].sym = ")" => Progress(t, H, X, "scan", ps + 1, b - 1, os, cs, ci, Append(cc, t[ps]))
         /\ t[ps].sym \in {"text", "=="} => Progress(t, H, X, "scan", ps + 1, b, os, cs, ci, Append(cc, t[ps]))
<1>1. PICK d, v : d = DepthAt(t, ps + 1) /\ v = Append(cc, t[ps])
  OBVIOUS
<1>2. ScanAt(its, base, t, q, ps + 1, d, ci, v)
  BY <1>1 DEF InClause
<1>3. Progress(t, H, X, "scan", ps + 1, d, os, cs, ci, v)
  <2>1. PICK p : p = ps + 1
    OBVIOUS
  <2>2. Located(its, base, t, q, "scan", p, d, ci, v)
    BY <1>2, <2>1 DEF Located
  <2>3. Progress(t, H, X, "scan", p, d, os, cs, ci, v)
    BY <2>2, MovesOn
  <2>4. QED
    BY <2>1, <2>3
<1>4. ps \in Nat \ {0}
  BY DEF InClause
<1>5. b = DepthAt(t, ps)
  BY DEF ScanAt
<1>6. /\ t[ps].sym = "(" => d = b + 1
      /\ t[ps].sym = ")" => d = b - 1
      /\ t[ps].sym \notin {"(", ")"} => d = b
  BY <1>1, <1>4, <1>5, DepthStep
<1>7. QED
  BY <1>1, <1>3, <1>6

\* A bracket that opens a group.
LEMMA GroupOpens ==
  ASSUME NEW t, NEW H, NEW X, NEW ps, NEW b, NEW os, NEW cs, NEW ci, NEW cc,
         NEW its, NEW base, NEW q, Readable(its, base, t), Partly(its, q, os, cs, X, H),
         AtSym(its, base, t, q, ps, b, ci, cc), t[ps].sym = "(", q \in 1..(Len(its) + 1)
  PROVE  Progress(t, H, X, "scan", ps + 1, b + 1, Append(os, "("), cs, ci, cc)
<1>1. Texted(its, base, t) /\ Len(its) \in Nat
  BY ReadableIs
<1>2. /\ q \in 1..Len(its) /\ its[q].sym = "(" /\ cc = <<>> /\ ps = base[q] + 1
      /\ b = DepthAt(t, ps) /\ ci = Count(t, ps, "==") + 1
  BY <1>1 DEF AtSym
<1>3. /\ base[q] \in Nat /\ base[q + 1] = ps
      /\ Count(t, ps + 1, "==") = Count(t, ps, "==") /\ DepthAt(t, ps + 1) = DepthAt(t, ps) + 1
  <2>1. its[q].sym # "clause"
    BY <1>2
  <2>2. LET i == base[q] + 1 IN
           /\ base[q] \in Nat /\ base[q + 1] = i
           /\ Count(t, i + 1, "==") = Count(t, i, "==")
           /\ its[q].sym = "(" => DepthAt(t, i + 1) = DepthAt(t, i) + 1
    BY <1>1, <1>2, <2>1, SymItem
  <2>3. QED
    BY <1>2, <2>2
<1>4. PICK r, p, d, v : r = q + 1 /\ p = ps + 1 /\ d = b + 1 /\ v = Append(os, "(")
  OBVIOUS
<1>5. Partly(its, r, v, cs, X, H)
  <2>1. its[q].sym \in OpSyms /\ Pushes(its[q].sym, os) /\ q <= Len(its)
    BY <1>1, <1>2 DEF OpSyms, Pushes, Infix
  <2>2. Partly(its, q + 1, Append(os, its[q].sym), cs, X, H)
    BY <2>1, PartlyOp
  <2>3. QED
    BY <1>2, <1>4, <2>2
<1>6. p = base[r] + Len(<<>>) + 1
  BY <1>2, <1>3, <1>4
<1>7. d = DepthAt(t, p) /\ ci = Count(t, base[r] + 1, "==") + 1 /\ <<>> \in Seq(Lexeme)
  BY <1>2, <1>3, <1>4
<1>8. ScanAt(its, base, t, r, p, d, ci, cc)
  BY <1>2, <1>6, <1>7 DEF ScanAt
<1>9. Located(its, base, t, r, "scan", p, d, ci, cc)
  BY <1>8 DEF Located
<1>10. Progress(t, H, X, "scan", p, d, v, cs, ci, cc)
  BY <1>5, <1>9, MovesOn
<1>11. QED
  BY <1>4, <1>10

\* A symbol that is met with no clause before it.
LEMMA SymMoves ==
  ASSUME NEW t, NEW H, NEW X, NEW ps, NEW b, NEW os, NEW cs, NEW ci, NEW cc,
         NEW its, NEW base, NEW q, Readable(its, base, t), Partly(its, q, os, cs, X, H),
         AtSym(its, base, t, q, ps, b, ci, cc)
  PROVE  /\ t[ps].sym = ")" => Progress(t, H, X, "close", ps, b - 1, os, cs, ci, cc)
         /\ t[ps].sym \in OPS => Progress(t, H, X, "operator", ps, b, os, cs, ci, cc)
<1>1. /\ q <= Len(its) /\ its[q].sym = t[ps].sym /\ cc = <<>> /\ ps = base[q] + 1
      /\ b = DepthAt(t, ps) /\ ci = Count(t, ps, "==") + 1
  BY DEF AtSym
<1>2. ASSUME t[ps].sym = ")"
      PROVE  Progress(t, H, X, "close", ps, b - 1, os, cs, ci, cc)
  <2>1. CloseAt(its, base, t, q, ps, b - 1, ci, cc)
    BY <1>1, <1>2 DEF CloseAt
  <2>2. PICK d : d = b - 1
    OBVIOUS
  <2>3. Located(its, base, t, q, "close", ps, d, ci, cc)
    BY <2>1, <2>2 DEF Located
  <2>4. Progress(t, H, X, "close", ps, d, os, cs, ci, cc)
    BY <2>3, MovesOn
  <2>5. QED
    BY <2>2, <2>4
<1>3. ASSUME t[ps].sym \in OPS
      PROVE  Progress(t, H, X, "operator", ps, b, os, cs, ci, cc)
  <2>1. OpAt(its, base, t, q, ps, b, ci, cc)
    BY <1>1, <1>3 DEF OpAt
  <2>2. Located(its, base, t, q, "operator", ps, b, ci, cc)
    BY <2>1 DEF Located
  <2>3. QED
    BY <2>2, MovesOn
<1>4. QED
  BY <1>2, <1>3

\* The end of a clause.
LEMMA ClauseMoves ==
  ASSUME NEW t, NEW H, NEW X, NEW ps, NEW b, NEW os, NEW cs, NEW ci, NEW cc,
         NEW its, NEW base, NEW q \in 1..(Len(its) + 1), Readable(its, base, t), Partly(its, q, os, cs, X, H),
         AfterClause(its, base, t, q, ps, b, ci, cc),
         NEW e \in X, e.holds = {V \in Worlds : Recognised(cc) \in V}
  PROVE  /\ ps <= Len(t) /\ t[ps].sym = ")" => Progress(t, H, X, "ended", ps, b - 1, os, Append(cs, e), ci, cc)
         /\ ps <= Len(t) /\ t[ps].sym \in OPS =>
              /\ ci < Len(ClauseDepths(t))
              /\ Progress(t, H, X, "operator", ps, b, os, Append(cs, e), ci + 1, <<>>)
         /\ ~ (ps <= Len(t)) => Progress(t, H, X, "final", ps, b, os, Append(cs, e), ci, cc)
<1>1. Texted(its, base, t) /\ Len(its) \in Nat /\ Len(t) \in Nat /\ t \in Seq(Lexeme)
  BY ReadableIs
<1>2. PICK r, v : r = q + 1 /\ v = Append(cs, e)
  OBVIOUS
<1>3. /\ q \in 1..Len(its) /\ its[q].sym = "clause" /\ Recognised(cc) = its[q].of
      /\ ps = base[r] + 1 /\ b = DepthAt(t, ps) /\ ci = Count(t, ps, "==")
      /\ q < Len(its) => ps \in 1..Len(t) /\ its[r].sym \in {")", "and", "or"} /\ t[ps].sym = its[r].sym
      /\ q = Len(its) => ps = Len(t) + 1
  BY <1>1, <1>2 DEF AfterClause
<1>4. Partly(its, r, os, v, X, H)
  <2>1. q <= Len(its) /\ e.holds = {V \in Worlds : its[q].of \in V}
    BY <1>1, <1>3
  <2>2. Partly(its, q + 1, os, Append(cs, e), X, H)
    BY <1>3, <2>1, PartlyValue
  <2>3. QED
    BY <1>2, <2>2
<1>5. ps <= Len(t) => q < Len(its) /\ r \in 1..Len(its) /\ r <= Len(its)
  BY <1>1, <1>2, <1>3
<1>6. ASSUME ps <= Len(t), t[ps].sym = ")"
      PROVE  Progress(t, H, X, "ended", ps, b - 1, os, v, ci, cc)
  <2>1. PICK d : d = b - 1
    OBVIOUS
  <2>2. EndAt(its, base, t, r, ps, d, ci)
    BY <1>3, <1>5, <1>6, <2>1 DEF EndAt
  <2>3. Located(its, base, t, r, "ended", ps, d, ci, cc)
    BY <2>2 DEF Located
  <2>4. Progress(t, H, X, "ended", ps, d, os, v, ci, cc)
    BY <1>4, <2>3, MovesOn
  <2>5. QED
    BY <2>1, <2>4
<1>7. ASSUME ps <= Len(t), t[ps].sym \in OPS
      PROVE  /\ ci < Len(ClauseDepths(t))
             /\ Progress(t, H, X, "operator", ps, b, os, v, ci + 1, <<>>)
  <2>1. its[r].sym \in OPS /\ its[r].sym \in {"and", "or"}
    BY <1>3, <1>5, <1>7 DEF OPS
  <2>2. ci < Len(ClauseDepths(t))
    <3>1. its[r].sym # "clause" /\ its[r].sym \in {"and", "or", "not", "("}
      BY <2>1
    <3>2. r < Len(its) /\ Sees(its, base, t, r + 1)
      <4>1. Readable(its, base, t) /\ r \in 1..Len(its)
        BY <1>5, <1>7
      <4>2. /\ r < Len(its) /\ its[r].sym \in {"and", "or", "not", "("} => Sees(its, base, t, r + 1)
            /\ its[r].sym \in {"and", "or", "not", "("} => r < Len(its)
        BY ONLY <4>1, FollowIs
      <4>3. QED
        BY ONLY <3>1, <4>2
    <3>3. Sees(its, base, t, r + 1)
      BY <3>2
    <3>4. Next1(t, base[r + 1] + 1) \in 1..Len(ClauseDepths(t))
      BY <3>3 DEF Sees
    <3>5. LET i == base[r] + 1 IN base[r] \in Nat /\ base[r + 1] = i /\ Count(t, i + 1, "==") = Count(t, i, "==")
      BY <1>1, <1>5, <1>7, <3>1, SymItem
    <3>6. Next1(t, base[r + 1] + 1) = ci + 1
      BY <1>3, <3>5 DEF Next1
    <3>7. ci \in Nat /\ Len(ClauseDepths(t)) \in Nat
      <4>1. ps \in Nat \ {0}
        BY <1>3, <3>5
      <4>2. QED
        BY <1>1, <1>3, <4>1, CountStep, ClauseDepthsAt
    <3>8. QED
      BY <3>4, <3>6, <3>7
  <2>3. OpAt(its, base, t, r, ps, b, ci + 1, <<>>)
    BY <1>3, <1>5, <1>7, <2>1 DEF OpAt
  <2>4. PICK k : k = ci + 1
    OBVIOUS
  <2>5. Located(its, base, t, r, "operator", ps, b, k, <<>>)
    BY <2>3, <2>4 DEF Located
  <2>6. Progress(t, H, X, "operator", ps, b, os, v, k, <<>>)
    BY <1>4, <2>5, MovesOn
  <2>7. QED
    BY <2>2, <2>4, <2>6
<1>8. ASSUME ~ (ps <= Len(t))
      PROVE  Progress(t, H, X, "final", ps, b, os, v, ci, cc)
  <2>1. q = Len(its)
    BY <1>1, <1>3, <1>8
  <2>2. Located(its, base, t, r, "final", ps, b, ci, cc)
    BY <1>2, <2>1 DEF Located
  <2>3. QED
    BY <1>4, <2>2, MovesOn
<1>9. QED
  BY <1>2, <1>6, <1>7, <1>8

LEMMA EndMoves ==
  ASSUME NEW t, NEW H, NEW X, NEW ps, NEW b, NEW os, NEW cs, NEW ci, NEW cc,
         NEW its, NEW base, NEW q, Readable(its, base, t), Partly(its, q, os, cs, X, H),
         AtEnd(its, base, t, q, ps, b, ci, cc)
  PROVE  Progress(t, H, X, "final", ps, b, os, cs, ci, cc)
<1>1. Located(its, base, t, q, "final", ps, b, ci, cc)
  BY DEF Located, AtEnd
<1>2. QED
  BY <1>1, MovesOn

\* An operator that is pushed, and a bracket that closes a group: the next item.
LEMMA NextItem ==
  ASSUME NEW its, NEW base, NEW t, Readable(its, base, t), NEW q \in 1..Len(its), its[q].sym # "clause",
         NEW ps, ps = base[q] + 1, NEW ci, ci = Count(t, ps, "==") + 1
  PROVE  ScanAt(its, base, t, q + 1, ps + 1, DepthAt(t, ps + 1), ci, <<>>)
<1>1. Texted(its, base, t)
  BY ReadableIs
<1>2. LET i == base[q] + 1 IN
        base[q] \in Nat /\ base[q + 1] = i /\ Count(t, i + 1, "==") = Count(t, i, "==")
  BY <1>1, SymItem
<1>3. PICK r : r = q + 1
  OBVIOUS
<1>4. ps + 1 = base[r] + Len(<<>>) + 1 /\ base[r] + 1 = ps + 1 /\ <<>> \in Seq(Lexeme)
  BY <1>2, <1>3
<1>5. ci = Count(t, base[r] + 1, "==") + 1
  BY <1>2, <1>4
<1>6. ScanAt(its, base, t, r, ps + 1, DepthAt(t, ps + 1), ci, <<>>)
  BY <1>4, <1>5 DEF ScanAt
<1>7. QED
  BY <1>3, <1>6

LEMMA OperatorPushed ==
  ASSUME NEW t, NEW H, NEW X, NEW ps, NEW b, NEW os, NEW cs, NEW ci, NEW cc,
         Progress(t, H, X, "operator", ps, b, os, cs, ci, cc),
         os # <<>> /\ Last(os) \in OPS => ~ (OP_PRIORITY[Last(os)] > OP_PRIORITY[t[ps].sym])
  PROVE  Progress(t, H, X, "scan", ps + 1, b, Append(os, t[ps].sym), cs, ci, cc)
<1>1. PICK its, base, q : /\ Readable(its, base, t) /\ Partly(its, q, os, cs, X, H)
                          /\ Located(its, base, t, q, "operator", ps, b, ci, cc)
  BY DEF Progress
<1>2. OpAt(its, base, t, q, ps, b, ci, cc)
  BY <1>1 DEF Located
<1>3. q \in 1..(Len(its) + 1) /\ os \in Seq(OpSyms)
  BY <1>1, PartlyIs
<1>4. Len(its) \in Nat /\ Texted(its, base, t)
  BY <1>1, ReadableIs
<1>5. /\ q \in 1..Len(its) /\ q <= Len(its) /\ its[q].sym \in OPS /\ its[q].sym # "clause" /\ ps = base[q] + 1
      /\ b = DepthAt(t, ps) /\ ci = Count(t, ps, "==") + 1 /\ cc = <<>>
  BY <1>2, <1>3, <1>4 DEF OpAt, OPS
<1>6. PICK s : s = its[q].sym
  OBVIOUS
<1>7. /\ ps \in Nat \ {0} /\ t[ps].sym = s
  <2>1. LET i == base[q] + 1 IN i \in 1..Len(t) /\ t[i].sym = its[q].sym
    BY <1>4, <1>5, SymItem
  <2>2. QED
    BY <1>5, <1>6, <2>1
<1>8. s \in OPS /\ s \in OpSyms
  BY <1>5, <1>6 DEF OpSyms
<1>9. Pushes(s, os)
  <2> SUFFICES ASSUME s \in {"and", "or"}, os # <<>>
               PROVE  Last(os) # "not" /\ (s = "or" => Last(os) # "and")
    BY DEF Pushes, Infix
  <2>1. /\ OP_PRIORITY["not"] = -1 /\ OP_PRIORITY["and"] = -2 /\ OP_PRIORITY["or"] = -3
    BY DEF OP_PRIORITY
  <2>2. Last(os) \in OPS => ~ (OP_PRIORITY[Last(os)] > OP_PRIORITY[s])
    BY <1>7
  <2>3. Last(os) # "not"
    BY <2>1, <2>2 DEF OPS
  <2>4. s = "or" => Last(os) # "and"
    BY <2>1, <2>2 DEF OPS
  <2>5. QED
    BY <2>3, <2>4
<1>10. PICK r, p, v : r = q + 1 /\ p = ps + 1 /\ v = Append(os, s)
  OBVIOUS
<1>11. Partly(its, r, v, cs, X, H)
  BY <1>1, <1>5, <1>6, <1>8, <1>9, <1>10, PartlyOp
<1>12. b = DepthAt(t, p)
  <2>1. t[ps].sym \notin {"(", ")"}
    BY <1>7, <1>8 DEF OPS
  <2>2. QED
    BY <1>5, <1>7, <1>10, <2>1, DepthStep
<1>13. ScanAt(its, base, t, r, p, b, ci, cc)
  BY <1>1, <1>5, <1>10, <1>12, NextItem
<1>14. Located(its, base, t, r, "scan", p, b, ci, cc)
  BY <1>13 DEF Located
<1>15. Progress(t, H, X, "scan", p, b, v, cs, ci, cc)
  BY <1>1, <1>11, <1>14, MovesOn
<1>16. QED
  BY <1>7, <1>10, <1>15

LEMMA GroupCloses ==
  ASSUME NEW t, NEW H, NEW X, NEW ps, NEW b, NEW os, NEW cs, NEW ci, NEW cc,
         Progress(t, H, X, "close", ps, b, os, cs, ci, cc)
  PROVE  /\ os # <<>>
         /\ Last(os) = "(" => Progress(t, H, X, "scan", ps + 1, b, Front(os), cs, ci, cc)
<1>1. PICK its, base, q : /\ Readable(its, base, t) /\ Partly(its, q, os, cs, X, H)
                          /\ Located(its, base, t, q, "close", ps, b, ci, cc)
  BY DEF Progress
<1>2. CloseAt(its, base, t, q, ps, b, ci, cc)
  BY <1>1 DEF Located
<1>3. q \in 1..(Len(its) + 1)
  BY <1>1, PartlyIs
<1>4. Len(its) \in Nat /\ Texted(its, base, t)
  BY <1>1, ReadableIs
<1>5. /\ q \in 1..Len(its) /\ q <= Len(its) /\ its[q].sym = ")" /\ its[q].sym # "clause" /\ ps = base[q] + 1
      /\ b = DepthAt(t, ps) - 1 /\ ci = Count(t, ps, "==") + 1 /\ cc = <<>>
  BY <1>2, <1>3, <1>4 DEF CloseAt
<1>6. os # <<>> /\ (Last(os) = "(" => Partly(its, q + 1, Front(os), cs, X, H))
  BY <1>1, <1>5, PartlyClosed
<1>7. ASSUME Last(os) = "("
      PROVE  Progress(t, H, X, "scan", ps + 1, b, Front(os), cs, ci, cc)
  <2>1. PICK r, p, v : r = q + 1 /\ p = ps + 1 /\ v = Front(os)
    OBVIOUS
  <2>2. Partly(its, r, v, cs, X, H)
    BY <1>6, <1>7, <2>1
  <2>3. b = DepthAt(t, p)
    <3>1. LET i == base[q] + 1 IN i \in 1..Len(t) /\ t[i].sym = its[q].sym
      BY <1>4, <1>5, SymItem
    <3>2. ps \in Nat \ {0} /\ t[ps].sym = ")"
      BY <1>5, <3>1
    <3>3. QED
      BY <1>5, <2>1, <3>2, DepthStep
  <2>4. ScanAt(its, base, t, r, p, b, ci, cc)
    BY <1>1, <1>5, <2>1, <2>3, NextItem
  <2>5. Located(its, base, t, r, "scan", p, b, ci, cc)
    BY <2>4 DEF Located
  <2>6. Progress(t, H, X, "scan", p, b, v, cs, ci, cc)
    BY <1>1, <2>2, <2>5, MovesOn
  <2>7. QED
    BY <2>1, <2>6
<1>8. QED
  BY <1>6, <1>7

-----------------------------------------------------------------------------
(***************************************************************************)
(* An operator that is applied.                                            *)
(***************************************************************************)
Ar(os) == IF Last(os) = "not" THEN 1 ELSE 2
Outcome(os, cs) == IF Last(os) = "not" THEN Worlds \ cs[Len(cs)].holds
                   ELSE Meet(Last(os), cs[Len(cs) - 1].holds, cs[Len(cs)].holds)
Popped(os, cs) == SubSeq(cs, 1, Len(cs) - Ar(os))

LEMMA Reduced ==
  ASSUME NEW its, NEW q, NEW os, NEW cs, NEW X, NEW H, Partly(its, q, os, cs, X, H),
         Stops(its, q), os # <<>>, Last(os) # "(", Last(os) = "or" /\ q <= Len(its) => its[q].sym # "and"
  PROVE  /\ Len(cs) >= Ar(os)
         /\ \A z \in X : z.holds = Outcome(os, cs) => Partly(its, q, Front(os), Append(Popped(os, cs), z), X, H)
<1>1. os \in Seq(OpSyms) /\ cs \in Seq(X)
  BY PartlyIs
<1>2. Last(os) \in OpSyms
  BY <1>1, TallyLess
<1>3. CASE Last(os) = "not"
  <2>1. PICK v \in Seq(X), e \in X :
           /\ cs = Append(v, e)
           /\ \A d \in X : d.holds = Worlds \ e.holds => Partly(its, q, Front(os), Append(v, d), X, H)
    BY <1>3, PartlyNot
  <2>2. Len(cs) = Len(v) + 1 /\ cs[Len(v) + 1] = e /\ SubSeq(cs, 1, Len(v)) = v /\ Len(v) \in Nat
    BY <2>1, PushedIs
  <2>3. Ar(os) = 1
    BY <1>3 DEF Ar
  <2>4. Len(cs) >= 1 /\ Len(cs) - 1 = Len(v)
    BY <2>2
  <2>5. Popped(os, cs) = v
    BY <2>2, <2>3, <2>4 DEF Popped
  <2>6. Outcome(os, cs) = Worlds \ e.holds
    BY <1>3, <2>2 DEF Outcome
  <2>7. QED
    BY <2>1, <2>3, <2>4, <2>5, <2>6
<1>4. CASE Last(os) # "not"
  <2>1. Last(os) \in Infix
    BY <1>2, <1>4 DEF OpSyms, OPS, Infix
  <2>2. PICK v \in Seq(X), d \in X, e \in X :
           /\ cs = Append(Append(v, d), e)
           /\ \A c \in X : c.holds = Meet(Last(os), d.holds, e.holds) =>
                             Partly(its, q, Front(os), Append(v, c), X, H)
    <3>1. /\ Partly(its, q, os, cs, X, H) /\ Stops(its, q) /\ os # <<>> /\ Last(os) \in Infix
          /\ Last(os) = "or" /\ q <= Len(its) => its[q].sym # "and"
      BY <2>1
    <3>2. QED
      BY ONLY <3>1, PartlyInfix
  <2>3. PICK u, k : u = Append(v, d) /\ k = Len(v)
    OBVIOUS
  <2>4. u \in Seq(X) /\ k \in Nat /\ Len(u) = k + 1 /\ u[k + 1] = d /\ \A i \in 1..k : u[i] = v[i]
    BY <2>3, PushedIs
  <2>5. cs = Append(u, e)
    BY <2>2, <2>3
  <2>6. Len(cs) = Len(u) + 1 /\ cs[Len(u) + 1] = e /\ \A i \in 1..Len(u) : cs[i] = u[i]
    BY <2>4, <2>5, PushedIs
  <2>7. Len(cs) = k + 2 /\ cs[k + 2] = e /\ cs[k + 1] = d /\ \A i \in 1..k : cs[i] = v[i]
    <3>1. Len(u) + 1 = k + 2 /\ k + 1 \in 1..Len(u) /\ \A i \in 1..k : i \in 1..Len(u)
      BY <2>4
    <3>2. QED
      BY <2>4, <2>6, <3>1
  <2>8. Ar(os) = 2 /\ Len(cs) >= 2 /\ Len(cs) - 2 = k /\ Len(cs) - 1 = k + 1
    BY <1>4, <2>4, <2>7 DEF Ar
  <2>9. Popped(os, cs) = v
    <3>1. PICK f : f = SubSeq(cs, 1, k)
      OBVIOUS
    <3>2. f \in Seq(X) /\ Len(f) = k /\ \A i \in 1..k : f[i] = cs[i]
      BY <1>1, <2>4, <2>7, <3>1
    <3>3. \A i \in 1..k : f[i] = v[i]
      BY <2>7, <3>2
    <3>4. f = v
      BY <2>3, <2>4, <3>2, <3>3, SamePlaces
    <3>5. QED
      BY <2>8, <3>1, <3>4 DEF Popped
  <2>10. Outcome(os, cs) = Meet(Last(os), d.holds, e.holds)
    BY <1>4, <2>7, <2>8 DEF Outcome
  <2>11. QED
    BY <2>2, <2>8, <2>9, <2>10
<1>5. QED
  BY <1>3, <1>4

\* When the loops of the phases take an operator off the stack.
Pops(t, ph, ps, os) ==
  \/ ph = "operator" /\ Last(os) \in OPS /\ OP_PRIORITY[Last(os)] > OP_PRIORITY[t[ps].sym]
  \/ ph \in {"close", "ended"} /\ Last(os) # "("
  \/ ph = "final"

LEMMA Applied ==
  ASSUME NEW t, NEW H, NEW X, NEW ph, NEW ps, NEW b, NEW os, NEW cs, NEW ci, NEW cc,
         Progress(t, H, X, ph, ps, b, os, cs, ci, cc), os # <<>>, Pops(t, ph, ps, os)
  PROVE  /\ Len(cs) >= Ar(os) /\ Last(os) # "("
         /\ \A z \in X : z.holds = Outcome(os, cs) =>
              Progress(t, H, X, ph, ps, b, Front(os), Append(Popped(os, cs), z), ci, cc)
<1>1. PICK its, base, q : /\ Readable(its, base, t) /\ Partly(its, q, os, cs, X, H)
                          /\ Located(its, base, t, q, ph, ps, b, ci, cc)
  BY DEF Progress
<1>2. q \in 1..(Len(its) + 1) /\ os \in Seq(OpSyms)
  BY <1>1, PartlyIs
<1>3. Len(its) \in Nat /\ Texted(its, base, t)
  BY <1>1, ReadableIs
<1>4. Last(os) # "(" /\ Stops(its, q) /\ (Last(os) = "or" /\ q <= Len(its) => its[q].sym # "and")
  <2>1. CASE ph = "operator"
    <3>1. OpAt(its, base, t, q, ps, b, ci, cc)
      BY <1>1, <2>1 DEF Located
    <3>2. q \in 1..Len(its) /\ its[q].sym \in OPS /\ ps = base[q] + 1 /\ its[q].sym # "clause"
      BY <1>2, <1>3, <3>1 DEF OpAt, OPS
    <3>3. t[ps].sym = its[q].sym
      <4>1. LET i == base[q] + 1 IN t[i].sym = its[q].sym
        BY <1>3, <3>2, SymItem
      <4>2. QED
        BY <3>2, <4>1
    <3>4. /\ OP_PRIORITY["not"] = -1 /\ OP_PRIORITY["and"] = -2 /\ OP_PRIORITY["or"] = -3
      BY DEF OP_PRIORITY
    <3>5. Last(os) \in OPS /\ OP_PRIORITY[Last(os)] > OP_PRIORITY[its[q].sym]
      BY <2>1, <3>3 DEF Pops
    <3>6. its[q].sym # "not" /\ Last(os) # "or" /\ Last(os) # "("
      BY <3>2, <3>4, <3>5 DEF OPS
    <3>7. QED
      BY <3>2, <3>6 DEF Stops, OPS
  <2>2. CASE ph \in {"close", "ended"}
    <3>1. its[q].sym = ")"
      BY <1>1, <2>2 DEF Located, CloseAt, EndAt
    <3>2. Last(os) # "("
      BY <2>2 DEF Pops
    <3>3. QED
      BY <3>1, <3>2 DEF Stops
  <2>3. CASE ph = "final"
    <3>1. q = Len(its) + 1
      BY <1>1, <2>3 DEF Located
    <3>2. Last(os) # "("
      BY <1>1, <3>1, PartlyEnd
    <3>3. ~ (q <= Len(its))
      BY <1>3, <3>1
    <3>4. QED
      BY <3>2, <3>3 DEF Stops
  <2>4. QED
    BY <2>1, <2>2, <2>3 DEF Pops
<1>5. /\ Len(cs) >= Ar(os)
      /\ \A z \in X : z.holds = Outcome(os, cs) => Partly(its, q, Front(os), Append(Popped(os, cs), z), X, H)
  <2>1. /\ Partly(its, q, os, cs, X, H) /\ Stops(its, q) /\ os # <<>> /\ Last(os) # "("
        /\ Last(os) = "or" /\ q <= Len(its) => its[q].sym # "and"
    BY <1>1, <1>4
  <2>2. QED
    BY ONLY <2>1, Reduced
<1>6. ASSUME NEW z \in X, z.holds = Outcome(os, cs)
      PROVE  Progress(t, H, X, ph, ps, b, Front(os), Append(Popped(os, cs), z), ci, cc)
  <2>1. PICK o, v : o = Front(os) /\ v = Append(Popped(os, cs), z)
    OBVIOUS
  <2>2. Partly(its, q, o, v, X, H)
    BY <1>5, <1>6, <2>1
  <2>3. Progress(t, H, X, ph, ps, b, o, v, ci, cc)
    BY <1>1, <2>2, MovesOn
  <2>4. QED
    BY <2>1, <2>3
<1>7. QED
  BY <1>4, <1>5, <1>6

LEMMA Finished ==
  ASSUME NEW t, NEW H, NEW X, NEW ps, NEW b, NEW os, NEW cs, NEW ci, NEW cc,
         Progress(t, H, X, "final", ps, b, os, cs, ci, cc), os = <<>>
  PROVE  cs # <<>> /\ Last(cs).holds = H
<1>1. PICK its, base, q : /\ Readable(its, base, t) /\ Partly(its, q, os, cs, X, H)
                          /\ Located(its, base, t, q, "final", ps, b, ci, cc)
  BY DEF Progress
<1>2. q = Len(its) + 1
  BY <1>1 DEF Located
<1>3. QED
  BY <1>1, <1>2, PartlyEnd

-----------------------------------------------------------------------------
(***************************************************************************)
(* The loop was left with closing brackets to read: the operators take     *)
(* all the values away.                                                    *)
(***************************************************************************)
Stranded(t, os, cs) == ~ EndsInOneBracket(t) /\ Len(cs) <= Tally(os)

LEMMA StrandedOn ==
  ASSUME NEW t, NEW X, NEW os \in Seq(OpSyms), NEW cs \in Seq(X), Stranded(t, os, cs)
  PROVE  /\ os = <<>> => cs = <<>>
         /\ os # <<>> /\ Len(cs) >= Ar(os) => \A z \in X : Stranded(t, Front(os), Append(Popped(os, cs), z))
<1>1. ~ EndsInOneBracket(t) /\ Len(cs) <= Tally(os)
  BY DEF Stranded
<1>2. Len(cs) \in Nat
  OBVIOUS
<1>3. os = <<>> => cs = <<>>
  <2> SUFFICES ASSUME os = <<>>
               PROVE  cs = <<>>
    OBVIOUS
  <2>1. Tally(os) = 0
    BY TallyNone
  <2>2. Len(cs) = 0
    BY <1>1, <1>2, <2>1
  <2>3. QED
    BY <2>2
<1>4. ASSUME os # <<>>, Len(cs) >= Ar(os), NEW z \in X
      PROVE  Stranded(t, Front(os), Append(Popped(os, cs), z))
  <2>1. PICK k : k = Len(cs) - Ar(os)
    OBVIOUS
  <2>2. k \in Nat /\ k <= Len(cs) /\ Len(cs) = k + Ar(os)
    <3>1. PICK g, n : g = Ar(os) /\ n = Len(cs)
      OBVIOUS
    <3>2. g \in {1, 2} /\ n \in Nat /\ n >= g /\ k = n - g
      <4>1. g \in {1, 2}
        BY <3>1 DEF Ar
      <4>2. n >= g
        BY <1>4, <3>1, Zenon
      <4>3. k = n - g
        BY <2>1, <3>1, Zenon
      <4>4. QED
        BY <1>2, <3>1, <4>1, <4>2, <4>3
    <3>3. k \in Nat /\ k <= n /\ n = k + g
      BY ONLY <3>2
    <3>4. QED
      BY <3>1, <3>3
  <2>3. PICK f : f = Popped(os, cs)
    OBVIOUS
  <2>4. f \in Seq(X) /\ Len(f) = k
    <3>1. f = SubSeq(cs, 1, k)
      BY <2>1, <2>3, Zenon DEF Popped
    <3>2. k \in Nat /\ k <= Len(cs) /\ cs \in Seq(X)
      BY <2>2
    <3>3. SubSeq(cs, 1, k) \in Seq(X) /\ Len(SubSeq(cs, 1, k)) = k
      BY ONLY <3>2
    <3>4. QED
      BY <3>1, <3>3
  <2>5. Len(Append(f, z)) = k + 1
    BY <2>4, PushedIs
  <2>6. PICK a, d : a = Tally(os) /\ d = Tally(Front(os))
    OBVIOUS
  <2>7. d \in Nat /\ (Last(os) = "not" => a = d) /\ (Last(os) # "not" => a = d + 1)
    BY <1>4, <2>6, TallyLess
  <2>8. Len(cs) <= a
    BY <1>1, <2>6
  <2>9. k + 1 <= d
    BY <2>2, <2>7, <2>8 DEF Ar
  <2>10. QED
    BY <1>1, <2>3, <2>5, <2>6, <2>9 DEF Stranded
<1>5. QED
  BY <1>3, <1>4

LEMMA ClauseLeft ==
  ASSUME NEW t, NEW H, NEW X, NEW ps, NEW b, NEW os, NEW cs, NEW ci, NEW cc,
         Progress(t, H, X, "ended", ps, b, os, cs, ci, cc)
  PROVE  /\ os # <<>>
         /\ Last(os) = "(" /\ ci = Len(ClauseDepths(t)) =>
              Progress(t, H, X, "final", ps, b, Front(os), cs, ci + 1, <<>>) \/ Stranded(t, Front(os), cs)
         /\ Last(os) = "(" /\ ci # Len(ClauseDepths(t)) =>
              Progress(t, H, X, "scan", ps + 1, b, Front(os), cs, ci + 1, <<>>)
<1>1. PICK its, base, q : /\ Readable(its, base, t) /\ Partly(its, q, os, cs, X, H)
                          /\ Located(its, base, t, q, "ended", ps, b, ci, cc)
  BY DEF Progress
<1>2. EndAt(its, base, t, q, ps, b, ci)
  BY <1>1 DEF Located
<1>3. q \in 1..(Len(its) + 1)
  BY <1>1, PartlyIs
<1>4. Len(its) \in Nat /\ Texted(its, base, t)
  BY <1>1, ReadableIs
<1>5. /\ q \in 1..Len(its) /\ q <= Len(its) /\ its[q].sym = ")" /\ its[q].sym # "clause" /\ ps = base[q] + 1
      /\ b = DepthAt(t, ps) - 1 /\ ci = Count(t, ps, "==")
  BY <1>2, <1>3, <1>4 DEF EndAt
<1>6. os # <<>> /\ (Last(os) = "(" => Partly(its, q + 1, Front(os), cs, X, H))
  BY <1>1, <1>5, PartlyClosed
<1>7. PICK r, v : r = q + 1 /\ v = Front(os)
  OBVIOUS
<1>8. /\ ps \in Nat \ {0} /\ t[ps].sym = ")" /\ base[r] = ps
      /\ Count(t, base[r] + 1, "==") = ci
  <2>1. LET i == base[q] + 1 IN
           /\ i \in 1..Len(t) /\ t[i].sym = its[q].sym /\ base[q + 1] = i
           /\ Count(t, i + 1, "==") = Count(t, i, "==")
    BY <1>4, <1>5, SymItem
  <2>2. QED
    BY <1>5, <1>7, <2>1
<1>9. ASSUME Last(os) = "(", ci = Len(ClauseDepths(t))
      PROVE  Progress(t, H, X, "final", ps, b, v, cs, ci + 1, <<>>) \/ Stranded(t, v, cs)
  <2>1. Partly(its, r, v, cs, X, H)
    BY <1>6, <1>7, <1>9
  <2>2. CASE q = Len(its)
    <3>1. PICK k : k = ci + 1
      OBVIOUS
    <3>2. Located(its, base, t, r, "final", ps, b, k, <<>>)
      BY <1>7, <2>2 DEF Located
    <3>3. Progress(t, H, X, "final", ps, b, v, cs, k, <<>>)
      BY <1>1, <2>1, <3>2, MovesOn
    <3>4. QED
      BY <3>1, <3>3
  <2>3. CASE q # Len(its)
    <3>1. r \in 2..Len(its) /\ r \in 2..(Len(its) + 1) /\ r - 1 = q /\ r \in (r - 1)..Len(its) /\ r <= Len(its)
      BY <1>4, <1>5, <1>7, <2>3
    <3>2. PICK w : Stands(its, w) /\ Shaped(w)
      BY <1>1 DEF Readable
    <3>3. its[r - 1].sym = ")" /\ Count(t, base[r] + 1, "==") = Len(ClauseDepths(t))
      BY <1>5, <1>8, <1>9, <3>1
    <3>4. \A i \in (r - 1)..Len(its) : its[i].sym = ")"
      <4>1. /\ Texted(its, base, t) /\ Stands(its, w) /\ Shaped(w) /\ r \in 2..(Len(its) + 1)
            /\ its[r - 1].sym = ")" /\ Count(t, base[r] + 1, "==") = Len(ClauseDepths(t))
        BY <1>4, <3>1, <3>2, <3>3
      <4>2. QED
        BY ONLY <4>1, TailCloses
    <3>5. ~ EndsInOneBracket(t)
      BY <1>4, <3>1, <3>4, TailTokens
    <3>6. its[r].sym = ")"
      BY <3>1, <3>4
    <3>7. Len(cs) <= Tally(v)
      BY <2>1, <3>1, <3>6, PartlyShort
    <3>8. QED
      BY <3>5, <3>7 DEF Stranded
  <2>4. QED
    BY <2>2, <2>3
<1>10. ASSUME Last(os) = "("
       PROVE  Progress(t, H, X, "scan", ps + 1, b, v, cs, ci + 1, <<>>)
  <2>1. PICK p, k : p = ps + 1 /\ k = ci + 1
    OBVIOUS
  <2>2. Partly(its, r, v, cs, X, H)
    BY <1>6, <1>7, <1>10
  <2>3. b = DepthAt(t, p)
    BY <1>5, <1>8, <2>1, DepthStep
  <2>4. ScanAt(its, base, t, r, p, b, k, <<>>)
    BY <1>1, <1>5, <1>7, <2>1, <2>3, NextItem
  <2>5. Located(its, base, t, r, "scan", p, b, k, <<>>)
    BY <2>4 DEF Located
  <2>6. Progress(t, H, X, "scan", p, b, v, cs, k, <<>>)
    BY <1>1, <2>2, <2>5, MovesOn
  <2>7. QED
    BY <2>1, <2>6
<1>11. QED
  BY <1>6, <1>7, <1>9, <1>10

-----------------------------------------------------------------------------
(***************************************************************************)
(* The loop over the tokens: what it does with the next one.               *)
(***************************************************************************)
LEMMA ScanMoves ==
  ASSUME NEW t, NEW H, NEW X, NEW ps \in Nat \ {0}, NEW b, NEW os, NEW cs, NEW ci, NEW cc,
         Progress(t, H, X, "scan", ps, b, os, cs, ci, cc),
         NEW e \in X, e.holds = {V \in Worlds : Recognised(cc) \in V}
  PROVE  /\ ps <= Len(t) /\ t[ps].sym = "(" =>
              /\ b + 1 > ClauseDepths(t)[ci] =>
                   Progress(t, H, X, "scan", ps + 1, b + 1, os, cs, ci, Append(cc, t[ps]))
              /\ ~ (b + 1 > ClauseDepths(t)[ci]) =>
                   Progress(t, H, X, "scan", ps + 1, b + 1, Append(os, "("), cs, ci, cc)
         /\ ps <= Len(t) /\ t[ps].sym = ")" /\ cc # <<>> =>
              /\ b - 1 >= ClauseDepths(t)[ci] =>
                   Progress(t, H, X, "scan", ps + 1, b - 1, os, cs, ci, Append(cc, t[ps]))
              /\ b - 1 < ClauseDepths(t)[ci] =>
                   Progress(t, H, X, "ended", ps, b - 1, os, Append(cs, e), ci, cc)
         /\ ps <= Len(t) /\ t[ps].sym = ")" /\ cc = <<>> =>
              Progress(t, H, X, "close", ps, b - 1, os, cs, ci, cc)
         /\ ps <= Len(t) /\ t[ps].sym \in OPS /\ cc # <<>> =>
              /\ ci < Len(ClauseDepths(t))
              /\ Progress(t, H, X, "operator", ps, b, os, Append(cs, e), ci + 1, <<>>)
         /\ ps <= Len(t) /\ t[ps].sym \in OPS /\ cc = <<>> =>
              Progress(t, H, X, "operator", ps, b, os, cs, ci, cc)
         /\ ps <= Len(t) /\ t[ps].sym \in {"text", "=="} =>
              Progress(t, H, X, "scan", ps + 1, b, os, cs, ci, Append(cc, t[ps]))
         /\ ~ (ps <= Len(t)) /\ cc # <<>> => Progress(t, H, X, "final", ps, b, os, Append(cs, e), ci, cc)
         /\ ~ (ps <= Len(t)) /\ cc = <<>> => Progress(t, H, X, "final", ps, b, os, cs, ci, cc)
<1>1. PICK its, base, q :
           /\ Readable(its, base, t) /\ Partly(its, q, os, cs, X, H) /\ ScanAt(its, base, t, q, ps, b, ci, cc)
           /\ Len(its) \in Nat /\ q \in 1..(Len(its) + 1) /\ Len(t) \in Nat
           /\ \/ InClause(its, base, t, q, ps, b, ci, cc)
              \/ AtSym(its, base, t, q, ps, b, ci, cc)
              \/ AfterClause(its, base, t, q, ps, b, ci, cc)
              \/ AtEnd(its, base, t, q, ps, b, ci, cc)
  <2>1. Progress(t, H, X, "scan", ps, b, os, cs, ci, cc)
    OBVIOUS
  <2>2. QED
    BY ONLY <2>1, Scanning
<1>2. CASE InClause(its, base, t, q, ps, b, ci, cc)
  <2>1. /\ t[ps].sym = "(" => Progress(t, H, X, "scan", ps + 1, b + 1, os, cs, ci, Append(cc, t[ps]))
        /\ t[ps].sym = ")" => Progress(t, H, X, "scan", ps + 1, b - 1, os, cs, ci, Append(cc, t[ps]))
        /\ t[ps].sym \in {"text", "=="} => Progress(t, H, X, "scan", ps + 1, b, os, cs, ci, Append(cc, t[ps]))
    BY ONLY <1>1, <1>2, InClauseMoves
  <2>2. /\ ps <= Len(t) /\ t[ps].sym \in {"(", ")", "text", "=="} /\ t[ps].sym \notin OPS
        /\ t[ps].sym = "(" => b + 1 > ClauseDepths(t)[ci]
        /\ t[ps].sym = ")" => cc # <<>> /\ ~ (b - 1 < ClauseDepths(t)[ci])
    <3>1. ps \in 1..Len(t) /\ t[ps].sym \in {"(", ")", "text", "=="}
      BY <1>2 DEF InClause
    <3>2. ps <= Len(t) /\ t[ps].sym \notin OPS
      BY <1>1, <3>1 DEF OPS
    <3>3. QED
      BY <1>2, <3>1, <3>2 DEF InClause
  <2>3. QED
    BY ONLY <2>1, <2>2
<1>3. CASE AtSym(its, base, t, q, ps, b, ci, cc)
  <2>1. /\ t[ps].sym = ")" => Progress(t, H, X, "close", ps, b - 1, os, cs, ci, cc)
        /\ t[ps].sym \in OPS => Progress(t, H, X, "operator", ps, b, os, cs, ci, cc)
    BY ONLY <1>1, <1>3, SymMoves
  <2>2. t[ps].sym = "(" => Progress(t, H, X, "scan", ps + 1, b + 1, Append(os, "("), cs, ci, cc)
    BY ONLY <1>1, <1>3, GroupOpens
  <2>3. /\ ps <= Len(t) /\ t[ps].sym \notin {"text", "=="} /\ cc = <<>>
        /\ t[ps].sym = "(" => ~ (b + 1 > ClauseDepths(t)[ci])
    <3>1. ps \in 1..Len(t) /\ t[ps].sym = its[q].sym /\ its[q].sym \in Symbols /\ cc = <<>>
      BY <1>3 DEF AtSym
    <3>2. ps <= Len(t) /\ t[ps].sym \notin {"text", "=="}
      BY <1>1, <3>1 DEF Symbols
    <3>3. QED
      BY <1>3, <3>1, <3>2 DEF AtSym
  <2>4. QED
    BY ONLY <2>1, <2>2, <2>3
<1>4. CASE AfterClause(its, base, t, q, ps, b, ci, cc)
  <2>1. /\ ps <= Len(t) /\ t[ps].sym = ")" => Progress(t, H, X, "ended", ps, b - 1, os, Append(cs, e), ci, cc)
        /\ ps <= Len(t) /\ t[ps].sym \in OPS =>
             /\ ci < Len(ClauseDepths(t))
             /\ Progress(t, H, X, "operator", ps, b, os, Append(cs, e), ci + 1, <<>>)
        /\ ~ (ps <= Len(t)) => Progress(t, H, X, "final", ps, b, os, Append(cs, e), ci, cc)
    <3>1. e \in X /\ e.holds = {V \in Worlds : Recognised(cc) \in V}
      OBVIOUS
    <3>2. QED
      BY ONLY <1>1, <1>4, <3>1, ClauseMoves
  <2>2. /\ cc # <<>> /\ ~ (b - 1 >= ClauseDepths(t)[ci])
        /\ ps <= Len(t) => t[ps].sym \in {")", "and", "or"}
    <3>1. /\ cc # <<>> /\ ~ (b - 1 >= ClauseDepths(t)[ci]) /\ q <= Len(its)
          /\ q < Len(its) => t[ps].sym = its[q + 1].sym /\ its[q + 1].sym \in {")", "and", "or"}
          /\ q = Len(its) => ps = Len(t) + 1
      BY <1>4 DEF AfterClause
    <3>2. q < Len(its) \/ q = Len(its)
      BY <1>1, <3>1
    <3>3. ps <= Len(t) => ps # Len(t) + 1
      BY <1>1
    <3>4. QED
      BY ONLY <3>1, <3>2, <3>3
  <2>3. QED
    BY ONLY <2>1, <2>2
<1>5. CASE AtEnd(its, base, t, q, ps, b, ci, cc)
  <2>1. Progress(t, H, X, "final", ps, b, os, cs, ci, cc)
    BY ONLY <1>1, <1>5, EndMoves
  <2>2. ~ (ps <= Len(t)) /\ cc = <<>>
    BY <1>1, <1>5 DEF AtEnd
  <2>3. QED
    BY ONLY <2>1, <2>2
<1>6. QED
  BY ONLY <1>1, <1>2, <1>3, <1>4, <1>5

LEMMA ScanHasClauses ==
  ASSUME NEW t, NEW H, NEW X, NEW ph, NEW ps, NEW b, NEW os, NEW cs, NEW ci, NEW cc,
         Progress(t, H, X, ph, ps, b, os, cs, ci, cc)
  PROVE  ClauseDepths(t) # <<>>
<1>1. PICK its, base, q : Readable(its, base, t)
  BY DEF Progress
<1>2. QED
  BY <1>1, HasClauses DEF Readable

-----------------------------------------------------------------------------
(***************************************************************************)
(* The inductive invariant: while an expression is read its tokens, the    *)
(* operators and the values fit together, or its brackets are left over;   *)
(* then the value that is left is what the expression means; a coverpoint  *)
(* that was rejected is no expression or had brackets left over.           *)
(***************************************************************************)
Current == Covpt[csr_comb[covpt]]
Going(cp, X, ph, ps, b, os, cs, ci, cc) ==
  \/ Progress(cp.toks, cp.holds, X, ph, ps, b, os, cs, ci, cc)
  \/ ph = "final" /\ Stranded(cp.toks, os, cs)
ReadsOn == phase \in Reading /\ IsExpression(Current) =>
  Going(Current, Expression(csr_comb[covpt]), phase, pos, bracket_depth, operator_stack, clause_stack,
        clause_index, current_clause)
Understood == phase = "solve" /\ IsExpression(Current) => bool_expr.holds = Current.holds
Refused == \A i \in invalid : IsExpression(Covpt[csr_comb[i]]) => ~ EndsInOneBracket(Covpt[csr_comb[i]].toks)
ParseIInv == CsrIInv /\ ReadsOn /\ Understood /\ Refused

\* The next step goes on with the same coverpoint.
GoesOn ==
  Going(Current, Expression(csr_comb[covpt]), phase', pos', bracket_depth', operator_stack', clause_stack',
        clause_index', current_clause')

LEMMA InProgress ==
  ASSUME ReadsOn, IsExpression(Current), phase \in Reading
  PROVE  /\ \/ Progress(toks, Current.holds, Expression(csr_comb[covpt]), phase, pos, bracket_depth,
                        operator_stack, clause_stack, clause_index, current_clause)
            \/ phase = "final" /\ Stranded(toks, operator_stack, clause_stack)
         /\ toks = Current.toks
<1>1. toks = Current.toks
  BY DEF toks, Current
<1>2. Going(Current, Expression(csr_comb[covpt]), phase, pos, bracket_depth, operator_stack, clause_stack,
        clause_index, current_clause)
  BY DEF ReadsOn
<1>3. QED
  BY <1>1, <1>2 DEF Going

LEMMA TokensGo ==
  ASSUME ParseTypeOK, ReadsOn, IsExpression(Current),
         OpenBracket \/ CloseInClause \/ CloseAfterClause \/ CloseGroup \/ Operator \/ TextToken \/ EndOfTokens
  PROVE  GoesOn
<1>1. phase = "scan" /\ phase \in Reading
  BY DEF OpenBracket, CloseInClause, CloseAfterClause, CloseGroup, Operator, TextToken, EndOfTokens, HasToken, Reading
<1>2. PICK t, H, X, b, os, cs, ci, cc :
           /\ t = toks /\ H = Current.holds /\ X = Expression(csr_comb[covpt]) /\ b = bracket_depth
           /\ os = operator_stack /\ cs = clause_stack /\ ci = clause_index /\ cc = current_clause
  OBVIOUS
<1>3. PICK ps \in Nat \ {0} : ps = pos
  BY <1>1, ReadingType
<1>4. PICK e \in X : e = LiteralExpression(Recognised(cc))
  <2>1. cc \in Seq(ToSet(Covpt[csr_comb[covpt]].toks))
    BY <1>1, <1>2, ReadingType DEF Stacks
  <2>2. QED
    BY <1>2, <2>1, RecognisedType, LiteralType
<1>5. e.holds = {V \in Worlds : Recognised(cc) \in V}
  BY <1>4 DEF LiteralExpression
<1>6. Progress(t, H, X, "scan", ps, b, os, cs, ci, cc)
  BY <1>1, <1>2, <1>3, InProgress
<1>7. PICK C : C = ClauseDepths(t)
  OBVIOUS
<1>8. SUFFICES Progress(t, H, X, phase', pos', bracket_depth', operator_stack', clause_stack',
                        clause_index', current_clause')
  BY <1>1, <1>2, InProgress DEF GoesOn, Going
<1>9. CASE OpenBracket
  <2>1. /\ ps <= Len(t) /\ t[ps].sym = "(" /\ phase' = "scan" /\ pos' = ps + 1 /\ bracket_depth' = b + 1
        /\ clause_stack' = cs /\ clause_index' = ci
        /\ IF b + 1 > C[ci] THEN current_clause' = Append(cc, t[ps]) /\ operator_stack' = os
           ELSE operator_stack' = Append(os, "(") /\ current_clause' = cc
    BY <1>1, <1>2, <1>3, <1>7, <1>9 DEF OpenBracket, HasToken, tok, current_clause_depth, clause_depths
  <2>2. /\ b + 1 > C[ci] => Progress(t, H, X, "scan", ps + 1, b + 1, os, cs, ci, Append(cc, t[ps]))
        /\ ~ (b + 1 > C[ci]) => Progress(t, H, X, "scan", ps + 1, b + 1, Append(os, "("), cs, ci, cc)
    BY <1>5, <1>6, <1>7, <2>1, ScanMoves
  <2>3. CASE b + 1 > C[ci]
    BY <2>1, <2>2, <2>3
  <2>4. CASE ~ (b + 1 > C[ci])
    BY <2>1, <2>2, <2>4
  <2>5. QED
    BY <2>3, <2>4
<1>10. CASE CloseInClause
  <2>1. /\ ps <= Len(t) /\ t[ps].sym = ")" /\ cc # <<>> /\ b - 1 >= C[ci]
        /\ phase' = "scan" /\ pos' = ps + 1 /\ bracket_depth' = b - 1 /\ operator_stack' = os
        /\ clause_stack' = cs /\ clause_index' = ci /\ current_clause' = Append(cc, t[ps])
    BY <1>1, <1>2, <1>3, <1>7, <1>10 DEF CloseInClause, HasToken, tok, current_clause_depth, clause_depths
  <2>2. Progress(t, H, X, "scan", ps + 1, b - 1, os, cs, ci, Append(cc, t[ps]))
    BY <1>5, <1>6, <1>7, <2>1, ScanMoves
  <2>3. QED
    BY <2>1, <2>2
<1>11. CASE CloseAfterClause
  <2>1. /\ ps <= Len(t) /\ t[ps].sym = ")" /\ cc # <<>> /\ b - 1 < C[ci]
        /\ phase' = "ended" /\ pos' = ps /\ bracket_depth' = b - 1 /\ operator_stack' = os
        /\ clause_stack' = Append(cs, e) /\ clause_index' = ci /\ current_clause' = cc
    BY <1>1, <1>2, <1>3, <1>4, <1>7, <1>11
       DEF CloseAfterClause, HasToken, tok, current_clause_depth, clause_depths, PushLiteral
  <2>2. Progress(t, H, X, "ended", ps, b - 1, os, Append(cs, e), ci, cc)
    BY <1>5, <1>6, <1>7, <2>1, ScanMoves
  <2>3. QED
    BY <2>1, <2>2
<1>12. CASE CloseGroup
  <2>1. /\ ps <= Len(t) /\ t[ps].sym = ")" /\ cc = <<>>
        /\ phase' = "close" /\ pos' = ps /\ bracket_depth' = b - 1 /\ operator_stack' = os
        /\ clause_stack' = cs /\ clause_index' = ci /\ current_clause' = cc
    BY <1>1, <1>2, <1>3, <1>12 DEF CloseGroup, HasToken, tok
  <2>2. Progress(t, H, X, "close", ps, b - 1, os, cs, ci, cc)
    BY <1>5, <1>6, <2>1, ScanMoves
  <2>3. QED
    BY <2>1, <2>2
<1>13. CASE Operator
  <2>1. /\ ps <= Len(t) /\ t[ps].sym \in OPS
        /\ phase' = "operator" /\ pos' = ps /\ bracket_depth' = b /\ operator_stack' = os
        /\ IF cc # <<>> THEN clause_stack' = Append(cs, e) /\ clause_index' = ci + 1 /\ current_clause' = <<>>
           ELSE clause_stack' = cs /\ clause_index' = ci /\ current_clause' = cc
    BY <1>1, <1>2, <1>3, <1>4, <1>13 DEF Operator, HasToken, tok, PushLiteral
  <2>2. /\ cc # <<>> => Progress(t, H, X, "operator", ps, b, os, Append(cs, e), ci + 1, <<>>)
        /\ cc = <<>> => Progress(t, H, X, "operator", ps, b, os, cs, ci, cc)
    BY <1>5, <1>6, <2>1, ScanMoves
  <2>3. CASE cc # <<>>
    BY <2>1, <2>2, <2>3
  <2>4. CASE cc = <<>>
    BY <2>1, <2>2, <2>4
  <2>5. QED
    BY <2>3, <2>4
<1>14. CASE TextToken
  <2>1. /\ ps <= Len(t) /\ t[ps].sym \in {"text", "=="}
        /\ phase' = "scan" /\ pos' = ps + 1 /\ bracket_depth' = b /\ operator_stack' = os
        /\ clause_stack' = cs /\ clause_index' = ci /\ current_clause' = Append(cc, t[ps])
    BY <1>1, <1>2, <1>3, <1>14 DEF TextToken, HasToken, tok
  <2>2. Progress(t, H, X, "scan", ps + 1, b, os, cs, ci, Append(cc, t[ps]))
    BY <1>5, <1>6, <2>1, ScanMoves
  <2>3. QED
    BY <2>1, <2>2
<1>15. CASE EndOfTokens
  <2>1. /\ ~ (ps <= Len(t))
        /\ phase' = "final" /\ pos' = ps /\ bracket_depth' = b /\ operator_stack' = os
        /\ clause_index' = ci /\ current_clause' = cc
        /\ IF cc # <<>> THEN clause_stack' = Append(cs, e) ELSE clause_stack' = cs
    <3>1. csr_comb \in CsrCombs /\ covpt \in DOMAIN csr_comb
      BY <1>1 DEF ParseTypeOK
    <3>2. Len(t) \in Nat
      BY <1>2, <3>1, CovptType DEF toks
    <3>3. pos > Len(toks)
      BY <1>15 DEF EndOfTokens
    <3>4. ~ (ps <= Len(t))
      BY <1>2, <1>3, <3>2, <3>3
    <3>5. QED
      BY <1>1, <1>2, <1>3, <1>4, <1>15, <3>4 DEF EndOfTokens, PushLiteral
  <2>2. /\ cc # <<>> => Progress(t, H, X, "final", ps, b, os, Append(cs, e), ci, cc)
        /\ cc = <<>> => Progress(t, H, X, "final", ps, b, os, cs, ci, cc)
    BY <1>5, <1>6, <2>1, ScanMoves
  <2>3. CASE cc # <<>>
    BY <2>1, <2>2, <2>3
  <2>4. CASE cc = <<>>
    BY <2>1, <2>2, <2>4
  <2>5. QED
    BY <2>3, <2>4
<1>16. QED
  BY <1>9, <1>10, <1>11, <1>12, <1>13, <1>14, <1>15

LEMMA ResultOf ==
  ASSUME ParseTypeOK, Apply
  PROVE  \E z \in Expression(csr_comb[covpt]) :
           /\ clause_stack' = Append(Popped(operator_stack, clause_stack), z)
           /\ z.holds = Outcome(operator_stack, clause_stack)
<1>1. phase \in Reading
  BY DEF Apply, Popping, Reading
<1>2. PICK p, X, os, cs, n : /\ p = csr_comb[covpt] /\ X = Expression(p) /\ os = operator_stack /\ cs = clause_stack
                             /\ n = Len(cs)
  OBVIOUS
<1>3. cs \in Seq(X) /\ n \in Nat
  BY <1>1, <1>2, ReadingType DEF Stacks
<1>4. Len(cs) >= Ar(os) /\ Arity = Ar(os)
  BY <1>2 DEF Apply, Arity, Ar
<1>5. /\ clause_stack' = Append(Popped(os, cs),
           CASE Last(os) = "not" -> NotExpression(Operand(1))
             [] Last(os) = "and" -> AndExpression(Operand(2), Operand(1))
             [] OTHER -> OrExpression(Operand(2), Operand(1)))
  BY <1>2, <1>4 DEF Apply, Popped
<1>6. ASSUME NEW k \in {1, 2}, k <= Ar(os)
      PROVE  Operand(k) \in X /\ Operand(k) = cs[n + 1 - k]
  <2>1. n + 1 - k \in 1..n
    <3>1. PICK a : a = Ar(os)
      OBVIOUS
    <3>2. a \in {1, 2} /\ n >= a /\ k <= a
      BY <1>2, <1>4, <1>6, <3>1 DEF Ar
    <3>3. QED
      BY <1>3, <3>2
  <2>2. Operand(k) = cs[n + 1 - k]
    BY <1>2 DEF Operand
  <2>3. QED
    BY <1>2, <1>3, <2>1, <2>2
<1>7. CASE Last(os) = "not"
  <2>1. Ar(os) = 1
    BY <1>7 DEF Ar
  <2>2. Operand(1) \in X /\ Operand(1) = cs[n]
    BY <1>3, <1>6, <2>1
  <2>3. NotExpression(Operand(1)) \in X
    BY <1>2, <2>2, NotType
  <2>4. NotExpression(Operand(1)).holds = Outcome(os, cs)
    BY <1>2, <1>7, <2>2 DEF NotExpression, Outcome
  <2>5. clause_stack' = Append(Popped(os, cs), NotExpression(Operand(1)))
    BY <1>5, <1>7
  <2>6. QED
    BY <1>2, <2>3, <2>4, <2>5
<1>8. CASE Last(os) # "not"
  <2>1. Ar(os) = 2
    BY <1>8 DEF Ar
  <2>2. Operand(1) \in X /\ Operand(1) = cs[n] /\ Operand(2) \in X /\ Operand(2) = cs[n - 1]
    BY <1>3, <1>6, <2>1
  <2>3. PICK l, r : l = Operand(2) /\ r = Operand(1)
    OBVIOUS
  <2>4. AndExpression(l, r) \in X /\ OrExpression(l, r) \in X
    BY <1>2, <2>2, <2>3, AndType, OrType
  <2>5. AndExpression(l, r).holds = l.holds \cap r.holds /\ OrExpression(l, r).holds = l.holds \cup r.holds
    BY DEF AndExpression, OrExpression
  <2>6. Outcome(os, cs) = Meet(Last(os), l.holds, r.holds)
    BY <1>2, <1>8, <2>2, <2>3 DEF Outcome
  <2>7. CASE Last(os) = "and"
    <3>1. clause_stack' = Append(Popped(os, cs), AndExpression(l, r))
      BY <1>5, <2>3, <2>7
    <3>2. AndExpression(l, r).holds = Outcome(os, cs)
      BY <2>5, <2>6, <2>7 DEF Meet
    <3>3. QED
      BY <1>2, <2>4, <3>1, <3>2
  <2>8. CASE Last(os) # "and"
    <3>1. clause_stack' = Append(Popped(os, cs), OrExpression(l, r))
      BY <1>5, <1>8, <2>3, <2>8
    <3>2. OrExpression(l, r).holds = Outcome(os, cs)
      BY <2>5, <2>6, <2>8 DEF Meet
    <3>3. QED
      BY <1>2, <2>4, <3>1, <3>2
  <2>9. QED
    BY <2>7, <2>8
<1>9. QED
  BY <1>7, <1>8

LEMMA PoppingIs ==
  ASSUME phase \in Reading
  PROVE  /\ Popping => operator_stack # <<>> /\ Pops(toks, phase, pos, operator_stack)
         /\ operator_stack # <<>> /\ ~ Popping =>
              /\ phase = "operator" => ~ (/\ Last(operator_stack) \in OPS
                                          /\ OP_PRIORITY[Last(operator_stack)] > OP_PRIORITY[toks[pos].sym])
              /\ phase \in {"close", "ended"} => Last(operator_stack) = "("
              /\ phase # "final"
  BY DEF Popping, Pops, Binds, tok, Reading

LEMMA ApplyGoes ==
  ASSUME ParseTypeOK, ReadsOn, IsExpression(Current), Apply
  PROVE  GoesOn
<1>1. phase \in Reading /\ Popping
  BY DEF Apply, Popping, Reading
<1>2. PICK t, H, X, b, os, cs, ci, cc :
           /\ t = toks /\ H = Current.holds /\ X = Expression(csr_comb[covpt]) /\ b = bracket_depth
           /\ os = operator_stack /\ cs = clause_stack /\ ci = clause_index /\ cc = current_clause
  OBVIOUS
<1>3. PICK ps, ph : ps = pos /\ ph = phase
  OBVIOUS
<1>4. PICK z \in X : clause_stack' = Append(Popped(os, cs), z) /\ z.holds = Outcome(os, cs)
  BY <1>2, ResultOf
<1>5. /\ operator_stack' = Front(os) /\ phase' = ph /\ pos' = ps /\ bracket_depth' = b
      /\ clause_index' = ci /\ current_clause' = cc /\ Len(cs) >= Ar(os)
  BY <1>2, <1>3 DEF Apply, Arity, Ar
<1>6. os # <<>> /\ Pops(t, ph, ps, os)
  BY <1>1, <1>2, <1>3, PoppingIs
<1>7. CASE Progress(t, H, X, ph, ps, b, os, cs, ci, cc)
  <2>1. Progress(t, H, X, ph, ps, b, Front(os), Append(Popped(os, cs), z), ci, cc)
    BY <1>4, <1>6, <1>7, Applied
  <2>2. Progress(t, H, X, phase', pos', bracket_depth', operator_stack', clause_stack', clause_index', current_clause')
    BY <1>4, <1>5, <2>1
  <2>3. QED
    BY <1>1, <1>2, <2>2, InProgress DEF GoesOn, Going
<1>8. CASE ph = "final" /\ Stranded(t, os, cs)
  <2>1. os \in Seq(OpSyms) /\ cs \in Seq(X)
    BY <1>1, <1>2, ReadingType DEF Stacks, OpSyms
  <2>2. Stranded(t, Front(os), Append(Popped(os, cs), z))
    BY <1>5, <1>6, <1>8, <2>1, StrandedOn
  <2>3. phase' = "final" /\ Stranded(t, operator_stack', clause_stack')
    BY <1>4, <1>5, <1>8, <2>2
  <2>4. QED
    BY <1>1, <1>2, <2>3, InProgress DEF GoesOn, Going
<1>9. QED
  BY <1>1, <1>2, <1>3, <1>7, <1>8, InProgress

LEMMA EndsGo ==
  ASSUME ParseTypeOK, ReadsOn, IsExpression(Current), PushOperator \/ GroupDone \/ ClauseDone
  PROVE  GoesOn
<1>1. phase \in Reading /\ phase # "final" /\ ~ Popping
  BY DEF PushOperator, GroupDone, ClauseDone, Reading
<1>2. PICK t, H, X, b, os, cs, ci, cc :
           /\ t = toks /\ H = Current.holds /\ X = Expression(csr_comb[covpt]) /\ b = bracket_depth
           /\ os = operator_stack /\ cs = clause_stack /\ ci = clause_index /\ cc = current_clause
  OBVIOUS
<1>3. PICK ps, ph : ps = pos /\ ph = phase
  OBVIOUS
<1>4. Progress(t, H, X, ph, ps, b, os, cs, ci, cc) /\ t = Current.toks
  BY <1>1, <1>2, <1>3, InProgress
<1>5. os # <<>> =>
        /\ ph = "operator" => ~ (Last(os) \in OPS /\ OP_PRIORITY[Last(os)] > OP_PRIORITY[t[ps].sym])
        /\ ph \in {"close", "ended"} => Last(os) = "("
  BY <1>1, <1>2, <1>3, PoppingIs
<1>6. CASE PushOperator
  <2>1. /\ ph = "operator" /\ phase' = "scan" /\ pos' = ps + 1 /\ bracket_depth' = b
        /\ operator_stack' = Append(os, t[ps].sym) /\ clause_stack' = cs /\ clause_index' = ci
        /\ current_clause' = cc
    BY <1>2, <1>3, <1>6 DEF PushOperator, tok
  <2>2. Progress(t, H, X, "operator", ps, b, os, cs, ci, cc)
    BY <1>4, <2>1
  <2>3. os # <<>> /\ Last(os) \in OPS => ~ (OP_PRIORITY[Last(os)] > OP_PRIORITY[t[ps].sym])
    BY <1>5, <2>1
  <2>4. Progress(t, H, X, "scan", ps + 1, b, Append(os, t[ps].sym), cs, ci, cc)
    BY ONLY <2>2, <2>3, OperatorPushed
  <2>5. Progress(t, H, X, phase', pos', bracket_depth', operator_stack', clause_stack', clause_index', current_clause')
    BY <2>1, <2>4
  <2>6. QED
    BY <1>2, <1>4, <2>5 DEF GoesOn, Going
<1>7. CASE GroupDone
  <2>1. /\ ph = "close" /\ os # <<>> /\ phase' = "scan" /\ pos' = ps + 1 /\ bracket_depth' = b
        /\ operator_stack' = Front(os) /\ clause_stack' = cs /\ clause_index' = ci /\ current_clause' = cc
    BY <1>2, <1>3, <1>7 DEF GroupDone
  <2>2. Progress(t, H, X, "close", ps, b, os, cs, ci, cc) /\ Last(os) = "("
    BY <1>4, <1>5, <2>1
  <2>3. Progress(t, H, X, "scan", ps + 1, b, Front(os), cs, ci, cc)
    BY ONLY <2>2, GroupCloses
  <2>4. Progress(t, H, X, phase', pos', bracket_depth', operator_stack', clause_stack', clause_index', current_clause')
    BY <2>1, <2>3
  <2>5. QED
    BY <1>2, <1>4, <2>4 DEF GoesOn, Going
<1>8. CASE ClauseDone
  <2>1. /\ ph = "ended" /\ os # <<>> /\ bracket_depth' = b /\ operator_stack' = Front(os)
        /\ clause_stack' = cs /\ clause_index' = ci + 1 /\ current_clause' = <<>>
        /\ IF ci = Len(ClauseDepths(t)) THEN phase' = "final" /\ pos' = ps ELSE phase' = "scan" /\ pos' = ps + 1
    BY <1>2, <1>3, <1>8 DEF ClauseDone, clause_depths
  <2>2. Progress(t, H, X, "ended", ps, b, os, cs, ci, cc) /\ Last(os) = "("
    BY <1>4, <1>5, <2>1
  <2>3. /\ ci = Len(ClauseDepths(t)) =>
             Progress(t, H, X, "final", ps, b, Front(os), cs, ci + 1, <<>>) \/ Stranded(t, Front(os), cs)
        /\ ci # Len(ClauseDepths(t)) =>
             Progress(t, H, X, "scan", ps + 1, b, Front(os), cs, ci + 1, <<>>)
    BY ONLY <2>2, ClauseLeft
  <2>4. \/ Progress(t, H, X, phase', pos', bracket_depth', operator_stack', clause_stack', clause_index', current_clause')
        \/ phase' = "final" /\ Stranded(t, operator_stack', clause_stack')
    BY <2>1, <2>3
  <2>5. QED
    BY <1>2, <1>4, <2>4 DEF GoesOn, Going
<1>9. QED
  BY <1>6, <1>7, <1>8

LEMMA ParsedIs ==
  ASSUME ParseTypeOK, ReadsOn, IsExpression(Current), Parsed
  PROVE  Last(clause_stack).holds = Current.holds
<1>1. phase = "final" /\ phase \in Reading /\ operator_stack = <<>> /\ clause_stack # <<>>
  BY DEF Parsed, Reading
<1>2. PICK t, X, os, cs : t = toks /\ X = Expression(csr_comb[covpt]) /\ os = operator_stack /\ cs = clause_stack
  OBVIOUS
<1>3. CASE Progress(t, Current.holds, X, "final", pos, bracket_depth, os, cs, clause_index, current_clause)
  BY <1>1, <1>2, <1>3, Finished
<1>4. CASE Stranded(t, os, cs)
  <2>1. os \in Seq(OpSyms) /\ cs \in Seq(X)
    BY <1>1, <1>2, ReadingType DEF Stacks, OpSyms
  <2>2. os = <<>>
    BY <1>1, <1>2
  <2>3. /\ os = <<>> => cs = <<>>
        /\ os # <<>> /\ Len(cs) >= Ar(os) => \A z \in X : Stranded(t, Front(os), Append(Popped(os, cs), z))
    BY ONLY <1>4, <2>1, StrandedOn
  <2>4. QED
    BY <1>1, <1>2, <2>2, <2>3
<1>5. QED
  BY <1>1, <1>2, <1>3, <1>4, InProgress

LEMMA RejectedIs ==
  ASSUME ParseTypeOK, ReadsOn, IsExpression(Current), IndexError
  PROVE  ~ EndsInOneBracket(Current.toks)
<1>1. phase \in Reading
  BY DEF IndexError, HasToken, Popping, Reading
<1>2. PICK t, H, X, b, os, cs, ci, cc :
           /\ t = toks /\ H = Current.holds /\ X = Expression(csr_comb[covpt]) /\ b = bracket_depth
           /\ os = operator_stack /\ cs = clause_stack /\ ci = clause_index /\ cc = current_clause
  OBVIOUS
<1>3. PICK ps, ph : ps = pos /\ ph = phase
  OBVIOUS
<1>4. t = Current.toks
  BY <1>1, <1>2, InProgress
<1>5. ASSUME Progress(t, H, X, ph, ps, b, os, cs, ci, cc)
      PROVE  FALSE
  <2>1. CASE phase = "scan" /\ clause_depths = <<>>
    <3>1. ClauseDepths(t) # <<>>
      BY <1>5, ScanHasClauses
    <3>2. QED
      BY <1>2, <2>1, <3>1 DEF clause_depths
  <2>2. CASE HasToken /\ tok \in OPS /\ current_clause # <<>> /\ clause_index = Len(clause_depths)
    <3>1. /\ ph = "scan" /\ ps <= Len(t) /\ t[ps].sym \in OPS /\ cc # <<>> /\ ci = Len(ClauseDepths(t))
      BY <1>2, <1>3, <2>2 DEF HasToken, tok, clause_depths
    <3>2. ps \in Nat \ {0}
      BY <1>1, <1>3, ReadingType
    <3>3. PICK e \in X : e = LiteralExpression(Recognised(cc))
      <4>1. cc \in Seq(ToSet(Covpt[csr_comb[covpt]].toks))
        BY <1>1, <1>2, ReadingType DEF Stacks
      <4>2. QED
        BY <1>2, <4>1, RecognisedType, LiteralType
    <3>4. e.holds = {V \in Worlds : Recognised(cc) \in V}
      BY <3>3 DEF LiteralExpression
    <3>5. Progress(t, H, X, "scan", ps, b, os, cs, ci, cc)
      BY <1>5, <3>1
    <3>6. ci < Len(ClauseDepths(t))
      <4>1. /\ ps \in Nat \ {0} /\ Progress(t, H, X, "scan", ps, b, os, cs, ci, cc) /\ e \in X
            /\ e.holds = {V \in Worlds : Recognised(cc) \in V}
            /\ ps <= Len(t) /\ t[ps].sym \in OPS /\ cc # <<>>
        BY <3>1, <3>2, <3>3, <3>4, <3>5
      <4>2. /\ ci < Len(ClauseDepths(t))
            /\ Progress(t, H, X, "operator", ps, b, os, Append(cs, e), ci + 1, <<>>)
        BY ONLY <4>1, ScanMoves
      <4>3. QED
        BY <4>2
    <3>7. Len(ClauseDepths(t)) \in Nat
      <4>1. PICK its, base, q : Readable(its, base, t)
        BY <1>5 DEF Progress
      <4>2. QED
        BY <4>1, HasClauses DEF Readable
    <3>8. QED
      BY <3>1, <3>6, <3>7
  <2>3. CASE Popping /\ Len(clause_stack) < Arity
    <3>1. os # <<>> /\ Pops(t, ph, ps, os)
      BY <1>1, <1>2, <1>3, <2>3, PoppingIs
    <3>2. Len(cs) >= Ar(os)
      BY <1>5, <3>1, Applied
    <3>3. Len(cs) < Ar(os) /\ Ar(os) \in {1, 2}
      BY <1>2, <2>3 DEF Arity, Ar
    <3>4. Len(cs) \in Nat
      BY <1>1, <1>2, ReadingType DEF Stacks
    <3>5. PICK n, a : n = Len(cs) /\ a = Ar(os)
      OBVIOUS
    <3>6. n \in Nat /\ a \in {1, 2} /\ n >= a /\ n < a
      BY <3>2, <3>3, <3>4, <3>5
    <3>7. QED
      BY ONLY <3>6
  <2>4. CASE phase \in {"close", "ended"} /\ operator_stack = <<>>
    <3>1. CASE ph = "close"
      <4>1. Progress(t, H, X, "close", ps, b, os, cs, ci, cc)
        BY <1>5, <3>1
      <4>2. os # <<>>
        BY ONLY <4>1, GroupCloses
      <4>3. QED
        BY <1>2, <2>4, <4>2
    <3>2. CASE ph = "ended"
      <4>1. Progress(t, H, X, "ended", ps, b, os, cs, ci, cc)
        BY <1>5, <3>2
      <4>2. os # <<>>
        BY ONLY <4>1, ClauseLeft
      <4>3. QED
        BY <1>2, <2>4, <4>2
    <3>3. QED
      BY <1>3, <2>4, <3>1, <3>2
  <2>5. CASE phase = "final" /\ operator_stack = <<>> /\ clause_stack = <<>>
    <3>1. Progress(t, H, X, "final", ps, b, os, cs, ci, cc) /\ os = <<>>
      BY <1>2, <1>3, <1>5, <2>5
    <3>2. cs # <<>>
      BY ONLY <3>1, Finished
    <3>3. QED
      BY <1>2, <2>5, <3>2
  <2>6. QED
    BY <2>1, <2>2, <2>3, <2>4, <2>5 DEF IndexError
<1>6. Stranded(t, os, cs)
  BY <1>1, <1>2, <1>3, <1>5, InProgress
<1>7. QED
  BY <1>4, <1>6 DEF Stranded

LEMMA SameGoes ==
  ASSUME UNCHANGED <<csr_comb, covpt>>, IsExpression(Current) => GoesOn
  PROVE  ReadsOn'
<1>1. Current' = Current /\ csr_comb'[covpt'] = csr_comb[covpt]
  BY DEF Current
<1>2. QED
  BY <1>1 DEF ReadsOn, GoesOn

LEMMA NextGoes ==
  ASSUME NextCovpt
  PROVE  ReadsOn' /\ Understood'
<1>1. /\ phase' \in {"scan", "write_test"} /\ pos' = 1 /\ bracket_depth' = 0 /\ operator_stack' = <<>>
      /\ clause_stack' = <<>> /\ clause_index' = 1 /\ current_clause' = <<>>
  BY DEF NextCovpt
<1>2. ASSUME phase' \in Reading, IsExpression(Current')
      PROVE  Going(Current', Expression(csr_comb'[covpt']), phase', pos', bracket_depth', operator_stack',
                   clause_stack', clause_index', current_clause')
  <2>1. PICK cp, X : cp = Current' /\ X = Expression(csr_comb'[covpt'])
    OBVIOUS
  <2>2. phase' = "scan"
    BY <1>1, <1>2 DEF Reading
  <2>3. Progress(cp.toks, cp.holds, X, "scan", 1, 0, <<>>, <<>>, 1, <<>>)
    BY <1>2, <2>1, Begun
  <2>4. Progress(cp.toks, cp.holds, X, phase', pos', bracket_depth', operator_stack',
                 clause_stack', clause_index', current_clause')
    BY <1>1, <2>2, <2>3
  <2>5. QED
    BY <2>1, <2>4 DEF Going
<1>3. ReadsOn'
  BY <1>2 DEF ReadsOn
<1>4. Understood'
  BY <1>1 DEF Understood
<1>5. QED
  BY <1>3, <1>4

LEMMA ParseGoes ==
  ASSUME ParseTypeOK, ReadsOn, Refused, Parse
  PROVE  ReadsOn' /\ Understood' /\ Refused'
<1>1. CASE OpenBracket \/ CloseInClause \/ CloseAfterClause \/ CloseGroup \/ Operator \/ TextToken \/ EndOfTokens
  <2>1. UNCHANGED <<csr_comb, covpt, invalid>> /\ phase' # "solve"
    BY <1>1 DEF OpenBracket, CloseInClause, CloseAfterClause, CloseGroup, Operator, TextToken, EndOfTokens, HasToken
  <2>2. IsExpression(Current) => GoesOn
    BY <1>1, TokensGo
  <2>3. QED
    BY <2>1, <2>2, SameGoes DEF Understood, Refused
<1>2. CASE Apply
  <2>1. UNCHANGED <<csr_comb, covpt, invalid>> /\ phase' # "solve"
    BY <1>2 DEF Apply, Popping
  <2>2. IsExpression(Current) => GoesOn
    BY <1>2, ApplyGoes
  <2>3. QED
    BY <2>1, <2>2, SameGoes DEF Understood, Refused
<1>3. CASE PushOperator \/ GroupDone \/ ClauseDone
  <2>1. UNCHANGED <<csr_comb, covpt, invalid>> /\ phase' # "solve"
    BY <1>3 DEF PushOperator, GroupDone, ClauseDone
  <2>2. IsExpression(Current) => GoesOn
    BY <1>3, EndsGo
  <2>3. QED
    BY <2>1, <2>2, SameGoes DEF Understood, Refused
<1>4. CASE Parsed
  <2>1. UNCHANGED <<csr_comb, covpt, invalid, clause_stack>> /\ phase' = "solve"
    BY <1>4 DEF Parsed
  <2>2. Refused' /\ ReadsOn'
    BY <2>1 DEF Refused, ReadsOn, Reading
  <2>3. Current' = Current /\ bool_expr' = Last(clause_stack)
    BY <2>1 DEF Current, bool_expr
  <2>4. IsExpression(Current) => Last(clause_stack).holds = Current.holds
    BY <1>4, ParsedIs
  <2>5. QED
    BY <2>2, <2>3, <2>4 DEF Understood
<1>5. CASE Reject
  <2>1. IndexError /\ NextCovpt /\ invalid' = invalid \cup {covpt} /\ csr_comb' = csr_comb
    BY <1>5 DEF Reject, NextCovpt
  <2>2. IsExpression(Current) => ~ EndsInOneBracket(Current.toks)
    BY <2>1, RejectedIs
  <2>3. Refused'
    BY <2>1, <2>2 DEF Refused, Current
  <2>4. QED
    BY <2>1, <2>3, NextGoes
<1>6. QED
  BY <1>1, <1>2, <1>3, <1>4, <1>5 DEF Parse

LEMMA NextKeepsParse ==
  ASSUME ParseTypeOK, ReadsOn, Understood, Refused, [Next]_vars
  PROVE  ReadsOn' /\ Understood' /\ Refused'
<1>1. CASE Parse
  BY <1>1, ParseGoes
<1>2. CASE AddInstance
  <2>1. UNCHANGED <<csr_comb, covpt, invalid, phase, clause_stack>> /\ phase = "solve"
    BY <1>2 DEF AddInstance
  <2>2. QED
    BY <2>1 DEF ReadsOn, Understood, Refused, Current, bool_expr, Reading
<1>3. CASE AllAdded
  <2>1. NextCovpt /\ invalid' = invalid /\ csr_comb' = csr_comb
    BY <1>3 DEF AllAdded, NextCovpt
  <2>2. QED
    BY <2>1, NextGoes DEF Refused
<1>4. CASE /\ UNCHANGED <<csr_comb, invalid>> /\ phase' \in {"run", "done"}
  BY <1>4 DEF ReadsOn, Understood, Refused, Reading
<1>5. CASE UNCHANGED parseVars
  <2>1. UNCHANGED <<csr_comb, covpt, phase, pos, bracket_depth, operator_stack, clause_stack, clause_index,
                    current_clause, invalid>>
    BY <1>5 DEF parseVars, parserVars
  <2>2. Current' = Current /\ bool_expr' = bool_expr
    BY <2>1 DEF Current, bool_expr
  <2>3. QED
    BY <2>1, <2>2 DEF ReadsOn, Understood, Refused
<1>6. QED
  <2>1. CASE WriteTest \/ Halt
    <3>1. UNCHANGED <<csr_comb, invalid>> /\ phase' \in {"run", "done"}
      BY <2>1 DEF WriteTest, Halt
    <3>2. QED
      BY <3>1, <1>4
  <2>2. CASE WRITE_TO_CSR_FIELD_W_MASK \/ READ_CSR_REG_AND_UPD_SIG \/ RESTORE_CSR_REG
    <3>1. UNCHANGED parseVars
      BY <2>2 DEF WRITE_TO_CSR_FIELD_W_MASK, READ_CSR_REG_AND_UPD_SIG, RESTORE_CSR_REG
    <3>2. QED
      BY <3>1, <1>5
  <2>3. CASE Stopped \/ UNCHANGED vars
    <3>1. UNCHANGED parseVars
      BY <2>3 DEF Stopped, vars
    <3>2. QED
      BY <3>1, <1>5
  <2>4. QED
    BY <1>1, <1>2, <1>3, <2>1, <2>2, <2>3 DEF Next

LEMMA ParseStart == CombInit => ParseIInv
<1> SUFFICES ASSUME CombInit
             PROVE  ParseIInv
  OBVIOUS
<1>1. CsrIInv
  BY CsrCombStart
<1>2. /\ phase \in {"scan", "write_test"} /\ pos = 1 /\ bracket_depth = 0 /\ operator_stack = <<>>
      /\ clause_stack = <<>> /\ clause_index = 1 /\ current_clause = <<>> /\ invalid = {}
  BY DEF CombInit, Init, ParseInit
<1>3. ASSUME phase \in Reading, IsExpression(Current)
      PROVE  Going(Current, Expression(csr_comb[covpt]), phase, pos, bracket_depth, operator_stack,
                   clause_stack, clause_index, current_clause)
  <2>1. PICK cp, X : cp = Current /\ X = Expression(csr_comb[covpt])
    OBVIOUS
  <2>2. phase = "scan"
    BY <1>2, <1>3 DEF Reading
  <2>3. Progress(cp.toks, cp.holds, X, "scan", 1, 0, <<>>, <<>>, 1, <<>>)
    BY <1>3, <2>1, Begun
  <2>4. Progress(cp.toks, cp.holds, X, phase, pos, bracket_depth, operator_stack,
                 clause_stack, clause_index, current_clause)
    BY <1>2, <2>2, <2>3
  <2>5. QED
    BY <2>1, <2>4 DEF Going
<1>4. QED
  BY <1>1, <1>2, <1>3 DEF ParseIInv, ReadsOn, Understood, Refused

LEMMA ParseIKeeps ==
  ASSUME ParseIInv, [CombNext]_combVars
  PROVE  ParseIInv'
<1>1. [Next]_vars
  BY DEF CombNext, CrossFile, CsrFile, Ended, combVars
<1>2. CsrIInv'
  BY CsrCombKeeps DEF ParseIInv
<1>3. ParseTypeOK /\ ReadsOn /\ Understood /\ Refused
  BY DEF ParseIInv, CsrIInv
<1>4. QED
  BY <1>1, <1>2, <1>3, NextKeepsParse DEF ParseIInv

LEMMA ReadingKnown ==
  ASSUME ParseTypeOK
  PROVE  /\ phase = "solve" => csr_comb[covpt] \in DOMAIN Covpt
         /\ \A i \in invalid : csr_comb[i] \in DOMAIN Covpt
<1>1. csr_comb \in CsrCombs /\ invalid \subseteq DOMAIN csr_comb /\ (phase = "solve" => covpt \in DOMAIN csr_comb)
  BY DEF ParseTypeOK
<1>2. QED
  BY <1>1, CovptType

(***************************************************************************)
(* The parser gives each coverpoint that is an expression the meaning that *)
(* Python gives it, however deep it is nested, and whatever brackets its   *)
(* clauses have (parse_csr_covpt).  What other coverpoints there are does  *)
(* not matter.                                                             *)
(***************************************************************************)
THEOREM ExpressionsUnderstood ==
  CombSpec => [](phase = "solve" /\ IsExpression(Covpt[csr_comb[covpt]]) =>
                   bool_expr.holds = Covpt[csr_comb[covpt]].holds)
<1>1. CombInit => ParseIInv
  BY ParseStart
<1>2. ParseIInv /\ [CombNext]_combVars => ParseIInv'
  BY ParseIKeeps
<1>3. ParseIInv => (phase = "solve" /\ IsExpression(Covpt[csr_comb[covpt]]) =>
                      bool_expr.holds = Covpt[csr_comb[covpt]].holds)
  BY DEF ParseIInv, Understood, Current
<1>4. QED
  BY <1>1, <1>2, <1>3, PTL DEF CombSpec

(***************************************************************************)
(* If all coverpoints are expressions, each one that is accepted is        *)
(* understood as Python understands it.                                    *)
(***************************************************************************)
THEOREM CovptsParsedRight ==
  (\A p \in DOMAIN Covpt : IsExpression(Covpt[p])) => (CombSpec => []ParsedRight)
<1> SUFFICES ASSUME \A p \in DOMAIN Covpt : IsExpression(Covpt[p])
             PROVE  CombSpec => []ParsedRight
  OBVIOUS
<1>1. CombInit => ParseIInv
  BY ParseStart
<1>2. ParseIInv /\ [CombNext]_combVars => ParseIInv'
  BY ParseIKeeps
<1>3. ParseIInv => ParsedRight
  <2> SUFFICES ASSUME ParseIInv, phase = "solve"
               PROVE  bool_expr.holds = Covpt[csr_comb[covpt]].holds
    BY DEF ParsedRight
  <2>1. csr_comb[covpt] \in DOMAIN Covpt
    BY ReadingKnown DEF ParseIInv, CsrIInv
  <2>2. IsExpression(Current)
    BY <2>1 DEF Current
  <2>3. QED
    BY <2>2 DEF ParseIInv, Understood, Current
<1>4. QED
  BY <1>1, <1>2, <1>3, PTL DEF CombSpec

(***************************************************************************)
(* No expression is rejected but one with two or more brackets after its   *)
(* last clause; coverpoints without a meaning (holds is empty) may be      *)
(* rejected.                                                               *)
(***************************************************************************)
THEOREM ExpressionsAreAccepted ==
  (\A p \in DOMAIN Covpt : IsExpression(Covpt[p]) \/ Covpt[p].holds = {}) =>
    (CombSpec => []ExpressionsAccepted)
<1> SUFFICES ASSUME \A p \in DOMAIN Covpt : IsExpression(Covpt[p]) \/ Covpt[p].holds = {}
             PROVE  CombSpec => []ExpressionsAccepted
  OBVIOUS
<1>1. CombInit => ParseIInv
  BY ParseStart
<1>2. ParseIInv /\ [CombNext]_combVars => ParseIInv'
  BY ParseIKeeps
<1>3. ParseIInv => ExpressionsAccepted
  <2> SUFFICES ASSUME ParseIInv, NEW i \in invalid, Covpt[csr_comb[i]].holds # {}
               PROVE  ~ EndsInOneBracket(Covpt[csr_comb[i]].toks)
    BY DEF ExpressionsAccepted
  <2>1. csr_comb[i] \in DOMAIN Covpt
    BY ReadingKnown DEF ParseIInv, CsrIInv
  <2>2. IsExpression(Covpt[csr_comb[i]])
    BY <2>1
  <2>3. QED
    BY <2>2 DEF ParseIInv, Refused
<1>4. QED
  BY <1>1, <1>2, <1>3, PTL DEF CombSpec

-----------------------------------------------------------------------------
\* What the rules of the grammar build can be printed.
LEMMA PrintedBuilt ==
  /\ \A c \in DOMAIN Clause : Lit(c) \in Printed
  /\ \A p \in Printed : Bracket(p) \in Printed /\ Not(p) \in Printed
  /\ \A p, q \in Printed : And(p, q) \in Printed /\ Or(p, q) \in Printed
<1>1. \A s \in Symbols : <<Sym(s)>> \in Seq(Lexeme)
  BY DEF Symbols, Sym, Lexeme
<1>2. \A t, u \in Seq(Lexeme) : t \o u \in Seq(Lexeme)
  OBVIOUS
<1>3. \A c \in DOMAIN Clause : Text(c) \in Seq(Lexeme)
  BY TextIs
<1>4. \A c \in DOMAIN Clause : Lit(c) \in Printed
  BY <1>3 DEF Lit, Printed
<1>5. ASSUME NEW p \in Printed
      PROVE  Bracket(p) \in Printed /\ Not(p) \in Printed
  <2>1. p.toks \in Seq(Lexeme) /\ p.holds \in SUBSET Worlds
    BY DEF Printed
  <2>2. "(" \in Symbols /\ ")" \in Symbols /\ "not" \in Symbols
    BY DEF Symbols
  <2>3. <<Sym("(")>> \o p.toks \o <<Sym(")")>> \in Seq(Lexeme) /\ <<Sym("not")>> \o p.toks \in Seq(Lexeme)
    BY <1>1, <1>2, <2>1, <2>2, Zenon
  <2>4. QED
    BY <2>1, <2>3 DEF Bracket, Not, Printed
<1>6. ASSUME NEW p \in Printed, NEW q \in Printed
      PROVE  And(p, q) \in Printed /\ Or(p, q) \in Printed
  <2>1. /\ p.toks \in Seq(Lexeme) /\ p.holds \in SUBSET Worlds
        /\ q.toks \in Seq(Lexeme) /\ q.holds \in SUBSET Worlds
    BY DEF Printed
  <2>2. "and" \in Symbols /\ "or" \in Symbols
    BY DEF Symbols
  <2>3. p.toks \o <<Sym("and")>> \o q.toks \in Seq(Lexeme) /\ p.toks \o <<Sym("or")>> \o q.toks \in Seq(Lexeme)
    BY <1>1, <1>2, <2>1, <2>2, Zenon
  <2>4. QED
    BY <2>1, <2>3 DEF And, Or, Printed
<1>7. QED
  BY <1>4, <1>5, <1>6

(***************************************************************************)
(* The grammar has the clauses and is closed under its rules: it is the    *)
(* least such set, and the coverpoints that the theorems below speak of    *)
(* are those that can be written.                                          *)
(***************************************************************************)
LEMMA GrammarCloses == Closed(Grammar)
<1>1. \A p \in Grammar : p \in Printed
  BY DEF Grammar
<1>2. \A p \in Printed : (\A G \in SUBSET Printed : Closed(G) => p \in G) => p \in Grammar
  BY DEF Grammar
<1>3. ASSUME NEW c \in DOMAIN Clause
      PROVE  Lit(c) \in Grammar
  <2>1. \A G \in SUBSET Printed : Closed(G) => Lit(c) \in G
    BY DEF Closed
  <2>2. QED
    BY <1>2, <2>1, PrintedBuilt
<1>4. ASSUME NEW p \in Grammar
      PROVE  Bracket(p) \in Grammar /\ (p.prec = 3 => Not(p) \in Grammar)
  <2>1. \A G \in SUBSET Printed : Closed(G) => p \in G
    BY DEF Grammar
  <2>2. \A G \in SUBSET Printed : Closed(G) => Bracket(p) \in G /\ (p.prec = 3 => Not(p) \in G)
    BY <2>1 DEF Closed
  <2>3. QED
    BY <1>1, <1>2, <2>2, PrintedBuilt
<1>5. ASSUME NEW p \in Grammar, NEW q \in Grammar
      PROVE  Or(p, q) \in Grammar /\ (p.prec >= 2 /\ q.prec >= 2 => And(p, q) \in Grammar)
  <2>1. \A G \in SUBSET Printed : Closed(G) => p \in G /\ q \in G
    BY DEF Grammar
  <2>2. \A G \in SUBSET Printed : Closed(G) =>
          Or(p, q) \in G /\ (p.prec >= 2 /\ q.prec >= 2 => And(p, q) \in G)
    BY <2>1 DEF Closed
  <2>3. Or(p, q) \in Printed /\ And(p, q) \in Printed
    BY <1>1, PrintedBuilt
  <2>4. QED
    BY <1>2, <2>2, <2>3
<1>6. QED
  BY <1>3, <1>4, <1>5, Zenon DEF Closed

-----------------------------------------------------------------------------
(***************************************************************************)
(* Positive coverpoints are covered                                        *)
(***************************************************************************)
CoverIInv == ParseIInv /\ CoverInv

LEMMA CoverIStart == CombInit => CoverIInv
  BY ParseStart, CoverStart DEF CoverIInv, CombInit

LEMMA CoverIKeeps ==
  ASSUME CoverIInv, [CombNext]_combVars
  PROVE  CoverIInv'
<1>1. [Next]_vars
  BY DEF CombNext, CrossFile, CsrFile, Ended, combVars
<1>2. ParseIInv /\ CoverInv /\ CsrIInv
  BY DEF CoverIInv, ParseIInv
<1>3. Meant
  BY <1>2 DEF ParseIInv, Understood, Current, Meant
<1>4. ParseIInv'
  BY <1>2, ParseIKeeps
<1>5. CoverInv'
  BY <1>1, <1>2, <1>3, CoverKeeps
<1>6. QED
  BY <1>4, <1>5 DEF CoverIInv

(***************************************************************************)
(* A test covers each of its coverpoints that is an expression without a   *)
(* negation and is made true by a realisable set of clauses none of which  *)
(* is superfluous: one of the solutions of SAT() is this set, and the last *)
(* of its writes makes all of its clauses true at once.  Whatever the      *)
(* other clauses, CSRs and coverpoints are, and the CSRs at the start.     *)
(***************************************************************************)
THEOREM SmallestAreTested == CombSpec => []SmallestCovered
<1>1. CombInit => CoverIInv
  BY CoverIStart
<1>2. CoverIInv /\ [CombNext]_combVars => CoverIInv'
  BY CoverIKeeps
<1>3. CoverIInv => SmallestCovered
  BY SmallestHit DEF CoverIInv, ParseIInv
<1>4. QED
  BY <1>1, <1>2, <1>3, PTL DEF CombSpec

\* Coverpoint p, if it has no negation and a realisable set of its clauses
\* makes it true, is an expression that one without superfluous ones makes true.
HasSmallest(p) ==
  LET lexemes == ToSet(Covpt[p].toks)
      held    == Covpt[p].holds
  IN  (/\ \A t \in lexemes : t.sym # "not"
       /\ \E S \in held \cap SUBSET {t.of : t \in lexemes} : Realisable(S))
      => IsExpression(Covpt[p]) /\ \E S \in Smallest(held) : Realisable(S)

(***************************************************************************)
(* If that is so for all coverpoints the tests cover all that can be.      *)
(***************************************************************************)
THEOREM CovptsAreCovered ==
  (\A p \in DOMAIN Covpt : HasSmallest(p)) => (CombSpec => []CovptsCovered)
<1> SUFFICES ASSUME \A p \in DOMAIN Covpt : HasSmallest(p)
             PROVE  CombSpec => []CovptsCovered
  OBVIOUS
<1>1. CombInit => CoverIInv
  BY CoverIStart
<1>2. CoverIInv /\ [CombNext]_combVars => CoverIInv'
  BY CoverIKeeps
<1>3. ASSUME CoverIInv
      PROVE  CovptsCovered
  <2> SUFFICES ASSUME phase = "done", NEW i \in DOMAIN csr_comb \ invalid, Positive(i),
                      NEW S \in Covpt[csr_comb[i]].holds \cap SUBSET {t.of : t \in Lexemes(i)}, Realisable(S)
               PROVE  i \in hit
    BY DEF CovptsCovered
  <2>1. SmallestCovered /\ ParseTypeOK
    BY <1>3, SmallestHit DEF CoverIInv, ParseIInv, CsrIInv
  <2>2. PICK p : p = csr_comb[i]
    OBVIOUS
  <2>3. p \in DOMAIN Covpt
    <3>1. csr_comb \in Seq(DOMAIN Covpt)
      BY <2>1, CovptAssumption DEF ParseTypeOK
    <3>2. QED
      BY <2>2, <3>1
  <2>4. IsExpression(Covpt[p]) /\ \E T \in Smallest(Covpt[p].holds) : Realisable(T)
    BY <2>2, <2>3 DEF HasSmallest, Positive, Lexemes
  <2>5. QED
    BY <2>1, <2>2, <2>4 DEF SmallestCovered
<1>4. QED
  BY <1>1, <1>2, <1>3, PTL DEF CombSpec
=============================================================================
