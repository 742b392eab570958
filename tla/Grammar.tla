-------------------------------- MODULE Grammar --------------------------------
(***************************************************************************)
(* parse/grammar.rs: the recursive descent from the text of the rule       *)
(* language to rules and terminals, and the Display of a condition, which  *)
(* writes that language (types/expr.rs, types/value.rs).                   *)
(*                                                                         *)
(* A text is a sequence of atoms: a keyword, a piece of an identifier, an  *)
(* operator, a digit, a punctuation mark or a blank.  As in the code, the  *)
(* atoms of an identifier run on as long as they can, and a keyword is one *)
(* wherever the parser looks for it, whatever follows: <<"not", "ify">> is *)
(* an identifier, and begins with `not'.  So no atom but a keyword may     *)
(* begin with the letters of one.                                          *)
(*                                                                         *)
(* A parser takes the text and a position.  It returns a value and the     *)
(* position after it, or one of winnow's two errors: Back lets the caller  *)
(* try something else from where it was, Cut ends the parse.               *)
(***************************************************************************)
EXTENDS Expressions

CONSTANTS Words,       \* pieces of identifiers that are no keywords and begin like none
          MaxInt,      \* i64::MAX
          MaxPriority  \* u32::MAX

Keyword == {"rule", "priority", "AT_LEAST", "at_least", "AND", "and", "OR", "or", "NOT", "not",
            "IS", "is", "NULL", "null", "IN", "in", "LIKE", "like", "BETWEEN", "between",
            "true", "false"}
Word    == Keyword \cup Words
Digits  == <<"0", "1", "2", "3", "4", "5", "6", "7", "8", "9">>
Digit   == Range(Digits)
Blank   == {" ", "\n", "\t"}

Ok(value, at) == [value |-> value, at |-> at]
Back          == [error |-> "Backtrack"]
Cut           == [error |-> "Cut"]
Succeeded(r)  == Is(r, "at")

\* winnow's map, alt and cut_err
Map(r, F(_))  == IF Succeeded(r) THEN Ok(F(r.value), r.at) ELSE r
Alt(r, other) == IF r = Back THEN other ELSE r
CutErr(r)     == IF Succeeded(r) THEN r ELSE Cut

\* the atom at i; "" at the end of the input
At(t, i) == IF i <= Len(t) THEN t[i] ELSE ""

\* take_while: the first place from i on with an atom outside S
Skip(t, i, S) == CHOOSE j \in i .. Len(t) + 1 :
                   At(t, j) \notin S /\ \A k \in i .. j - 1 : t[k] \in S

-----------------------------------------------------------------------------
(* Blanks, identifiers, values *)

RECURSIVE Ws(_, _)

Comment(t, i) ==
  IF At(t, i) = "#" THEN Ws(t, Skip(t, i, Range(t) \ {"\n"})) ELSE i

\* Faulty: a comment takes what follows with it, to the end of the input.
X_Ws_ToTheEnd(t, i) ==
  LET j == Skip(t, i, Blank)
  IN  IF At(t, j) = "#" THEN Len(t) + 1 ELSE j

\* blanks, and comments up to the end of their line
Ws(t, i) == Comment(t, Skip(t, i, Blank))

Ident(t, i) ==
  IF At(t, i) \notin Word THEN Back
  ELSE LET j == Skip(t, i, Word \cup Digit \cup {"."}) IN Ok(SubSeq(t, i, j - 1), j)

\* what follows the name of a rule must not look like a part of it
RuleNameIdent(t, i) ==
  LET r == Ident(t, i)
  IN  IF Succeeded(r) /\ At(t, r.at) \notin Blank \cup {":", "(", ""} THEN Cut ELSE r

Unescape(c) == CASE c \in {"\"", "\\"} -> <<c>>
                 [] c = "n"            -> <<"\n">>
                 [] c = "t"            -> <<"\t">>
                 [] OTHER              -> <<"\\", c>>

RECURSIVE StringFrom(_, _, _)
StringFrom(t, i, s) ==
  CASE At(t, i) = "\""                     -> Ok(s, i + 1)
    [] At(t, i) = "\\" /\ i < Len(t)       -> StringFrom(t, i + 2, s \o Unescape(t[i + 1]))
    [] At(t, i) \notin {"\"", "\\", ""}    -> StringFrom(t, i + 1, Append(s, t[i]))
    [] OTHER                               -> Back

StringLiteral(t, i) == IF At(t, i) = "\"" THEN StringFrom(t, i + 1, <<>>) ELSE Back

\* str::parse, of an integer and of a decimal fraction (in halves, see Values)
NumberOf(digits) ==
  LET n[k \in 0 .. Len(digits)] ==
        IF k = 0 THEN 0 ELSE 10 * n[k - 1] + IndexIn(Digits, digits[k]) - 1
  IN  n[Len(digits)]

Fraction(text, dot) ==
  2 * NumberOf(SubSeq(text, 1, dot - 1))
    + (2 * NumberOf(SubSeq(text, dot + 1, Len(text)))) \div 10 ^ (Len(text) - dot)

IsI64(n) == -MaxInt - 1 <= n /\ n <= MaxInt

\* digits and points after a `-', which end before at
Negative(text, at) ==
  LET dots == {k \in DOMAIN text : text[k] = "."}
      Int64(n) == IF IsI64(n) THEN Ok(Int_(n), at) ELSE Cut
  IN  CASE text = <<>> -> Back
        [] dots = {}   -> Int64(-NumberOf(text))
        [] Cardinality(dots) = 1 /\ Len(text) > 1
                       -> Ok(Half(-Fraction(text, CHOOSE dot \in dots : TRUE)), at)
        [] OTHER       -> Cut

NegativeNumber(t, i) ==
  LET j == Skip(t, i + 1, Digit \cup {"."}) IN Negative(SubSeq(t, i + 1, j - 1), j)

\* digits on both sides of the point
FloatLiteral(t, i) ==
  LET j == Skip(t, i, Digit)
      k == Skip(t, j + 1, Digit)
  IN  IF i < j /\ At(t, j) = "." /\ j + 1 < k
        THEN Ok(Half(Fraction(SubSeq(t, i, k - 1), j - i + 1)), k) ELSE Back

\* winnow::ascii::dec_int: a sign only before a digit that is not 0, and
\* nothing but 0 after a leading 0
DecInt(t, i) ==
  LET s == IF At(t, i) \in {"+", "-"} THEN i + 1 ELSE i
      j == Skip(t, s, Digit)
      n == NumberOf(SubSeq(t, s, j - 1)) * (IF At(t, i) = "-" THEN -1 ELSE 1)
  IN  CASE At(t, i) = "0" -> Ok(0, i + 1)
        [] At(t, s) \in Digit \ {"0"} /\ IsI64(n) -> Ok(n, j)
        [] OTHER -> Back

RECURSIVE Value(_, _), ItemsFrom(_, _, _, _)

ValueList(t, i) ==
  LET j == Ws(t, i + 1)
  IN  IF At(t, j) = "]" THEN Ok(List(<<>>), j + 1)
                        ELSE Map(ItemsFrom(t, Value(t, j), <<>>, "value"), List)

Value(t, start) ==
  LET i == Ws(t, start)
  IN  CASE At(t, i) = "["                 -> ValueList(t, i)
        [] At(t, i) = "\""                -> Map(StringLiteral(t, i), String)
        [] At(t, i) \in {"true", "false"} -> Ok(Bool(At(t, i) = "true"), i + 1)
        [] At(t, i) = "-"                 -> NegativeNumber(t, i)
        [] OTHER -> Alt(FloatLiteral(t, i), Map(DecInt(t, i), Int_))

\* a literal, or the path of a field
Bound(t, i) == Alt(Map(Value(t, i), Literal), Map(Ident(t, Ws(t, i)), Field))

\* the items of a list from r on, and its `]'; the callers let no failure pass
ItemsFrom(t, r, items, kind) ==
  LET j      == Ws(t, r.at)
      so_far == Append(items, r.value)
  IN  CASE ~Succeeded(r)  -> Cut
        [] At(t, j) = "]" -> Ok(so_far, j + 1)
        [] At(t, j) = "," ->
             ItemsFrom(t, IF kind = "bound" THEN Bound(t, j + 1) ELSE Value(t, j + 1), so_far, kind)
        [] OTHER          -> Cut

\* cut_err(bound_list)
BoundList(t, start) ==
  LET i == Ws(t, start)
  IN  IF At(t, i) = "[" THEN ItemsFrom(t, Bound(t, i + 1), <<>>, "bound") ELSE Cut

-----------------------------------------------------------------------------
(* Conditions, from the weakest operator to the strongest: OR, AND, NOT.  *)

CompareSymbols == ">=" :> "Gte" @@ ">" :> "Gt" @@ "<=" :> "Lte" @@ "<" :> "Lt"
                    @@ "==" :> "Eq" @@ "!=" :> "Neq"

RECURSIVE Expr(_, _), ExprsFrom(_, _, _), Unary(_, _), AndExpr(_, _)

\* of AT_LEAST, after the number; every expression follows a comma
ExprsFrom(t, exprs, n) ==
  LET i == Ws(t, exprs.at)
  IN  CASE ~Succeeded(exprs) -> Cut
        [] At(t, i) = ")"    -> Ok(AtLeastE(n, exprs.value), i + 1)
        [] At(t, i) = ","    ->
             ExprsFrom(t, Map(Expr(t, i + 1), LAMBDA e : Append(exprs.value, e)), n)
        [] OTHER             -> Cut

\* the name at_least, with no parenthesis after it, is left to the caller
AtLeastExpr(t, i) ==
  LET open == Ws(t, i + 1)
      n    == DecInt(t, Ws(t, open + 1))
  IN  CASE At(t, i) \notin {"AT_LEAST", "at_least"} \/ At(t, open) # "(" -> Back
        [] ~Succeeded(n)                                                 -> Cut
        [] OTHER -> IF n.value < 0 THEN Cut ELSE ExprsFrom(t, Ok(<<>>, n.at), n.value)

\* after a field and a comparison operator: a literal before a field, so
\* that true and false are values
Comparison(t, start, field, cmp) ==
  LET i == Ws(t, start)
      v == Map(Value(t, i), LAMBDA value : CompareE(field, cmp, value))
      f == Map(Ident(t, i), LAMBDA other : CompareFieldsE(field, cmp, other))
  IN  CutErr(IF Succeeded(v) THEN v ELSE f)

\* after NOT, IN, LIKE, BETWEEN or IS: what the keyword asks for, or nothing
Members(t, i, op, field) ==
  CutErr(Map(BoundList(t, i), LAMBDA bounds : [op |-> op, field |-> field, members |-> bounds]))

Pattern(t, i, op, field) ==
  CutErr(Map(StringLiteral(t, Ws(t, i)), LAMBDA s : [op |-> op, field |-> field, pattern |-> s]))

Interval(t, low, field) ==
  LET comma == Ws(t, low.at)
  IN  IF Succeeded(low) /\ At(t, comma) = ","
        THEN CutErr(Map(Bound(t, comma + 1), LAMBDA high : BetweenE(field, low.value, high)))
        ELSE Cut

NullTest(t, i, field) ==
  LET j == Ws(t, i)
      k == Ws(t, j + 1)
  IN  CASE At(t, j) \in {"NULL", "null"} -> Ok(IsNullE(field), j + 1)
        [] At(t, j) \in {"NOT", "not"} /\ At(t, k) \in {"NULL", "null"}
                                         -> Ok(IsNotNullE(field), k + 1)
        [] OTHER                         -> Cut

Negated(t, i, field) ==
  LET j == Ws(t, i)
  IN  CASE At(t, j) \in {"IN", "in"}     -> Members(t, j + 1, "NotIn", field)
        [] At(t, j) \in {"LIKE", "like"} -> Pattern(t, j + 1, "NotLike", field)
        [] OTHER                         -> Cut

\* from the name r on
ComparisonOrRuleRef(t, r) ==
  LET j    == Ws(t, r.at)
      next == At(t, j)
  IN  CASE ~Succeeded(r)                    -> Back
        [] next \in {"IS", "is"}            -> NullTest(t, j + 1, r.value)
        [] next \in {"NOT", "not"}          -> Negated(t, j + 1, r.value)
        [] next \in {"IN", "in"}            -> Members(t, j + 1, "In", r.value)
        [] next \in {"LIKE", "like"}        -> Pattern(t, j + 1, "Like", r.value)
        [] next \in {"BETWEEN", "between"}  -> Interval(t, Bound(t, j + 1), r.value)
        [] next \in DOMAIN CompareSymbols   -> Comparison(t, j + 1, r.value, CompareSymbols[next])
        [] OTHER                            -> Ok(RuleRefE(r.value), r.at)

\* after `('
Parenthesised(t, r) ==
  LET close == Ws(t, r.at)
  IN  CASE ~Succeeded(r)        -> r
        [] At(t, close) = ")"   -> Ok(r.value, close + 1)
        [] At(t, close) # ")"   -> Back

Primary(t, start) ==
  LET i == Ws(t, start)
  IN  Alt(AtLeastExpr(t, i),
          IF At(t, i) = "(" THEN Parenthesised(t, Expr(t, i + 1)) ELSE ComparisonOrRuleRef(t, Ident(t, i)))

Unary(t, start) ==
  LET i == Ws(t, start)
  IN  IF At(t, i) \in {"NOT", "not"} THEN CutErr(Map(Unary(t, i + 1), NotE)) ELSE Primary(t, i)

Sign == [And |-> {"AND", "and"}, Or |-> {"OR", "or"}]

Operand(t, i, op) == CutErr(IF op = "And" THEN Unary(t, i) ELSE AndExpr(t, i))

RECURSIVE X_Chain_Right(_, _, _), Chain(_, _, _)

\* Faulty: the operands are folded from the right.
X_Chain_Right(t, first, op) ==
  LET i == Ws(t, first.at)
  IN  IF ~Succeeded(first) \/ At(t, i) \notin Sign[op] THEN first
      ELSE Map(Chain(t, Operand(t, i + 1, op), op),
               LAMBDA rest : [op |-> op, left |-> first.value, right |-> rest])

\* repeat(0.., preceded((ws, op), cut_err(operand))) and the fold over it
Chain(t, first, op) ==
  LET i == Ws(t, first.at)
  IN  IF ~Succeeded(first) \/ At(t, i) \notin Sign[op] THEN first
      ELSE Chain(t, Map(Operand(t, i + 1, op),
                        LAMBDA next : [op |-> op, left |-> first.value, right |-> next]), op)

AndExpr(t, i) == Chain(t, Unary(t, i), "And")
OrExpr(t, i)  == Chain(t, AndExpr(t, i), "Or")
Expr(t, i)    == OrExpr(t, Ws(t, i))

-----------------------------------------------------------------------------
(* Definitions *)

\* opt(priority_annotation): the set of the priorities, one or none
PriorityAnnotation(t, i) ==
  LET open  == Ws(t, i)
      word  == Ws(t, open + 1)
      n     == DecInt(t, Ws(t, word + 1))
      close == Ws(t, n.at)
  IN  CASE At(t, open) # "(" \/ At(t, word) # "priority" -> Ok({}, i)
        [] ~Succeeded(n)                                 -> Cut
        [] At(t, close) = ")" /\ n.value \in 0 .. MaxPriority -> Ok({n.value}, close + 1)
        [] OTHER                                         -> Cut

RuleDef(t, start) ==
  LET i        == Ws(t, start)
      name     == RuleNameIdent(t, Ws(t, i + 1))
      priority == PriorityAnnotation(t, name.at)
      colon    == Ws(t, priority.at)
      Def(condition) ==
        [ rule     |-> [name |-> name.value, condition |-> condition],
          terminal |-> {[rule_name |-> name.value, priority |-> p] : p \in priority.value} ]
  IN  CASE At(t, i) # "rule" -> Back
        [] Succeeded(name) /\ Succeeded(priority) /\ At(t, colon) = ":" ->
             CutErr(Map(Expr(t, colon + 1), Def))
        [] OTHER -> Cut

\* repeat(0.., rule_def), where r is the next
RECURSIVE DefsFrom(_, _, _)
DefsFrom(t, r, defs) ==
  CASE Succeeded(r) -> DefsFrom(t, RuleDef(t, r.at), Ok(Append(defs.value, r.value), r.at))
    [] r = Back     -> defs
    [] OTHER        -> Cut

\* of one rule after the other, and the terminals among them
RuleLists(defs) ==
  [ rules     |-> [i \in DOMAIN defs |-> defs[i].rule],
    terminals |-> FlattenSeq([i \in DOMAIN defs |-> SetToSeq(defs[i].terminal)]) ]

\* Parser::parse asks for the end of the input
Whole(t, r) == IF Succeeded(r) /\ Ws(t, r.at) = Len(t) + 1 THEN r ELSE Cut

\* parse_ruleset
Parse(t) == Whole(t, Map(DefsFrom(t, RuleDef(t, 1), Ok(<<>>, 1)), RuleLists))

-----------------------------------------------------------------------------
(* Display *)

RECURSIVE ShowNat(_), ShowValue(_), ShowExpr(_)

ShowNat(n) == (IF n < 10 THEN <<>> ELSE ShowNat(n \div 10)) \o <<Digits[(n % 10) + 1]>>
ShowInt(n) == IF n < 0 THEN <<"-">> \o ShowNat(-n) ELSE ShowNat(n)

Separated(texts, by) ==
  FlattenSeq([i \in DOMAIN texts |-> IF i = 1 THEN texts[i] ELSE by \o texts[i]])

Quoted(s) == <<"\"">> \o s \o <<"\"">>

\* a float with no fraction is written like an integer, and -0.0 is not met
ShowFloat(halves) ==
  LET m == IF halves < 0 THEN -halves ELSE halves
  IN  (IF halves < 0 THEN <<"-">> ELSE <<>>) \o ShowNat(m \div 2)
        \o (IF m % 2 = 1 THEN <<".", "5">> ELSE <<>>)

ShowValue(v) ==
  CASE Is(v, "int")    -> ShowInt(v.int)
    [] Is(v, "float")  -> ShowFloat(v.float)
    [] Is(v, "bool")   -> IF v.bool THEN <<"true">> ELSE <<"false">>
    [] Is(v, "string") -> Quoted(v.string)
    [] Is(v, "list")   ->
         <<"[">> \o Separated([i \in DOMAIN v.list |-> ShowValue(v.list[i])], <<",", " ">>) \o <<"]">>

ShowBound(b) == IF Is(b, "field") THEN b.field ELSE ShowValue(b.literal)
ShowBounds(bs) == <<"[">> \o Separated([i \in DOMAIN bs |-> ShowBound(bs[i])], <<",", " ">>) \o <<"]">>
ShowOp(cmp) == CHOOSE symbol \in DOMAIN CompareSymbols : CompareSymbols[symbol] = cmp

\* Faulty: no parentheses around a condition.
X_Phrase_Bare(texts) == Separated(texts, <<" ">>)

\* the words of a condition, a blank between each two, in parentheses
Phrase(texts) ==
  <<"(">> \o Separated(texts, <<" ">>) \o <<")">>

ShowExpr(e) ==
  CASE e.op = "RuleRef"   -> e.name
    [] e.op = "And"       -> Phrase(<<ShowExpr(e.left), <<"AND">>, ShowExpr(e.right)>>)
    [] e.op = "Or"        -> Phrase(<<ShowExpr(e.left), <<"OR">>, ShowExpr(e.right)>>)
    [] e.op = "Not"       -> Phrase(<< <<"NOT">>, ShowExpr(e.inner)>>)
    [] e.op = "Compare"   -> Phrase(<<e.field, <<ShowOp(e.cmp)>>, ShowValue(e.value)>>)
    [] e.op = "In"        -> Phrase(<<e.field, <<"IN">>, ShowBounds(e.members)>>)
    [] e.op = "NotIn"     -> Phrase(<<e.field, <<"NOT">>, <<"IN">>, ShowBounds(e.members)>>)
    [] e.op = "Between"   -> Phrase(<<e.field, <<"BETWEEN">>, ShowBound(e.low) \o <<",">>,
                                      ShowBound(e.high)>>)
    [] e.op = "Like"      -> Phrase(<<e.field, <<"LIKE">>, Quoted(e.pattern)>>)
    [] e.op = "NotLike"   -> Phrase(<<e.field, <<"NOT">>, <<"LIKE">>, Quoted(e.pattern)>>)
    [] e.op = "IsNull"    -> Phrase(<<e.field, <<"IS">>, <<"NULL">> >>)
    [] e.op = "IsNotNull" -> Phrase(<<e.field, <<"IS">>, <<"NOT">>, <<"NULL">> >>)
    [] e.op = "CompareFields" -> Phrase(<<e.lhs, <<ShowOp(e.cmp)>>, e.rhs>>)
    [] e.op = "AtLeast"   ->
         <<"AT_LEAST", "(">> \o ShowInt(e.n) \o <<",", " ">>
           \o Separated([i \in DOMAIN e.exprs |-> ShowExpr(e.exprs[i])], <<",", " ">>) \o <<")">>
=============================================================================
