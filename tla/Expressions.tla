------------------------------ MODULE Expressions ------------------------------
(***************************************************************************)
(* Expr and CompiledExpr (types/expr.rs): the condition trees a user       *)
(* writes, the walks the compiler makes over them, their translation to    *)
(* the indexed form and the evaluation of that form (evaluate.rs).  Rule   *)
(* and field indices count from 1.                                         *)
(***************************************************************************)
EXTENDS Integers, SequencesExt

CONSTANTS Mantissa, Limit  \* of a float (Values)

\* derived PartialEq: the same variant, and no NaN anywhere
RECURSIVE SameValue(_, _)
SameValue(a, b) ==
  /\ DOMAIN a = DOMAIN b
  /\ "nan" \notin DOMAIN a
  /\ IF "list" \in DOMAIN a
       THEN /\ Len(a.list) = Len(b.list)
            /\ \A i \in DOMAIN a.list : SameValue(a.list[i], b.list[i])
       ELSE a = b

INSTANCE Leaves WITH Equals <- SameValue

(* struct Expr.  A bound is a literal or the path of a field. *)

Literal(v) == [literal |-> v]
Field(p)   == [field |-> p]

CompareE(f, cmp, v)       == [op |-> "Compare", field |-> f, cmp |-> cmp, value |-> v]
AndE(a, b)                == [op |-> "And", left |-> a, right |-> b]
OrE(a, b)                 == [op |-> "Or", left |-> a, right |-> b]
NotE(e)                   == [op |-> "Not", inner |-> e]
RuleRefE(n)               == [op |-> "RuleRef", name |-> n]
InE(f, ms)                == [op |-> "In", field |-> f, members |-> ms]
NotInE(f, ms)             == [op |-> "NotIn", field |-> f, members |-> ms]
BetweenE(f, lo, hi)       == [op |-> "Between", field |-> f, low |-> lo, high |-> hi]
LikeE(f, p)               == [op |-> "Like", field |-> f, pattern |-> p]
NotLikeE(f, p)            == [op |-> "NotLike", field |-> f, pattern |-> p]
IsNullE(f)                == [op |-> "IsNull", field |-> f]
IsNotNullE(f)             == [op |-> "IsNotNull", field |-> f]
CompareFieldsE(l, cmp, r) == [op |-> "CompareFields", lhs |-> l, cmp |-> cmp, rhs |-> r]
AtLeastE(n, es)           == [op |-> "AtLeast", n |-> n, exprs |-> es]

\* the subexpressions of e, left to right
Children(e) ==
  CASE e.op \in {"And", "Or"} -> <<e.left, e.right>>
    [] e.op = "Not"           -> <<e.inner>>
    [] e.op = "AtLeast"       -> e.exprs
    [] OTHER                  -> <<>>

-----------------------------------------------------------------------------
RECURSIVE CollectRuleRefs(_)
CollectRuleRefs(e) ==
  IF e.op = "RuleRef" THEN <<e.name>>
  ELSE FlattenSeq([i \in DOMAIN Children(e) |-> CollectRuleRefs(Children(e)[i])])

PathsOf(bounds) ==
  LET fields == SelectSeq(bounds, LAMBDA b : Is(b, "field"))
  IN  [i \in DOMAIN fields |-> fields[i].field]

\* the paths collect_fields registers for e, in order, with repetitions
RECURSIVE FieldPaths(_)
FieldPaths(e) ==
  CASE e.op \in {"In", "NotIn"}   -> <<e.field>> \o PathsOf(e.members)
    [] e.op = "Between"           -> <<e.field>> \o PathsOf(<<e.low, e.high>>)
    [] e.op = "CompareFields"     -> <<e.lhs, e.rhs>>
    [] e.op \in {"Compare", "Like", "NotLike", "IsNull", "IsNotNull"} -> <<e.field>>
    [] OTHER -> FlattenSeq([i \in DOMAIN Children(e) |-> FieldPaths(Children(e)[i])])

\* FieldRegistry::get(path).expect(..) and rule_indices[name]
IndexIn(seq, x) == CHOOSE i \in DOMAIN seq : seq[i] = x

CompileBound(b, registry) ==
  IF Is(b, "field") THEN [index |-> IndexIn(registry, b.field)] ELSE b

RECURSIVE CompileExpr(_, _, _)
CompileExpr(e, registry, order) ==
  LET At(path)   == IndexIn(registry, path)
      Sub(x)     == CompileExpr(x, registry, order)
      Bound(b)   == CompileBound(b, registry)
  IN  CASE e.op \in {"And", "Or"}     -> [e EXCEPT !.left = Sub(@), !.right = Sub(@)]
        [] e.op = "Not"               -> [e EXCEPT !.inner = Sub(@)]
        [] e.op = "AtLeast"           -> [e EXCEPT !.exprs = [i \in DOMAIN @ |-> Sub(@[i])]]
        [] e.op = "RuleRef"           -> [op |-> "RuleRef", index |-> IndexIn(order, e.name)]
        [] e.op \in {"In", "NotIn"}   -> [e EXCEPT !.field = At(@),
                                            !.members = [i \in DOMAIN @ |-> Bound(@[i])]]
        [] e.op = "Between"           -> [e EXCEPT !.field = At(@), !.low = Bound(@),
                                            !.high = Bound(@)]
        [] e.op = "CompareFields"     -> [e EXCEPT !.lhs = At(@), !.rhs = At(@)]
        [] OTHER                      -> [e EXCEPT !.field = At(@)]

\* collect_rule_ref_indices over the compiled form
RECURSIVE RuleRefIndices(_)
RuleRefIndices(c) ==
  IF c.op = "RuleRef" THEN <<c.index>>
  ELSE FlattenSeq([i \in DOMAIN Children(c) |-> RuleRefIndices(Children(c)[i])])

-----------------------------------------------------------------------------
(* eval_expr *)

\* the loop of AtLeast: it returns when an expression that holds brings the
\* count to n, and compares the count once more at the end
CountReaches(holds, n) ==
  LET Count(k) == Cardinality({i \in 1 .. k : holds[i]})
  IN  (\E k \in DOMAIN holds : holds[k] /\ Count(k) >= n) \/ Count(Len(holds)) >= n

RECURSIVE EvalExpr(_, _, _)
EvalExpr(c, fields, results) ==
  LET Eval(x) == EvalExpr(x, fields, results)
  IN  CASE c.op = "And"     -> Eval(c.left) /\ Eval(c.right)
        [] c.op = "Or"      -> Eval(c.left) \/ Eval(c.right)
        [] c.op = "Not"     -> ~Eval(c.inner)
        [] c.op = "RuleRef" -> results[c.index]
        [] c.op = "AtLeast" -> CountReaches([i \in DOMAIN c.exprs |-> Eval(c.exprs[i])], c.n)
        [] OTHER            -> EvalLeaf(c, fields)

-----------------------------------------------------------------------------
(* Reference definition: what a condition says, with fields given by path    *)
(* and rules by name, before anything is indexed.                            *)

NamedBound(b) == IF Is(b, "field") THEN [index |-> b.field] ELSE b

NamedBounds(e) ==
  CASE e.op \in {"In", "NotIn"} -> [e EXCEPT !.members = [i \in DOMAIN @ |-> NamedBound(@[i])]]
    [] e.op = "Between"         -> [e EXCEPT !.low = NamedBound(@), !.high = NamedBound(@)]
    [] OTHER                    -> e

RECURSIVE Meaning(_, _, _)
Meaning(e, env, truth) ==
  LET Truths == {i \in DOMAIN Children(e) : Meaning(Children(e)[i], env, truth)}
  IN  CASE e.op = "And"     -> Truths = {1, 2}
        [] e.op = "Or"      -> Truths # {}
        [] e.op = "Not"     -> Truths = {}
        [] e.op = "AtLeast" -> Cardinality(Truths) >= e.n
        [] e.op = "RuleRef" -> truth[e.name]
        [] OTHER            -> EvalLeaf(NamedBounds(e), env)
=============================================================================
