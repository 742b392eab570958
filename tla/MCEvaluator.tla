------------------------------ MODULE MCEvaluator ------------------------------
(***************************************************************************)
(* Evaluator on rule sets compiled by CompileExpr: a policy with two       *)
(* terminals of one priority, and rules that count how many others hold,   *)
(* in a rule set as long as the threshold and in one longer.  Contexts     *)
(* leave fields out, mix types and bring NaN.  Two threads share it all.   *)
(***************************************************************************)
EXTENDS Evaluator, Expressions

CONSTANTS a, b, c, d, e, t1, t2

MCName == {a, b, c, d, e}

MCCaller == {t1, t2}

Registry == <<"age", "region">>

MCHolds(condition, ctx, r) == EvalExpr(condition, ctx, r)

MCReads(condition) == Range(RuleRefIndices(condition))

\* compile() once it has an order: conditions[n] is the condition of rule n
Compiled(order, conditions, terminals) ==
  [rules |-> [i \in DOMAIN order |->
     [name |-> order[i], condition |-> CompileExpr(conditions[order[i]], Registry, order),
      index |-> i]],
   terminals |-> terminals,
   terminal_indices |-> [k \in DOMAIN terminals |-> IndexIn(order, terminals[k].rule_name)]]

At(name, priority) == [rule_name |-> name, priority |-> priority]

Policy ==
  [n \in {a, b, c} |->
     CASE n = a -> BetweenE("age", Literal(Int_(1)), Literal(Half(5)))
       [] n = b -> NotInE("region", <<Literal(List(<<Int_(3), Bool(TRUE)>>)), Field("age")>>)
       [] n = c -> AndE(RuleRefE(a), NotE(RuleRefE(b)))]

Counting ==
  [n \in MCName |->
     CASE n = a -> CompareE("age", "Gte", Int_(2))
       [] n = b -> IsNullE("region")
       [] n = c -> OrE(CompareFieldsE("age", "Eq", "region"), RuleRefE(b))
       [] n = d -> AtLeastE(2, <<RuleRefE(a), RuleRefE(b), RuleRefE(c)>>)
       [] n = e -> NotE(OrE(RuleRefE(a), RuleRefE(d)))]

MCRuleSets ==
  { Compiled(<<b, a, c>>, Policy, <<At(a, 0), At(c, 1), At(b, 1)>>),
    Compiled(<<a, b, c, d>>, Counting, <<At(d, 0), At(a, 1)>>),
    Compiled(<<b, c, a, d, e>>, Counting, <<At(d, 1), At(a, 1), At(e, 2)>>) }

MCContexts ==
  { << {}, {} >>,
    << {Int_(2)}, {Half(4)} >>,
    << {NaN}, {Bool(FALSE)} >> }

MCCompiledCondition ==
  UNION {{rs.rules[i].condition : i \in DOMAIN rs.rules} : rs \in MCRuleSets}
=============================================================================
