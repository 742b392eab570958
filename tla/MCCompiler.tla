------------------------------ MODULE MCCompiler ------------------------------
(***************************************************************************)
(* Compiler on up to three rule() and two terminal() calls, conditions     *)
(* built and translated by Expressions: rules with and without a           *)
(* condition, with references that dangle, repeat or close a cycle, and    *)
(* terminals that tie, repeat or name no rule.                             *)
(***************************************************************************)
EXTENDS Compiler

CONSTANTS a, b, c, Mantissa, Limit

X == INSTANCE Expressions

MCName == {a, b, c}

MCFieldPath == {"x", "y"}

Two == X!Literal(X!Int_(2))

Conditions ==
  [ old    |-> X!CompareE("x", "Gte", X!Int_(2)),
    notB   |-> X!AndE(X!AtLeastE(0, <<X!IsNullE("y")>>), X!NotE(X!RuleRefE(b))),
    listed |-> X!InE("y", <<X!Literal(X!List(<<X!Int_(3), X!NaN>>)), X!Field("x")>>),
    twiceC |-> X!AndE(X!RuleRefE(c), X!RuleRefE(c)),
    ranged |-> X!OrE(X!RuleRefE(a), X!OrE(X!BetweenE("x", Two, X!Field("y")),
                                          X!CompareFieldsE("x", "Eq", "y"))),
    most   |-> X!AtLeastE(2, <<X!RuleRefE(a), X!IsNullE("y"), X!RuleRefE(b)>>),
    itself |-> X!OrE(X!RuleRefE(c), X!NotE(X!AtLeastE(2, <<X!IsNullE("x")>>))) ]

MCCondition == Range(Conditions)

MCRefsOf == [e \in MCCondition |-> X!CollectRuleRefs(e)]

MCRuleCalls ==
  { [name |-> a, condition |-> Conditions.old],
    [name |-> a, condition |-> Conditions.notB],
    [name |-> b, condition |-> NoCondition],
    [name |-> b, condition |-> Conditions.listed],
    [name |-> b, condition |-> Conditions.twiceC],
    [name |-> b, condition |-> Conditions.ranged],
    [name |-> c, condition |-> Conditions.old],
    [name |-> c, condition |-> Conditions.most],
    [name |-> c, condition |-> Conditions.itself] }

MCTerminalCalls ==
  { [rule_name |-> a, priority |-> 1], [rule_name |-> b, priority |-> 1],
    [rule_name |-> c, priority |-> 0], [rule_name |-> a, priority |-> 0] }

MCFieldsOf(e) == X!FieldPaths(e)
MCTranslate(e, registry, order) == X!CompileExpr(e, registry, order)
MCHolds(e, fields, results) == X!EvalExpr(e, fields, results)
MCReads(e) == Range(X!RuleRefIndices(e))
MCMeans(e, env, truth) == X!Meaning(e, env, truth)

\* over every registry and order that have the fields and rules of the condition
MCCompiledCondition ==
  UNION {{X!CompileExpr(e, registry, order) :
            registry \in {s \in SetToAllKPermutations(MCFieldPath) :
                           Range(X!FieldPaths(e)) \subseteq Range(s)},
            order \in {s \in SetToAllKPermutations(MCName) :
                        Range(X!CollectRuleRefs(e)) \subseteq Range(s)}} : e \in MCCondition}

\* one field at most is missing, the types differ, or the values agree
MCEnvironments ==
  { [p \in MCFieldPath |-> {}],
    [p \in MCFieldPath |-> IF p = "x" THEN {X!Int_(2)} ELSE {X!Half(5)}],
    [p \in MCFieldPath |-> IF p = "x" THEN {X!Bool(TRUE)} ELSE {X!Int_(3)}],
    [p \in MCFieldPath |-> IF p = "x" THEN {X!Int_(3)} ELSE {X!Half(6)}] }
=============================================================================
