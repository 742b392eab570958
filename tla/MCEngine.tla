-------------------------------- MODULE MCEngine --------------------------------
(***************************************************************************)
(* Engine on the conditions of MCCompiler: up to three rules that refer to *)
(* one another, up to two terminals that may tie, and two threads.  Two    *)
(* rules fit the buffer of fixed size and three do not.  Conditions, and   *)
(* what becomes of them in a cache, are those of Expressions and           *)
(* ConditionCodec.                                                         *)
(***************************************************************************)
EXTENDS Engine, MCCompiler

CONSTANTS t1, t2, text

Y == INSTANCE ConditionCodec

MCCaller == {t1, t2}
MCSources == {text}

MCRefIndices(e) == X!RuleRefIndices(e)
MCToNary(e) == Y!FlattenExpr(e)
MCFromNary(s) == Y!UnflattenExpr(s)
MCVisited(s) == Y!NodesOf(s)

\* and as they come back from the n-ary form
MCReloadedCondition ==
  MCCompiledCondition \cup {MCFromNary(MCToNary(e)) : e \in MCCompiledCondition}

MCFewCalls ==
  { [name |-> a, condition |-> Conditions.old],
    [name |-> b, condition |-> Conditions.ranged],
    [name |-> c, condition |-> Conditions.most] }

MCFewTerminals ==
  { [rule_name |-> a, priority |-> 1], [rule_name |-> b, priority |-> 1],
    [rule_name |-> c, priority |-> 0] }

\* a field has no value; or the values agree, and only the comparison with
\* one another holds
MCFewEnvironments ==
  { [p \in MCFieldPath |-> IF p = "x" THEN {X!Int_(2)} ELSE {}],
    [p \in MCFieldPath |-> IF p = "x" THEN {X!Int_(1)} ELSE {X!Half(2)}] }

\* The threads are alike.
MCThreads == Permutations(MCCaller)
=============================================================================
