----------------------------- MODULE CompiledRules -----------------------------
(***************************************************************************)
(* RuleSet (types/ruleset.rs) as the evaluator reads it: rules in          *)
(* execution order whose conditions refer to other rules by position,      *)
(* terminals, and the position of the rule of each terminal; and the       *)
(* verdict such a rule set stands for.  Positions count from 1.  What a    *)
(* condition computes is a parameter.                                      *)
(***************************************************************************)
EXTENDS Integers, Sequences

CONSTANTS
  Name,               \* rule names
  CompiledCondition,  \* the conditions of compiled rules
  Holds(_, _, _),     \* eval_expr(condition, field_values, results)
  Reads(_)            \* the positions of `results' a condition refers to

CompiledRule == [name : Name, condition : CompiledCondition, index : Nat]

\* A smaller priority is checked earlier.
Terminal == [rule_name : Name, priority : Nat]

RuleSet == [rules : Seq(CompiledRule), terminals : Seq(Terminal), terminal_indices : Seq(Nat)]

(* What a RuleSet is to satisfy before it is evaluated. *)

IndexedInOrder(rs) ==
  \A i \in DOMAIN rs.rules :
    /\ rs.rules[i].index = i
    /\ Reads(rs.rules[i].condition) \subseteq 1 .. i - 1

TerminalsResolved(rs) ==
  /\ Len(rs.terminal_indices) = Len(rs.terminals)
  /\ \A k \in DOMAIN rs.terminals :
       /\ rs.terminal_indices[k] \in DOMAIN rs.rules
       /\ rs.rules[rs.terminal_indices[k]].name = rs.terminals[k].rule_name

PrioritiesAscend(rs) ==
  \A k, m \in DOMAIN rs.terminals :
    k <= m => rs.terminals[k].priority <= rs.terminals[m].priority

RuleNamesUnique(rs) ==
  \A i, j \in DOMAIN rs.rules : rs.rules[i].name = rs.rules[j].name => i = j

-----------------------------------------------------------------------------
\* A truth value for every rule, each the one its condition has given the others.
Consistent(truth, rs, ctx) ==
  /\ truth \in [DOMAIN rs.rules -> BOOLEAN]
  /\ \A i \in DOMAIN rs.rules : truth[i] = Holds(rs.rules[i].condition, ctx, truth)

\* the rule a terminal names is true
Reached(k, rs, truth) ==
  \E i \in DOMAIN rs.rules : rs.rules[i].name = rs.terminals[k].rule_name /\ truth[i]

\* k is reached and comes before every other terminal reached: by its priority,
\* and among equals by its place.
Wins(k, rs, truth) ==
  /\ Reached(k, rs, truth)
  /\ \A m \in DOMAIN rs.terminals :
       Reached(m, rs, truth) =>
         \/ rs.terminals[k].priority < rs.terminals[m].priority
         \/ rs.terminals[k].priority = rs.terminals[m].priority /\ k <= m

\* Option<Verdict>: the empty set for None
Verdict(rs, truth) ==
  {rs.terminals[k].rule_name : k \in {m \in DOMAIN rs.terminals : Wins(m, rs, truth)}}
=============================================================================
