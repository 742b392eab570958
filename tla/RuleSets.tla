------------------------------- MODULE RuleSets -------------------------------
(***************************************************************************)
(* What a RuleSet answers (types/ruleset.rs): the queries on its order and *)
(* dependencies, and the verdict of an evaluation, as operators.  Here the *)
(* field registry is the record of a FieldRegistry: the slot of each path, *)
(* and the number of slots.                                                *)
(***************************************************************************)
EXTENDS Integers, SequencesExt

CONSTANTS
  Name,               \* rule names
  CompiledCondition,  \* the conditions of compiled rules
  Contexts,           \* contexts: the values of each path, one or none
  Holds(_, _, _),     \* eval_expr(condition, field_values, results)
  Refs(_)             \* collect_rule_ref_indices: the positions a condition refers to

Referenced(c) == Range(Refs(c))

C == INSTANCE CompiledRules WITH Reads <- Referenced

ExecutionOrder(rs) == [i \in DOMAIN rs.rules |-> rs.rules[i].name]

TerminalOrder(rs) ==
  [k \in DOMAIN rs.terminals |-> <<rs.terminals[k].rule_name, rs.terminals[k].priority>>]

\* the names in one answer, or none if no rule has the name
DependenciesOf(rs, name) ==
  {LET refs == Refs(rs.rules[i].condition)
   IN  [k \in DOMAIN refs |-> rs.rules[refs[k]].name] :
     i \in {j \in DOMAIN rs.rules :
              rs.rules[j].name = name /\ \A k \in 1 .. j - 1 : rs.rules[k].name # name}}

FlattenContext(rs, ctx) ==
  LET slot == rs.field_registry.paths
  IN  [i \in 1 .. rs.field_registry.len |->
         UNION {ctx[p] : p \in {q \in DOMAIN slot : slot[q] = i}}]

\* results[i], once every rule has been evaluated in its turn
Results(rs, ctx) ==
  CHOOSE truth \in [DOMAIN rs.rules -> BOOLEAN] :
    C!Consistent(truth, rs, FlattenContext(rs, ctx))

Evaluate(rs, ctx) == C!Verdict(rs, Results(rs, ctx))

\* No query and no evaluation tells one rule set from the other.
Alike(rs, other) ==
  /\ ExecutionOrder(rs) = ExecutionOrder(other)
  /\ TerminalOrder(rs) = TerminalOrder(other)
  /\ \A n \in Name : DependenciesOf(rs, n) = DependenciesOf(other, n)
  /\ \A ctx \in Contexts : Evaluate(rs, ctx) = Evaluate(other, ctx)

\* what validate() has looked at: references lead to rules there are and below
\* the number of the rule they stand in, terminals to rules there are
Ordered(rs) ==
  /\ \A i \in DOMAIN rs.rules :
       Referenced(rs.rules[i].condition) \subseteq {j \in DOMAIN rs.rules : j < rs.rules[i].index}
  /\ Len(rs.terminal_indices) = Len(rs.terminals)
  /\ \A k \in DOMAIN rs.terminals : rs.terminal_indices[k] \in DOMAIN rs.rules
  /\ C!PrioritiesAscend(rs)

NumberedByPosition(rs) == \A i \in DOMAIN rs.rules : rs.rules[i].index = i

\* what an evaluation takes for granted
Usable(rs) ==
  /\ C!IndexedInOrder(rs)
  /\ Len(rs.terminal_indices) = Len(rs.terminals)
  /\ \A k \in DOMAIN rs.terminals : rs.terminal_indices[k] \in DOMAIN rs.rules
  /\ C!PrioritiesAscend(rs)
=============================================================================
