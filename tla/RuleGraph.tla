------------------------------ MODULE RuleGraph ------------------------------
(***************************************************************************)
(* The dependency graph of a list of rules, as the compiler sees it: a     *)
(* vertex for every rule name and an edge to every rule its condition      *)
(* references through RuleRef.  The module holds vocabulary only, shared   *)
(* by the modules that sort the graph, search it for a cycle and compile.  *)
(***************************************************************************)
EXTENDS Integers, SequencesExt

CONSTANTS
  Name,         \* the strings that may name a rule
  Condition,    \* the condition expressions a rule may carry
  NoCondition,  \* Rule::condition = None: `.when()` was never called
  RefsOf        \* RefsOf[c]: the rule names c references, in source order, with repetitions

ASSUME RefsOfType == RefsOf \in [Condition -> Seq(Name)]

ASSUME NoConditionIsNone == NoCondition \notin Condition

\* struct Rule
Rule == [name : Name, condition : Condition \cup {NoCondition}]

NamesOf(rules) == {rules[i].name : i \in DOMAIN rules}

\* collect_rule_refs(condition_of(rules[i]))
Refs(rules, i) == RefsOf[rules[i].condition]

DependsOn(rules, n, d) ==
  \E i \in DOMAIN rules :
    /\ rules[i].name = n
    /\ \E k \in DOMAIN Refs(rules, i) : Refs(rules, i)[k] = d

DepsOf(rules, n) == {d \in NamesOf(rules) : DependsOn(rules, n, d)}

-----------------------------------------------------------------------------
(* What compile() has established before it sorts: check_missing_conditions, *)
(* check_duplicates and check_references have passed.                        *)

AllConditioned(rules) == \A i \in DOMAIN rules : rules[i].condition \in Condition

NamesUnique(rules) ==
  \A i, j \in DOMAIN rules : rules[i].name = rules[j].name => i = j

RefsKnown(rules) ==
  \A i \in DOMAIN rules : \A k \in DOMAIN Refs(rules, i) :
    Refs(rules, i)[k] \in NamesOf(rules)

Sortable(rules) ==
  /\ rules \in Seq(Rule)
  /\ AllConditioned(rules)
  /\ NamesUnique(rules)
  /\ RefsKnown(rules)

-----------------------------------------------------------------------------
(* The graph is acyclic when the dependency relation is well-founded: every  *)
(* non-empty set of rules has one that depends on none of the others or of   *)
(* itself.                                                                   *)
Acyclic(rules) ==
  \A S \in SUBSET NamesOf(rules) :
    S # {} => \E n \in S : DepsOf(rules, n) \cap S = {}

\* every name stands after all the names it depends on
DependenciesPrecede(order, rules) ==
  \A i \in DOMAIN order : \A d \in DepsOf(rules, order[i]) :
    \E j \in 1 .. i - 1 : order[j] = d

\* a closed walk along dependencies, its first name repeated at the end
IsCycle(path, rules) ==
  /\ Len(path) >= 2
  /\ path[1] = path[Len(path)]
  /\ \A i \in 1 .. Len(path) - 1 : path[i + 1] \in DepsOf(rules, path[i])

-----------------------------------------------------------------------------
(* What topological_sort and find_cycle answer.  TopoSort and CycleFinder    *)
(* find an answer step by step, Compiler takes one in one step.              *)

\* the orders of all the names with every dependency first
TopologicalOrders(rules) ==
  {s \in SetToSeqs(NamesOf(rules)) : DependenciesPrecede(s, rules)}

\* the cycles that repeat no name but the first
Cycles(rules) ==
  {path \in UNION {[1 .. n -> NamesOf(rules)] : n \in 2 .. Len(rules) + 1} :
     IsCycle(path, rules) /\ IsInjective(Tail(path))}
=============================================================================
