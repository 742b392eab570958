------------------------------- MODULE TopoSort -------------------------------
(***************************************************************************)
(* topological_sort (compile.rs): Kahn's algorithm over the rule graph.    *)
(* The two `for` loops that build the maps, the seeding of the queue from  *)
(* a HashMap (whose iteration order is arbitrary) and the drain loop are   *)
(* modelled one iteration per step.                                        *)
(***************************************************************************)
EXTENDS RuleGraph, FiniteSets, SequencesExt

CONSTANTS
  RuleLists,  \* the arguments topological_sort is called with
  NoName      \* no name has been popped yet

ASSUME RuleListsSortable == \A rs \in RuleLists : Sortable(rs)

VARIABLES
  rules,       \* the argument, in declaration order
  phase,       \* the loop being executed
  ruleAt,      \* the rule and
  refAt,       \*   the reference in it that the edge loop is at
  in_degree,   \* name -> number of references of it not yet resolved
  dependents,  \* name -> the rules that reference it, once per reference
  queue,       \* names whose in-degree reached zero, in order of arrival
  name,        \* the name last popped from the queue
  depAt,       \* position of the drain loop in dependents[name]
  sorted       \* the output

vars == <<rules, phase, ruleAt, refAt, in_degree, dependents, queue, name,
          depAt, sorted>>

RuleNames == NamesOf(rules)

Init ==
  /\ rules \in RuleLists
  /\ phase = "edges"
  /\ ruleAt = 1
  /\ refAt = 1
  /\ in_degree = [n \in RuleNames |-> 0]
  /\ dependents = [n \in RuleNames |-> <<>>]
  /\ queue = <<>>
  /\ name = NoName
  /\ depAt = 1
  /\ sorted = <<>>

\* Faulty: a reference is not counted.
AddEdge_Uncounted ==
  /\ phase = "edges"
  /\ ruleAt <= Len(rules)
  /\ refAt <= Len(Refs(rules, ruleAt))
  /\ LET dep == Refs(rules, ruleAt)[refAt]
     IN  dependents' = [dependents EXCEPT ![dep] = Append(@, rules[ruleAt].name)]
  /\ refAt' = refAt + 1
  /\ UNCHANGED <<rules, phase, ruleAt, in_degree, queue, name, depAt, sorted>>

\* Faulty: a repeated reference adds an edge but is counted once.
AddEdge_CountedOnce ==
  /\ phase = "edges"
  /\ ruleAt <= Len(rules)
  /\ refAt <= Len(Refs(rules, ruleAt))
  /\ LET dep  == Refs(rules, ruleAt)[refAt]
         user == rules[ruleAt].name
     IN  /\ in_degree' = IF user \in Range(dependents[dep]) THEN in_degree
                         ELSE [in_degree EXCEPT ![user] = @ + 1]
         /\ dependents' = [dependents EXCEPT ![dep] = Append(@, user)]
  /\ refAt' = refAt + 1
  /\ UNCHANGED <<rules, phase, ruleAt, queue, name, depAt, sorted>>

\* One reference `dep` of the rule the edge loop is at.  A rule that names
\* another twice adds two edges.
AddEdge ==
  /\ phase = "edges"
  /\ ruleAt <= Len(rules)
  /\ refAt <= Len(Refs(rules, ruleAt))
  /\ LET dep  == Refs(rules, ruleAt)[refAt]
         user == rules[ruleAt].name
     IN  IF dep \in RuleNames
         THEN /\ dependents' = [dependents EXCEPT ![dep] = Append(@, user)]
              /\ in_degree' = [in_degree EXCEPT ![user] = @ + 1]
         ELSE UNCHANGED <<dependents, in_degree>>
  /\ refAt' = refAt + 1
  /\ UNCHANGED <<rules, phase, ruleAt, queue, name, depAt, sorted>>

NextRule ==
  /\ phase = "edges"
  /\ ruleAt <= Len(rules)
  /\ refAt > Len(Refs(rules, ruleAt))
  /\ ruleAt' = ruleAt + 1
  /\ refAt' = 1
  /\ UNCHANGED <<rules, phase, in_degree, dependents, queue, name, depAt, sorted>>

Ready(n) == in_degree[n] = 0

\* Faulty: the queue starts with every rule.
SeedQueue_Everything ==
  /\ phase = "edges"
  /\ ruleAt > Len(rules)
  /\ queue' \in SetToSeqs(RuleNames)
  /\ phase' = "drain"
  /\ UNCHANGED <<rules, ruleAt, refAt, in_degree, dependents, name, depAt, sorted>>

\* The queue starts with the rules that reference none, in whatever order the
\* HashMap yields them.
SeedQueue ==
  /\ phase = "edges"
  /\ ruleAt > Len(rules)
  /\ queue' \in SetToSeqs({n \in RuleNames : Ready(n)})
  /\ phase' = "drain"
  /\ UNCHANGED <<rules, ruleAt, refAt, in_degree, dependents, name, depAt, sorted>>

PopFront ==
  /\ phase = "drain"
  /\ queue # <<>>
  /\ name' = Head(queue)
  /\ queue' = Tail(queue)
  /\ depAt' = 1
  /\ phase' = "release"
  /\ UNCHANGED <<rules, ruleAt, refAt, in_degree, dependents, sorted>>

\* Faulty: a rule is pushed when its last reference but one is resolved, too.
Release_Early ==
  /\ phase = "release"
  /\ depAt <= Len(dependents[name])
  /\ LET dependent == dependents[name][depAt]
     IN  /\ in_degree' = [in_degree EXCEPT ![dependent] = @ - 1]
         /\ queue' = IF in_degree[dependent] <= 2
                       THEN Append(queue, dependent) ELSE queue
  /\ depAt' = depAt + 1
  /\ UNCHANGED <<rules, phase, ruleAt, refAt, dependents, name, sorted>>

\* One entry of dependents[name]: a reference to `name` is resolved.
Release ==
  /\ phase = "release"
  /\ depAt <= Len(dependents[name])
  /\ LET dependent == dependents[name][depAt]
     IN  /\ in_degree' = [in_degree EXCEPT ![dependent] = @ - 1]
         /\ queue' = IF in_degree[dependent] = 1
                       THEN Append(queue, dependent) ELSE queue
  /\ depAt' = depAt + 1
  /\ UNCHANGED <<rules, phase, ruleAt, refAt, dependents, name, sorted>>

PushSorted ==
  /\ phase = "release"
  /\ depAt > Len(dependents[name])
  /\ sorted' = Append(sorted, name)
  /\ phase' = "drain"
  /\ UNCHANGED <<rules, ruleAt, refAt, in_degree, dependents, queue, name, depAt>>

\* Faulty: one rule may be missing from the output.
Finish_OneShort ==
  /\ phase = "drain"
  /\ queue = <<>>
  /\ phase' = IF Len(sorted) >= Len(rules) - 1 THEN "ok" ELSE "cyclic"
  /\ UNCHANGED <<rules, ruleAt, refAt, in_degree, dependents, queue, name,
                 depAt, sorted>>

\* Faulty: the loop runs until every rule is in the output.
Finish_WaitsForAll ==
  /\ phase = "drain"
  /\ queue = <<>>
  /\ Len(sorted) = Len(rules)
  /\ phase' = "ok"
  /\ UNCHANGED <<rules, ruleAt, refAt, in_degree, dependents, queue, name,
                 depAt, sorted>>

\* Ok(sorted) when every rule came out, else the call into find_cycle.
Finish ==
  /\ phase = "drain"
  /\ queue = <<>>
  /\ phase' = IF Len(sorted) = Len(rules) THEN "ok" ELSE "cyclic"
  /\ UNCHANGED <<rules, ruleAt, refAt, in_degree, dependents, queue, name,
                 depAt, sorted>>

Next ==
  \/ AddEdge \/ NextRule \/ SeedQueue
  \/ PopFront \/ Release \/ PushSorted \/ Finish

Spec == Init /\ [][Next]_vars

-----------------------------------------------------------------------------
(* Properties *)

TypeOK ==
  /\ rules \in RuleLists
  /\ phase \in {"edges", "drain", "release", "ok", "cyclic"}
  /\ ruleAt \in 1 .. Len(rules) + 1
  /\ refAt \in Nat \ {0}
  /\ in_degree \in [RuleNames -> Nat]
  /\ dependents \in [RuleNames -> Seq(RuleNames)]
  /\ queue \in Seq(RuleNames)
  /\ name \in RuleNames \cup {NoName}
  /\ phase = "release" => name \in RuleNames
  /\ depAt \in Nat \ {0}
  /\ sorted \in Seq(RuleNames)

\* the p-th entry of dependents[n] has been released
Released(n, p) ==
  \/ n \in Range(sorted)
  \/ phase = "release" /\ n = name /\ p < depAt

\* the references of n that still hold it back
Pending(n) ==
  {e \in UNION {{m} \X DOMAIN dependents[m] : m \in RuleNames} :
     dependents[e[1]][e[2]] = n /\ ~Released(e[1], e[2])}

\* in_degree is exactly the number of unresolved references, through every
\* interleaving of the two loops: a rule that names another twice must be
\* released twice (compile.rs:188 and 205 have to agree on multiplicity).
DegreeCountsPending ==
  \A n \in RuleNames : in_degree[n] = Cardinality(Pending(n))

InHand == IF phase = "release" THEN {name} ELSE {}

\* A rule is in the queue, in hand or in the output, at most once in all: it
\* is pushed only by the release of its last reference (compile.rs:206).
QueuedOnce ==
  /\ IsInjective(queue)
  /\ IsInjective(sorted)
  /\ Range(queue) \cap Range(sorted) = {}
  /\ InHand \cap (Range(queue) \cup Range(sorted)) = {}

\* The output lists every rule after all the rules it references, whatever
\* order the HashMap seeded the queue in (compile.rs:193): the evaluator
\* reads results[idx] of a rule it has already evaluated.
DependenciesFirst == DependenciesPrecede(sorted, rules)

\* Ok comes with an order of all the rules and only for an acyclic graph; the
\* error only for a cyclic one, so find_cycle has a cycle to find
\* (compile.rs:215 decides by a length alone).
OutcomeCorrect ==
  /\ phase = "ok" => Acyclic(rules) /\ Range(sorted) = RuleNames
  /\ phase = "cyclic" => ~Acyclic(rules)

\* The sort ends, cyclic graph or not.
Terminates == <>(phase \in {"ok", "cyclic"})
=============================================================================
