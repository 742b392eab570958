---------------------------- MODULE TopoSortProofs ----------------------------
(***************************************************************************)
(* TopoSort, for every list of rules: the counters are exact, the output   *)
(* is a topological order and the outcome tells acyclic from cyclic.       *)
(***************************************************************************)
EXTENDS TopoSort, RuleGraphProofs

-----------------------------------------------------------------------------
(* The inductive invariant *)

\* what each phase has in its cursors
PhaseOK ==
  /\ phase = "edges" => queue = <<>> /\ sorted = <<>>
  /\ phase # "edges" => ruleAt = Len(rules) + 1
  /\ phase = "release" => depAt <= Len(dependents[name]) + 1
  /\ phase \in {"ok", "cyclic"} => queue = <<>>
  /\ phase = "ok" => Len(sorted) = Len(rules)
  /\ phase = "cyclic" => Len(sorted) # Len(rules)

\* every entry of dependents stands for a reference
EdgesAreRefs ==
  \A m \in RuleNames : \A p \in DOMAIN dependents[m] :
    m \in DepsOf(rules, dependents[m][p])

\* the edge loop has passed reference k of rule i
Passed(i, k) == i < ruleAt \/ (i = ruleAt /\ k < refAt)

\* every reference passed has its entry
RefsHaveEdges ==
  \A i \in DOMAIN rules : \A k \in DOMAIN Refs(rules, i) :
    Passed(i, k) =>
      \E p \in DOMAIN dependents[Refs(rules, i)[k]] :
        dependents[Refs(rules, i)[k]][p] = rules[i].name

\* Pending(n) is finite and in_degree[n] counts it
DegreeExact ==
  \A n \in RuleNames :
    IsFiniteSet(Pending(n)) /\ in_degree[n] = Cardinality(Pending(n))

\* once the queue is seeded, the rules with no pending reference are those
\* that have entered the queue
ReadyIsQueued ==
  phase # "edges" =>
    \A n \in RuleNames :
      Ready(n) <=> n \in Range(queue) \cup Range(sorted) \cup InHand

\* the rule in hand references only rules already in the output
HandIsReady == \A n \in InHand : DepsOf(rules, n) \subseteq Range(sorted)

IInv ==
  /\ TypeOK
  /\ PhaseOK
  /\ EdgesAreRefs
  /\ RefsHaveEdges
  /\ DegreeExact
  /\ QueuedOnce
  /\ ReadyIsQueued
  /\ HandIsReady
  /\ DependenciesFirst

-----------------------------------------------------------------------------
(* Lemmas about the edges *)

\* Pending without the UNION, in a state and in the next
LEMMA PendingMember ==
  ASSUME NEW n
  PROVE  /\ \A e \in Pending(n) : e = <<e[1], e[2]>>
         /\ \A m, p : <<m, p>> \in Pending(n) <=>
              /\ m \in RuleNames
              /\ p \in DOMAIN dependents[m]
              /\ dependents[m][p] = n
              /\ ~Released(m, p)
BY DEF Pending

LEMMA PendingMemberNext ==
  ASSUME NEW n
  PROVE  /\ \A e \in Pending(n)' : e = <<e[1], e[2]>>
         /\ \A m, p : <<m, p>> \in Pending(n)' <=>
              /\ m \in RuleNames'
              /\ p \in DOMAIN dependents'[m]
              /\ dependents'[m][p] = n
              /\ ~Released(m, p)'
BY DEF Pending

\* two sets of pairs with the same members are one
LEMMA SamePairs ==
  ASSUME NEW S, NEW T,
         \A e \in S : e = <<e[1], e[2]>>,
         \A e \in T : e = <<e[1], e[2]>>,
         \A m, p : <<m, p>> \in S <=> <<m, p>> \in T
  PROVE  S = T
OBVIOUS

-----------------------------------------------------------------------------
(* The inductive invariant holds initially *)

LEMMA InitIInv == Init => IInv
<1>. SUFFICES ASSUME Init PROVE IInv
  OBVIOUS
<1>1. Sortable(rules)
  BY RuleListsSortable DEF Init
<1>2. /\ Len(rules) \in Nat
      /\ DOMAIN rules = 1 .. Len(rules)
  BY <1>1, RulesCounted
<1>3. TypeOK
  BY <1>2 DEF Init, TypeOK, RuleNames
<1>4. PhaseOK
  BY DEF Init, PhaseOK
<1>5. EdgesAreRefs
  BY DEF Init, EdgesAreRefs, RuleNames
<1>6. RefsHaveEdges
  <2>. SUFFICES ASSUME NEW i \in DOMAIN rules, NEW k \in DOMAIN Refs(rules, i), Passed(i, k)
                PROVE  FALSE
    BY DEF RefsHaveEdges
  <2>1. Refs(rules, i) \in Seq(Name)
    BY <1>1, <1>2, RefsOfType DEF Sortable, AllConditioned, Refs
  <2>2. k \in Nat \ {0} /\ i \in Nat \ {0}
    BY <2>1, <1>2, LenProperties
  <2>. QED  BY <2>2 DEF Passed, Init
<1>7. DegreeExact
  <2>. SUFFICES ASSUME NEW n \in RuleNames
                PROVE  IsFiniteSet(Pending(n)) /\ in_degree[n] = Cardinality(Pending(n))
    BY DEF DegreeExact
  <2>1. \A m \in RuleNames : dependents[m] = <<>>
    BY DEF Init
  <2>2. Pending(n) = {}
    BY <2>1 DEF Pending
  <2>. QED  BY <2>2, FS_EmptySet DEF Init
<1>8. QueuedOnce
  BY DEF Init, QueuedOnce, InHand, IsInjective, Range
<1>9. ReadyIsQueued /\ HandIsReady /\ DependenciesFirst
  BY DEF Init, ReadyIsQueued, HandIsReady, DependenciesFirst, DependenciesPrecede, InHand
<1>. QED  BY <1>3, <1>4, <1>5, <1>6, <1>7, <1>8, <1>9 DEF IInv

-----------------------------------------------------------------------------
(* Every step preserves it *)

LEMMA RuleFacts ==
  ASSUME TypeOK
  PROVE  /\ Sortable(rules)
         /\ Len(rules) \in Nat
         /\ DOMAIN rules = 1 .. Len(rules)
         /\ \A i \in DOMAIN rules :
              /\ rules[i].name \in RuleNames
              /\ Refs(rules, i) \in Seq(Name)
              /\ Len(Refs(rules, i)) \in Nat
              /\ DOMAIN Refs(rules, i) = 1 .. Len(Refs(rules, i))
              /\ \A k \in DOMAIN Refs(rules, i) : Refs(rules, i)[k] \in RuleNames
         /\ IsFiniteSet(RuleNames)
         /\ Cardinality(RuleNames) = Len(rules)
<1>1. Sortable(rules)
  BY RuleListsSortable DEF TypeOK
<1>2. /\ Len(rules) \in Nat
      /\ DOMAIN rules = 1 .. Len(rules)
      /\ IsFiniteSet(RuleNames)
      /\ Cardinality(RuleNames) = Len(rules)
  BY <1>1, RulesCounted DEF RuleNames
<1>3. ASSUME NEW i \in DOMAIN rules
      PROVE  /\ rules[i].name \in RuleNames
             /\ Refs(rules, i) \in Seq(Name)
             /\ Len(Refs(rules, i)) \in Nat
             /\ DOMAIN Refs(rules, i) = 1 .. Len(Refs(rules, i))
             /\ \A k \in DOMAIN Refs(rules, i) : Refs(rules, i)[k] \in RuleNames
  <2>1. Refs(rules, i) \in Seq(Name)
    BY <1>1, <1>2, RefsOfType DEF Sortable, AllConditioned, Refs
  <2>. QED  BY <2>1, <1>1, LenProperties DEF RuleNames, NamesOf, Sortable, RefsKnown
<1>. QED  BY <1>1, <1>2, <1>3

LEMMA AddEdgeIInv == IInv /\ AddEdge => IInv'
<1>. SUFFICES ASSUME IInv, AddEdge PROVE IInv'
  OBVIOUS
<1>. USE DEF IInv
<1>0. PICK dep, user, last :
        /\ dep = Refs(rules, ruleAt)[refAt]
        /\ user = rules[ruleAt].name
        /\ last = Len(dependents[dep]) + 1
  OBVIOUS
<1>1. /\ ruleAt \in DOMAIN rules
      /\ refAt \in DOMAIN Refs(rules, ruleAt)
      /\ dep \in RuleNames
      /\ user \in RuleNames
  <2>1. ruleAt \in DOMAIN rules
    BY RuleFacts DEF TypeOK, AddEdge
  <2>2. refAt \in DOMAIN Refs(rules, ruleAt)
    BY <2>1, RuleFacts DEF TypeOK, AddEdge
  <2>. QED  BY <1>0, <2>1, <2>2, RuleFacts
<1>2. /\ dependents' = [dependents EXCEPT ![dep] = Append(@, user)]
      /\ in_degree' = [in_degree EXCEPT ![user] = @ + 1]
      /\ refAt' = refAt + 1
      /\ UNCHANGED <<rules, phase, ruleAt, queue, name, depAt, sorted>>
      /\ phase = "edges"
  BY <1>0, <1>1 DEF AddEdge
<1>3. RuleNames' = RuleNames
  BY <1>2 DEF RuleNames
<1>4. /\ dependents[dep] \in Seq(RuleNames)
      /\ Append(dependents[dep], user) \in Seq(RuleNames)
      /\ Len(dependents[dep]) \in Nat
      /\ last = Len(dependents[dep]) + 1
      /\ DOMAIN dependents[dep] = 1 .. Len(dependents[dep])
      /\ DOMAIN Append(dependents[dep], user) = 1 .. last
      /\ \A p \in 1 .. Len(dependents[dep]) :
           Append(dependents[dep], user)[p] = dependents[dep][p]
      /\ Append(dependents[dep], user)[last] = user
  BY <1>0, <1>1, AppendProperties, LenProperties DEF TypeOK
<1>5. TypeOK'
  <2>1. dependents' \in [RuleNames -> Seq(RuleNames)]
    BY <1>1, <1>2, <1>4 DEF TypeOK
  <2>2. in_degree' \in [RuleNames -> Nat]
    BY <1>1, <1>2 DEF TypeOK
  <2>. QED  BY <2>1, <2>2, <1>2, <1>3 DEF TypeOK
<1>6. PhaseOK'
  BY <1>2 DEF PhaseOK
<1>7. /\ \A m \in RuleNames : m # dep => dependents'[m] = dependents[m]
      /\ dependents'[dep] = Append(dependents[dep], user)
  BY <1>1, <1>2 DEF TypeOK
<1>8. \A p : p # last =>
        /\ p \in DOMAIN dependents'[dep] <=> p \in DOMAIN dependents[dep]
        /\ p \in DOMAIN dependents[dep] => dependents'[dep][p] = dependents[dep][p]
  BY <1>4, <1>7
<1>9. EdgesAreRefs'
  <2>1. dep \in DepsOf(rules, user)
    BY <1>0, <1>1 DEF DepsOf, DependsOn, RuleNames
  <2>2. ASSUME NEW m \in RuleNames, NEW p \in DOMAIN dependents'[m]
        PROVE  m \in DepsOf(rules, dependents'[m][p])
    <3>1. CASE m # dep
      BY <3>1, <2>2, <1>7 DEF EdgesAreRefs
    <3>2. CASE m = dep /\ p = last
      BY <3>2, <2>1, <1>4, <1>7
    <3>3. CASE m = dep /\ p # last
      <4>1. p \in 1 .. Len(dependents[dep])
        BY <3>3, <2>2, <1>4, <1>7
      <4>. QED  BY <3>3, <4>1, <1>4, <1>7 DEF EdgesAreRefs
    <3>. QED  BY <3>1, <3>2, <3>3
  <2>. QED  BY <2>2, <1>2, <1>3 DEF EdgesAreRefs
<1>10. RefsHaveEdges'
  <2>1. ASSUME NEW i \in DOMAIN rules, NEW k \in DOMAIN Refs(rules, i),
               i < ruleAt \/ (i = ruleAt /\ k < refAt + 1)
        PROVE  \E p \in DOMAIN dependents'[Refs(rules, i)[k]] :
                 dependents'[Refs(rules, i)[k]][p] = rules[i].name
    <3>1. CASE i = ruleAt /\ k = refAt
      BY <3>1, <1>0, <1>4, <1>7
    <3>2. CASE ~(i = ruleAt /\ k = refAt)
      <4>1. Passed(i, k)
        BY <2>1, <3>2, RuleFacts DEF Passed, TypeOK
      <4>2. PICK p \in DOMAIN dependents[Refs(rules, i)[k]] :
              dependents[Refs(rules, i)[k]][p] = rules[i].name
        BY <4>1 DEF RefsHaveEdges
      <4>3. Refs(rules, i)[k] \in RuleNames
        BY RuleFacts
      <4>4. /\ p \in DOMAIN dependents'[Refs(rules, i)[k]]
            /\ dependents'[Refs(rules, i)[k]][p] = dependents[Refs(rules, i)[k]][p]
        BY <4>2, <4>3, <1>4, <1>7
      <4>. QED  BY <4>2, <4>4
    <3>. QED  BY <3>1, <3>2
  <2>. QED  BY <2>1, <1>2 DEF RefsHaveEdges, Passed
<1>11. DegreeExact'
  <2>1. \A m, p : ~Released(m, p) /\ ~Released(m, p)'
    BY <1>2 DEF Released, PhaseOK, Range
  <2>2. <<dep, last>> \notin Pending(user)
    BY <1>4, PendingMember
  <2>3. Pending(user)' = Pending(user) \cup {<<dep, last>>}
    <3>1. ASSUME NEW m, NEW p
          PROVE  <<m, p>> \in Pending(user)' <=>
                   <<m, p>> \in Pending(user) \cup {<<dep, last>>}
      <4>1. CASE m # dep
        BY <4>1, <1>3, <1>7, <2>1, PendingMember, PendingMemberNext
      <4>2. CASE m = dep /\ p = last
        BY <4>2, <1>1, <1>3, <1>4, <1>7, <2>1, PendingMemberNext
      <4>3. CASE m = dep /\ p # last
        BY <4>3, <1>1, <1>3, <1>8, <2>1, PendingMember, PendingMemberNext
      <4>. QED  BY <4>1, <4>2, <4>3
    <3>2. \A e \in Pending(user) \cup {<<dep, last>>} : e = <<e[1], e[2]>>
      BY PendingMember
    <3>3. \A e \in Pending(user)' : e = <<e[1], e[2]>>
      BY PendingMemberNext
    <3>. QED  BY <3>1, <3>2, <3>3, SamePairs
  <2>4. ASSUME NEW n \in RuleNames, n # user
        PROVE  Pending(n)' = Pending(n)
    <3>1. ASSUME NEW m, NEW p
          PROVE  <<m, p>> \in Pending(n)' <=> <<m, p>> \in Pending(n)
      <4>1. CASE m # dep
        BY <4>1, <1>3, <1>7, <2>1, PendingMember, PendingMemberNext
      <4>2. CASE m = dep /\ p = last
        <5>1. <<m, p>> \notin Pending(n) /\ <<m, p>> \notin Pending(n)'
          BY <4>2, <2>4, <1>4, <1>7, PendingMember, PendingMemberNext
        <5>. QED  BY <5>1
      <4>3. CASE m = dep /\ p # last
        BY <4>3, <1>1, <1>3, <1>8, <2>1, PendingMember, PendingMemberNext
      <4>. QED  BY <4>1, <4>2, <4>3
    <3>. QED  BY <3>1, PendingMember, PendingMemberNext, SamePairs
  <2>5. IsFiniteSet(Pending(user)') /\ in_degree'[user] = Cardinality(Pending(user)')
    <3>1. /\ IsFiniteSet(Pending(user))
          /\ in_degree[user] = Cardinality(Pending(user))
          /\ in_degree'[user] = in_degree[user] + 1
      BY <1>1, <1>2 DEF DegreeExact, TypeOK
    <3>2. /\ IsFiniteSet(Pending(user) \cup {<<dep, last>>})
          /\ Cardinality(Pending(user) \cup {<<dep, last>>}) = Cardinality(Pending(user)) + 1
      BY <3>1, <2>2, FS_AddElement
    <3>. QED  BY <3>1, <3>2, <2>3
  <2>6. ASSUME NEW n \in RuleNames, n # user
        PROVE  IsFiniteSet(Pending(n)') /\ in_degree'[n] = Cardinality(Pending(n)')
    BY <1>1, <1>2, <2>4, <2>6 DEF DegreeExact, TypeOK
  <2>. QED  BY <1>3, <2>5, <2>6 DEF DegreeExact
<1>12. QueuedOnce' /\ ReadyIsQueued' /\ HandIsReady' /\ DependenciesFirst'
  BY <1>2 DEF QueuedOnce, ReadyIsQueued, HandIsReady, InHand, DependenciesFirst
<1>. QED  BY <1>5, <1>6, <1>9, <1>10, <1>11, <1>12

\* Steps that leave the maps and the set of released entries alone
LEMMA DegreeUndisturbed ==
  ASSUME DegreeExact, UNCHANGED <<rules, dependents, in_degree>>,
         \A m, p : p \in DOMAIN dependents[m] => (Released(m, p)' <=> Released(m, p))
  PROVE  DegreeExact'
<1>1. RuleNames' = RuleNames /\ dependents' = dependents
  BY DEF RuleNames
<1>2. ASSUME NEW n \in RuleNames
      PROVE  Pending(n)' = Pending(n)
  <2>1. ASSUME NEW m, NEW p
        PROVE  <<m, p>> \in Pending(n)' <=> <<m, p>> \in Pending(n)
    <3>1. CASE p \notin DOMAIN dependents[m]
      BY <3>1, <1>1, PendingMember, PendingMemberNext
    <3>2. CASE p \in DOMAIN dependents[m]
      <4>1. Released(m, p)' <=> Released(m, p)
        BY <3>2
      <4>. QED  BY <4>1, <1>1, PendingMember, PendingMemberNext
    <3>. QED  BY <3>1, <3>2
  <2>. QED  BY <2>1, PendingMember, PendingMemberNext, SamePairs
<1>. QED  BY <1>1, <1>2 DEF DegreeExact

LEMMA NextRuleIInv == IInv /\ NextRule => IInv'
<1>. SUFFICES ASSUME IInv, NextRule PROVE IInv'
  OBVIOUS
<1>. USE DEF IInv
<1>1. /\ phase = "edges"
      /\ ruleAt \in DOMAIN rules
      /\ refAt > Len(Refs(rules, ruleAt))
      /\ ruleAt' = ruleAt + 1
      /\ refAt' = 1
      /\ UNCHANGED <<rules, phase, in_degree, dependents, queue, name, depAt, sorted>>
  BY RuleFacts DEF TypeOK, NextRule
<1>2. RuleNames' = RuleNames
  BY <1>1 DEF RuleNames
<1>3. TypeOK'
  BY <1>1, <1>2, RuleFacts DEF TypeOK
<1>4. PhaseOK' /\ EdgesAreRefs'
  BY <1>1, <1>2 DEF PhaseOK, EdgesAreRefs
<1>5. RefsHaveEdges'
  <2>1. ASSUME NEW i \in DOMAIN rules, NEW k \in DOMAIN Refs(rules, i), Passed(i, k)'
        PROVE  Passed(i, k)
    BY <1>1, <2>1, RuleFacts DEF Passed, TypeOK
  <2>. QED  BY <1>1, <2>1 DEF RefsHaveEdges
<1>6. DegreeExact'
  BY <1>1, DegreeUndisturbed DEF Released
<1>7. QueuedOnce' /\ ReadyIsQueued' /\ HandIsReady' /\ DependenciesFirst'
  BY <1>1, <1>2 DEF QueuedOnce, ReadyIsQueued, HandIsReady, InHand, DependenciesFirst
<1>. QED  BY <1>3, <1>4, <1>5, <1>6, <1>7

LEMMA SeedQueueIInv == IInv /\ SeedQueue => IInv'
<1>. SUFFICES ASSUME IInv, SeedQueue PROVE IInv'
  OBVIOUS
<1>. USE DEF IInv
<1>1. /\ phase = "edges" /\ phase' = "drain"
      /\ ruleAt > Len(rules)
      /\ UNCHANGED <<rules, ruleAt, refAt, in_degree, dependents, name, depAt, sorted>>
      /\ sorted = <<>>
  BY DEF SeedQueue, PhaseOK
<1>2. RuleNames' = RuleNames
  BY <1>1 DEF RuleNames
<1>3. PICK S : S = {n \in RuleNames : Ready(n)}
  OBVIOUS
<1>4. queue' \in Seq(RuleNames) /\ IsInjective(queue') /\ Range(queue') = S
  <2>1. IsFiniteSet(S)
    BY <1>3, RuleFacts, FS_Subset
  <2>2. queue' \in [1 .. Cardinality(S) -> S] /\ IsInjective(queue')
    BY <1>3 DEF SeedQueue, SetToSeqs, IsInjective
  <2>3. Range(queue') = S
    BY <2>1, <2>2, InjectiveOnto
  <2>4. Cardinality(S) \in Nat
    BY <2>1, FS_CardinalityType
  <2>5. queue' \in Seq(S)
    BY <2>2, <2>4, IsASeq
  <2>6. S \subseteq RuleNames
    BY <1>3
  <2>. QED  BY <2>2, <2>3, <2>5, <2>6, SeqMonotonic
<1>5. TypeOK' /\ PhaseOK'
  BY <1>1, <1>2, <1>4, RuleFacts DEF TypeOK, PhaseOK
<1>6. EdgesAreRefs' /\ RefsHaveEdges'
  BY <1>1, <1>2 DEF EdgesAreRefs, RefsHaveEdges, Passed
<1>7. DegreeExact'
  BY <1>1, DegreeUndisturbed DEF Released
<1>8. Range(sorted) = {} /\ IsInjective(sorted) /\ InHand' = {}
  BY <1>1 DEF Range, IsInjective, InHand
<1>9. QueuedOnce'
  BY <1>1, <1>4, <1>8 DEF QueuedOnce
<1>10. ReadyIsQueued'
  BY <1>1, <1>2, <1>3, <1>4, <1>8 DEF ReadyIsQueued, Ready
<1>11. HandIsReady' /\ DependenciesFirst'
  BY <1>1, <1>8 DEF HandIsReady, DependenciesFirst
<1>. QED  BY <1>5, <1>6, <1>7, <1>9, <1>10, <1>11

LEMMA PopFrontIInv == IInv /\ PopFront => IInv'
<1>. SUFFICES ASSUME IInv, PopFront PROVE IInv'
  OBVIOUS
<1>. USE DEF IInv
<1>1. /\ phase = "drain" /\ phase' = "release"
      /\ queue # <<>> /\ queue' = Tail(queue)
      /\ name' = Head(queue)
      /\ depAt' = 1
      /\ UNCHANGED <<rules, ruleAt, refAt, in_degree, dependents, sorted>>
      /\ queue \in Seq(RuleNames)
  BY DEF PopFront, TypeOK
<1>2. RuleNames' = RuleNames
  BY <1>1 DEF RuleNames
<1>3. /\ name' \in RuleNames
      /\ queue' \in Seq(RuleNames)
      /\ Range(queue) = {name'} \cup Range(queue')
      /\ name' \notin Range(queue')
      /\ IsInjective(queue')
  BY <1>1, RangeTail DEF QueuedOnce
<1>4. TypeOK'
  BY <1>1, <1>2, <1>3 DEF TypeOK
<1>5. PhaseOK'
  BY <1>1, <1>3, LenProperties DEF PhaseOK, TypeOK
<1>6. EdgesAreRefs' /\ RefsHaveEdges'
  BY <1>1, <1>2 DEF EdgesAreRefs, RefsHaveEdges, Passed
<1>7. \A m, p : p \in DOMAIN dependents[m] => (Released(m, p)' <=> Released(m, p))
  <2>. SUFFICES ASSUME NEW m, NEW p \in DOMAIN dependents[m], Released(m, p)'
                PROVE  Released(m, p)
    BY <1>1 DEF Released
  <2>1. CASE m \in Range(sorted)
    BY <2>1 DEF Released
  <2>2. CASE m = name' /\ p < 1
    BY <2>2, <1>3, LenProperties DEF TypeOK
  <2>. QED  BY <2>1, <2>2, <1>1 DEF Released
<1>8. DegreeExact'
  BY <1>1, <1>7, DegreeUndisturbed
<1>9. InHand = {} /\ InHand' = {name'}
  BY <1>1 DEF InHand
<1>10. QueuedOnce'
  BY <1>1, <1>3, <1>9 DEF QueuedOnce
<1>11. ReadyIsQueued'
  BY <1>1, <1>2, <1>3, <1>9 DEF ReadyIsQueued, Ready
<1>12. DepsOf(rules, name') \subseteq Range(sorted)
  <2>. SUFFICES ASSUME NEW d \in DepsOf(rules, name')
                PROVE  d \in Range(sorted)
    OBVIOUS
  <2>1. Pending(name') = {}
    BY <1>1, <1>3, FS_EmptySet DEF ReadyIsQueued, Ready, DegreeExact
  <2>2. PICK i \in DOMAIN rules :
          rules[i].name = name' /\ \E k \in DOMAIN Refs(rules, i) : Refs(rules, i)[k] = d
    BY DEF DepsOf, DependsOn
  <2>3. PICK k \in DOMAIN Refs(rules, i) : Refs(rules, i)[k] = d
    BY <2>2
  <2>4. Passed(i, k)
    BY <1>1, RuleFacts DEF PhaseOK, Passed, TypeOK
  <2>5. PICK p \in DOMAIN dependents[d] : dependents[d][p] = name'
    BY <2>2, <2>3, <2>4 DEF RefsHaveEdges
  <2>6. Released(d, p)
    BY <2>1, <2>5, PendingMember DEF DepsOf, RuleNames
  <2>. QED  BY <2>6, <1>1 DEF Released
<1>13. HandIsReady' /\ DependenciesFirst'
  BY <1>1, <1>9, <1>12 DEF HandIsReady, DependenciesFirst
<1>. QED  BY <1>4, <1>5, <1>6, <1>8, <1>10, <1>11, <1>13

LEMMA ReleaseIInv == IInv /\ Release => IInv'
<1>. SUFFICES ASSUME IInv, Release PROVE IInv'
  OBVIOUS
<1>. USE DEF IInv
<1>0. PICK n, p, dependent : n = name /\ p = depAt /\ dependent = dependents[n][p]
  OBVIOUS
<1>1. /\ phase = "release"
      /\ n \in RuleNames
      /\ dependents[n] \in Seq(RuleNames)
      /\ p \in DOMAIN dependents[n]
      /\ dependent \in RuleNames
  <2>1. n \in RuleNames /\ dependents[n] \in Seq(RuleNames)
    BY <1>0 DEF TypeOK, Release
  <2>2. p \in DOMAIN dependents[n]
    BY <1>0, <2>1, LenProperties DEF Release, TypeOK
  <2>. QED  BY <1>0, <2>1, <2>2, ElementOfSeq, LenProperties DEF Release
<1>2. /\ in_degree' = [in_degree EXCEPT ![dependent] = @ - 1]
      /\ queue' = IF in_degree[dependent] = 1 THEN Append(queue, dependent) ELSE queue
      /\ depAt' = p + 1
      /\ UNCHANGED <<rules, phase, ruleAt, refAt, dependents, name, sorted>>
  BY <1>0 DEF Release
<1>3. RuleNames' = RuleNames
  BY <1>2 DEF RuleNames
<1>4. n \notin Range(sorted) /\ InHand = {n} /\ InHand' = {n}
  BY <1>0, <1>1, <1>2 DEF QueuedOnce, InHand
\* the entry released was pending, so the counter does not underflow
<1>5. <<n, p>> \in Pending(dependent)
  <2>1. ~Released(n, p)
    BY <1>0, <1>4 DEF Released, TypeOK
  <2>. QED  BY <2>1, <1>0, <1>1, PendingMember
<1>6. in_degree[dependent] \in Nat /\ in_degree[dependent] # 0
  <2>1. /\ IsFiniteSet(Pending(dependent))
        /\ in_degree[dependent] = Cardinality(Pending(dependent))
        /\ in_degree[dependent] \in Nat
    BY <1>1 DEF DegreeExact, TypeOK
  <2>. QED  BY <2>1, <1>5, FS_EmptySet
<1>7. dependent \notin Range(queue) \cup Range(sorted) \cup {n}
  BY <1>1, <1>4, <1>6 DEF ReadyIsQueued, Ready
<1>8. TypeOK'
  <2>1. in_degree' \in [RuleNames -> Nat]
    <3>1. in_degree[dependent] - 1 \in Nat
      BY <1>6
    <3>. QED  BY <3>1, <1>1, <1>2 DEF TypeOK
  <2>2. queue' \in Seq(RuleNames)
    BY <1>1, <1>2, RangeAppend DEF TypeOK
  <2>3. depAt' \in Nat \ {0}
    BY <1>0, <1>2 DEF TypeOK
  <2>. QED  BY <2>1, <2>2, <2>3, <1>2, <1>3 DEF TypeOK
<1>9. PhaseOK'
  <2>1. depAt' <= Len(dependents[name]) + 1
    BY <1>0, <1>1, <1>2, LenProperties
  <2>. QED  BY <2>1, <1>1, <1>2 DEF PhaseOK
<1>10. EdgesAreRefs' /\ RefsHaveEdges'
  BY <1>2, <1>3 DEF EdgesAreRefs, RefsHaveEdges, Passed
<1>11. DegreeExact'
  <2>1. \A m, q : q \in DOMAIN dependents[m] /\ m \in RuleNames =>
          (Released(m, q)' <=> Released(m, q) \/ (m = n /\ q = p))
    <3>. SUFFICES ASSUME NEW m \in RuleNames, NEW q \in DOMAIN dependents[m]
                  PROVE  Released(m, q)' <=> Released(m, q) \/ (m = n /\ q = p)
      OBVIOUS
    <3>1. q \in Nat /\ p \in Nat
      <4>1. dependents[m] \in Seq(RuleNames)
        BY DEF TypeOK
      <4>2. q \in Nat
        BY <4>1, LenProperties
      <4>. QED  BY <4>2, <1>0 DEF TypeOK
    <3>. QED  BY <3>1, <1>0, <1>1, <1>2 DEF Released
  <2>2. Pending(dependent)' = Pending(dependent) \ {<<n, p>>}
    <3>1. ASSUME NEW m, NEW q
          PROVE  <<m, q>> \in Pending(dependent)' <=>
                   <<m, q>> \in Pending(dependent) \ {<<n, p>>}
      <4>1. CASE m \in RuleNames /\ q \in DOMAIN dependents[m]
        <5>1. Released(m, q)' <=> Released(m, q) \/ (m = n /\ q = p)
          BY <4>1, <2>1
        <5>. QED  BY <4>1, <5>1, <1>2, <1>3, PendingMember, PendingMemberNext
      <4>2. CASE ~(m \in RuleNames /\ q \in DOMAIN dependents[m])
        BY <4>2, <1>2, <1>3, PendingMember, PendingMemberNext
      <4>. QED  BY <4>1, <4>2
    <3>2. /\ \A e \in Pending(dependent)' : e = <<e[1], e[2]>>
          /\ \A e \in Pending(dependent) \ {<<n, p>>} : e = <<e[1], e[2]>>
      BY PendingMember, PendingMemberNext
    <3>. QED  BY <3>1, <3>2, SamePairs
  <2>3. ASSUME NEW o \in RuleNames, o # dependent
        PROVE  Pending(o)' = Pending(o)
    <3>1. ASSUME NEW m, NEW q
          PROVE  <<m, q>> \in Pending(o)' <=> <<m, q>> \in Pending(o)
      <4>1. CASE m \in RuleNames /\ q \in DOMAIN dependents[m] /\ dependents[m][q] = o
        <5>1. ~(m = n /\ q = p)
          BY <4>1, <2>3, <1>0
        <5>2. Released(m, q)' <=> Released(m, q)
          BY <4>1, <5>1, <2>1
        <5>. QED  BY <4>1, <5>2, <1>2, <1>3, PendingMember, PendingMemberNext
      <4>2. CASE ~(m \in RuleNames /\ q \in DOMAIN dependents[m] /\ dependents[m][q] = o)
        BY <4>2, <1>2, <1>3, PendingMember, PendingMemberNext
      <4>. QED  BY <4>1, <4>2
    <3>. QED  BY <3>1, PendingMember, PendingMemberNext, SamePairs
  <2>4. IsFiniteSet(Pending(dependent)') /\ in_degree'[dependent] = Cardinality(Pending(dependent)')
    <3>1. /\ IsFiniteSet(Pending(dependent))
          /\ in_degree[dependent] = Cardinality(Pending(dependent))
          /\ in_degree'[dependent] = in_degree[dependent] - 1
      BY <1>1, <1>2 DEF DegreeExact, TypeOK
    <3>2. /\ IsFiniteSet(Pending(dependent) \ {<<n, p>>})
          /\ Cardinality(Pending(dependent) \ {<<n, p>>}) = Cardinality(Pending(dependent)) - 1
      BY <3>1, <1>5, FS_RemoveElement
    <3>. QED  BY <3>1, <3>2, <2>2
  <2>5. ASSUME NEW o \in RuleNames, o # dependent
        PROVE  IsFiniteSet(Pending(o)') /\ in_degree'[o] = Cardinality(Pending(o)')
    BY <1>1, <1>2, <2>3, <2>5 DEF DegreeExact, TypeOK
  <2>. QED  BY <1>3, <2>4, <2>5 DEF DegreeExact
<1>12. CASE in_degree[dependent] = 1
  <2>1. /\ Range(queue') = Range(queue) \cup {dependent}
        /\ IsInjective(queue')
    BY <1>12, <1>1, <1>2, <1>7, RangeAppend DEF TypeOK, QueuedOnce
  <2>2. QueuedOnce'
    BY <2>1, <1>2, <1>4, <1>7 DEF QueuedOnce
  <2>3. \A o \in RuleNames : Ready(o)' <=> Ready(o) \/ o = dependent
    BY <1>12, <1>1, <1>2 DEF Ready, TypeOK
  <2>4. ReadyIsQueued'
    BY <2>1, <2>3, <1>1, <1>2, <1>3, <1>4 DEF ReadyIsQueued
  <2>. QED  BY <2>2, <2>4, <1>1, <1>2, <1>4, <1>8, <1>9, <1>10, <1>11
         DEF HandIsReady, DependenciesFirst
<1>13. CASE in_degree[dependent] # 1
  <2>1. ASSUME NEW o \in RuleNames
        PROVE  Ready(o)' <=> Ready(o)
    <3>1. in_degree[dependent] # 0 /\ in_degree[dependent] - 1 # 0
      BY <1>6, <1>13
    <3>2. in_degree'[o] = IF o = dependent THEN in_degree[dependent] - 1 ELSE in_degree[o]
      BY <1>1, <1>2 DEF TypeOK
    <3>. QED  BY <3>1, <3>2 DEF Ready
  <2>2. QueuedOnce' /\ ReadyIsQueued'
    BY <2>1, <1>13, <1>1, <1>2, <1>3, <1>4 DEF QueuedOnce, ReadyIsQueued
  <2>. QED  BY <2>2, <1>1, <1>2, <1>4, <1>8, <1>9, <1>10, <1>11
         DEF HandIsReady, DependenciesFirst
<1>. QED  BY <1>12, <1>13

LEMMA PushSortedIInv == IInv /\ PushSorted => IInv'
<1>. SUFFICES ASSUME IInv, PushSorted PROVE IInv'
  OBVIOUS
<1>. USE DEF IInv
<1>0. PICK n : n = name
  OBVIOUS
<1>1. /\ phase = "release" /\ phase' = "drain"
      /\ n \in RuleNames
      /\ depAt > Len(dependents[n])
      /\ sorted \in Seq(RuleNames)
      /\ sorted' = Append(sorted, n)
      /\ UNCHANGED <<rules, ruleAt, refAt, in_degree, dependents, queue, name, depAt>>
  BY <1>0 DEF PushSorted, TypeOK
<1>2. RuleNames' = RuleNames
  BY <1>1 DEF RuleNames
<1>3. InHand = {n} /\ InHand' = {} /\ n \notin Range(sorted)
  BY <1>0, <1>1 DEF InHand, QueuedOnce
<1>4. /\ sorted' \in Seq(RuleNames)
      /\ Range(sorted') = Range(sorted) \cup {n}
      /\ IsInjective(sorted')
  BY <1>1, <1>3, RangeAppend DEF QueuedOnce
<1>5. TypeOK' /\ PhaseOK'
  BY <1>1, <1>2, <1>4 DEF TypeOK, PhaseOK
<1>6. EdgesAreRefs' /\ RefsHaveEdges'
  BY <1>1, <1>2 DEF EdgesAreRefs, RefsHaveEdges, Passed
<1>7. DegreeExact'
  <2>1. ASSUME NEW m, NEW p \in DOMAIN dependents[m]
        PROVE  Released(m, p)' <=> Released(m, p)
    <3>1. CASE m # n
      BY <3>1, <1>0, <1>1, <1>4 DEF Released
    <3>2. CASE m = n
      <4>1. p < depAt
        BY <3>2, <1>1, LenProperties DEF TypeOK
      <4>. QED  BY <3>2, <4>1, <1>0, <1>1, <1>4 DEF Released
    <3>. QED  BY <3>1, <3>2
  <2>. QED  BY <2>1, <1>1, DegreeUndisturbed
<1>8. QueuedOnce'
  BY <1>1, <1>3, <1>4 DEF QueuedOnce
<1>9. ReadyIsQueued'
  BY <1>1, <1>2, <1>3, <1>4 DEF ReadyIsQueued, Ready
<1>10. HandIsReady'
  BY <1>3 DEF HandIsReady
<1>11. DependenciesFirst'
  <2>1. /\ Len(sorted) \in Nat
        /\ DOMAIN sorted = 1 .. Len(sorted)
        /\ DOMAIN sorted' = 1 .. Len(sorted) + 1
        /\ \A j \in 1 .. Len(sorted) : sorted'[j] = sorted[j]
        /\ sorted'[Len(sorted) + 1] = n
    BY <1>1, <1>4, AppendProperties, LenProperties
  <2>2. ASSUME NEW i \in 1 .. Len(sorted) + 1, NEW d \in DepsOf(rules, sorted'[i])
        PROVE  \E j \in 1 .. i - 1 : sorted'[j] = d
    <3>1. CASE i \in 1 .. Len(sorted)
      <4>1. PICK j \in 1 .. i - 1 : sorted[j] = d
        BY <3>1, <2>1, <2>2 DEF DependenciesFirst, DependenciesPrecede
      <4>. QED  BY <3>1, <4>1, <2>1
    <3>2. CASE i = Len(sorted) + 1
      <4>1. d \in Range(sorted)
        BY <3>2, <2>1, <2>2, <1>3 DEF HandIsReady
      <4>. QED  BY <3>2, <4>1, <2>1 DEF Range
    <3>. QED  BY <3>1, <3>2, <2>1
  <2>. QED  BY <2>1, <2>2, <1>1 DEF DependenciesFirst, DependenciesPrecede
<1>. QED  BY <1>5, <1>6, <1>7, <1>8, <1>9, <1>10, <1>11

LEMMA FinishIInv == IInv /\ Finish => IInv'
<1>. SUFFICES ASSUME IInv, Finish PROVE IInv'
  OBVIOUS
<1>. USE DEF IInv
<1>1. /\ phase = "drain" /\ queue = <<>>
      /\ phase' = IF Len(sorted) = Len(rules) THEN "ok" ELSE "cyclic"
      /\ UNCHANGED <<rules, ruleAt, refAt, in_degree, dependents, queue, name, depAt, sorted>>
  BY DEF Finish
<1>2. RuleNames' = RuleNames
  BY <1>1 DEF RuleNames
<1>3. TypeOK' /\ PhaseOK'
  BY <1>1, <1>2 DEF TypeOK, PhaseOK
<1>4. EdgesAreRefs' /\ RefsHaveEdges'
  BY <1>1, <1>2 DEF EdgesAreRefs, RefsHaveEdges, Passed
<1>5. DegreeExact'
  BY <1>1, DegreeUndisturbed DEF Released
<1>6. InHand = {} /\ InHand' = {}
  BY <1>1 DEF InHand
<1>7. QueuedOnce' /\ ReadyIsQueued' /\ HandIsReady' /\ DependenciesFirst'
  BY <1>1, <1>2, <1>6 DEF QueuedOnce, ReadyIsQueued, Ready, HandIsReady, DependenciesFirst
<1>. QED  BY <1>3, <1>4, <1>5, <1>7

-----------------------------------------------------------------------------
(* The theorems *)

THEOREM Invariance == Spec => []IInv
<1>1. IInv /\ [Next]_vars => IInv'
  <2>. SUFFICES ASSUME IInv, [Next]_vars PROVE IInv'
    OBVIOUS
  <2>1. CASE Next
    BY <2>1, AddEdgeIInv, NextRuleIInv, SeedQueueIInv, PopFrontIInv, ReleaseIInv,
       PushSortedIInv, FinishIInv DEF Next
  <2>2. CASE UNCHANGED vars
    <3>. USE <2>2 DEF vars, IInv
    <3>1. RuleNames' = RuleNames /\ InHand' = InHand
      BY DEF RuleNames, InHand
    <3>2. TypeOK' /\ PhaseOK' /\ EdgesAreRefs' /\ RefsHaveEdges'
      BY <3>1 DEF TypeOK, PhaseOK, EdgesAreRefs, RefsHaveEdges, Passed
    <3>3. DegreeExact'
      BY DegreeUndisturbed DEF Released
    <3>4. QueuedOnce' /\ ReadyIsQueued' /\ HandIsReady' /\ DependenciesFirst'
      BY <3>1 DEF QueuedOnce, ReadyIsQueued, Ready, HandIsReady, DependenciesFirst
    <3>. QED  BY <3>2, <3>3, <3>4
  <2>. QED  BY <2>1, <2>2
<1>. QED  BY InitIInv, <1>1, PTL DEF Spec

\* Every counter, cursor and sequence keeps its type in every run of
\* topological_sort on sortable rules: no `*deg -= 1` (compile.rs:205)
\* underflows its usize.
THEOREM TypeCorrect == Spec => []TypeOK
BY Invariance, PTL DEF IInv

\* in_degree of a rule (compile.rs:188, 205) is at all times the number of
\* its references that are not resolved yet.
THEOREM DegreeCountsPendingAlways == Spec => []DegreeCountsPending
<1>1. IInv => DegreeCountsPending
  BY DEF IInv, DegreeExact, DegreeCountsPending
<1>. QED  BY <1>1, Invariance, PTL

\* No rule is ever in the queue, in hand or in the output twice.
THEOREM QueuedOnceAlways == Spec => []QueuedOnce
BY Invariance, PTL DEF IInv

\* Whatever order the HashMap seeds the queue in, `sorted` lists every rule
\* after the rules it references.
THEOREM DependenciesFirstAlways == Spec => []DependenciesFirst
BY Invariance, PTL DEF IInv

\* an order of all the rules with every dependency first makes them acyclic:
\* the first rule of a set to come out depends on no other of it
LEMMA OrderedIsAcyclic ==
  ASSUME TypeOK, DependenciesFirst, Range(sorted) = RuleNames
  PROVE  Acyclic(rules)
<1>. SUFFICES ASSUME NEW S \in SUBSET RuleNames, S # {}
              PROVE  \E n \in S : DepsOf(rules, n) \cap S = {}
  BY DEF Acyclic, RuleNames
<1>1. Len(sorted) \in Nat /\ DOMAIN sorted = 1 .. Len(sorted)
  BY LenProperties DEF TypeOK
<1>2. PICK i \in DOMAIN sorted :
        sorted[i] \in S /\ \A j \in DOMAIN sorted : sorted[j] \in S => i <= j
  <2>. DEFINE T == {i \in DOMAIN sorted : sorted[i] \in S}
  <2>1. T \in SUBSET Nat
    BY <1>1
  <2>2. T # {}
    BY DEF Range
  <2>3. \E x \in T : \A y \in T : x <= y
    <3>. HIDE DEF T
    <3>. QED  BY <2>1, <2>2, LeastNatural
  <2>. QED  BY <2>3
<1>3. DepsOf(rules, sorted[i]) \cap S = {}
  <2>. SUFFICES ASSUME NEW d \in DepsOf(rules, sorted[i]), d \in S
                PROVE  FALSE
    OBVIOUS
  <2>1. PICK j \in 1 .. i - 1 : sorted[j] = d
    BY <1>2 DEF DependenciesFirst, DependenciesPrecede
  <2>2. j \in DOMAIN sorted /\ j < i /\ i \in Nat /\ j \in Nat
    BY <2>1, <1>1, <1>2
  <2>. QED  BY <2>1, <2>2, <1>2
<1>. QED  BY <1>2, <1>3

\* topological_sort answers Ok exactly for acyclic rules, and then with an
\* order of all of them; the cycle error is never given for acyclic rules.
THEOREM OutcomeCorrectAlways == Spec => []OutcomeCorrect
<1>1. ASSUME IInv, phase = "ok"
      PROVE  Acyclic(rules) /\ Range(sorted) = RuleNames
  <2>1. Len(sorted) = Cardinality(RuleNames) /\ IsFiniteSet(RuleNames)
    BY <1>1, RuleFacts DEF IInv, PhaseOK
  <2>2. sorted \in [1 .. Cardinality(RuleNames) -> RuleNames] /\ IsInjective(sorted)
    BY <1>1, <2>1, LenProperties DEF IInv, TypeOK, QueuedOnce
  <2>3. Range(sorted) = RuleNames
    BY <2>1, <2>2, InjectiveOnto
  <2>. QED  BY <1>1, <2>3, OrderedIsAcyclic DEF IInv
<1>2. ASSUME IInv, phase = "cyclic"
      PROVE  ~Acyclic(rules)
  <2>. DEFINE S == RuleNames \ Range(sorted)
  <2>1. S # {}
    <3>. SUFFICES ASSUME RuleNames \subseteq Range(sorted) PROVE FALSE
      OBVIOUS
    <3>1. /\ Len(sorted) \in Nat
          /\ DOMAIN sorted = 1 .. Len(sorted)
          /\ sorted \in [1 .. Len(sorted) -> RuleNames]
          /\ IsInjective(sorted)
      BY <1>2, LenProperties DEF IInv, TypeOK, QueuedOnce
    <3>2. sorted \in Surjection(1 .. Len(sorted), RuleNames)
      BY <3>1 DEF Surjection, Range
    <3>3. sorted \in Injection(1 .. Len(sorted), RuleNames)
      BY <3>1 DEF Injection
    <3>4. IsFiniteSet(1 .. Len(sorted)) /\ Cardinality(1 .. Len(sorted)) = Len(sorted)
      BY <3>1, IntervalCounted
    <3>5. Cardinality(RuleNames) = Len(sorted)
      BY <3>2, <3>3, <3>4, FS_Surjection
    <3>. QED  BY <1>2, <3>5, RuleFacts DEF IInv, PhaseOK
  <2>2. ASSUME NEW n \in S
        PROVE  DepsOf(rules, n) \cap S # {}
    <3>1. Range(queue) = {} /\ InHand = {}
      BY <1>2 DEF IInv, PhaseOK, Range, InHand
    <3>2. ~Ready(n)
      BY <1>2, <2>2, <3>1 DEF IInv, ReadyIsQueued
    <3>3. Pending(n) # {}
      BY <1>2, <3>2, FS_EmptySet DEF IInv, DegreeExact, Ready
    <3>4. PICK e : e \in Pending(n)
      BY <3>3
    <3>5. /\ e[1] \in RuleNames
          /\ e[2] \in DOMAIN dependents[e[1]]
          /\ dependents[e[1]][e[2]] = n
          /\ ~Released(e[1], e[2])
      BY <3>4, PendingMember
    <3>6. e[1] \in DepsOf(rules, n) /\ e[1] \notin Range(sorted)
      BY <1>2, <3>5 DEF IInv, EdgesAreRefs, Released
    <3>. QED  BY <3>5, <3>6
  <2>3. S \in SUBSET NamesOf(rules)
    BY DEF RuleNames
  <2>. HIDE DEF S
  <2>. QED  BY <2>1, <2>2, <2>3 DEF Acyclic
<1>3. IInv => OutcomeCorrect
  BY <1>1, <1>2 DEF OutcomeCorrect
<1>. QED  BY <1>3, Invariance, PTL

\* Ok means acyclic rules and an order that compile() may take (Compiler's
\* TopologicalSort), the error cyclic rules.
THEOREM AnswersAreTopologicalOrders ==
  Spec => []( /\ phase = "ok" => Acyclic(rules) /\ sorted \in TopologicalOrders(rules)
              /\ phase = "cyclic" => ~Acyclic(rules) )
<1>1. ASSUME IInv, phase = "ok"
      PROVE  sorted \in TopologicalOrders(rules)
  <2>1. Len(sorted) = Cardinality(RuleNames)
    BY <1>1, RuleFacts DEF IInv, PhaseOK
  <2>2. sorted \in [1 .. Cardinality(RuleNames) -> RuleNames] /\ IsInjective(sorted)
    BY <1>1, <2>1, LenProperties DEF IInv, TypeOK, QueuedOnce
  <2>3. DependenciesPrecede(sorted, rules)
    BY <1>1 DEF IInv, DependenciesFirst
  <2>. QED  BY <2>2, <2>3 DEF TopologicalOrders, SetToSeqs, IsInjective, RuleNames
<1>. QED  BY <1>1, Invariance, OutcomeCorrectAlways, PTL DEF OutcomeCorrect
=============================================================================
