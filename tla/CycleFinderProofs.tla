--------------------------- MODULE CycleFinderProofs ---------------------------
(***************************************************************************)
(* CycleFinder, for every list of rules: the path returned is a cycle, and *)
(* no path is returned only for acyclic rules.                             *)
(***************************************************************************)
EXTENDS CycleFinder, RuleGraphProofs

-----------------------------------------------------------------------------
(* The inductive invariant *)

\* every activation but the last is suspended just after the neighbour the
\* next one is for
Chained ==
  \A i \in 1 .. Len(stack) - 1 :
    /\ cursor[i] - 1 \in DOMAIN Neighbors(stack[i])
    /\ Neighbors(stack[i])[cursor[i] - 1] = stack[i + 1]

\* all other neighbours it has passed are Done
PassedAreDone ==
  \A i \in DOMAIN stack : \A k \in DOMAIN Neighbors(stack[i]) :
    k < cursor[i] =>
      \/ state[Neighbors(stack[i])[k]] = "Done"
      \/ i < Len(stack) /\ k = cursor[i] - 1

DoneClosed ==
  \A n \in RuleNames : state[n] = "Done" =>
    \A d \in DepsOf(rules, n) : state[d] = "Done"

RootsDone ==
  /\ \A j \in 1 .. rootAt - 1 : state[rules[j].name] = "Done"
  /\ search = "dfs" => rootAt \in DOMAIN rules /\ stack[1] = rules[rootAt].name

IInv ==
  /\ SearchTypeOK
  /\ MarksAgree
  /\ Chained
  /\ PassedAreDone
  /\ DoneClosed
  /\ DoneIsSafe
  /\ RootsDone
  /\ PathIsCycle
  /\ EmptyOnlyIfAcyclic

-----------------------------------------------------------------------------
(* Lemmas *)

LEMMA RuleFacts ==
  ASSUME SearchTypeOK
  PROVE  /\ Sortable(rules)
         /\ Len(rules) \in Nat
         /\ DOMAIN rules = 1 .. Len(rules)
         /\ \A i \in DOMAIN rules : rules[i].name \in RuleNames
         /\ \A n \in RuleNames : \E i \in DOMAIN rules : rules[i].name = n
BY RuleListsSortable, LenProperties DEF SearchTypeOK, Sortable, RuleNames, NamesOf

\* the neighbours of a rule are its dependencies, in a sequence
LEMMA NeighborFacts ==
  ASSUME SearchTypeOK, NEW n \in RuleNames
  PROVE  /\ Neighbors(n) \in Seq(RuleNames)
         /\ Len(Neighbors(n)) \in Nat
         /\ DOMAIN Neighbors(n) = 1 .. Len(Neighbors(n))
         /\ \A k \in DOMAIN Neighbors(n) : Neighbors(n)[k] \in DepsOf(rules, n)
         /\ \A d \in DepsOf(rules, n) : \E k \in DOMAIN Neighbors(n) : Neighbors(n)[k] = d
<1>1. PICK i \in DOMAIN rules : rules[i].name = n /\ Neighbors(n) = Refs(rules, i)
  BY RuleFacts DEF Neighbors
<1>2. Sortable(rules)
  BY RuleFacts
<1>3. Neighbors(n) \in Seq(Name)
  BY <1>1, <1>2, RuleFacts, RefsOfType DEF Sortable, AllConditioned, Refs
<1>4. Len(Neighbors(n)) \in Nat /\ DOMAIN Neighbors(n) = 1 .. Len(Neighbors(n))
  BY <1>3, LenProperties
<1>5. \A k \in DOMAIN Neighbors(n) : Neighbors(n)[k] \in RuleNames
  BY <1>1, <1>2 DEF Sortable, RefsKnown, RuleNames
<1>6. Neighbors(n) \in Seq(RuleNames)
  BY <1>3, <1>4, <1>5, IsASeq
<1>7. \A k \in DOMAIN Neighbors(n) : Neighbors(n)[k] \in DepsOf(rules, n)
  BY <1>1, <1>5 DEF DepsOf, DependsOn, RuleNames
<1>8. \A d \in DepsOf(rules, n) : \E k \in DOMAIN Neighbors(n) : Neighbors(n)[k] = d
  BY <1>1, <1>2 DEF DepsOf, DependsOn, Sortable, NamesUnique
<1>. QED  BY <1>4, <1>6, <1>7, <1>8

LEMMA AppendFacts ==
  ASSUME NEW S, NEW s \in Seq(S), NEW x \in S
  PROVE  /\ Append(s, x) \in Seq(S)
         /\ Len(s) \in Nat
         /\ DOMAIN s = 1 .. Len(s)
         /\ Len(Append(s, x)) = Len(s) + 1
         /\ DOMAIN Append(s, x) = 1 .. Len(s) + 1
         /\ \A i \in 1 .. Len(s) : Append(s, x)[i] = s[i]
         /\ Append(s, x)[Len(s) + 1] = x
         /\ Append(s, x) # <<>>
BY AppendProperties, LenProperties

LEMMA FrontFacts ==
  ASSUME NEW S, NEW s \in Seq(S), s # <<>>
  PROVE  /\ Front(s) \in Seq(S)
         /\ Len(s) \in Nat \ {0}
         /\ DOMAIN s = 1 .. Len(s)
         /\ Len(Front(s)) = Len(s) - 1
         /\ DOMAIN Front(s) = 1 .. Len(s) - 1
         /\ \A i \in 1 .. Len(s) - 1 : Front(s)[i] = s[i]
<1>1. Len(s) \in Nat \ {0} /\ DOMAIN s = 1 .. Len(s)
  BY LenProperties, EmptySeq
<1>2. /\ SubSeq(s, 1, Len(s) - 1) \in Seq(S)
      /\ Len(SubSeq(s, 1, Len(s) - 1)) = Len(s) - 1
      /\ \A i \in 1 .. Len(s) - 1 : SubSeq(s, 1, Len(s) - 1)[i] = s[i]
  BY <1>1
<1>. QED  BY <1>1, <1>2, LenProperties DEF Front

-----------------------------------------------------------------------------
LEMMA InitIInv == SearchInit => IInv
<1>. SUFFICES ASSUME SearchInit PROVE IInv
  OBVIOUS
<1>1. Sortable(rules)
  BY RuleListsSortable DEF SearchInit
<1>2. Len(rules) \in Nat /\ DOMAIN rules = 1 .. Len(rules)
  BY <1>1, LenProperties DEF Sortable
<1>3. SearchTypeOK
  BY <1>2 DEF SearchInit, SearchTypeOK
<1>4. MarksAgree
  BY DEF SearchInit, MarksAgree, IsInjective, Range
<1>5. Chained /\ PassedAreDone /\ DoneClosed
  BY DEF SearchInit, Chained, PassedAreDone, DoneClosed
<1>6. DoneIsSafe
  BY DEF SearchInit, DoneIsSafe
<1>7. RootsDone /\ PathIsCycle /\ EmptyOnlyIfAcyclic
  BY DEF SearchInit, RootsDone, PathIsCycle, EmptyOnlyIfAcyclic
<1>. QED  BY <1>3, <1>4, <1>5, <1>6, <1>7 DEF IInv

\* what a step that marks no rule Done leaves alone
LEMMA NoneNewlyDone ==
  ASSUME DoneClosed, DoneIsSafe, rules' = rules,
         state \in [RuleNames -> {"Unvisited", "InStack", "Done"}],
         \A n \in RuleNames : state'[n] = "Done" <=> state[n] = "Done"
  PROVE  DoneClosed' /\ DoneIsSafe'
<1>1. RuleNames' = RuleNames
  BY DEF RuleNames
<1>2. \A n \in RuleNames : DepsOf(rules, n) \subseteq RuleNames
  BY DEF DepsOf, RuleNames
<1>3. DoneClosed'
  BY <1>1, <1>2 DEF DoneClosed
<1>4. {n \in RuleNames : state'[n] = "Done"} = {n \in RuleNames : state[n] = "Done"}
  OBVIOUS
<1>5. DoneIsSafe'
  BY <1>1, <1>4 DEF DoneIsSafe
<1>. QED  BY <1>3, <1>5

LEMMA StartAtIInv == IInv /\ StartAt => IInv'
<1>. SUFFICES ASSUME IInv, StartAt PROVE IInv'
  OBVIOUS
<1>. USE DEF IInv
<1>0. PICK n : n = rules[rootAt].name
  OBVIOUS
<1>1. /\ search = "scan" /\ search' = "dfs"
      /\ stack = <<>>
      /\ rootAt \in DOMAIN rules
      /\ n \in RuleNames
      /\ state[n] = "Unvisited"
      /\ state' = [state EXCEPT ![n] = "InStack"]
      /\ stack' = <<n>> /\ active' = <<n>> /\ cursor' = <<1>>
      /\ UNCHANGED <<rules, rootAt, cycle>>
  BY <1>0, RuleFacts DEF StartAt, SearchTypeOK
<1>2. RuleNames' = RuleNames
  BY <1>1 DEF RuleNames
<1>3. /\ stack' \in Seq(RuleNames) /\ cursor' \in Seq(Nat \ {0})
      /\ Len(stack') = 1 /\ Len(cursor') = 1
      /\ DOMAIN stack' = {1} /\ stack'[1] = n /\ cursor'[1] = 1
      /\ stack' # <<>>
  BY <1>1
<1>4. SearchTypeOK'
  BY <1>1, <1>2, <1>3 DEF SearchTypeOK
<1>5. MarksAgree'
  <2>1. Range(stack') = {n} /\ IsInjective(stack')
    BY <1>3 DEF Range, IsInjective
  <2>2. \A m \in RuleNames : state[m] # "InStack"
    BY <1>1 DEF MarksAgree, Range
  <2>. QED  BY <2>1, <2>2, <1>1, <1>2 DEF MarksAgree, SearchTypeOK
<1>6. Chained'
  BY <1>3 DEF Chained
<1>7. PassedAreDone'
  <2>1. DOMAIN Neighbors(n) = 1 .. Len(Neighbors(n))
    BY <1>1, NeighborFacts
  <2>2. Neighbors(n)' = Neighbors(n)
    BY <1>1 DEF Neighbors
  <2>3. \A i \in DOMAIN stack' : i = 1
    BY <1>3
  <2>4. \A k \in DOMAIN Neighbors(n) : ~(k < 1)
    BY <2>1
  <2>. QED  BY <2>2, <2>3, <2>4, <1>3 DEF PassedAreDone
<1>8. DoneClosed' /\ DoneIsSafe'
  BY <1>1, NoneNewlyDone DEF SearchTypeOK
<1>9. RootsDone'
  BY <1>0, <1>1, <1>3, RuleFacts DEF RootsDone, SearchTypeOK
<1>10. PathIsCycle' /\ EmptyOnlyIfAcyclic'
  BY <1>1 DEF PathIsCycle, EmptyOnlyIfAcyclic
<1>. QED  BY <1>4, <1>5, <1>6, <1>7, <1>8, <1>9, <1>10

LEMMA PassOverIInv == IInv /\ PassOver => IInv'
<1>. SUFFICES ASSUME IInv, PassOver PROVE IInv'
  OBVIOUS
<1>. USE DEF IInv
<1>1. /\ search = "scan"
      /\ stack = <<>>
      /\ rootAt \in DOMAIN rules
      /\ state[rules[rootAt].name] # "Unvisited"
      /\ rootAt' = rootAt + 1
      /\ UNCHANGED <<rules, search, state, stack, active, cursor, cycle>>
  BY RuleFacts DEF PassOver, SearchTypeOK
<1>2. RuleNames' = RuleNames
  BY <1>1 DEF RuleNames
<1>3. SearchTypeOK'
  BY <1>1, <1>2, RuleFacts DEF SearchTypeOK
<1>4. MarksAgree' /\ Chained' /\ PassedAreDone'
  BY <1>1, <1>2 DEF MarksAgree, Chained, PassedAreDone, Neighbors
<1>5. DoneClosed' /\ DoneIsSafe'
  BY <1>1, NoneNewlyDone DEF SearchTypeOK
<1>6. state[rules[rootAt].name] = "Done"
  BY <1>1, RuleFacts DEF MarksAgree, Range, SearchTypeOK
<1>7. RootsDone'
  BY <1>1, <1>6 DEF RootsDone, SearchTypeOK
<1>8. PathIsCycle' /\ EmptyOnlyIfAcyclic'
  BY <1>1 DEF PathIsCycle, EmptyOnlyIfAcyclic
<1>. QED  BY <1>3, <1>4, <1>5, <1>7, <1>8

LEMMA GiveUpIInv == IInv /\ GiveUp => IInv'
<1>. SUFFICES ASSUME IInv, GiveUp PROVE IInv'
  OBVIOUS
<1>. USE DEF IInv
<1>1. /\ search = "scan" /\ search' = "none"
      /\ stack = <<>>
      /\ rootAt > Len(rules)
      /\ UNCHANGED <<rules, rootAt, state, stack, active, cursor, cycle>>
  BY DEF GiveUp, SearchTypeOK
<1>2. RuleNames' = RuleNames
  BY <1>1 DEF RuleNames
<1>3. SearchTypeOK'
  BY <1>1, <1>2 DEF SearchTypeOK
<1>4. MarksAgree' /\ Chained' /\ PassedAreDone'
  BY <1>1, <1>2 DEF MarksAgree, Chained, PassedAreDone, Neighbors
<1>5. DoneClosed' /\ DoneIsSafe'
  BY <1>1, NoneNewlyDone DEF SearchTypeOK
<1>6. RootsDone' /\ PathIsCycle'
  BY <1>1 DEF RootsDone, PathIsCycle
<1>7. \A n \in RuleNames : state[n] = "Done"
  BY <1>1, RuleFacts DEF RootsDone, SearchTypeOK
<1>8. Acyclic(rules)
  BY <1>7 DEF DoneIsSafe, Acyclic, RuleNames
<1>. QED  BY <1>1, <1>3, <1>4, <1>5, <1>6, <1>8 DEF EmptyOnlyIfAcyclic

\* the activation on top of the stack
LEMMA TopFacts ==
  ASSUME IInv, search = "dfs"
  PROVE  /\ active = stack
         /\ Len(stack) \in Nat \ {0} /\ Len(cursor) = Len(stack)
         /\ DOMAIN stack = 1 .. Len(stack) /\ DOMAIN cursor = 1 .. Len(stack)
         /\ \A i \in 1 .. Len(stack) : stack[i] \in RuleNames /\ cursor[i] \in Nat \ {0}
         /\ Node \in RuleNames /\ Node = stack[Len(stack)]
         /\ At \in Nat \ {0} /\ At = cursor[Len(stack)]
         /\ state[Node] = "InStack"
<1>1. stack \in Seq(RuleNames) /\ cursor \in Seq(Nat \ {0}) /\ stack # <<>>
  BY DEF IInv, SearchTypeOK
<1>2. /\ Len(stack) \in Nat \ {0} /\ Len(cursor) = Len(stack)
      /\ DOMAIN stack = 1 .. Len(stack) /\ DOMAIN cursor = 1 .. Len(stack)
  BY <1>1, LenProperties, EmptySeq DEF IInv, SearchTypeOK
<1>3. \A i \in 1 .. Len(stack) : stack[i] \in RuleNames /\ cursor[i] \in Nat \ {0}
  BY <1>1, <1>2, ElementOfSeq
<1>4. Len(stack) \in 1 .. Len(stack)
  BY <1>2
<1>5. active = stack
  BY DEF IInv, SearchTypeOK
<1>. QED  BY <1>2, <1>3, <1>4, <1>5 DEF Node, At, IInv, MarksAgree, Range

LEMMA CloseIInv == IInv /\ Close => IInv'
<1>. SUFFICES ASSUME IInv, Close PROVE IInv'
  OBVIOUS
<1>. USE DEF IInv
<1>0. PICK node, neighbor, pos :
        /\ node = Node /\ neighbor = Neighbors(Node)[At]
        /\ pos \in DOMAIN stack /\ stack[pos] = neighbor
        /\ cycle' = Append(SubSeq(stack, pos, Len(stack)), neighbor)
  BY DEF Close
<1>1. /\ search = "dfs" /\ search' = "found"
      /\ At \in DOMAIN Neighbors(node)
      /\ UNCHANGED <<rules, rootAt, state, stack, active, cursor>>
  BY <1>0, TopFacts, NeighborFacts DEF Close
<1>2. RuleNames' = RuleNames
  BY <1>1 DEF RuleNames
<1>. DEFINE L == Len(stack) - pos + 1
<1>3. /\ pos \in Nat \ {0} /\ L \in Nat \ {0}
      /\ Len(stack) \in Nat /\ pos <= Len(stack)
      /\ neighbor \in RuleNames
  BY <1>0, <1>1, TopFacts
<1>4. /\ SubSeq(stack, pos, Len(stack)) \in Seq(RuleNames)
      /\ Len(SubSeq(stack, pos, Len(stack))) = L
      /\ \A i \in 1 .. L : SubSeq(stack, pos, Len(stack))[i] = stack[pos + i - 1]
  <2>1. \A i \in pos .. Len(stack) : stack[i] \in RuleNames
    BY <1>1, <1>3, TopFacts
  <2>. QED  BY <2>1, <1>3, SubSeqProperties
<1>5. /\ cycle' \in Seq(RuleNames)
      /\ Len(cycle') = L + 1
      /\ DOMAIN cycle' = 1 .. L + 1
      /\ \A i \in 1 .. L : cycle'[i] = stack[pos + i - 1]
      /\ cycle'[L + 1] = neighbor
  BY <1>0, <1>3, <1>4, AppendFacts
<1>6. SearchTypeOK'
  BY <1>1, <1>2, <1>5 DEF SearchTypeOK
<1>7. MarksAgree' /\ Chained' /\ PassedAreDone' /\ RootsDone'
  BY <1>1, <1>2 DEF MarksAgree, Chained, PassedAreDone, RootsDone, Neighbors
<1>8. DoneClosed' /\ DoneIsSafe'
  BY <1>1, NoneNewlyDone DEF SearchTypeOK
<1>9. ASSUME NEW i \in 1 .. L
      PROVE  cycle'[i + 1] \in DepsOf(rules, cycle'[i])
  <2>1. CASE i < L
    <3>1. pos + i - 1 \in 1 .. Len(stack) - 1 /\ i + 1 \in 1 .. L
      BY <2>1, <1>3
    <3>2. stack[pos + i - 1] \in RuleNames
      BY <3>1, <1>1, TopFacts
    <3>3. stack[pos + i - 1 + 1] \in DepsOf(rules, stack[pos + i - 1])
      BY <3>1, <3>2, NeighborFacts DEF Chained
    <3>4. cycle'[i] = stack[pos + i - 1] /\ cycle'[i + 1] = stack[pos + i - 1 + 1]
      <4>1. pos + (i + 1) - 1 = pos + i - 1 + 1
        BY <1>3
      <4>. QED  BY <3>1, <4>1, <1>5
    <3>. QED  BY <3>3, <3>4
  <2>2. CASE i = L
    <3>1. cycle'[i] = node /\ cycle'[i + 1] = neighbor
      <4>1. pos + L - 1 = Len(stack)
        BY <1>3
      <4>. QED  BY <2>2, <4>1, <1>0, <1>1, <1>3, <1>5, TopFacts
    <3>2. neighbor \in DepsOf(rules, node)
      BY <1>0, <1>1, TopFacts, NeighborFacts
    <3>. QED  BY <3>1, <3>2
  <2>. QED  BY <2>1, <2>2, <1>3
<1>10. IsCycle(cycle', rules)
  <2>1. cycle'[1] = neighbor
    <3>1. 1 \in 1 .. L /\ pos + 1 - 1 = pos
      BY <1>3
    <3>. QED  BY <3>1, <1>0, <1>5
  <2>. QED  BY <2>1, <1>3, <1>5, <1>9 DEF IsCycle
<1>11. IsInjective(Tail(cycle'))
  <2>1. cycle' # <<>>
    BY <1>3, <1>5, EmptySeq
  <2>2. /\ DOMAIN Tail(cycle') = 1 .. L
        /\ \A i \in 1 .. L : Tail(cycle')[i] = cycle'[i + 1]
    <3>1. /\ Tail(cycle') \in Seq(RuleNames) /\ Len(Tail(cycle')) = L
          /\ \A i \in 1 .. L : Tail(cycle')[i] = cycle'[i + 1]
      BY <2>1, <1>3, <1>5, HeadTailProperties
    <3>. QED  BY <3>1, LenProperties
  <2>3. \A i \in 1 .. L : Tail(cycle')[i] = IF i < L THEN stack[pos + i] ELSE stack[pos]
    <3>. SUFFICES ASSUME NEW i \in 1 .. L
                  PROVE  cycle'[i + 1] = IF i < L THEN stack[pos + i] ELSE stack[pos]
      BY <2>2
    <3>1. CASE i < L
      <4>1. i + 1 \in 1 .. L /\ pos + (i + 1) - 1 = pos + i
        BY <3>1, <1>3
      <4>. QED  BY <3>1, <4>1, <1>5
    <3>2. CASE i = L
      BY <3>2, <1>0, <1>5
    <3>. QED  BY <3>1, <3>2, <1>3
  <2>4. \A i, j \in DOMAIN stack : stack[i] = stack[j] => i = j
    BY DEF MarksAgree, IsInjective
  <2>5. ASSUME NEW i \in 1 .. L, NEW j \in 1 .. L, Tail(cycle')[i] = Tail(cycle')[j]
        PROVE  i = j
    <3>1. /\ i < L => pos + i \in DOMAIN stack
          /\ j < L => pos + j \in DOMAIN stack
      BY <1>1, <1>3, TopFacts
    <3>. DEFINE at(k) == IF k < L THEN pos + k ELSE pos
    <3>2. /\ at(i) \in DOMAIN stack /\ Tail(cycle')[i] = stack[at(i)]
          /\ at(j) \in DOMAIN stack /\ Tail(cycle')[j] = stack[at(j)]
      BY <3>1, <2>3, <1>0
    <3>3. at(i) = at(j)
      <4>. HIDE DEF at
      <4>. QED  BY <3>2, <2>4, <2>5
    <3>. QED  BY <3>3, <1>3
  <2>. QED  BY <2>2, <2>5 DEF IsInjective
<1>. QED  BY <1>1, <1>6, <1>7, <1>8, <1>10, <1>11 DEF PathIsCycle, EmptyOnlyIfAcyclic

LEMMA DescendIInv == IInv /\ Descend => IInv'
<1>. SUFFICES ASSUME IInv, Descend PROVE IInv'
  OBVIOUS
<1>. USE DEF IInv
<1>0. PICK node, neighbor, at, top :
        node = Node /\ neighbor = Neighbors(Node)[At] /\ at = At /\ top = Len(stack)
  OBVIOUS
<1>1. /\ search = "dfs"
      /\ top \in Nat \ {0} /\ Len(stack) = top /\ Len(cursor) = top
      /\ DOMAIN stack = 1 .. top /\ DOMAIN cursor = 1 .. top
      /\ node \in RuleNames /\ stack[top] = node /\ cursor[top] = at
      /\ at \in Nat \ {0}
      /\ at \in DOMAIN Neighbors(node) /\ neighbor = Neighbors(node)[at]
      /\ neighbor \in RuleNames
      /\ state[neighbor] = "Unvisited"
      /\ state' = [state EXCEPT ![neighbor] = "InStack"]
      /\ stack' = Append(stack, neighbor) /\ active' = stack'
      /\ cursor' = Append([cursor EXCEPT ![top] = at + 1], 1)
      /\ UNCHANGED <<rules, search, rootAt, cycle>>
  <2>1. at \in DOMAIN Neighbors(node) /\ neighbor \in RuleNames
    BY <1>0, TopFacts, NeighborFacts DEF Descend
  <2>. QED  BY <2>1, <1>0, TopFacts DEF Descend
<1>2. RuleNames' = RuleNames
  BY <1>1 DEF RuleNames
<1>3. /\ stack' \in Seq(RuleNames) /\ stack' # <<>>
      /\ Len(stack') = top + 1 /\ DOMAIN stack' = 1 .. top + 1
      /\ \A i \in 1 .. top : stack'[i] = stack[i]
      /\ stack'[top + 1] = neighbor
  <2>1. stack \in Seq(RuleNames)
    BY DEF SearchTypeOK
  <2>. QED  BY <2>1, <1>1, AppendFacts
<1>4. /\ cursor' \in Seq(Nat \ {0})
      /\ Len(cursor') = top + 1
      /\ \A i \in 1 .. top : cursor'[i] = IF i = top THEN at + 1 ELSE cursor[i]
      /\ cursor'[top + 1] = 1
  <2>. DEFINE c == [cursor EXCEPT ![top] = at + 1]
  <2>1. c \in Seq(Nat \ {0}) /\ Len(c) = top
    BY <1>1, ExceptSeq DEF SearchTypeOK
  <2>2. \A i \in 1 .. top : c[i] = IF i = top THEN at + 1 ELSE cursor[i]
    BY <1>1
  <2>3. cursor' = Append(c, 1)
    BY <1>1
  <2>. HIDE DEF c
  <2>. QED  BY <2>1, <2>2, <2>3, AppendFacts
<1>5. SearchTypeOK'
  BY <1>1, <1>2, <1>3, <1>4 DEF SearchTypeOK
<1>6. neighbor \notin Range(stack)
  BY <1>1 DEF MarksAgree
<1>7. MarksAgree'
  <2>1. Range(stack') = Range(stack) \cup {neighbor}
    BY <1>1, <1>3 DEF Range
  <2>2. IsInjective(stack')
    BY <1>1, <1>3, <1>6 DEF MarksAgree, IsInjective, Range
  <2>. QED  BY <2>1, <2>2, <1>1, <1>2 DEF MarksAgree, SearchTypeOK
<1>8. \A n : Neighbors(n)' = Neighbors(n)
  BY <1>1 DEF Neighbors
<1>9. ASSUME NEW i \in 1 .. top
      PROVE  /\ cursor'[i] - 1 \in DOMAIN Neighbors(stack'[i])
             /\ Neighbors(stack'[i])[cursor'[i] - 1] = stack'[i + 1]
  <2>1. CASE i = top
    BY <2>1, <1>1, <1>3, <1>4
  <2>2. CASE i # top
    <3>1. i \in 1 .. Len(stack) - 1 /\ i + 1 \in 1 .. top
      BY <2>2, <1>1
    <3>. QED  BY <2>2, <3>1, <1>1, <1>3, <1>4 DEF Chained
  <2>. QED  BY <2>1, <2>2
<1>10. Chained'
  BY <1>1, <1>3, <1>8, <1>9 DEF Chained
<1>11. ASSUME NEW i \in 1 .. top + 1, NEW k \in DOMAIN Neighbors(stack'[i]), k < cursor'[i]
       PROVE  \/ state'[Neighbors(stack'[i])[k]] = "Done"
              \/ i < top + 1 /\ k = cursor'[i] - 1
  <2>0. i \in 1 .. top => stack[i] \in RuleNames
    BY <1>1, TopFacts
  <2>1. CASE i = top + 1
    BY SMTT(30), <2>1, <1>1, <1>3, <1>4, <1>11, NeighborFacts
  <2>2. CASE i = top /\ k # at
    <3>0. stack'[i] = stack[i] /\ cursor'[i] = at + 1
      BY <2>2, <1>1, <1>3, <1>4
    <3>1. k < at
      <4>1. k \in Nat
        BY <2>0, <2>2, <3>0, <1>1, <1>11, NeighborFacts
      <4>2. k < at + 1 /\ k # at
        BY <2>2, <3>0, <1>11
      <4>. QED  BY <4>1, <4>2, <1>1
    <3>2. state[Neighbors(stack[i])[k]] = "Done"
      <4>1. i \in DOMAIN stack /\ ~(i < Len(stack)) /\ cursor[i] = at
        BY <2>2, <1>1
      <4>2. k \in DOMAIN Neighbors(stack[i])
        BY <3>0, <1>11
      <4>. QED  BY <4>1, <4>2, <3>1 DEF PassedAreDone
    <3>3. Neighbors(stack[i])[k] \in RuleNames
      BY <2>2, <1>1, <1>3, <1>11, NeighborFacts
    <3>. QED  BY <2>2, <3>2, <3>3, <1>1, <1>3 DEF SearchTypeOK
  <2>3. CASE i = top /\ k = at
    BY <2>3, <1>1, <1>4
  <2>4. CASE i < top
    <3>1. stack'[i] = stack[i] /\ cursor'[i] = cursor[i] /\ i \in 1 .. top
      BY <2>4, <1>1, <1>3, <1>4
    <3>2. state[Neighbors(stack[i])[k]] = "Done" \/ k = cursor[i] - 1
      BY <2>4, <3>1, <1>1, <1>11 DEF PassedAreDone
    <3>3. Neighbors(stack[i])[k] \in RuleNames
      BY <2>0, <3>1, <1>11, NeighborFacts
    <3>. QED  BY <2>4, <3>1, <3>2, <3>3, <1>1 DEF SearchTypeOK
  <2>. QED  BY <2>1, <2>2, <2>3, <2>4, <1>1
<1>12. PassedAreDone'
  BY <1>3, <1>8, <1>11 DEF PassedAreDone
<1>13. DoneClosed' /\ DoneIsSafe'
  BY <1>1, NoneNewlyDone DEF SearchTypeOK
<1>14. RootsDone'
  <2>1. \A j \in 1 .. rootAt - 1 : rules[j].name \in RuleNames
    BY RuleFacts DEF SearchTypeOK
  <2>. QED  BY <2>1, <1>1, <1>3 DEF RootsDone, SearchTypeOK
<1>. QED  BY <1>1, <1>5, <1>7, <1>10, <1>12, <1>13, <1>14 DEF PathIsCycle, EmptyOnlyIfAcyclic

LEMMA SkipDoneIInv == IInv /\ SkipDone => IInv'
<1>. SUFFICES ASSUME IInv, SkipDone PROVE IInv'
  OBVIOUS
<1>. USE DEF IInv
<1>0. PICK node, at, top : node = Node /\ at = At /\ top = Len(stack)
  OBVIOUS
<1>1. /\ search = "dfs"
      /\ top \in Nat \ {0} /\ Len(stack) = top /\ Len(cursor) = top
      /\ DOMAIN stack = 1 .. top /\ DOMAIN cursor = 1 .. top
      /\ node \in RuleNames /\ stack[top] = node /\ cursor[top] = at
      /\ at \in Nat \ {0}
      /\ at \in DOMAIN Neighbors(node)
      /\ state[Neighbors(node)[at]] = "Done"
      /\ cursor' = [cursor EXCEPT ![top] = at + 1]
      /\ UNCHANGED <<rules, search, rootAt, state, stack, active, cycle>>
  <2>1. at \in DOMAIN Neighbors(node)
    BY <1>0, TopFacts, NeighborFacts DEF SkipDone
  <2>. QED  BY <2>1, <1>0, TopFacts DEF SkipDone
<1>2. RuleNames' = RuleNames /\ \A n : Neighbors(n)' = Neighbors(n)
  BY <1>1 DEF RuleNames, Neighbors
<1>3. /\ cursor' \in Seq(Nat \ {0}) /\ Len(cursor') = top
      /\ \A i \in 1 .. top : cursor'[i] = IF i = top THEN at + 1 ELSE cursor[i]
  BY <1>1, ExceptSeq DEF SearchTypeOK
<1>4. SearchTypeOK'
  BY <1>1, <1>2, <1>3 DEF SearchTypeOK
<1>5. MarksAgree'
  BY <1>1, <1>2 DEF MarksAgree
<1>6. Chained'
  BY <1>1, <1>2, <1>3 DEF Chained
<1>7. ASSUME NEW i \in 1 .. top, NEW k \in DOMAIN Neighbors(stack[i]), k < cursor'[i]
      PROVE  \/ state[Neighbors(stack[i])[k]] = "Done"
             \/ i < top /\ k = cursor'[i] - 1
  <2>1. CASE i = top /\ k # at
    <3>1. k < at
      BY <2>1, <1>1, <1>3, <1>7, NeighborFacts
    <3>. QED  BY <2>1, <3>1, <1>1 DEF PassedAreDone
  <2>2. CASE i = top /\ k = at
    BY <2>2, <1>1
  <2>3. CASE i < top
    BY <2>3, <1>1, <1>3, <1>7 DEF PassedAreDone
  <2>. QED  BY <2>1, <2>2, <2>3, <1>1
<1>8. PassedAreDone'
  BY <1>1, <1>2, <1>7 DEF PassedAreDone
<1>9. DoneClosed' /\ DoneIsSafe'
  BY <1>1, NoneNewlyDone DEF SearchTypeOK
<1>. QED  BY <1>1, <1>4, <1>5, <1>6, <1>8, <1>9 DEF RootsDone, PathIsCycle, EmptyOnlyIfAcyclic

LEMMA LeaveIInv == IInv /\ Leave => IInv'
<1>. SUFFICES ASSUME IInv, Leave PROVE IInv'
  OBVIOUS
<1>. USE DEF IInv
<1>0. PICK node, at, top : node = Node /\ at = At /\ top = Len(stack)
  OBVIOUS
<1>1. /\ search = "dfs"
      /\ top \in Nat \ {0} /\ Len(stack) = top /\ Len(cursor) = top
      /\ DOMAIN stack = 1 .. top /\ DOMAIN cursor = 1 .. top
      /\ \A i \in 1 .. top : stack[i] \in RuleNames
      /\ node \in RuleNames /\ stack[top] = node /\ cursor[top] = at
      /\ state[node] = "InStack"
      /\ at \in Nat \ {0} /\ at > Len(Neighbors(node))
      /\ state' = [state EXCEPT ![node] = "Done"]
      /\ stack' = Front(stack) /\ active' = stack'
      /\ cursor' = Front(cursor)
      /\ UNCHANGED <<rules, cycle>>
  BY <1>0, TopFacts DEF Leave
<1>2. RuleNames' = RuleNames /\ \A n : Neighbors(n)' = Neighbors(n)
  BY <1>1 DEF RuleNames, Neighbors
<1>3. /\ stack \in Seq(RuleNames) /\ stack # <<>>
      /\ cursor \in Seq(Nat \ {0}) /\ cursor # <<>>
  <2>1. stack \in Seq(RuleNames) /\ cursor \in Seq(Nat \ {0})
    BY DEF SearchTypeOK
  <2>. QED  BY <2>1, <1>1, EmptySeq
<1>4. /\ stack' \in Seq(RuleNames) /\ Len(stack') = top - 1 /\ DOMAIN stack' = 1 .. top - 1
      /\ cursor' \in Seq(Nat \ {0}) /\ Len(cursor') = top - 1
      /\ \A i \in 1 .. top - 1 : stack'[i] = stack[i] /\ cursor'[i] = cursor[i]
  BY <1>1, <1>3, FrontFacts
<1>5. state' \in [RuleNames -> {"Unvisited", "InStack", "Done"}]
  BY <1>1 DEF SearchTypeOK
<1>6. stack' = <<>> <=> top = 1
  BY <1>1, <1>4, EmptySeq
<1>7. /\ top = 1 => search' = "scan" /\ rootAt' = rootAt + 1
      /\ top # 1 => search' = "dfs" /\ rootAt' = rootAt
      /\ rootAt \in DOMAIN rules
  BY <1>0, <1>1, TopFacts DEF Leave, RootsDone
<1>8. SearchTypeOK'
  <2>1. rootAt' \in 1 .. Len(rules) + 1
    BY <1>7, RuleFacts DEF SearchTypeOK
  <2>. QED  BY <2>1, <1>1, <1>2, <1>4, <1>5, <1>6, <1>7 DEF SearchTypeOK
<1>9. MarksAgree'
  <2>1. Range(stack') = Range(stack) \ {node}
    <3>1. \A i \in 1 .. top - 1 : stack[i] # node
      BY <1>1 DEF MarksAgree, IsInjective
    <3>2. \A i \in 1 .. top : i = top \/ i \in 1 .. top - 1
      BY <1>1
    <3>3. Range(stack') \subseteq Range(stack) \ {node}
      BY <3>1, <1>1, <1>4 DEF Range
    <3>4. ASSUME NEW n \in Range(stack) \ {node}
          PROVE  n \in Range(stack')
      <4>1. PICK i \in 1 .. top : stack[i] = n
        BY <1>1 DEF Range
      <4>2. i \in 1 .. top - 1
        BY <4>1, <3>2, <1>1
      <4>. QED  BY <4>1, <4>2, <1>4 DEF Range
    <3>. QED  BY <3>3, <3>4
  <2>2. IsInjective(stack')
    BY SMTT(30), <1>1, <1>4 DEF MarksAgree, IsInjective
  <2>. QED  BY <2>1, <2>2, <1>1, <1>2 DEF MarksAgree, SearchTypeOK
<1>10. Chained'
  <2>1. \A i \in 1 .. top - 2 : i \in 1 .. Len(stack) - 1 /\ i \in 1 .. top - 1 /\ i + 1 \in 1 .. top - 1
    BY <1>1
  <2>2. \A i \in 1 .. top - 2 :
          /\ cursor'[i] - 1 \in DOMAIN Neighbors(stack'[i])
          /\ Neighbors(stack'[i])[cursor'[i] - 1] = stack'[i + 1]
    BY <2>1, <1>4 DEF Chained
  <2>3. \A i \in 1 .. Len(stack') - 1 : i \in 1 .. top - 2
    BY <1>1, <1>4
  <2>. QED  BY <2>2, <2>3, <1>2 DEF Chained
<1>11. ASSUME NEW i \in 1 .. top - 1, NEW k \in DOMAIN Neighbors(stack[i]), k < cursor[i]
       PROVE  \/ state'[Neighbors(stack[i])[k]] = "Done"
              \/ i < top - 1 /\ k = cursor[i] - 1
  <2>0. i \in DOMAIN stack /\ stack[i] \in RuleNames /\ i < Len(stack)
    BY <1>1
  <2>1. Neighbors(stack[i])[k] \in RuleNames
    BY <2>0, <1>11, NeighborFacts
  <2>2. CASE state[Neighbors(stack[i])[k]] = "Done"
    BY <2>1, <2>2, <1>1 DEF SearchTypeOK
  <2>3. CASE k = cursor[i] - 1 /\ i < top - 1
    BY <2>3
  <2>4. CASE k = cursor[i] - 1 /\ i = top - 1
    <3>1. Neighbors(stack[i])[k] = node
      <4>1. i \in 1 .. Len(stack) - 1 /\ i + 1 = top
        BY <2>4, <1>1
      <4>. QED  BY <2>4, <4>1, <1>1 DEF Chained
    <3>. QED  BY <3>1, <1>1 DEF SearchTypeOK
  <2>. QED  BY <2>0, <2>2, <2>3, <2>4, <1>1, <1>11 DEF PassedAreDone
<1>12. PassedAreDone'
  BY <1>2, <1>4, <1>11 DEF PassedAreDone
\* all that the rule left behind references is Done
<1>13. \A d \in DepsOf(rules, node) : d \in RuleNames /\ state[d] = "Done"
  <2>. SUFFICES ASSUME NEW d \in DepsOf(rules, node)
                PROVE  d \in RuleNames /\ state[d] = "Done"
    OBVIOUS
  <2>1. PICK k \in DOMAIN Neighbors(node) : Neighbors(node)[k] = d
    BY <1>1, NeighborFacts
  <2>2. k < at
    BY <1>1, NeighborFacts
  <2>3. top \in DOMAIN stack
    BY <1>1
  <2>4. state[Neighbors(node)[k]] = "Done" \/ top < top
    BY <2>2, <2>3, <1>1 DEF PassedAreDone
  <2>. QED  BY <2>1, <2>4, <1>1 DEF DepsOf, RuleNames
<1>14. DoneClosed'
  <2>1. \A n \in RuleNames : DepsOf(rules, n) \subseteq RuleNames
    BY DEF DepsOf, RuleNames
  <2>2. ASSUME NEW n \in RuleNames, state'[n] = "Done", NEW d \in DepsOf(rules, n)
        PROVE  state'[d] = "Done"
    <3>1. state[d] = "Done"
      BY <2>2, <1>1, <1>13 DEF DoneClosed, SearchTypeOK
    <3>. QED  BY <3>1, <2>1, <2>2, <1>1 DEF SearchTypeOK
  <2>. QED  BY <2>2, <1>1, <1>2 DEF DoneClosed
<1>15. DoneIsSafe'
  <2>1. ASSUME NEW S \in SUBSET {n \in RuleNames : state'[n] = "Done"}, S # {}
        PROVE  \E n \in S : DepsOf(rules, n) \cap S = {}
    <3>0. \A n \in S \ {node} : n \in RuleNames /\ state[n] = "Done"
      BY <2>1, <1>1 DEF SearchTypeOK
    <3>1. CASE S \ {node} = {}
      BY <3>1, <2>1, <1>1, <1>13
    <3>2. CASE S \ {node} # {}
      <4>1. PICK n \in S \ {node} : DepsOf(rules, n) \cap (S \ {node}) = {}
        BY <3>0, <3>2 DEF DoneIsSafe
      <4>2. node \notin DepsOf(rules, n)
        BY <3>0, <1>1 DEF DoneClosed
      <4>. QED  BY <4>1, <4>2
    <3>. QED  BY <3>1, <3>2
  <2>. QED  BY <2>1, <1>1, <1>2 DEF DoneIsSafe
<1>16. RootsDone'
  <2>1. \A j \in 1 .. rootAt - 1 : rules[j].name \in RuleNames /\ state'[rules[j].name] = "Done"
    BY SMTT(30), <1>1, <1>7, RuleFacts DEF RootsDone, SearchTypeOK
  <2>2. CASE top = 1
    <3>1. rules[rootAt].name = node
      BY <2>2, <1>1 DEF RootsDone
    <3>2. state'[rules[rootAt].name] = "Done"
      BY <3>1, <1>1 DEF SearchTypeOK
    <3>. QED  BY <2>1, <2>2, <3>2, <1>1, <1>7, RuleFacts DEF RootsDone
  <2>3. CASE top # 1
    <3>1. stack'[1] = stack[1]
      BY <2>3, <1>1, <1>4
    <3>. QED  BY <2>1, <2>3, <3>1, <1>1, <1>7 DEF RootsDone
  <2>. QED  BY <2>2, <2>3
<1>17. PathIsCycle' /\ EmptyOnlyIfAcyclic'
  BY <1>7 DEF PathIsCycle, EmptyOnlyIfAcyclic
<1>. QED  BY <1>8, <1>9, <1>10, <1>12, <1>14, <1>15, <1>16, <1>17

-----------------------------------------------------------------------------
(* The theorems *)

THEOREM Invariance == SearchSpec => []IInv
<1>1. IInv /\ [SearchNext]_searchVars => IInv'
  <2>. SUFFICES ASSUME IInv, [SearchNext]_searchVars PROVE IInv'
    OBVIOUS
  <2>1. CASE SearchNext
    BY <2>1, StartAtIInv, PassOverIInv, GiveUpIInv, CloseIInv, DescendIInv, SkipDoneIInv,
       LeaveIInv DEF SearchNext
  <2>2. CASE UNCHANGED searchVars
    <3>. USE <2>2 DEF searchVars, IInv
    <3>1. RuleNames' = RuleNames /\ \A n : Neighbors(n)' = Neighbors(n)
      BY DEF RuleNames, Neighbors
    <3>2. SearchTypeOK' /\ MarksAgree'
      BY <3>1 DEF SearchTypeOK, MarksAgree
    <3>3. Chained' /\ PassedAreDone'
      BY <3>1 DEF Chained, PassedAreDone
    <3>4. DoneClosed' /\ DoneIsSafe'
      BY NoneNewlyDone DEF SearchTypeOK
    <3>5. RootsDone' /\ PathIsCycle' /\ EmptyOnlyIfAcyclic'
      BY DEF RootsDone, PathIsCycle, EmptyOnlyIfAcyclic
    <3>. QED  BY <3>2, <3>3, <3>4, <3>5
  <2>. QED  BY <2>1, <2>2
<1>. QED  BY InitIInv, <1>1, PTL DEF SearchSpec

\* Every mark, cursor and path keeps its type.
THEOREM TypeCorrect == SearchSpec => []SearchTypeOK
BY Invariance, PTL DEF IInv

\* `expect("node marked InStack must be present in stack")` never panics.
THEOREM MarksAgreeAlways == SearchSpec => []MarksAgree
BY Invariance, PTL DEF IInv

\* The path find_cycle returns is a cycle of the rules.
THEOREM PathIsCycleAlways == SearchSpec => []PathIsCycle
BY Invariance, PTL DEF IInv

\* No rule marked Done lies on a cycle.
THEOREM DoneIsSafeAlways == SearchSpec => []DoneIsSafe
BY Invariance, PTL DEF IInv

\* find_cycle comes back empty-handed for acyclic rules only.
THEOREM EmptyOnlyIfAcyclicAlways == SearchSpec => []EmptyOnlyIfAcyclic
BY Invariance, PTL DEF IInv

\* What find_cycle returns is a path compile() may name in its error
\* (Compiler's TopologicalSort), and for cyclic rules it does return one.
THEOREM AnswersAreCycles ==
  SearchSpec => []( /\ search = "found" => cycle \in Cycles(rules)
              /\ search = "none" => Acyclic(rules) )
<1>1. ASSUME IInv, search = "found"
      PROVE  cycle \in Cycles(rules)
  <2>. DEFINE n == Len(cycle)
  <2>1. IsCycle(cycle, rules) /\ IsInjective(Tail(cycle))
    BY <1>1 DEF IInv, PathIsCycle
  <2>2. cycle \in Seq(NamesOf(rules)) /\ Sortable(rules)
    BY <1>1, RuleFacts DEF IInv, SearchTypeOK, RuleNames
  <2>3. n \in Nat /\ n >= 2 /\ cycle \in [1 .. n -> NamesOf(rules)]
    BY <2>1, <2>2, LenProperties DEF IsCycle
  <2>4. Tail(cycle) \in Seq(NamesOf(rules)) /\ Len(Tail(cycle)) = n - 1
    BY <2>2, <2>3, HeadTailProperties, EmptySeq
  <2>5. n - 1 <= Len(rules) /\ Len(rules) \in Nat
    BY <2>1, <2>2, <2>4, InjectiveLength, RulesCounted
  <2>6. n \in 2 .. Len(rules) + 1
    BY <2>3, <2>5
  <2>. HIDE DEF n
  <2>. QED  BY <2>1, <2>3, <2>6 DEF Cycles
<1>. QED  BY <1>1, Invariance, EmptyOnlyIfAcyclicAlways, PTL DEF EmptyOnlyIfAcyclic
=============================================================================
