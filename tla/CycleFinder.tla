------------------------------ MODULE CycleFinder ------------------------------
(***************************************************************************)
(* find_cycle and dfs (compile.rs): the depth-first search that names a    *)
(* cycle once topological_sort has found that there is one.  The recursion *)
(* is the pair of sequences active and cursor: active[i] is the node of    *)
(* the i-th activation of dfs, whose loop over the neighbours is suspended *)
(* before neighbour number cursor[i].  The vector dfs pushes to and pops   *)
(* from, and reads the path off, is stack.                                 *)
(***************************************************************************)
EXTENDS TopoSort

VARIABLES
  search,  \* "scan": the loop over the rules; "dfs": inside dfs; or the result
  rootAt,  \* position of the loop over the rules
  state,   \* DfsState of every rule
  stack,   \* the nodes pushed and not yet popped
  active,  \* the nodes of the activations of dfs
  cursor,  \* and the neighbour each is at
  cycle    \* the path returned

\* The rules are those that topological_sort was called with.
searchVars == <<rules, search, rootAt, state, stack, active, cursor, cycle>>

\* adj[n]: every reference is a known rule here, so filter_map drops none
Neighbors(n) == Refs(rules, CHOOSE i \in DOMAIN rules : rules[i].name = n)

SearchInit ==
  /\ rules \in RuleLists
  /\ search = "scan"
  /\ rootAt = 1
  /\ state = [n \in RuleNames |-> "Unvisited"]
  /\ stack = <<>>
  /\ active = <<>>
  /\ cursor = <<>>
  /\ cycle = <<>>

\* for rule in rules: `if state.get(name) == Some(&Unvisited)`
StartAt ==
  /\ search = "scan"
  /\ rootAt <= Len(rules)
  /\ state[rules[rootAt].name] = "Unvisited"
  /\ state' = [state EXCEPT ![rules[rootAt].name] = "InStack"]
  /\ stack' = Append(stack, rules[rootAt].name)
  /\ active' = <<rules[rootAt].name>>
  /\ cursor' = <<1>>
  /\ search' = "dfs"
  /\ UNCHANGED <<rules, rootAt, cycle>>

PassOver ==
  /\ search = "scan"
  /\ rootAt <= Len(rules)
  /\ state[rules[rootAt].name] # "Unvisited"
  /\ rootAt' = rootAt + 1
  /\ UNCHANGED <<rules, search, state, stack, active, cursor, cycle>>

\* Faulty: only the first rule is searched from.
GiveUp_AfterFirst ==
  /\ search = "scan"
  /\ rootAt > 1
  /\ search' = "none"
  /\ UNCHANGED <<rules, rootAt, state, stack, active, cursor, cycle>>

\* vec![]: no rule is left to start from
GiveUp ==
  /\ search = "scan"
  /\ rootAt > Len(rules)
  /\ search' = "none"
  /\ UNCHANGED <<rules, rootAt, state, stack, active, cursor, cycle>>

Node == active[Len(active)]
At == cursor[Len(active)]

\* Faulty: the path is the whole stack, the way into the cycle included.
Close_WholeStack ==
  /\ search = "dfs"
  /\ At <= Len(Neighbors(Node))
  /\ state[Neighbors(Node)[At]] = "InStack"
  /\ cycle' = Append(stack, Neighbors(Node)[At])
  /\ search' = "found"
  /\ UNCHANGED <<rules, rootAt, state, stack, active, cursor>>

\* A neighbour marked InStack closes a cycle, which every activation returns.
\* expect() panics when the stack does not hold it: no action is enabled then.
Close ==
  /\ search = "dfs"
  /\ At <= Len(Neighbors(Node))
  /\ LET neighbor == Neighbors(Node)[At]
     IN  /\ state[neighbor] = "InStack"
         /\ \E pos \in DOMAIN stack :
              /\ stack[pos] = neighbor
              /\ \A i \in 1 .. pos - 1 : stack[i] # neighbor
              /\ cycle' = Append(SubSeq(stack, pos, Len(stack)), neighbor)
  /\ search' = "found"
  /\ UNCHANGED <<rules, rootAt, state, stack, active, cursor>>

Descend ==
  /\ search = "dfs"
  /\ At <= Len(Neighbors(Node))
  /\ LET neighbor == Neighbors(Node)[At]
     IN  /\ state[neighbor] = "Unvisited"
         /\ state' = [state EXCEPT ![neighbor] = "InStack"]
         /\ stack' = Append(stack, neighbor)
         /\ active' = Append(active, neighbor)
         /\ cursor' = Append([cursor EXCEPT ![Len(active)] = @ + 1], 1)
  /\ UNCHANGED <<rules, search, rootAt, cycle>>

\* Faulty: a node on the stack is skipped like one that is Done.
SkipDone_AnyVisited ==
  /\ search = "dfs"
  /\ At <= Len(Neighbors(Node))
  /\ state[Neighbors(Node)[At]] # "Unvisited"
  /\ cursor' = [cursor EXCEPT ![Len(active)] = @ + 1]
  /\ UNCHANGED <<rules, search, rootAt, state, stack, active, cycle>>

SkipDone ==
  /\ search = "dfs"
  /\ At <= Len(Neighbors(Node))
  /\ state[Neighbors(Node)[At]] = "Done"
  /\ cursor' = [cursor EXCEPT ![Len(active)] = @ + 1]
  /\ UNCHANGED <<rules, search, rootAt, state, stack, active, cycle>>

\* Faulty: the node popped keeps its mark.
Leave_StillMarked ==
  /\ search = "dfs"
  /\ At > Len(Neighbors(Node))
  /\ stack' = Front(stack)
  /\ active' = Front(active)
  /\ cursor' = Front(cursor)
  /\ IF Len(active) = 1
       THEN search' = "scan" /\ rootAt' = rootAt + 1
       ELSE UNCHANGED <<search, rootAt>>
  /\ UNCHANGED <<rules, state, cycle>>

\* Faulty: the node left is not popped.
Leave_NotPopped ==
  /\ search = "dfs"
  /\ At > Len(Neighbors(Node))
  /\ state' = [state EXCEPT ![Node] = "Done"]
  /\ active' = Front(active)
  /\ cursor' = Front(cursor)
  /\ IF Len(active) = 1
       THEN search' = "scan" /\ rootAt' = rootAt + 1
       ELSE UNCHANGED <<search, rootAt>>
  /\ UNCHANGED <<rules, stack, cycle>>

\* the loop of the last activation is over: it returns None to its caller
Leave ==
  /\ search = "dfs"
  /\ At > Len(Neighbors(Node))
  /\ state' = [state EXCEPT ![Node] = "Done"]
  /\ stack' = Front(stack)
  /\ active' = Front(active)
  /\ cursor' = Front(cursor)
  /\ IF Len(active) = 1
       THEN search' = "scan" /\ rootAt' = rootAt + 1
       ELSE UNCHANGED <<search, rootAt>>
  /\ UNCHANGED <<rules, cycle>>

SearchNext ==
  \/ StartAt \/ PassOver \/ GiveUp
  \/ Close \/ Descend \/ SkipDone \/ Leave

SearchSpec == SearchInit /\ [][SearchNext]_searchVars

-----------------------------------------------------------------------------
(* topological_sort calls the search when its output falls short.  Here the *)
(* search follows every sort, so that what it answers for acyclic rules is  *)
(* looked at, too.                                                          *)

CalledInit == Init /\ SearchInit

SortOver == phase \in {"ok", "cyclic"}

SortThenSearch ==
  \/ Next /\ UNCHANGED searchVars
  \/ SortOver /\ SearchNext /\ UNCHANGED vars

\* Both run on the caller's thread and never wait: a step that is enabled is
\* taken.
FairSpec ==
  /\ CalledInit
  /\ [][SortThenSearch]_<<vars, searchVars>>
  /\ WF_<<vars, searchVars>>(SortThenSearch)

-----------------------------------------------------------------------------
(* Properties *)

\* Every activation of dfs pops what it pushed: the stack holds the nodes of
\* the activations, and nothing when the loop over the rules goes on.
SearchTypeOK ==
  /\ rules \in RuleLists
  /\ search \in {"scan", "dfs", "found", "none"}
  /\ rootAt \in 1 .. Len(rules) + 1
  /\ state \in [RuleNames -> {"Unvisited", "InStack", "Done"}]
  /\ stack \in Seq(RuleNames)
  /\ active = stack
  /\ cursor \in Seq(Nat \ {0})
  /\ Len(cursor) = Len(active)
  /\ search = "dfs" <=> active # <<>> /\ search # "found"
  /\ cycle \in Seq(RuleNames)

\* The marks and the stack agree: `position(..).expect("node marked InStack
\* must be present in stack")` (compile.rs:307) always finds the node, and only
\* once.
MarksAgree ==
  /\ IsInjective(stack)
  /\ \A n \in RuleNames : state[n] = "InStack" <=> n \in Range(stack)

\* The path in CyclicDependency is a cycle of the rules: each name references
\* the next, the last repeats the first and no other repeats.
PathIsCycle ==
  search = "found" => IsCycle(cycle, rules) /\ IsInjective(Tail(cycle))

\* A rule marked Done lies on no cycle: the search may skip it for good
\* (compile.rs:318).  Any set of Done rules has one that references none of the
\* set.
DoneIsSafe ==
  \A S \in SUBSET {n \in RuleNames : state[n] = "Done"} :
    S # {} => \E n \in S : DepsOf(rules, n) \cap S = {}

\* The empty path of "shouldn't reach here" (compile.rs:287) is returned for
\* acyclic rules only, so never after topological_sort has failed.
EmptyOnlyIfAcyclic == search = "none" => Acyclic(rules)

\* The search ends, whatever the sort has found.
SearchTerminates == <>(search \in {"found", "none"})
=============================================================================
