-------------------------------- MODULE Contexts --------------------------------
(***************************************************************************)
(* The two ways to hand field values to an evaluation: Context             *)
(* (types/context.rs), nested maps that set() rewrites, flattened through  *)
(* the registry by RuleSet::evaluate; and ContextBuilder                   *)
(* (types/indexed_context.rs), a vector filled through the same registry.  *)
(* The same calls of set() are made on one of each, as a program does that *)
(* moves from one to the other.                                            *)
(*                                                                         *)
(* The nested maps are one function: from the address of an entry, the     *)
(* segments that lead to it, to the entry.  insert_recursive is a walk     *)
(* down the addresses of the path, one step per call of it.                *)
(***************************************************************************)
EXTENDS Integers, SequencesExt, Variants

CONSTANTS
  Segment,     \* what stands between the dots of a path
  Path,        \* the paths set: non-empty sequences of segments (`split('.')`)
  Value,       \* the values they are set to
  Registries,  \* the field registries of the compiled rule sets
  MaxCalls     \* bound on the number of calls

ASSUME PathsHaveSegments == \A p \in Path : p \in Seq(Segment) /\ Len(p) > 0

\* FieldRegistry::register gives no path two indices.
ASSUME RegistriesWellFormed ==
  \A reg \in Registries :
    /\ DOMAIN reg = 1 .. Len(reg) /\ Len(reg) \in Nat
    /\ \A i \in DOMAIN reg : reg[i] \in Seq(Segment) /\ Len(reg[i]) > 0
    /\ \A i, j \in DOMAIN reg : reg[i] = reg[j] => i = j

VARIABLES
  registry,  \* the paths registered, in order of index
  calls,     \* the calls made so far, the one in progress included
  data,      \* Context::data: the entries by address
  values,    \* ContextBuilder::values: {} for None
  phase,     \* "idle", in Context::set, or in ContextBuilder::set
  depth      \* number of segments insert_recursive has walked down

vars == <<registry, calls, data, values, phase, depth>>

-----------------------------------------------------------------------------
(* Context *)

Leaf(v) == [leaf |-> v]

\* a map: its entries have addresses below its own
Nested == [nested |-> {}]

EmptyContext == [address \in {} |-> Nested]

\* Some(ContextValue::Nested(_)) at the address
IsMap(address) == address \in DOMAIN data /\ data[address] = Nested

\* get_recursive: each segment but the last leads into a map, the last to a
\* leaf.  Option<&Value> as a set.
Get(path) ==
  IF /\ \A k \in 1 .. Len(path) - 1 : IsMap(SubSeq(path, 1, k))
     /\ path \in DOMAIN data /\ Is(data[path], "leaf")
    THEN {data[path].leaf} ELSE {}

FlattenContext == [i \in DOMAIN registry |-> Get(registry[i])]

\* the arguments of the call in progress
path  == calls[Len(calls)].path
value == calls[Len(calls)].value

\* the entry for the first segment insert_recursive is given
Entry == SubSeq(path, 1, depth + 1)

Init ==
  /\ registry \in Registries
  /\ calls = <<>>
  /\ data = EmptyContext
  /\ values = [i \in DOMAIN registry |-> {}]
  /\ phase = "idle"
  /\ depth = 0

Set ==
  /\ phase = "idle"
  /\ Len(calls) < MaxCalls
  /\ \E p \in Path, v \in Value : calls' = Append(calls, [path |-> p, value |-> v])
  /\ phase' = "context"
  /\ depth' = 0
  /\ UNCHANGED <<registry, data, values>>

\* [first, rest @ ..]
OnTheWay == phase = "context" /\ depth + 1 < Len(path)

\* Faulty: the map on the way is made anew, and what was in it is lost.
WalkInto_Fresh ==
  /\ OnTheWay /\ IsMap(Entry)
  /\ data' = [a \in {b \in DOMAIN data : ~IsStrictPrefix(Entry, b)} |-> data[a]]
  /\ depth' = depth + 1
  /\ UNCHANGED <<registry, calls, values, phase>>

WalkInto ==
  /\ OnTheWay /\ IsMap(Entry)
  /\ depth' = depth + 1
  /\ UNCHANGED <<registry, calls, data, values, phase>>

\* or_insert_with(|| ContextValue::Nested(HashMap::new()))
InsertMap ==
  /\ OnTheWay /\ Entry \notin DOMAIN data
  /\ data' = [a \in DOMAIN data \cup {Entry} |-> IF a = Entry THEN Nested ELSE data[a]]
  /\ depth' = depth + 1
  /\ UNCHANGED <<registry, calls, values, phase>>

\* Faulty: the map put in the leaf's place is not filled.
ReplaceLeaf_Empty ==
  /\ OnTheWay /\ Entry \in DOMAIN data /\ ~IsMap(Entry)
  /\ data' = [data EXCEPT ![Entry] = Nested]
  /\ phase' = "builder"
  /\ UNCHANGED <<registry, calls, values, depth>>

\* A leaf on the way is dropped for a map.  The code fills the new map before
\* it puts it in the leaf's place; insert holds the context by &mut, so nobody
\* looks before both are done.
ReplaceLeaf ==
  /\ OnTheWay /\ Entry \in DOMAIN data /\ ~IsMap(Entry)
  /\ data' = [data EXCEPT ![Entry] = Nested]
  /\ depth' = depth + 1
  /\ UNCHANGED <<registry, calls, values, phase>>

\* [last]: whatever stood there, with all that was below it, becomes a leaf.
InsertLeaf ==
  /\ phase = "context" /\ depth + 1 = Len(path)
  /\ data' = [a \in {b \in DOMAIN data : ~IsPrefix(Entry, b)} \cup {Entry} |->
                IF a = Entry THEN Leaf(value) ELSE data[a]]
  /\ phase' = "builder"
  /\ UNCHANGED <<registry, calls, values, depth>>

-----------------------------------------------------------------------------
(* ContextBuilder *)

\* Faulty: a field that has a value keeps it.
Indexed_FirstWins(p, v) ==
  [i \in DOMAIN values |->
     IF registry[i] = p /\ values[i] = {} THEN {v} ELSE values[i]]

\* a path no rule mentions is ignored
Indexed(p, v) ==
  [i \in DOMAIN values |-> IF registry[i] = p THEN {v} ELSE values[i]]

SetIndexed ==
  /\ phase = "builder"
  /\ values' = Indexed(path, value)
  /\ phase' = "idle"
  /\ UNCHANGED <<registry, calls, data, depth>>

Next ==
  \/ Set \/ WalkInto \/ InsertMap \/ ReplaceLeaf \/ InsertLeaf
  \/ SetIndexed

Spec == Init /\ [][Next]_vars

-----------------------------------------------------------------------------
(* Properties *)

\* Every entry is reached through maps.
IsTree ==
  \A a \in DOMAIN data : \A k \in 1 .. Len(a) - 1 : IsMap(SubSeq(a, 1, k))

\* No map is empty, but for the one insert_recursive is to fill next.
MapsAreFilled ==
  \A a \in DOMAIN data : IsMap(a) =>
    \/ \E b \in DOMAIN data : IsStrictPrefix(a, b)
    \/ phase = "context" /\ depth > 0 /\ a = SubSeq(path, 1, depth)

TypeOK ==
  /\ registry \in Registries
  /\ calls \in Seq([path : Path, value : Value])
  /\ DOMAIN data \subseteq Seq(Segment) \ {<<>>}
  /\ \A a \in DOMAIN data : data[a] \in {Leaf(v) : v \in Value} \cup {Nested}
  /\ IsTree /\ MapsAreFilled
  /\ values \in [DOMAIN registry -> SUBSET Value]
  /\ phase \in {"idle", "context", "builder"}
  /\ phase # "idle" => calls # <<>> /\ depth \in 0 .. Len(path) - 1

\* get(q) once the call in progress is done: a call counts from its start.
Promised(q) ==
  IF phase # "context" THEN Get(q)
  ELSE IF q = path THEN {value}
  ELSE IF IsStrictPrefix(q, path) \/ IsStrictPrefix(path, q) THEN {}
  ELSE Get(q)

\* Context implements ContextMap: what get() sees after any sequence of calls,
\* through maps that are replaced by leaves and leaves by maps (context.rs:51
\* and 61), is the last value set, unless a path inside or around it was set
\* later.  The steps of a walk only carry out what its call promised.
Map ==
  INSTANCE ContextMap WITH
    fields <- [p \in {q \in Path : Promised(q) # {}} |-> CHOOSE v \in Promised(p) : TRUE]

KeepsLastSet == Map!Spec

\* since q was last set, a path inside or around it has been
Superseded(q) ==
  \E n \in DOMAIN calls :
    /\ Map!Conflict(calls[n].path, q)
    /\ \A m \in n + 1 .. Len(calls) : calls[m].path # q

\* Where the two contexts differ between calls: only in a field that a
\* conflicting path has superseded, which the nested maps have lost and the
\* vector still has (context.rs:61, indexed_context.rs:52).
DifferOnlyByConflict ==
  phase = "idle" =>
    \A i \in DOMAIN registry :
      FlattenContext[i] = IF Superseded(registry[i]) THEN {} ELSE values[i]
=============================================================================
