----------------------------- MODULE ContextsProofs -----------------------------
(***************************************************************************)
(* Proofs about Contexts, for any paths, values and registries: the walk   *)
(* of insert_recursive keeps the tree, does what its call promised and     *)
(* nothing else, and the two contexts differ only by conflicting paths.    *)
(***************************************************************************)
EXTENDS Contexts, SequenceTheorems, TLAPS

\* The maps walked through are there.
Walked ==
  phase = "context" => \A k \in 1 .. depth : IsMap(SubSeq(path, 1, k))

\* the vector once the call in progress is done
Filled == IF phase = "idle" THEN values ELSE Indexed(path, value)

\* DifferOnlyByConflict, of what the call in progress promises
DifferOnlyByPromise ==
  \A i \in DOMAIN registry :
    Promised(registry[i]) = IF Superseded(registry[i]) THEN {} ELSE Filled[i]

\* The inductive invariant.
IInv == TypeOK /\ Walked /\ DifferOnlyByPromise

-----------------------------------------------------------------------------
(* Addresses *)

Address == Seq(Segment) \ {<<>>}

LEMMA PrefixFacts ==
  ASSUME NEW a \in Seq(Segment), NEW k \in 0 .. Len(a)
  PROVE  /\ SubSeq(a, 1, k) \in Seq(Segment) /\ Len(SubSeq(a, 1, k)) = k
         /\ \A j \in 0 .. k : SubSeq(SubSeq(a, 1, k), 1, j) = SubSeq(a, 1, j)
         /\ k = Len(a) => SubSeq(a, 1, k) = a
<1>1. Len(a) \in Nat /\ DOMAIN a = 1 .. Len(a) /\ \A i \in 1 .. Len(a) : a[i] \in Segment
  OBVIOUS
<1>2. ASSUME NEW s \in Seq(Segment), NEW j \in 0 .. Len(s)
      PROVE  /\ SubSeq(s, 1, j) \in Seq(Segment) /\ Len(SubSeq(s, 1, j)) = j
             /\ \A i \in 1 .. j : SubSeq(s, 1, j)[i] = s[i]
  OBVIOUS
<1>3. SubSeq(a, 1, k) \in Seq(Segment) /\ Len(SubSeq(a, 1, k)) = k
  BY <1>2
<1>4. ASSUME NEW j \in 0 .. k
      PROVE  SubSeq(SubSeq(a, 1, k), 1, j) = SubSeq(a, 1, j)
  <2>. DEFINE s == SubSeq(a, 1, k)
              l == SubSeq(s, 1, j)
              r == SubSeq(a, 1, j)
  <2>1. s \in Seq(Segment) /\ Len(s) = k /\ \A i \in 1 .. k : s[i] = a[i]
    BY <1>2
  <2>. HIDE DEF s
  <2>2. l \in Seq(Segment) /\ Len(l) = j /\ \A i \in 1 .. j : l[i] = s[i]
    BY <1>2, <2>1
  <2>3. r \in Seq(Segment) /\ Len(r) = j /\ \A i \in 1 .. j : r[i] = a[i]
    BY <1>1, <1>2
  <2>4. \A i \in 1 .. j : l[i] = r[i]
    BY <1>1, <2>1, <2>2, <2>3
  <2>. HIDE DEF l, r
  <2>5. l = r
    BY ONLY <2>2, <2>3, <2>4, SeqEqual
  <2>. QED  BY <2>5 DEF l, r, s
<1>5. k = Len(a) => SubSeq(a, 1, k) = a
  OBVIOUS
<1>. QED  BY <1>3, <1>4, <1>5

LEMMA PrefixIsSub ==
  ASSUME NEW s \in Seq(Segment), NEW t \in Seq(Segment)
  PROVE  /\ IsPrefix(s, t) <=> Len(s) <= Len(t) /\ s = SubSeq(t, 1, Len(s))
         /\ IsStrictPrefix(s, t) <=> Len(s) < Len(t) /\ s = SubSeq(t, 1, Len(s))
<1>1. Len(s) \in Nat /\ Len(t) \in Nat /\ SubSeq(s, 1, Len(s)) = s /\ SubSeq(t, 1, Len(t)) = t
  BY PrefixFacts
<1>2. IsPrefix(s, t) <=> Len(s) <= Len(t) /\ s = SubSeq(t, 1, Len(s))
  BY <1>1 DEF IsPrefix
<1>3. Len(s) < Len(t) => s # t
  BY <1>1
<1>. QED  BY <1>1, <1>2, <1>3 DEF IsStrictPrefix

\* Of two addresses on the way to a third, one is on the way to the other.
LEMMA OneWay ==
  ASSUME NEW s \in Seq(Segment), NEW t \in Seq(Segment), NEW u \in Seq(Segment),
         IsPrefix(s, u), IsPrefix(t, u)
  PROVE  IsPrefix(s, t) \/ IsStrictPrefix(t, s)
<1>1. /\ Len(s) \in Nat /\ Len(t) \in Nat /\ Len(u) \in Nat
      /\ Len(s) <= Len(u) /\ s = SubSeq(u, 1, Len(s))
      /\ Len(t) <= Len(u) /\ t = SubSeq(u, 1, Len(t))
  BY PrefixIsSub
<1>2. CASE Len(s) <= Len(t)
  <2>1. SubSeq(SubSeq(u, 1, Len(t)), 1, Len(s)) = SubSeq(u, 1, Len(s))
    BY <1>1, <1>2, PrefixFacts
  <2>. QED  BY <1>1, <1>2, <2>1, PrefixIsSub
<1>3. CASE Len(t) < Len(s)
  <2>1. SubSeq(SubSeq(u, 1, Len(s)), 1, Len(t)) = SubSeq(u, 1, Len(t))
    BY <1>1, <1>3, PrefixFacts
  <2>. QED  BY <1>1, <1>3, <2>1, PrefixIsSub
<1>. QED  BY <1>1, <1>2, <1>3

\* What is on the way to an address on the way is on the way.
LEMMA FurtherDown ==
  ASSUME NEW s \in Seq(Segment), NEW t \in Seq(Segment), NEW k \in 0 .. Len(t),
         IsPrefix(s, SubSeq(t, 1, k))
  PROVE  IsPrefix(s, t)
<1>1. SubSeq(t, 1, k) \in Seq(Segment) /\ Len(SubSeq(t, 1, k)) = k /\ Len(s) \in Nat /\ Len(t) \in Nat
  BY PrefixFacts
<1>2. Len(s) <= k /\ s = SubSeq(SubSeq(t, 1, k), 1, Len(s))
  BY <1>1, PrefixIsSub
<1>3. SubSeq(SubSeq(t, 1, k), 1, Len(s)) = SubSeq(t, 1, Len(s))
  BY <1>1, <1>2, PrefixFacts
<1>. QED  BY <1>1, <1>2, <1>3, PrefixIsSub

LEMMA LeafIsNoMap ==
  /\ ~Is(Nested, "leaf")
  /\ \A v : Is(Leaf(v), "leaf") /\ Leaf(v).leaf = v /\ Leaf(v) # Nested
<1>1. DOMAIN Nested = {"nested"} /\ \A v : DOMAIN Leaf(v) = {"leaf"} /\ Leaf(v).leaf = v
  BY DEF Nested, Leaf
<1>. QED  BY <1>1 DEF Is

-----------------------------------------------------------------------------
(* Looking up *)

\* what stands at an address of a tree
At(map, q) == IF q \in DOMAIN map /\ Is(map[q], "leaf") THEN {map[q].leaf} ELSE {}

GetIsAt == \A q : Get(q) = At(data, q)

LEMMA TreesAreLookedUp == IsTree => GetIsAt
BY DEF IsTree, GetIsAt, Get, At

(* The call in progress *)

LEMMA CallFacts ==
  ASSUME TypeOK, phase # "idle"
  PROVE  /\ path \in Path /\ value \in Value
         /\ path \in Seq(Segment) /\ Len(path) \in Nat /\ Len(path) > 0
         /\ depth \in 0 .. Len(path) - 1
         /\ Len(calls) \in Nat /\ Len(calls) > 0
<1>1. calls \in Seq([path : Path, value : Value]) /\ calls # <<>>
  BY DEF TypeOK
<1>2. Len(calls) \in Nat /\ Len(calls) > 0
  BY <1>1
<1>3. calls[Len(calls)] \in [path : Path, value : Value]
  <2>1. Len(calls) \in 1 .. Len(calls)
    BY <1>2
  <2>. QED  BY ONLY <1>1, <2>1, ElementOfSeq
<1>4. path \in Path /\ value \in Value
  BY <1>3 DEF path, value
<1>5. path \in Seq(Segment) /\ Len(path) > 0
  BY <1>4, PathsHaveSegments
<1>6. Len(path) \in Nat
  BY <1>5
<1>. QED  BY <1>2, <1>4, <1>5, <1>6 DEF TypeOK

LEMMA EntryFacts ==
  ASSUME TypeOK, phase = "context"
  PROVE  /\ Entry \in Address /\ Len(Entry) = depth + 1
         /\ \A k \in 0 .. depth + 1 : SubSeq(Entry, 1, k) = SubSeq(path, 1, k)
         /\ IsPrefix(Entry, path)
         /\ depth + 1 < Len(path) => IsStrictPrefix(Entry, path)
         /\ depth + 1 = Len(path) => Entry = path
<1>1. /\ path \in Seq(Segment) /\ Len(path) \in Nat /\ depth + 1 \in 1 .. Len(path) /\ depth \in Nat
  BY CallFacts
<1>2. /\ Entry \in Seq(Segment) /\ Len(Entry) = depth + 1
      /\ \A k \in 0 .. depth + 1 : SubSeq(Entry, 1, k) = SubSeq(path, 1, k)
      /\ depth + 1 = Len(path) => Entry = path
  BY <1>1, PrefixFacts DEF Entry
<1>3. Entry # <<>>
  BY <1>1, <1>2
<1>4. IsPrefix(Entry, path) /\ (depth + 1 < Len(path) => IsStrictPrefix(Entry, path))
  <2>1. Len(Entry) <= Len(path) /\ Entry = SubSeq(path, 1, Len(Entry))
    BY <1>1, <1>2 DEF Entry
  <2>. QED  BY <1>1, <1>2, <2>1, PrefixIsSub
<1>. QED  BY <1>2, <1>3, <1>4 DEF Address

\* the map that insert_recursive was called on: the context itself, or one on the way
Here == SubSeq(path, 1, depth)

LEMMA HereFacts ==
  ASSUME TypeOK, phase = "context", depth > 0
  PROVE  IsStrictPrefix(Here, Entry) /\ IsStrictPrefix(Here, path)
<1>1. path \in Seq(Segment) /\ Len(path) \in Nat /\ depth \in 0 .. Len(path) - 1
  BY CallFacts
<1>2. Here \in Seq(Segment) /\ Len(Here) = depth
  BY <1>1, PrefixFacts DEF Here
<1>3. Entry \in Seq(Segment) /\ Len(Entry) = depth + 1 /\ SubSeq(Entry, 1, depth) = Here
  BY <1>1, EntryFacts DEF Address, Here
<1>4. Here = SubSeq(Entry, 1, Len(Here)) /\ Here = SubSeq(path, 1, Len(Here))
  BY <1>2, <1>3 DEF Here
<1>5. Len(Here) < Len(Entry) /\ Len(Here) < Len(path)
  BY <1>1, <1>2, <1>3
<1>. QED  BY <1>1, <1>2, <1>3, <1>4, <1>5, PrefixIsSub

-----------------------------------------------------------------------------
(* The walk keeps the tree *)

LEMMA EntriesAreAddresses ==
  ASSUME TypeOK, NEW a \in DOMAIN data
  PROVE  /\ a \in Address /\ a \in Seq(Segment) /\ Len(a) \in Nat
         /\ data[a] = Nested \/ \E v \in Value : data[a] = Leaf(v)
         /\ IsMap(a) <=> data[a] = Nested
BY DEF TypeOK, Address, IsMap

LEMMA WalkIntoKeeps ==
  ASSUME TypeOK, Walked, WalkInto
  PROVE  TypeOK' /\ Walked' /\ \A q : Promised(q)' = Promised(q)
<1>1. /\ phase = "context" /\ phase' = "context" /\ depth' = depth + 1 /\ depth + 1 < Len(path)
      /\ UNCHANGED <<registry, calls, data, values>> /\ IsMap(Entry)
      /\ path' = path /\ value' = value
  BY DEF WalkInto, OnTheWay, path, value
<1>2. depth \in Nat /\ Len(path) \in Nat /\ depth' \in 0 .. Len(path) - 1
  BY <1>1, CallFacts
<1>3. MapsAreFilled'
  <2>. SUFFICES ASSUME NEW a \in DOMAIN data, IsMap(a), ~\E b \in DOMAIN data : IsStrictPrefix(a, b)
                PROVE  a = SubSeq(path, 1, depth')
    BY <1>1, <1>2 DEF MapsAreFilled, IsMap
  <2>1. depth > 0 /\ a = Here
    BY <1>1 DEF TypeOK, MapsAreFilled, Here
  <2>. QED  BY <1>1, <2>1, HereFacts DEF IsMap
<1>4. TypeOK'
  BY <1>1, <1>2, <1>3 DEF TypeOK, IsTree, IsMap
<1>5. Walked'
  <2>1. IsMap(SubSeq(path, 1, depth + 1))
    BY <1>1 DEF Entry
  <2>. QED  BY <1>1, <1>2, <2>1 DEF Walked, IsMap
<1>6. \A q : Promised(q)' = Promised(q)
  BY <1>1 DEF Promised, Get, IsMap
<1>. QED  BY <1>4, <1>5, <1>6

\* A map takes a place on the way, empty or held by a leaf.
LEMMA NewMapKeeps ==
  ASSUME TypeOK, Walked, InsertMap \/ ReplaceLeaf
  PROVE  TypeOK' /\ Walked' /\ \A q : Promised(q)' = Promised(q)
<1>1. /\ phase = "context" /\ phase' = "context" /\ depth' = depth + 1 /\ depth + 1 < Len(path)
      /\ UNCHANGED <<registry, calls, values>> /\ ~IsMap(Entry)
      /\ path' = path /\ value' = value
  BY DEF InsertMap, ReplaceLeaf, OnTheWay, path, value, IsMap
<1>2. /\ data' = [a \in DOMAIN data \cup {Entry} |-> IF a = Entry THEN Nested ELSE data[a]]
  <2>1. CASE InsertMap
    BY <2>1 DEF InsertMap
  <2>2. CASE ReplaceLeaf
    <3>1. data = [a \in DOMAIN data |-> data[a]] \/ TRUE
      OBVIOUS
    <3>2. Entry \in DOMAIN data /\ data' = [data EXCEPT ![Entry] = Nested]
      BY <2>2 DEF ReplaceLeaf
    <3>. QED  BY <3>2
  <2>. QED  BY <2>1, <2>2
<1>3. /\ DOMAIN data' = DOMAIN data \cup {Entry} /\ data'[Entry] = Nested
      /\ \A a \in DOMAIN data : a # Entry => data'[a] = data[a]
  BY <1>2
<1>4. /\ depth \in Nat /\ Len(path) \in Nat /\ depth' \in 0 .. Len(path) - 1
      /\ Entry \in Address /\ Len(Entry) = depth + 1
      /\ \A k \in 0 .. depth + 1 : SubSeq(Entry, 1, k) = SubSeq(path, 1, k)
      /\ IsStrictPrefix(Entry, path)
  BY <1>1, CallFacts, EntryFacts
<1>5. \A a : IsMap(a) => IsMap(a)'
  BY <1>3 DEF IsMap
<1>6. \A a : IsMap(a)' => a = Entry \/ IsMap(a)
  BY <1>3 DEF IsMap
<1>7. IsTree'
  <2>. SUFFICES ASSUME NEW a \in DOMAIN data', NEW k \in 1 .. Len(a) - 1
                PROVE  IsMap(SubSeq(a, 1, k))'
    BY DEF IsTree
  <2>1. CASE a = Entry
    <3>1. k \in 1 .. depth /\ SubSeq(a, 1, k) = SubSeq(path, 1, k)
      BY <2>1, <1>4
    <3>. QED  BY <3>1, <1>1, <1>5 DEF Walked
  <2>2. CASE a \in DOMAIN data
    BY <2>2, <1>5 DEF TypeOK, IsTree
  <2>. QED  BY <2>1, <2>2, <1>3
<1>8. MapsAreFilled'
  <2>. SUFFICES ASSUME NEW a, IsMap(a), a # Entry, ~\E b \in DOMAIN data' : IsStrictPrefix(a, b)
                PROVE  FALSE
    BY <1>1, <1>4, <1>6 DEF MapsAreFilled, Entry
  <2>1. depth > 0 /\ a = Here
    BY <1>1, <1>3 DEF TypeOK, MapsAreFilled, IsMap, Here
  <2>. QED  BY <1>1, <1>3, <2>1, HereFacts
<1>9. TypeOK'
  <2>1. DOMAIN data' \subseteq Seq(Segment) \ {<<>>}
        /\ \A a \in DOMAIN data' : data'[a] \in {Leaf(v) : v \in Value} \cup {Nested}
    BY <1>3, <1>4 DEF TypeOK, Address
  <2>. QED  BY <1>1, <1>4, <1>7, <1>8, <2>1 DEF TypeOK
<1>10. Walked'
  <2>1. \A k \in 1 .. depth' : k \in 1 .. depth \/ SubSeq(path, 1, k) = Entry
    BY <1>1, <1>4 DEF Entry
  <2>2. \A k \in 1 .. depth' :
          SubSeq(path, 1, k) \in DOMAIN data' /\ data'[SubSeq(path, 1, k)] = Nested
    BY <1>1, <1>3, <2>1 DEF Walked, IsMap
  <2>. QED  BY <1>1, <2>2 DEF Walked, IsMap
<1>11. ASSUME NEW q
       PROVE  Promised(q)' = Promised(q)
  <2>1. Get(q) = At(data, q) /\ Get(q)' = At(data', q)
    <3>1. GetIsAt
      BY TreesAreLookedUp DEF TypeOK
    <3>2. GetIsAt'
      BY <1>7, TreesAreLookedUp, PTL
    <3>. QED  BY <3>1, <3>2 DEF GetIsAt
  <2>2. CASE q = Entry
    BY <2>2, <1>1, <1>4 DEF Promised
  <2>3. CASE q # Entry
    <3>1. At(data', q) = At(data, q)
      BY <2>3, <1>3 DEF At
    <3>. QED  BY <2>1, <3>1, <1>1 DEF Promised
  <2>. QED  BY <2>2, <2>3
<1>. QED  BY <1>9, <1>10, <1>11

\* The last step drops what is below the path and does what the call promised.
LEMMA InsertLeafKeeps ==
  ASSUME TypeOK, Walked, InsertLeaf
  PROVE  TypeOK' /\ Walked' /\ \A q \in Seq(Segment) : Promised(q)' = Promised(q)
<1>1. /\ phase = "context" /\ phase' = "builder" /\ depth + 1 = Len(path)
      /\ UNCHANGED <<registry, calls, values, depth>>
      /\ path' = path /\ value' = value
  BY DEF InsertLeaf, path, value
<1>2. /\ path \in Address /\ path \in Seq(Segment) /\ depth \in 0 .. Len(path) - 1
      /\ Len(path) \in Nat /\ value \in Value /\ Entry = path
  BY <1>1, CallFacts, EntryFacts
<1>3. data' = [a \in {b \in DOMAIN data : ~IsPrefix(path, b)} \cup {path} |->
                 IF a = path THEN Leaf(value) ELSE data[a]]
  BY <1>2 DEF InsertLeaf
<1>4. /\ DOMAIN data' = {b \in DOMAIN data : ~IsPrefix(path, b)} \cup {path}
      /\ data'[path] = Leaf(value)
      /\ \A a \in DOMAIN data : ~IsPrefix(path, a) => data'[a] = data[a]
  <2>1. IsPrefix(path, path)
    BY <1>2, PrefixIsSub, PrefixFacts
  <2>. QED  BY <1>3, <2>1
<1>5. \A a : IsMap(a) /\ ~IsPrefix(path, a) => IsMap(a)'
  BY <1>4 DEF IsMap
<1>6. \A a : IsMap(a)' => IsMap(a) /\ ~IsPrefix(path, a)
  BY <1>4, LeafIsNoMap DEF IsMap
<1>7. IsTree'
  <2>. SUFFICES ASSUME NEW a \in DOMAIN data', NEW k \in 1 .. Len(a) - 1
                PROVE  IsMap(SubSeq(a, 1, k))'
    BY DEF IsTree
  <2>1. CASE a = path
    <3>1. k \in 1 .. depth /\ k \in 0 .. Len(path) /\ k < Len(path)
      BY <2>1, <1>1, <1>2
    <3>0. SubSeq(path, 1, k) \in Seq(Segment) /\ Len(SubSeq(path, 1, k)) = k
      BY <3>1, <1>2, PrefixFacts
    <3>2. ~IsPrefix(path, SubSeq(path, 1, k))
      <4>1. PICK s : s = SubSeq(path, 1, k)
        OBVIOUS
      <4>2. s \in Seq(Segment) /\ Len(s) = k
        BY <3>0, <4>1
      <4>3. ~(Len(path) <= Len(s))
        BY <3>1, <4>2, <1>2
      <4>4. ~IsPrefix(path, s)
        BY <4>2, <4>3, <1>2, PrefixIsSub
      <4>. QED  BY <4>1, <4>4
    <3>. QED  BY <2>1, <3>1, <3>2, <1>1, <1>5 DEF Walked
  <2>2. CASE a \in DOMAIN data /\ ~IsPrefix(path, a)
    <3>1. a \in Seq(Segment) /\ k \in 0 .. Len(a)
      BY <2>2, EntriesAreAddresses
    <3>2. ~IsPrefix(path, SubSeq(a, 1, k))
      BY <2>2, <3>1, <1>2, FurtherDown
    <3>3. IsMap(SubSeq(a, 1, k))
      BY <2>2 DEF TypeOK, IsTree
    <3>. QED  BY <3>2, <3>3, <1>5
  <2>. QED  BY <2>1, <2>2, <1>4
<1>8. MapsAreFilled'
  <2>. SUFFICES ASSUME NEW a, IsMap(a), ~IsPrefix(path, a)
                PROVE  \E b \in DOMAIN data' : IsStrictPrefix(a, b)
    BY <1>6 DEF MapsAreFilled
  <2>0. a \in Seq(Segment)
    BY EntriesAreAddresses DEF IsMap
  <2>1. CASE \E b \in DOMAIN data : IsStrictPrefix(a, b)
    <3>1. PICK b \in DOMAIN data : IsStrictPrefix(a, b)
      BY <2>1
    <3>2. CASE IsPrefix(path, b)
      <4>1. b \in Seq(Segment) /\ IsPrefix(a, b)
        BY <3>1, EntriesAreAddresses DEF IsStrictPrefix
      <4>2. IsPrefix(path, a) \/ IsStrictPrefix(a, path)
        BY <2>0, <3>2, <4>1, <1>2, OneWay
      <4>. QED  BY <4>2, <1>4
    <3>3. CASE ~IsPrefix(path, b)
      BY <3>1, <3>3, <1>4
    <3>. QED  BY <3>2, <3>3
  <2>2. CASE depth > 0 /\ a = Here
    BY <2>2, <1>1, <1>4, HereFacts
  <2>. QED  BY <2>1, <2>2, <1>1 DEF TypeOK, MapsAreFilled, IsMap, Here
<1>9. TypeOK'
  <2>1. DOMAIN data' \subseteq Seq(Segment) \ {<<>>}
        /\ \A a \in DOMAIN data' : data'[a] \in {Leaf(v) : v \in Value} \cup {Nested}
    BY <1>2, <1>4 DEF TypeOK, Address
  <2>. QED  BY <1>1, <1>2, <1>7, <1>8, <2>1 DEF TypeOK
<1>10. Walked'
  BY <1>1 DEF Walked
<1>11. ASSUME NEW q \in Seq(Segment)
       PROVE  Promised(q)' = Promised(q)
  <2>1. Get(q) = At(data, q) /\ Promised(q)' = At(data', q)
    <3>1. GetIsAt
      BY TreesAreLookedUp DEF TypeOK
    <3>2. GetIsAt'
      BY <1>7, TreesAreLookedUp, PTL
    <3>. QED  BY <3>1, <3>2, <1>1 DEF GetIsAt, Promised
  <2>2. CASE q = path
    BY <2>1, <2>2, <1>1, <1>4, LeafIsNoMap DEF At, Promised
  <2>3. CASE q # path /\ IsPrefix(path, q)
    <3>1. q \notin DOMAIN data' /\ IsStrictPrefix(path, q)
      BY <2>3, <1>4 DEF IsStrictPrefix
    <3>. QED  BY <2>1, <2>3, <3>1, <1>1 DEF At, Promised
  <2>4. CASE IsStrictPrefix(q, path)
    <3>1. /\ q \in Seq(Segment) /\ Len(q) < Len(path) /\ q = SubSeq(path, 1, Len(q)) /\ Len(q) \in Nat
          /\ q # path
      BY <2>4, <1>2, PrefixIsSub DEF IsStrictPrefix
    <3>2. q \in DOMAIN data' => IsMap(q)'
      <4>. SUFFICES ASSUME q \in DOMAIN data'
                    PROVE  IsMap(q)'
        OBVIOUS
      <4>1. q \in DOMAIN data
        BY <3>1, <1>4
      <4>2. Len(q) > 0
        BY <4>1, <3>1, EntriesAreAddresses DEF Address
      <4>3. path \in DOMAIN data' /\ Len(q) \in 1 .. Len(path) - 1
        BY <1>2, <1>4, <3>1, <4>2
      <4>. QED  BY <1>7, <3>1, <4>3 DEF IsTree, IsMap
    <3>. QED  BY <2>1, <2>4, <3>1, <3>2, <1>1, LeafIsNoMap DEF At, Promised, IsMap
  <2>5. CASE q # path /\ ~IsPrefix(path, q) /\ ~IsStrictPrefix(q, path)
    <3>1. At(data', q) = At(data, q)
      BY <2>5, <1>4 DEF At
    <3>2. Promised(q) = Get(q)
      BY <2>5, <1>1 DEF Promised, IsStrictPrefix
    <3>. QED  BY <2>1, <3>1, <3>2
  <2>. QED  BY <2>2, <2>3, <2>4, <2>5
<1>. QED  BY <1>9, <1>10, <1>11

-----------------------------------------------------------------------------
(* A call of set, as it starts and as it ends *)

LEMMA SetStarts ==
  ASSUME TypeOK, Set
  PROVE  \E p \in Path, v \in Value :
           /\ p \in Seq(Segment) /\ Len(p) \in Nat /\ Len(p) > 0
           /\ phase = "idle" /\ phase' = "context" /\ depth' = 0
           /\ UNCHANGED <<registry, data, values>>
           /\ calls' = Append(calls, [path |-> p, value |-> v])
           /\ calls' \in Seq([path : Path, value : Value])
           /\ Len(calls) \in Nat /\ Len(calls') = Len(calls) + 1
           /\ \A n \in 1 .. Len(calls) : calls'[n] = calls[n]
           /\ calls'[Len(calls')].path = p
           /\ path' = p /\ value' = v
<1>1. PICK p \in Path, v \in Value : calls' = Append(calls, [path |-> p, value |-> v])
  BY DEF Set
<1>. DEFINE call == [path |-> p, value |-> v]
<1>2. calls \in Seq([path : Path, value : Value]) /\ call \in [path : Path, value : Value]
  BY DEF TypeOK
<1>3. call.path = p /\ call.value = v /\ calls' = Append(calls, call)
  BY <1>1
<1>. HIDE DEF call
<1>4. /\ calls' \in Seq([path : Path, value : Value])
      /\ Len(calls) \in Nat /\ Len(calls') = Len(calls) + 1
      /\ \A n \in 1 .. Len(calls) : calls'[n] = calls[n]
      /\ calls'[Len(calls')] = call
  BY <1>2, <1>3, AppendProperties
<1>5. path' = p /\ value' = v
  BY <1>3, <1>4 DEF path, value
<1>6. p \in Seq(Segment) /\ Len(p) > 0 /\ Len(p) \in Nat
  BY PathsHaveSegments
<1>. QED  BY <1>1, <1>3, <1>4, <1>5, <1>6 DEF Set

LEMMA ConflictFacts ==
  ASSUME NEW p, NEW q
  PROVE  /\ Map!Conflict(p, q) <=> IsStrictPrefix(p, q) \/ IsStrictPrefix(q, p)
         /\ Map!Conflict(p, q) <=> Map!Conflict(q, p)
         /\ ~Map!Conflict(p, p)
BY DEF Map!Conflict, Map!IsStrictPrefix, Map!IsPrefix, IsStrictPrefix, IsPrefix

LEMMA SetPromises ==
  ASSUME TypeOK, Set, NEW q
  PROVE  Promised(q)' = IF q = path' THEN {value'}
                        ELSE IF Map!Conflict(path', q) THEN {} ELSE Promised(q)
<1>1. phase = "idle" /\ phase' = "context" /\ data' = data
  BY SetStarts
<1>2. Get(q)' = Get(q)
  BY <1>1 DEF Get, IsMap
<1>. QED  BY <1>1, <1>2, ConflictFacts DEF Promised

\* A call supersedes what conflicts with its path, and revives its own path.
LEMMA SetSupersedes ==
  ASSUME TypeOK, Set, NEW q
  PROVE  Superseded(q)' <=> /\ q # path'
                            /\ Map!Conflict(path', q) \/ Superseded(q)
<1>. DEFINE n == Len(calls')
<1>1. /\ Len(calls) \in Nat /\ n = Len(calls) + 1 /\ calls'[n].path = path'
      /\ DOMAIN calls = 1 .. Len(calls) /\ DOMAIN calls' = 1 .. n
      /\ \A i \in 1 .. Len(calls) : calls'[i] = calls[i]
  <2>1. /\ calls' \in Seq([path : Path, value : Value])
        /\ Len(calls) \in Nat /\ n = Len(calls) + 1
        /\ \A i \in 1 .. Len(calls) : calls'[i] = calls[i]
        /\ calls'[n].path = path'
    BY SetStarts
  <2>2. calls \in Seq([path : Path, value : Value])
    BY DEF TypeOK
  <2>. HIDE DEF n
  <2>3. DOMAIN calls = 1 .. Len(calls) /\ DOMAIN calls' = 1 .. Len(calls')
    BY ONLY <2>1, <2>2, LenProperties
  <2>. QED  BY <2>1, <2>3 DEF n
<1>. HIDE DEF n
<1>2. Superseded(q)' <=> \E i \in 1 .. n : /\ Map!Conflict(calls'[i].path, q)
                                           /\ \A m \in i + 1 .. n : calls'[m].path # q
  BY <1>1 DEF Superseded, n, Map!Conflict
<1>3. CASE q = path'
  <2>1. \A i \in 1 .. n : i = n \/ n \in i + 1 .. n
    BY <1>1
  <2>. QED  BY <1>1, <1>2, <1>3, <2>1, ConflictFacts
<1>4. CASE q # path' /\ Map!Conflict(path', q)
  <2>1. n \in 1 .. n /\ n + 1 .. n = {}
    BY <1>1
  <2>. QED  BY <1>1, <1>2, <1>4, <2>1
<1>5. CASE q # path' /\ ~Map!Conflict(path', q)
  <2>1. ASSUME NEW i \in 1 .. Len(calls)
        PROVE  /\ i \in 1 .. n /\ calls'[i].path = calls[i].path
               /\ (\A m \in i + 1 .. n : calls'[m].path # q)
                    <=> \A m \in i + 1 .. Len(calls) : calls[m].path # q
    <3>1. \A m \in i + 1 .. n : m = n \/ m \in i + 1 .. Len(calls)
      BY <1>1
    <3>2. \A m \in i + 1 .. Len(calls) : m \in i + 1 .. n /\ m \in 1 .. Len(calls)
      BY <1>1
    <3>. QED  BY <1>1, <1>5, <3>1, <3>2
  <2>2. \A i \in 1 .. n : i = n \/ i \in 1 .. Len(calls)
    BY <1>1
  <2>3. Superseded(q) <=> \E i \in 1 .. Len(calls) :
                             /\ Map!Conflict(calls[i].path, q)
                             /\ \A m \in i + 1 .. Len(calls) : calls[m].path # q
    BY <1>1 DEF Superseded
  <2>. QED  BY <1>1, <1>2, <1>5, <2>1, <2>2, <2>3
<1>. QED  BY <1>3, <1>4, <1>5

LEMMA SetKeeps ==
  ASSUME IInv, Set
  PROVE  IInv'
<1>. USE DEF IInv
<1>1. PICK p \in Path, v \in Value :
        /\ p \in Seq(Segment) /\ Len(p) \in Nat /\ Len(p) > 0
        /\ phase = "idle" /\ phase' = "context" /\ depth' = 0
        /\ UNCHANGED <<registry, data, values>>
        /\ calls' \in Seq([path : Path, value : Value])
        /\ Len(calls) \in Nat /\ Len(calls') = Len(calls) + 1
        /\ path' = p /\ value' = v
  BY SetStarts
<1>2. TypeOK'
  <2>1. calls' # <<>> /\ depth' \in 0 .. Len(path') - 1
    BY <1>1
  <2>. QED  BY <1>1, <2>1 DEF TypeOK, IsTree, MapsAreFilled, IsMap
<1>3. Walked'
  BY <1>1 DEF Walked
<1>4. ASSUME NEW i \in DOMAIN registry
      PROVE  Promised(registry[i])' = IF Superseded(registry[i])' THEN {} ELSE Filled'[i]
  <2>1. Filled'[i] = IF registry[i] = p THEN {v} ELSE values[i]
    BY <1>1 DEF Filled, Indexed, TypeOK
  <2>2. Promised(registry[i]) = IF Superseded(registry[i]) THEN {} ELSE values[i]
    BY <1>1 DEF DifferOnlyByPromise, Filled
  <2>3. /\ Promised(registry[i])' = IF registry[i] = p THEN {v}
                                    ELSE IF Map!Conflict(p, registry[i]) THEN {}
                                    ELSE Promised(registry[i])
        /\ Superseded(registry[i])' <=> /\ registry[i] # p
                                        /\ Map!Conflict(p, registry[i]) \/ Superseded(registry[i])
    <3>1. PICK q : q = registry[i]
      OBVIOUS
    <3>2. registry'[i] = q
      BY <1>1, <3>1
    <3>3. /\ Promised(q)' = IF q = p THEN {v} ELSE IF Map!Conflict(p, q) THEN {} ELSE Promised(q)
          /\ Superseded(q)' <=> q # p /\ (Map!Conflict(p, q) \/ Superseded(q))
      BY <1>1, SetPromises, SetSupersedes
    <3>. QED  BY <1>1, <3>1, <3>3 DEF Promised, Superseded, Get, IsMap
  <2>. QED  BY <2>1, <2>2, <2>3
<1>5. DifferOnlyByPromise'
  BY <1>1, <1>4 DEF DifferOnlyByPromise
<1>. QED  BY <1>2, <1>3, <1>5

LEMMA SetIndexedKeeps ==
  ASSUME IInv, SetIndexed
  PROVE  IInv' /\ \A q : Promised(q)' = Promised(q)
<1>. USE DEF IInv
<1>1. /\ phase = "builder" /\ phase' = "idle" /\ values' = Filled
      /\ UNCHANGED <<registry, calls, data, depth>>
  BY DEF SetIndexed, Filled
<1>2. Filled \in [DOMAIN registry -> SUBSET Value]
  BY <1>1, CallFacts DEF Filled, Indexed, TypeOK
<1>3. TypeOK'
  BY <1>1, <1>2 DEF TypeOK, IsTree, MapsAreFilled, IsMap
<1>4. Walked'
  BY <1>1 DEF Walked
<1>5. \A q : Promised(q)' = Promised(q)
  BY <1>1 DEF Promised, Get, IsMap
<1>6. Filled' = Filled
  BY <1>1 DEF Filled
<1>7. DifferOnlyByPromise'
  BY <1>1, <1>5, <1>6 DEF DifferOnlyByPromise, Superseded
<1>. QED  BY <1>3, <1>4, <1>5, <1>7

\* The steps of the walk keep what the call promised.
LEMMA WalkKeeps ==
  ASSUME IInv, WalkInto \/ InsertMap \/ ReplaceLeaf \/ InsertLeaf
  PROVE  IInv' /\ \A q \in Seq(Segment) : Promised(q)' = Promised(q)
<1>. USE DEF IInv
<1>1. TypeOK' /\ Walked' /\ \A q \in Seq(Segment) : Promised(q)' = Promised(q)
  BY WalkIntoKeeps, NewMapKeeps, InsertLeafKeeps
<1>2. /\ UNCHANGED <<registry, calls, values>> /\ phase # "idle" /\ phase' # "idle"
  BY DEF WalkInto, InsertMap, ReplaceLeaf, InsertLeaf, OnTheWay
<1>3. Filled' = Filled
  BY <1>2 DEF Filled, Indexed, path, value
<1>4. \A i \in DOMAIN registry : registry[i] \in Seq(Segment)
  BY RegistriesWellFormed DEF TypeOK
<1>5. DifferOnlyByPromise'
  BY <1>1, <1>2, <1>3, <1>4 DEF DifferOnlyByPromise, Superseded
<1>. QED  BY <1>1, <1>5

-----------------------------------------------------------------------------
(* The theorems *)

LEMMA InitIInv == Init => IInv
<1>. SUFFICES ASSUME Init PROVE IInv
  OBVIOUS
<1>1. /\ registry \in Registries /\ calls = <<>> /\ data = EmptyContext
      /\ values = [i \in DOMAIN registry |-> {}] /\ phase = "idle" /\ depth = 0
      /\ DOMAIN data = {}
  BY DEF Init, EmptyContext
<1>2. TypeOK
  BY <1>1 DEF TypeOK, IsTree, MapsAreFilled
<1>3. Walked
  BY <1>1 DEF Walked
<1>4. \A q : Promised(q) = {}
  BY <1>1 DEF Promised, Get
<1>5. \A q : ~Superseded(q)
  BY <1>1 DEF Superseded
<1>6. DifferOnlyByPromise
  BY <1>1, <1>4, <1>5 DEF DifferOnlyByPromise, Filled
<1>. QED  BY <1>2, <1>3, <1>6 DEF IInv

LEMMA NextIInv == IInv /\ [Next]_vars => IInv'
<1>. SUFFICES ASSUME IInv, [Next]_vars PROVE IInv'
  OBVIOUS
<1>1. CASE Set
  BY <1>1, SetKeeps
<1>2. CASE WalkInto \/ InsertMap \/ ReplaceLeaf \/ InsertLeaf
  BY <1>2, WalkKeeps
<1>3. CASE SetIndexed
  BY <1>3, SetIndexedKeeps
<1>4. CASE UNCHANGED vars
  <2>1. UNCHANGED <<registry, calls, data, values, phase, depth>> /\ path' = path /\ value' = value
    BY <1>4 DEF vars, path, value
  <2>2. TypeOK' /\ Walked'
    BY <2>1 DEF IInv, TypeOK, IsTree, MapsAreFilled, IsMap, Walked
  <2>3. \A q : Promised(q)' = Promised(q) /\ (Superseded(q)' <=> Superseded(q))
    BY <2>1 DEF Promised, Get, IsMap, Superseded
  <2>4. Filled' = Filled
    BY <2>1 DEF Filled, Indexed
  <2>. QED  BY <2>1, <2>2, <2>3, <2>4 DEF IInv, DifferOnlyByPromise
<1>. QED  BY <1>1, <1>2, <1>3, <1>4 DEF Next

THEOREM Invariance == Spec => []IInv
BY InitIInv, NextIInv, PTL DEF Spec

\* Every reachable state is of the declared types: the entries of a context
\* form a tree of maps with leaves at its ends, whatever paths are set and in
\* whatever order, and no map in it is left empty (context.rs:47-69).
THEOREM TypeCorrect == Spec => []TypeOK
BY Invariance, PTL DEF IInv

\* Between calls, a field reads differently through Context and through
\* ContextBuilder only if a path inside or around it has been set since it was
\* (context.rs:51 and 61, indexed_context.rs:52).
THEOREM DifferOnlyByConflictAlways == Spec => []DifferOnlyByConflict
<1>1. IInv => DifferOnlyByConflict
  BY DEF IInv, DifferOnlyByPromise, DifferOnlyByConflict, Promised, Filled, FlattenContext
<1>. QED  BY <1>1, Invariance, PTL

\* the abstract map, as KeepsLastSet defines it
Fields == [p \in {q \in Path : Promised(q) # {}} |-> CHOOSE v \in Promised(p) : TRUE]

LEMMA SetIsSet ==
  ASSUME IInv, Set
  PROVE  Map!Set
<1>1. PICK p \in Path, v \in Value : path' = p /\ value' = v
  BY SetStarts DEF IInv
<1>2. ASSUME NEW q
      PROVE  Promised(q)' = IF q = p THEN {v} ELSE IF Map!Conflict(p, q) THEN {} ELSE Promised(q)
  BY <1>1, SetPromises DEF IInv
<1>3. DOMAIN Fields' = {r \in DOMAIN Fields : ~Map!Conflict(r, p)} \cup {p}
  <2>1. DOMAIN Fields' = {q \in Path : Promised(q)' # {}} /\ DOMAIN Fields = {q \in Path : Promised(q) # {}}
    BY DEF Fields
  <2>2. \A q : Promised(q)' # {} <=> q = p \/ (~Map!Conflict(q, p) /\ Promised(q) # {})
    BY <1>2, ConflictFacts
  <2>. QED  BY <2>1, <2>2
<1>4. ASSUME NEW q \in DOMAIN Fields'
      PROVE  Fields'[q] = IF q = p THEN v ELSE Fields[q]
  <2>1. q \in Path /\ Promised(q)' # {} /\ Fields'[q] = CHOOSE w \in Promised(q)' : TRUE
    BY <1>4 DEF Fields
  <2>2. CASE q = p
    <3>1. Promised(q)' = {v}
      BY <2>2, <1>2
    <3>. QED  BY <2>1, <2>2, <3>1
  <2>3. CASE q # p
    <3>1. Promised(q)' = Promised(q)
      BY <2>1, <2>3, <1>2
    <3>. QED  BY <2>1, <2>3, <3>1 DEF Fields
  <2>. QED  BY <2>2, <2>3
<1>5. Fields' = [q \in {r \in DOMAIN Fields : ~Map!Conflict(r, p)} \cup {p} |->
                   IF q = p THEN v ELSE Fields[q]]
  <2>1. Fields' = [q \in DOMAIN Fields' |-> Fields'[q]]
    BY DEF Fields
  <2>. QED  BY <2>1, <1>3, <1>4
<1>. QED  BY <1>5 DEF Map!Set, Fields

LEMMA SamePromisesSameFields ==
  (\A q \in Seq(Segment) : Promised(q)' = Promised(q)) => Fields' = Fields
BY PathsHaveSegments DEF Fields

\* What get() returns is what the last set() of the path wrote, unless a path
\* inside or around it was set later: Context implements ContextMap
\* (context.rs:30-86).
THEOREM Implements == Spec => KeepsLastSet
<1>1. Init => Fields = [p \in {} |-> {}]
  BY DEF Init, EmptyContext, Fields, Promised, Get
<1>2. ASSUME IInv, [Next]_vars
      PROVE  [Map!Set]_Fields
  <2>1. CASE Set
    BY <1>2, <2>1, SetIsSet
  <2>2. CASE WalkInto \/ InsertMap \/ ReplaceLeaf \/ InsertLeaf
    BY <1>2, <2>2, WalkKeeps, SamePromisesSameFields
  <2>3. CASE SetIndexed
    BY <1>2, <2>3, SetIndexedKeeps, SamePromisesSameFields
  <2>4. CASE UNCHANGED vars
    BY <2>4 DEF vars, Fields, Promised, Get, IsMap, path, value
  <2>. QED  BY <1>2, <2>1, <2>2, <2>3, <2>4 DEF Next
<1>3. Init => Map!Init
  BY <1>1 DEF Map!Init, Fields
<1>4. IInv /\ [Next]_vars =>
        [Map!Set]_[p \in {q \in Path : Promised(q) # {}} |-> CHOOSE v \in Promised(p) : TRUE]
  BY <1>2 DEF Fields
<1>. QED  BY <1>3, <1>4, Invariance, PTL DEF Spec, KeepsLastSet, Map!Spec
=============================================================================
