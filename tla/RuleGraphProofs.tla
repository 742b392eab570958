---------------------------- MODULE RuleGraphProofs ----------------------------
(***************************************************************************)
(* Facts about sequences without repetitions and about the rule graph that *)
(* the proofs of several modules rest on.                                  *)
(***************************************************************************)
EXTENDS RuleGraph, FiniteSets, SequenceTheorems, FiniteSetTheorems, NaturalsInduction,
        WellFoundedInduction, TLAPS

LEMMA RangeAppend ==
  ASSUME NEW S, NEW s \in Seq(S), NEW x \in S
  PROVE  /\ Append(s, x) \in Seq(S)
         /\ Range(Append(s, x)) = Range(s) \cup {x}
         /\ IsInjective(s) /\ x \notin Range(s) => IsInjective(Append(s, x))
<1>1. /\ Append(s, x) \in Seq(S)
      /\ Len(Append(s, x)) = Len(s) + 1
      /\ \A i \in 1 .. Len(s) : Append(s, x)[i] = s[i]
      /\ Append(s, x)[Len(s) + 1] = x
  BY AppendProperties
<1>2. /\ DOMAIN s = 1 .. Len(s)
      /\ Len(s) \in Nat
      /\ DOMAIN Append(s, x) = 1 .. Len(s) + 1
  BY <1>1, LenProperties
<1>3. Range(Append(s, x)) = Range(s) \cup {x}
  BY <1>1, <1>2 DEF Range
<1>4. IsInjective(s) /\ x \notin Range(s) => IsInjective(Append(s, x))
  BY <1>1, <1>2 DEF Range, IsInjective
<1>. QED  BY <1>1, <1>3, <1>4

LEMMA RangeTail ==
  ASSUME NEW S, NEW s \in Seq(S), s # <<>>, IsInjective(s)
  PROVE  /\ Head(s) \in S
         /\ Tail(s) \in Seq(S)
         /\ Range(s) = {Head(s)} \cup Range(Tail(s))
         /\ Head(s) \notin Range(Tail(s))
         /\ IsInjective(Tail(s))
<1>1. /\ Head(s) \in S
      /\ Tail(s) \in Seq(S)
      /\ Len(Tail(s)) = Len(s) - 1
      /\ \A i \in 1 .. Len(Tail(s)) : Tail(s)[i] = s[i + 1]
  BY HeadTailProperties
<1>2. /\ Len(s) \in Nat \ {0}
      /\ DOMAIN s = 1 .. Len(s)
      /\ DOMAIN Tail(s) = 1 .. Len(s) - 1
      /\ Head(s) = s[1]
  BY <1>1, LenProperties, EmptySeq
<1>3. Range(s) \subseteq {Head(s)} \cup Range(Tail(s))
  <2>. SUFFICES ASSUME NEW i \in 1 .. Len(s), i # 1
                PROVE  s[i] \in Range(Tail(s))
    BY <1>2 DEF Range
  <2>1. i - 1 \in 1 .. Len(Tail(s)) /\ s[i] = Tail(s)[i - 1]
    BY <1>1, <1>2
  <2>. QED  BY <2>1, <1>1, <1>2 DEF Range
<1>4. Range(Tail(s)) \subseteq Range(s) /\ Head(s) \in Range(s)
  BY <1>1, <1>2 DEF Range
<1>5. Head(s) \notin Range(Tail(s)) /\ IsInjective(Tail(s))
  BY <1>1, <1>2 DEF Range, IsInjective
<1>. QED  BY <1>1, <1>3, <1>4, <1>5

\* an injection of 1..|S| into S leaves nothing out
LEMMA InjectiveOnto ==
  ASSUME NEW S, IsFiniteSet(S), NEW f \in [1 .. Cardinality(S) -> S], IsInjective(f)
  PROVE  Range(f) = S
<1>1. Cardinality(S) \in Nat
  BY FS_CardinalityType
<1>2. Cardinality(1 .. Cardinality(S)) = Cardinality(S)
  BY <1>1, FS_Interval
<1>3. f \in Injection(1 .. Cardinality(S), S)
  BY DEF Injection
<1>4. f \in Surjection(1 .. Cardinality(S), S)
  BY <1>2, <1>3, FS_Injection
<1>. QED  BY <1>4 DEF Surjection, Range

LEMMA IntervalCounted ==
  ASSUME NEW n \in Nat
  PROVE  IsFiniteSet(1 .. n) /\ Cardinality(1 .. n) = n
<1>1. 1 \in Int /\ n \in Int
  OBVIOUS
<1>2. /\ IsFiniteSet(1 .. n)
      /\ Cardinality(1 .. n) = IF 1 > n THEN 0 ELSE n - 1 + 1
  BY <1>1, FS_Interval
<1>. QED  BY <1>2

LEMMA RulesCounted ==
  ASSUME NEW rs, Sortable(rs)
  PROVE  /\ Len(rs) \in Nat
         /\ DOMAIN rs = 1 .. Len(rs)
         /\ IsFiniteSet(NamesOf(rs))
         /\ Cardinality(NamesOf(rs)) = Len(rs)
<1>1. Len(rs) \in Nat /\ DOMAIN rs = 1 .. Len(rs)
  BY LenProperties DEF Sortable
<1>. DEFINE f == [i \in 1 .. Len(rs) |-> rs[i].name]
<1>2. f \in Surjection(1 .. Len(rs), NamesOf(rs))
  BY <1>1 DEF Surjection, NamesOf
<1>3. f \in Injection(1 .. Len(rs), NamesOf(rs))
  BY <1>1 DEF Injection, IsInjective, NamesOf, Sortable, NamesUnique
<1>4. IsFiniteSet(1 .. Len(rs)) /\ Cardinality(1 .. Len(rs)) = Len(rs)
  BY <1>1, IntervalCounted
<1>5. IsFiniteSet(NamesOf(rs)) /\ Cardinality(NamesOf(rs)) = Cardinality(1 .. Len(rs))
  BY <1>2, <1>3, <1>4, FS_Surjection
<1>. QED  BY <1>1, <1>4, <1>5

\* a non-empty set of natural numbers has a least element
LEMMA LeastNatural ==
  ASSUME NEW T \in SUBSET Nat, T # {}
  PROVE  \E x \in T : \A y \in T : x <= y
<1>1. PICK R : R = {e \in Nat \X Nat : e[1] < e[2]}
  OBVIOUS
<1>2. R = OpToRel(<, Nat)
  BY <1>1 DEF OpToRel
<1>3. IsWellFoundedOn(R, Nat)
  BY <1>2, NatLessThanWellFounded
<1>4. PICK x \in T : \A y \in T : <<y, x>> \notin R
  BY <1>3, WFMin
<1>5. ASSUME NEW y \in T
      PROVE  x <= y
  <2>1. x \in Nat /\ y \in Nat /\ <<y, x>> \notin R
    BY <1>4
  <2>. QED  BY <2>1, <1>1
<1>. QED  BY <1>5

\* a sequence without repetitions has a name for each of its places
LEMMA InjectiveLength ==
  ASSUME NEW S, NEW s \in Seq(S), IsInjective(s)
  PROVE  /\ IsFiniteSet(Range(s)) /\ Cardinality(Range(s)) = Len(s)
         /\ IsFiniteSet(S) => Len(s) <= Cardinality(S)
<1>1. Len(s) \in Nat /\ DOMAIN s = 1 .. Len(s) /\ s \in [1 .. Len(s) -> S]
  BY LenProperties
<1>2. s \in Surjection(1 .. Len(s), Range(s)) /\ s \in Injection(1 .. Len(s), Range(s))
  BY <1>1 DEF Surjection, Injection, Range
<1>3. IsFiniteSet(1 .. Len(s)) /\ Cardinality(1 .. Len(s)) = Len(s)
  BY <1>1, IntervalCounted
<1>4. IsFiniteSet(Range(s)) /\ Cardinality(Range(s)) = Len(s)
  BY <1>2, <1>3, FS_Surjection
<1>5. Range(s) \subseteq S
  BY <1>1 DEF Range
<1>. QED  BY <1>4, <1>5, FS_Subset

\* a sequence without repetitions is an arrangement of some of the elements
LEMMA Arrangement ==
  ASSUME NEW S, NEW s \in Seq(S), IsInjective(s)
  PROVE  s \in SetToAllKPermutations(S)
<1>1. Len(s) \in Nat /\ DOMAIN s = 1 .. Len(s) /\ s \in [1 .. Len(s) -> S]
  BY LenProperties
<1>2. Cardinality(Range(s)) = Len(s)
  BY InjectiveLength
<1>3. s \in SetToSeqs(Range(s))
  BY <1>1, <1>2 DEF SetToSeqs, IsInjective, Range
<1>4. Range(s) \in SUBSET S
  BY <1>1 DEF Range
<1>. QED  BY <1>3, <1>4 DEF SetToAllKPermutations

\* what a topological order has
LEMMA TopologicalOrderFacts ==
  ASSUME NEW rs, Sortable(rs), NEW s \in TopologicalOrders(rs)
  PROVE  /\ s \in Seq(NamesOf(rs)) /\ s \in Seq(Name)
         /\ Len(s) = Len(rs) /\ Len(s) \in Nat /\ DOMAIN s = 1 .. Len(s)
         /\ IsInjective(s)
         /\ Range(s) = NamesOf(rs)
         /\ DependenciesPrecede(s, rs)
<1>1. /\ Len(rs) \in Nat
      /\ IsFiniteSet(NamesOf(rs))
      /\ Cardinality(NamesOf(rs)) = Len(rs)
      /\ NamesOf(rs) \subseteq Name
  <2>1. \A i \in DOMAIN rs : rs[i] \in Rule
    BY DEF Sortable
  <2>2. NamesOf(rs) \subseteq Name
    BY <2>1 DEF NamesOf, Rule
  <2>. QED  BY <2>2, RulesCounted
<1>2. /\ s \in [1 .. Cardinality(NamesOf(rs)) -> NamesOf(rs)]
      /\ IsInjective(s)
      /\ DependenciesPrecede(s, rs)
  BY DEF TopologicalOrders, SetToSeqs, IsInjective
<1>3. Range(s) = NamesOf(rs)
  BY <1>1, <1>2, InjectiveOnto
<1>4. s \in Seq(NamesOf(rs)) /\ s \in Seq(Name) /\ Len(s) = Len(rs)
  BY <1>1, <1>2
<1>. QED  BY <1>1, <1>2, <1>3, <1>4

\* along a cycle every name depends on another of the cycle
LEMMA CycleIsNotAcyclic ==
  ASSUME NEW rs, NEW path, Len(path) \in Nat, IsCycle(path, rs)
  PROVE  ~Acyclic(rs)
<1>. DEFINE last == Len(path)
            S == {path[i] : i \in 1 .. last - 1}
<1>1. /\ last >= 2 /\ path[1] = path[last]
      /\ \A i \in 1 .. last - 1 : path[i + 1] \in DepsOf(rs, path[i])
  BY DEF IsCycle
<1>2. \A i \in 1 .. last - 1 : path[i + 1] \in S
  <2>. TAKE i \in 1 .. last - 1
  <2>1. CASE i + 1 = last
    BY <2>1, <1>1
  <2>2. CASE i + 1 # last
    <3>1. i + 1 \in 1 .. last - 1
      BY <2>2
    <3>. QED  BY <3>1
  <2>. QED  BY <2>1, <2>2
<1>3. S # {}
  <2>1. 1 \in 1 .. last - 1
    BY <1>1
  <2>. QED  BY <2>1
<1>4. \A n \in S : DepsOf(rs, n) \cap S # {}
  BY <1>1, <1>2
<1>5. S \in SUBSET NamesOf(rs)
  <2>. SUFFICES ASSUME NEW i \in 1 .. last - 1 PROVE path[i] \in NamesOf(rs)
    OBVIOUS
  <2>1. CASE i = 1
    <3>1. last - 1 \in 1 .. last - 1 /\ (last - 1) + 1 = last
      BY <1>1
    <3>. QED  BY <2>1, <3>1, <1>1 DEF DepsOf
  <2>2. CASE i # 1
    <3>1. i - 1 \in 1 .. last - 1 /\ (i - 1) + 1 = i
      BY <2>2
    <3>. QED  BY <3>1, <1>1 DEF DepsOf
  <2>. QED  BY <2>1, <2>2
<1>. HIDE DEF S
<1>. QED  BY <1>3, <1>4, <1>5 DEF Acyclic
=============================================================================
