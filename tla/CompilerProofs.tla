---------------------------- MODULE CompilerProofs ----------------------------
(***************************************************************************)
(* Compiler, for any rules, terminals, conditions and bounds: no lookup    *)
(* misses its key, the outcome is right, the rule set that comes out is    *)
(* one the evaluator may be given, and it means what the rules mean.       *)
(* Then Engine: with EvaluatorProofs and BinaryCacheProofs, whose          *)
(* assumptions are proved of what compile() makes, any answer to any       *)
(* thread means what the rules mean, also from a rule set that was saved   *)
(* and loaded.                                                             *)
(***************************************************************************)
EXTENDS Engine, RuleGraphProofs

-----------------------------------------------------------------------------
(* The inductive invariant: what has been established when a stage is reached *)

\* the stages of an accepted input from one on
AtResolve == {"resolve_terminals", "ok"}
AtSortTerminals == {"sort_terminals"} \cup AtResolve
AtCompileRules == {"compile_rules"} \cup AtSortTerminals
AtFields == {"fields"} \cup AtCompileRules
AtSort == {"sort"} \cup AtFields
AtReferences == {"references"} \cup AtSort
AtDuplicateTerminals == {"duplicate_terminals"} \cup AtReferences
AtTerminals == {"terminals"} \cup AtDuplicateTerminals
AtNoTerminals == {"no_terminals"} \cup AtTerminals
AtDuplicates == {"duplicates"} \cup AtNoTerminals
AtMissingConditions == {"missing_conditions"} \cup AtDuplicates

TerminalsKnown == \A k \in DOMAIN declared : declared[k].rule_name \in NamesOf(rules)

TerminalsOnce ==
  \A k, m \in DOMAIN declared : declared[k].rule_name = declared[m].rule_name => k = m

\* the checks passed
ChecksPassed ==
  /\ stage \in AtDuplicates => AllConditioned(rules)
  /\ stage \in AtNoTerminals => NamesUnique(rules)
  /\ stage \in AtTerminals => declared # <<>>
  /\ stage \in AtDuplicateTerminals => TerminalsKnown
  /\ stage \in AtReferences => TerminalsOnce
  /\ stage \in AtSort => RefsKnown(rules)

\* a failure has a reason
FailureJustified ==
  stage = "err" => error \in CompileError /\ Justified(error) /\ ~Valid

\* the order is a topological one of all the rules
Ordered == stage \in AtFields => Acyclic(rules) /\ sorted_names \in TopologicalOrders(rules)

\* k is to stand before m, among the terminals as declared
DeclaredBefore(k, m) ==
  \/ declared[k].priority < declared[m].priority
  \/ declared[k].priority = declared[m].priority /\ k < m

\* the terminals are those declared, in the order position gives
StablySorted(position) ==
  /\ \A k, m \in DOMAIN declared : k < m => DeclaredBefore(position[k], position[m])
  /\ terminals = [k \in DOMAIN declared |-> declared[position[k]]]

TerminalsKept ==
  /\ stage \in AtMissingConditions \ AtResolve => terminals = declared
  /\ stage \in AtResolve => \E position \in Bijection(DOMAIN declared, DOMAIN declared) : StablySorted(position)

\* collect_fields has passed path k of rule i
Passed(i, k) == i < ruleAt \/ (i = ruleAt /\ k < fieldAt)

\* what it has passed is registered, once
Registered ==
  /\ IsInjective(field_registry)
  /\ stage \in AtFields =>
       \A i \in DOMAIN rules : \A k \in DOMAIN Fields(i) :
         Passed(i, k) => Fields(i)[k] \in Range(field_registry)
  /\ stage \in AtCompileRules => ruleAt > Len(rules)
  /\ stage \notin AtFields => ruleAt = 1 /\ fieldAt = 1

Translated ==
  stage \in AtSortTerminals =>
    compiled_rules =
      [i \in DOMAIN sorted_names |->
         [name |-> sorted_names[i],
          condition |-> Translate(RuleNamed(sorted_names[i]).condition, field_registry,
                                  sorted_names),
          index |-> i]]

Resolved ==
  stage = "ok" =>
    terminal_indices =
      [k \in DOMAIN terminals |->
         CHOOSE i \in DOMAIN sorted_names : sorted_names[i] = terminals[k].rule_name]

IInv ==
  /\ TypeOK
  /\ ChecksPassed
  /\ FailureJustified
  /\ Ordered
  /\ TerminalsKept
  /\ Registered
  /\ Translated
  /\ Resolved

-----------------------------------------------------------------------------
(* Facts about one state *)

USE DEF AtResolve, AtSortTerminals, AtCompileRules, AtFields, AtSort, AtReferences,
        AtDuplicateTerminals, AtTerminals, AtNoTerminals, AtDuplicates, AtMissingConditions

LEMMA InitIInv == Init => IInv
<1>. SUFFICES ASSUME Init PROVE IInv
  OBVIOUS
<1>. USE DEF Init
<1>0. IsInjective(field_registry)
  BY DEF IsInjective
<1>1. TypeOK
  BY <1>0, NoErrorIsNone DEF TypeOK
<1>2. Registered
  BY DEF Registered, IsInjective
<1>3. ChecksPassed /\ FailureJustified /\ Ordered /\ TerminalsKept /\ Translated /\ Resolved
  BY DEF ChecksPassed, FailureJustified, Ordered, TerminalsKept, Translated, Resolved
<1>. QED  BY <1>1, <1>2, <1>3 DEF IInv

-----------------------------------------------------------------------------
(* The builder *)

LEMMA AddRuleIInv == IInv /\ AddRule => IInv'
<1>. SUFFICES ASSUME IInv, AddRule PROVE IInv'
  OBVIOUS
<1>. USE DEF IInv, AddRule, built, cursor
<1>1. TypeOK'
  BY RuleCallsAreRules DEF TypeOK, Registered
<1>2. Registered'
  BY DEF Registered, IsInjective
<1>3. (ChecksPassed /\ FailureJustified /\ Ordered /\ TerminalsKept /\ Translated /\ Resolved)'
  BY DEF ChecksPassed, FailureJustified, Ordered, TerminalsKept, Translated, Resolved
<1>. QED  BY <1>1, <1>2, <1>3

LEMMA AddTerminalIInv == IInv /\ AddTerminal => IInv'
<1>. SUFFICES ASSUME IInv, AddTerminal PROVE IInv'
  OBVIOUS
<1>. USE DEF IInv, AddTerminal, built, cursor
<1>1. TypeOK'
  BY TerminalCallsAreTerminals DEF TypeOK, Registered
<1>2. Registered'
  BY DEF Registered, IsInjective
<1>3. (ChecksPassed /\ FailureJustified /\ Ordered /\ TerminalsKept /\ Translated /\ Resolved)'
  BY DEF ChecksPassed, FailureJustified, Ordered, TerminalsKept, Translated, Resolved
<1>. QED  BY <1>1, <1>2, <1>3

LEMMA CompileIInv == IInv /\ Compile => IInv'
<1>. SUFFICES ASSUME IInv, Compile PROVE IInv'
  OBVIOUS
<1>. USE DEF IInv, Compile, built, cursor
<1>1. TypeOK'
  BY DEF TypeOK
<1>2. Registered'
  BY DEF Registered, IsInjective
<1>3. (ChecksPassed /\ FailureJustified /\ Ordered /\ TerminalsKept /\ Translated /\ Resolved)'
  BY DEF ChecksPassed, FailureJustified, Ordered, TerminalsKept, Translated, Resolved
<1>. QED  BY <1>1, <1>2, <1>3

-----------------------------------------------------------------------------
(* The checks *)

LEMMA RuleTypes ==
  ASSUME TypeOK
  PROVE  /\ Len(rules) \in Nat /\ DOMAIN rules = 1 .. Len(rules)
         /\ \A i \in DOMAIN rules :
              /\ rules[i].name \in Name
              /\ rules[i].condition \in Condition \cup {NoCondition}
         /\ Len(declared) \in Nat /\ DOMAIN declared = 1 .. Len(declared)
         /\ \A k \in DOMAIN declared :
              declared[k].rule_name \in Name /\ declared[k].priority \in Nat
<1>1. rules \in Seq(Rule) /\ declared \in Seq(Compiled!Terminal)
  BY DEF TypeOK
<1>2. \A i \in DOMAIN rules : rules[i] \in Rule
  BY <1>1
<1>3. \A k \in DOMAIN declared : declared[k] \in Compiled!Terminal
  BY <1>1
<1>. QED  BY <1>1, <1>2, <1>3, LenProperties DEF Rule, Compiled!Terminal

LEMMA MinMember ==
  ASSUME NEW S \in SUBSET Nat, S # {}
  PROVE  Min(S) \in S
BY LeastNatural DEF Min

\* compile() may fail with an error that has its reason
LEMMA FailureIInv ==
  ASSUME IInv, stage \notin AtFields, NEW e \in CompileError, Fail(e), Justified(e), ~Valid,
         UNCHANGED <<rules, declared, terminals, built>>
  PROVE  IInv'
<1>. USE DEF IInv, Fail, built, cursor
<1>1. TypeOK'
  BY NoErrorIsNone DEF TypeOK
<1>2. Registered'
  BY DEF Registered, IsInjective
<1>3. FailureJustified'
  <2>1. Justified(e)'
    BY DEF Justified, DependsOn, Refs
  <2>2. ~Valid'
    BY DEF Valid
  <2>. QED  BY <2>1, <2>2 DEF FailureJustified
<1>4. (ChecksPassed /\ Ordered /\ TerminalsKept /\ Translated /\ Resolved)'
  BY DEF ChecksPassed, Ordered, TerminalsKept, Translated, Resolved
<1>. QED  BY <1>1, <1>2, <1>3, <1>4

\* or go on to the next check, with one thing more established
LEMMA PassIInv ==
  ASSUME IInv, stage \in AtMissingConditions \ AtFields,
         NEW to \in AtDuplicates \ AtFields, Pass(to), ChecksPassed',
         UNCHANGED <<rules, declared, terminals, built>>
  PROVE  IInv'
<1>. USE DEF IInv, Pass, built, cursor
<1>1. TypeOK'
  BY DEF TypeOK
<1>2. Registered'
  BY DEF Registered, IsInjective
<1>3. (FailureJustified /\ Ordered /\ TerminalsKept /\ Translated /\ Resolved)'
  BY DEF FailureJustified, Ordered, TerminalsKept, Translated, Resolved
<1>. QED  BY <1>1, <1>2, <1>3

LEMMA CheckMissingConditionsIInv == IInv /\ CheckMissingConditions => IInv'
<1>. SUFFICES ASSUME IInv, CheckMissingConditions PROVE IInv'
  OBVIOUS
<1>. USE DEF CheckMissingConditions, Check
<1>1. TypeOK /\ ChecksPassed
  BY DEF IInv
<1>2. ASSUME Unconditioned = {}
      PROVE  IInv'
  <2>1. AllConditioned(rules)
    BY <1>1, <1>2, RuleTypes DEF AllConditioned, Unconditioned
  <2>2. ChecksPassed'
    BY <1>2, <2>1 DEF ChecksPassed, Pass, AllConditioned
  <2>. QED  BY <1>2, <2>2, PassIInv
<1>3. ASSUME Unconditioned # {}
      PROVE  IInv'
  <2>. DEFINE i == Min(Unconditioned)
  <2>1. i \in DOMAIN rules /\ rules[i].condition = NoCondition
    <3>1. Unconditioned \in SUBSET Nat
      BY <1>1, RuleTypes DEF Unconditioned
    <3>2. i \in Unconditioned
      BY <1>3, <3>1, MinMember
    <3>. QED  BY <3>2 DEF Unconditioned
  <2>. DEFINE e == [kind |-> "MissingCondition", rule |-> rules[i].name]
  <2>2. Fail(e)
    BY <1>3
  <2>. HIDE DEF i
  <2>3. e \in CompileError
    BY <1>1, <2>1, RuleTypes DEF CompileError
  <2>4. Justified(e)
    BY <2>1 DEF Justified
  <2>5. ~Valid
    BY <2>1, NoConditionIsNone DEF Valid, AllConditioned
  <2>. QED  BY <2>2, <2>3, <2>4, <2>5, FailureIInv
<1>. QED  BY <1>2, <1>3

LEMMA CheckDuplicatesIInv == IInv /\ CheckDuplicates => IInv'
<1>. SUFFICES ASSUME IInv, CheckDuplicates PROVE IInv'
  OBVIOUS
<1>. USE DEF CheckDuplicates, Check
<1>1. TypeOK /\ ChecksPassed /\ TerminalsKept
  BY DEF IInv
<1>2. ASSUME Repeated = {}
      PROVE  IInv'
  <2>1. NamesUnique(rules)
    BY <1>1, <1>2, RuleTypes DEF NamesUnique, Repeated
  <2>2. ChecksPassed'
    BY <1>1, <1>2, <2>1 DEF ChecksPassed, Pass, AllConditioned, NamesUnique, TerminalsKnown,
       TerminalsOnce, RefsKnown, Refs
  <2>. QED  BY <1>2, <2>2, PassIInv
<1>3. ASSUME Repeated # {}
      PROVE  IInv'
  <2>. DEFINE i == Min(Repeated)
  <2>1. /\ i \in DOMAIN rules
        /\ \E j \in DOMAIN rules : j # i /\ rules[j].name = rules[i].name
    <3>1. Repeated \in SUBSET Nat
      BY <1>1, RuleTypes DEF Repeated, TerminalsKept
    <3>2. i \in Repeated
      BY <1>3, <3>1, MinMember
    <3>3. ASSUME NEW x \in Repeated
          PROVE  /\ x \in DOMAIN rules
                 /\ \E j \in DOMAIN rules : j # x /\ rules[j].name = rules[x].name
      BY <1>1, RuleTypes DEF Repeated, TerminalsKept
    <3>. HIDE DEF i
    <3>. QED  BY <3>2, <3>3
  <2>. DEFINE e == [kind |-> "DuplicateRule", name |-> rules[i].name]
  <2>2. Fail(e)
    BY <1>3
  <2>. HIDE DEF i
  <2>3. e \in CompileError
    BY <1>1, <2>1, RuleTypes DEF CompileError, TerminalsKept
  <2>4. Justified(e)
    BY <1>1, <2>1 DEF Justified, TerminalsKept
  <2>5. ~Valid
    BY <1>1, <2>1 DEF Valid, NamesUnique
  <2>. QED  BY <2>2, <2>3, <2>4, <2>5, FailureIInv
<1>. QED  BY <1>2, <1>3

LEMMA CheckNoTerminalsIInv == IInv /\ CheckNoTerminals => IInv'
<1>. SUFFICES ASSUME IInv, CheckNoTerminals PROVE IInv'
  OBVIOUS
<1>. USE DEF CheckNoTerminals
<1>1. ChecksPassed /\ TerminalsKept
  BY DEF IInv
<1>2. ASSUME terminals # <<>>
      PROVE  IInv'
  <2>1. ChecksPassed'
    BY <1>1, <1>2 DEF ChecksPassed, TerminalsKept, Pass, AllConditioned, NamesUnique
  <2>. QED  BY <1>2, <2>1, PassIInv
<1>3. ASSUME terminals = <<>>
      PROVE  IInv'
  <2>. DEFINE e == [kind |-> "NoTerminals"]
  <2>1. Fail(e) /\ e \in CompileError
    BY <1>3 DEF CompileError
  <2>2. Justified(e) /\ ~Valid
    BY <1>1, <1>3 DEF Justified, Valid, TerminalsKept
  <2>. QED  BY <2>1, <2>2, FailureIInv
<1>. QED  BY <1>2, <1>3

LEMMA CheckTerminalsIInv == IInv /\ CheckTerminals => IInv'
<1>. SUFFICES ASSUME IInv, CheckTerminals PROVE IInv'
  OBVIOUS
<1>. USE DEF CheckTerminals, Check
<1>1. TypeOK /\ ChecksPassed /\ TerminalsKept
  BY DEF IInv
<1>2. ASSUME Unresolved = {}
      PROVE  IInv'
  <2>1. TerminalsKnown
    BY <1>1, <1>2, RuleTypes DEF TerminalsKnown, Unresolved, TerminalsKept
  <2>2. ChecksPassed'
    BY <1>1, <1>2, <2>1 DEF ChecksPassed, Pass, AllConditioned, NamesUnique, TerminalsKnown,
       TerminalsOnce, RefsKnown, Refs
  <2>. QED  BY <1>2, <2>2, PassIInv
<1>3. ASSUME Unresolved # {}
      PROVE  IInv'
  <2>. DEFINE k == Min(Unresolved)
  <2>1. k \in DOMAIN declared /\ declared[k].rule_name \notin NamesOf(rules)
    <3>1. Unresolved \in SUBSET Nat
      BY <1>1, RuleTypes DEF Unresolved, TerminalsKept
    <3>2. k \in Unresolved
      BY <1>3, <3>1, MinMember
    <3>. QED  BY <1>1, <3>2, RuleTypes DEF Unresolved, TerminalsKept
  <2>. DEFINE e == [kind |-> "UndefinedTerminal", terminal |-> terminals[k].rule_name]
  <2>2. Fail(e)
    BY <1>3
  <2>. HIDE DEF k
  <2>3. e \in CompileError
    BY <1>1, <2>1, RuleTypes DEF CompileError, TerminalsKept
  <2>4. Justified(e)
    BY <1>1, <2>1 DEF Justified, TerminalsKept
  <2>5. ~Valid
    BY <1>1, <2>1 DEF Valid
  <2>. QED  BY <2>2, <2>3, <2>4, <2>5, FailureIInv
<1>. QED  BY <1>2, <1>3

LEMMA CheckDuplicateTerminalsIInv == IInv /\ CheckDuplicateTerminals => IInv'
<1>. SUFFICES ASSUME IInv, CheckDuplicateTerminals PROVE IInv'
  OBVIOUS
<1>. USE DEF CheckDuplicateTerminals, Check
<1>1. TypeOK /\ ChecksPassed /\ TerminalsKept
  BY DEF IInv
<1>2. ASSUME RepeatedTerminals = {}
      PROVE  IInv'
  <2>1. TerminalsOnce
    BY <1>1, <1>2, RuleTypes DEF TerminalsOnce, RepeatedTerminals, TerminalsKept
  <2>2. ChecksPassed'
    BY <1>1, <1>2, <2>1 DEF ChecksPassed, Pass, AllConditioned, NamesUnique, TerminalsKnown,
       TerminalsOnce, RefsKnown, Refs
  <2>. QED  BY <1>2, <2>2, PassIInv
<1>3. ASSUME RepeatedTerminals # {}
      PROVE  IInv'
  <2>. DEFINE k == Min(RepeatedTerminals)
  <2>1. /\ k \in DOMAIN declared
        /\ \E m \in DOMAIN declared : m # k /\ declared[m].rule_name = declared[k].rule_name
    <3>1. RepeatedTerminals \in SUBSET Nat
      BY <1>1, RuleTypes DEF RepeatedTerminals, TerminalsKept
    <3>2. k \in RepeatedTerminals
      BY <1>3, <3>1, MinMember
    <3>3. ASSUME NEW x \in RepeatedTerminals
          PROVE  /\ x \in DOMAIN declared
                 /\ \E m \in DOMAIN declared : m # x /\ declared[m].rule_name = declared[x].rule_name
      BY <1>1, RuleTypes DEF RepeatedTerminals, TerminalsKept
    <3>. HIDE DEF k
    <3>. QED  BY <3>2, <3>3
  <2>. DEFINE e == [kind |-> "DuplicateTerminal", terminal |-> terminals[k].rule_name]
  <2>2. Fail(e)
    BY <1>3
  <2>. HIDE DEF k
  <2>3. e \in CompileError
    BY <1>1, <2>1, RuleTypes DEF CompileError, TerminalsKept
  <2>4. Justified(e)
    BY <1>1, <2>1 DEF Justified, TerminalsKept
  <2>5. ~Valid
    BY <1>1, <2>1 DEF Valid
  <2>. QED  BY <2>2, <2>3, <2>4, <2>5, FailureIInv
<1>. QED  BY <1>2, <1>3

LEMMA CheckReferencesIInv == IInv /\ CheckReferences => IInv'
<1>. SUFFICES ASSUME IInv, CheckReferences PROVE IInv'
  OBVIOUS
<1>. USE DEF CheckReferences, Check
<1>1. TypeOK /\ ChecksPassed /\ AllConditioned(rules)
  BY DEF IInv, ChecksPassed
<1>2. \A i \in DOMAIN rules :
        /\ Refs(rules, i) \in Seq(Name)
        /\ Len(Refs(rules, i)) \in Nat
        /\ DOMAIN Refs(rules, i) = 1 .. Len(Refs(rules, i))
        /\ \A k \in DOMAIN Refs(rules, i) : Refs(rules, i)[k] \in Name
  <2>. TAKE i \in DOMAIN rules
  <2>1. Refs(rules, i) \in Seq(Name)
    BY <1>1, RefsOfType DEF AllConditioned, Refs
  <2>. QED  BY <2>1, LenProperties
<1>3. ASSUME Dangling = {}
      PROVE  IInv'
  <2>1. RefsKnown(rules)
    BY <1>3 DEF RefsKnown, Dangling, UnknownRefs
  <2>2. ChecksPassed'
    BY <1>1, <1>3, <2>1 DEF ChecksPassed, Pass, AllConditioned, NamesUnique, TerminalsKnown,
       TerminalsOnce, RefsKnown, Refs
  <2>. QED  BY <1>3, <2>2, PassIInv
<1>4. ASSUME Dangling # {}
      PROVE  IInv'
  <2>. DEFINE i == Min(Dangling)
  <2>1. i \in DOMAIN rules /\ UnknownRefs(i) # {}
    <3>1. Dangling \in SUBSET Nat
      BY <1>1, RuleTypes DEF Dangling
    <3>2. i \in Dangling
      BY <1>4, <3>1, MinMember
    <3>. QED  BY <3>2 DEF Dangling
  <2>. DEFINE k == Min(UnknownRefs(i))
              e == [kind |-> "UndefinedRuleRef", rule |-> rules[i].name,
                    reference |-> Refs(rules, i)[k]]
  <2>2. Fail(e)
    BY <1>4
  <2>. HIDE DEF i
  <2>3. k \in DOMAIN Refs(rules, i) /\ Refs(rules, i)[k] \notin NamesOf(rules)
    <3>1. UnknownRefs(i) \in SUBSET Nat
      BY <1>2, <2>1 DEF UnknownRefs
    <3>2. k \in UnknownRefs(i)
      BY <2>1, <3>1, MinMember
    <3>. QED  BY <3>2 DEF UnknownRefs
  <2>. HIDE DEF k
  <2>4. e \in CompileError
    BY <1>1, <1>2, <2>1, <2>3, RuleTypes DEF CompileError
  <2>5. Justified(e)
    BY <2>1, <2>3 DEF Justified, DependsOn
  <2>6. ~Valid
    BY <2>1, <2>3 DEF Valid, RefsKnown
  <2>. QED  BY <2>2, <2>4, <2>5, <2>6, FailureIInv
<1>. QED  BY <1>3, <1>4

-----------------------------------------------------------------------------
(* The sort and the field registry *)

LEMMA SortedFacts ==
  ASSUME IInv, stage \in AtSort
  PROVE  /\ Sortable(rules)
         /\ stage \in AtFields =>
              /\ Acyclic(rules)
              /\ sorted_names \in Seq(NamesOf(rules)) /\ sorted_names \in Seq(Name)
              /\ Len(sorted_names) = Len(rules) /\ Len(sorted_names) \in Nat
              /\ DOMAIN sorted_names = 1 .. Len(sorted_names)
              /\ IsInjective(sorted_names)
              /\ Range(sorted_names) = NamesOf(rules)
              /\ DependenciesPrecede(sorted_names, rules)
<1>1. Sortable(rules)
  BY DEF IInv, TypeOK, ChecksPassed, Sortable
<1>2. stage \in AtFields => Acyclic(rules) /\ sorted_names \in TopologicalOrders(rules)
  BY DEF IInv, Ordered
<1>. QED  BY <1>1, <1>2, TopologicalOrderFacts

LEMMA TopologicalSortIInv == IInv /\ TopologicalSort => IInv'
<1>. SUFFICES ASSUME IInv, TopologicalSort PROVE IInv'
  OBVIOUS
<1>. USE DEF TopologicalSort
<1>1. Sortable(rules)
  BY SortedFacts
<1>2. ASSUME Acyclic(rules)
      PROVE  IInv'
  <2>. USE DEF IInv, Pass, cursor
  <2>1. sorted_names' \in TopologicalOrders(rules) /\ sorted_names' \in Seq(Name)
    BY <1>1, <1>2, TopologicalOrderFacts
  <2>2. TypeOK'
    BY <1>2, <2>1 DEF TypeOK
  <2>3. ChecksPassed'
    BY <1>2 DEF ChecksPassed, AllConditioned, NamesUnique, TerminalsKnown, TerminalsOnce,
       RefsKnown, Refs
  <2>4. Ordered'
    <3>1. rules' = rules
      OBVIOUS
    <3>. QED  BY <1>2, <2>1, <3>1 DEF Ordered
  <2>5. Registered'
    <3>1. \A i, k : i \in DOMAIN rules /\ k \in DOMAIN Fields(i) => ~Passed(i, k)
      <4>. SUFFICES ASSUME NEW i \in DOMAIN rules, NEW k \in DOMAIN Fields(i), Passed(i, k)
                    PROVE  FALSE
        OBVIOUS
      <4>1. rules[i].condition \in Condition
        BY <1>1 DEF Sortable, AllConditioned
      <4>2. Fields(i) \in Seq(FieldPath)
        BY <4>1, FieldsOfType DEF Fields
      <4>3. i \in Nat \ {0} /\ k \in Nat \ {0}
        BY <1>1, <4>2, RulesCounted, LenProperties
      <4>. QED  BY <4>3 DEF Passed, Registered
    <3>. QED  BY <1>2, <3>1 DEF Registered, IsInjective, Fields, Passed
  <2>6. (FailureJustified /\ TerminalsKept /\ Translated /\ Resolved)'
    BY <1>2 DEF FailureJustified, TerminalsKept, Translated, Resolved
  <2>. QED  BY <2>2, <2>3, <2>4, <2>5, <2>6
<1>3. ASSUME ~Acyclic(rules)
      PROVE  IInv'
  <2>1. PICK path \in Cycles(rules) : Fail([kind |-> "CyclicDependency", path |-> path])
    BY <1>3
  <2>. DEFINE e == [kind |-> "CyclicDependency", path |-> path]
  <2>2. IsCycle(path, rules) /\ path \in Seq(Name)
    <3>1. PICK n \in 2 .. Len(rules) + 1 : path \in [1 .. n -> NamesOf(rules)]
      BY DEF Cycles
    <3>2. NamesOf(rules) \subseteq Name /\ n \in Nat
      BY RuleTypes, <1>1, RulesCounted DEF NamesOf, IInv
    <3>3. path \in Seq(Name)
      BY <3>1, <3>2
    <3>. QED  BY <3>3 DEF Cycles
  <2>3. e \in CompileError
    BY <2>2 DEF CompileError
  <2>4. Justified(e) /\ ~Valid
    BY <1>3, <2>2 DEF Justified, Valid
  <2>. QED  BY <1>3, <2>1, <2>3, <2>4, FailureIInv DEF built
<1>. QED  BY <1>2, <1>3

LEMMA FieldTypes ==
  ASSUME IInv, stage \in AtSort, NEW i \in DOMAIN rules
  PROVE  /\ rules[i].condition \in Condition
         /\ Fields(i) \in Seq(FieldPath)
         /\ Len(Fields(i)) \in Nat
         /\ DOMAIN Fields(i) = 1 .. Len(Fields(i))
         /\ \A k \in DOMAIN Fields(i) : Fields(i)[k] \in FieldPath
<1>1. rules[i].condition \in Condition
  BY SortedFacts DEF Sortable, AllConditioned
<1>2. Fields(i) \in Seq(FieldPath)
  BY <1>1, FieldsOfType DEF Fields
<1>. QED  BY <1>1, <1>2, LenProperties

\* FieldRegistry::register
LEMMA RegisterFacts ==
  ASSUME NEW registry \in Seq(FieldPath), NEW path \in FieldPath, IsInjective(registry)
  PROVE  /\ Register(registry, path) \in Seq(FieldPath)
         /\ IsInjective(Register(registry, path))
         /\ Range(Register(registry, path)) = Range(registry) \cup {path}
<1>1. Contains(registry, path) <=> path \in Range(registry)
  BY LenProperties DEF Contains, Range
<1>. QED  BY <1>1, RangeAppend DEF Register

LEMMA RegisterFieldIInv == IInv /\ RegisterField => IInv'
<1>. SUFFICES ASSUME IInv, RegisterField PROVE IInv'
  OBVIOUS
<1>. USE DEF RegisterField, IInv
<1>0. ruleAt \in DOMAIN rules /\ fieldAt \in DOMAIN Fields(ruleAt)
  <2>1. ruleAt \in DOMAIN rules
    BY RuleTypes DEF TypeOK
  <2>2. Len(Fields(ruleAt)) \in Nat /\ DOMAIN Fields(ruleAt) = 1 .. Len(Fields(ruleAt))
    BY <2>1, FieldTypes
  <2>. QED  BY <2>1, <2>2 DEF TypeOK
<1>. DEFINE path == Fields(ruleAt)[fieldAt]
<1>1. path \in FieldPath
  BY <1>0, FieldTypes
<1>2. /\ field_registry' \in Seq(FieldPath)
      /\ IsInjective(field_registry')
      /\ Range(field_registry') = Range(field_registry) \cup {path}
  BY <1>1, RegisterFacts DEF TypeOK, Registered
<1>3. TypeOK'
  BY <1>2 DEF TypeOK
<1>4. Registered'
  <2>1. ASSUME NEW i \in DOMAIN rules, NEW k \in DOMAIN Fields(i), Passed(i, k)'
        PROVE  Fields(i)[k] \in Range(field_registry')
    <3>a. stage \in AtSort /\ TypeOK
      BY DEF AtSort, AtFields
    <3>b. Len(rules) \in Nat /\ DOMAIN rules = 1 .. Len(rules)
      BY <3>a, RuleTypes
    <3>c. Len(Fields(i)) \in Nat /\ DOMAIN Fields(i) = 1 .. Len(Fields(i))
      BY <3>a, FieldTypes
    <3>d. fieldAt \in Nat /\ ruleAt \in Nat
      BY <3>a, <3>b DEF TypeOK
    <3>1. i \in Nat /\ k \in Nat /\ fieldAt \in Nat /\ ruleAt \in Nat
      BY <3>b, <3>c, <3>d
    <3>2. Passed(i, k) \/ (i = ruleAt /\ k = fieldAt)
      BY <2>1, <3>1 DEF Passed
    <3>. QED  BY <1>2, <3>2 DEF Registered
  <2>2. \A i : Fields(i)' = Fields(i)
    BY DEF Fields
  <2>. HIDE DEF path
  <2>. QED  BY <1>2, <2>1, <2>2 DEF Registered
<1>5. (ChecksPassed /\ FailureJustified /\ Ordered /\ TerminalsKept /\ Translated /\ Resolved)'
  <2>1. rules' = rules /\ sorted_names' = sorted_names
    OBVIOUS
  <2>2. ChecksPassed' /\ Ordered'
    BY <2>1 DEF ChecksPassed, Ordered, TerminalsKnown, TerminalsOnce
  <2>. QED  BY <2>2 DEF FailureJustified, TerminalsKept, Translated, Resolved
<1>. QED  BY <1>3, <1>4, <1>5

LEMMA NextRuleIInv == IInv /\ NextRule => IInv'
<1>. SUFFICES ASSUME IInv, NextRule PROVE IInv'
  OBVIOUS
<1>. USE DEF NextRule, IInv
<1>1. TypeOK'
  BY RuleTypes DEF TypeOK
<1>2. Registered'
  <2>1. ASSUME NEW i \in DOMAIN rules, NEW k \in DOMAIN Fields(i), Passed(i, k)'
        PROVE  Passed(i, k)
    <3>1. i \in Nat /\ k \in Nat \ {0} /\ fieldAt \in Nat /\ ruleAt \in Nat
      BY FieldTypes, RuleTypes DEF TypeOK
    <3>2. i = ruleAt => k < fieldAt
      BY <3>1, FieldTypes
    <3>. QED  BY <2>1, <3>1, <3>2 DEF Passed
  <2>2. \A i : Fields(i)' = Fields(i)
    BY DEF Fields
  <2>. QED  BY <2>1, <2>2 DEF Registered, IsInjective
<1>3. (ChecksPassed /\ FailureJustified /\ Ordered /\ TerminalsKept /\ Translated /\ Resolved)'
  <2>1. rules' = rules /\ sorted_names' = sorted_names
    OBVIOUS
  <2>2. ChecksPassed' /\ Ordered'
    BY <2>1 DEF ChecksPassed, Ordered, TerminalsKnown, TerminalsOnce
  <2>. QED  BY <2>2 DEF FailureJustified, TerminalsKept, Translated, Resolved
<1>. QED  BY <1>1, <1>2, <1>3

LEMMA FieldsDoneIInv == IInv /\ FieldsDone => IInv'
<1>. SUFFICES ASSUME IInv, FieldsDone PROVE IInv'
  OBVIOUS
<1>. USE DEF FieldsDone, IInv, Pass, built, cursor
<1>1. TypeOK'
  BY DEF TypeOK
<1>2. Registered'
  BY DEF Registered, IsInjective, Fields, Passed
<1>3. (ChecksPassed /\ FailureJustified /\ Ordered /\ TerminalsKept /\ Translated /\ Resolved)'
  <2>1. rules' = rules /\ sorted_names' = sorted_names
    OBVIOUS
  <2>2. ChecksPassed' /\ Ordered'
    BY <2>1 DEF ChecksPassed, Ordered, TerminalsKnown, TerminalsOnce
  <2>. QED  BY <2>2 DEF FailureJustified, TerminalsKept, Translated, Resolved
<1>. QED  BY <1>1, <1>2, <1>3

-----------------------------------------------------------------------------
(* The translation and the terminals *)

\* rule_map[name]
LEMMA RuleNamedFacts ==
  ASSUME IInv, stage \in AtSort, NEW i \in DOMAIN rules
  PROVE  RuleNamed(rules[i].name) = rules[i]
<1>1. NamesUnique(rules)
  BY SortedFacts DEF Sortable
<1>. QED  BY <1>1 DEF NamesUnique, RuleNamed

LEMMA OrderedRule ==
  ASSUME IInv, stage \in AtFields, NEW p \in DOMAIN sorted_names
  PROVE  \E i \in DOMAIN rules :
           rules[i].name = sorted_names[p] /\ RuleNamed(sorted_names[p]) = rules[i]
<1>1. sorted_names[p] \in NamesOf(rules)
  BY SortedFacts DEF Range
<1>. QED  BY <1>1, RuleNamedFacts DEF NamesOf

\* compile_expr finds every field and every rule it looks up
LEMMA RulesCovered ==
  ASSUME IInv, stage \in AtCompileRules, NEW i \in DOMAIN rules
  PROVE  /\ rules[i].condition \in Condition
         /\ field_registry \in SetToAllKPermutations(FieldPath)
         /\ sorted_names \in SetToAllKPermutations(Name)
         /\ Covers(field_registry, sorted_names, rules[i].condition)
<1>1. rules[i].condition \in Condition
  BY FieldTypes
<1>2. field_registry \in SetToAllKPermutations(FieldPath)
  BY Arrangement DEF IInv, TypeOK, Registered
<1>3. sorted_names \in SetToAllKPermutations(Name)
  BY SortedFacts, Arrangement
<1>4. Range(Fields(i)) \subseteq Range(field_registry)
  <2>1. i < ruleAt
    BY RuleTypes DEF IInv, TypeOK, Registered
  <2>2. \A k \in DOMAIN Fields(i) : Fields(i)[k] \in Range(field_registry)
    BY <2>1 DEF IInv, Registered, Passed
  <2>. QED  BY <2>2 DEF Range
<1>5. Range(Refs(rules, i)) \subseteq Range(sorted_names)
  <2>1. \A k \in DOMAIN Refs(rules, i) : Refs(rules, i)[k] \in NamesOf(rules)
    BY SortedFacts DEF Sortable, RefsKnown
  <2>2. Range(sorted_names) = NamesOf(rules)
    BY SortedFacts
  <2>. QED  BY <2>1, <2>2 DEF Range
<1>. QED  BY <1>1, <1>2, <1>3, <1>4, <1>5 DEF Covers, Fields, Refs

\* what a rule references stands before it
LEMMA ReferencesPrecede ==
  ASSUME IInv, stage \in AtFields, NEW p \in DOMAIN sorted_names, NEW q \in DOMAIN sorted_names,
         sorted_names[q] \in Range(RefsOf[RuleNamed(sorted_names[p]).condition])
  PROVE  q \in 1 .. p - 1
<1>1. PICK i \in DOMAIN rules :
        rules[i].name = sorted_names[p] /\ RuleNamed(sorted_names[p]) = rules[i]
  BY OrderedRule
<1>2. sorted_names[q] \in NamesOf(rules)
  BY SortedFacts DEF Range
<1>3. DependsOn(rules, sorted_names[p], sorted_names[q])
  BY <1>1 DEF DependsOn, Refs, Range
<1>4. PICK j \in 1 .. p - 1 : sorted_names[j] = sorted_names[q]
  BY <1>2, <1>3, SortedFacts DEF DepsOf, DependenciesPrecede
<1>5. j \in DOMAIN sorted_names
  BY SortedFacts
<1>. QED  BY <1>4, <1>5, SortedFacts DEF IsInjective

LEMMA TranslationFacts ==
  ASSUME IInv, stage \in AtCompileRules, NEW p \in DOMAIN sorted_names
  PROVE  LET t == Translate(RuleNamed(sorted_names[p]).condition, field_registry, sorted_names)
         IN  t \in CompiledCondition /\ Reads(t) \subseteq 1 .. p - 1
<1>. DEFINE c == RuleNamed(sorted_names[p]).condition
            t == Translate(c, field_registry, sorted_names)
<1>1. PICK i \in DOMAIN rules : RuleNamed(sorted_names[p]) = rules[i]
  BY OrderedRule
<1>2. /\ t \in CompiledCondition
      /\ \A q \in Reads(t) : q \in DOMAIN sorted_names /\ sorted_names[q] \in Range(RefsOf[c])
  BY <1>1, RulesCovered, TranslationRefers
<1>3. Reads(t) \subseteq 1 .. p - 1
  BY <1>2, ReferencesPrecede
<1>. QED  BY <1>2, <1>3

LEMMA CompileRulesIInv == IInv /\ CompileRules => IInv'
<1>. SUFFICES ASSUME IInv, CompileRules PROVE IInv'
  OBVIOUS
<1>. USE DEF CompileRules, IInv, Pass, cursor
<1>1. compiled_rules' \in Seq(Compiled!CompiledRule)
  <2>1. ASSUME NEW p \in DOMAIN sorted_names
        PROVE  compiled_rules'[p] \in Compiled!CompiledRule
    <3>1. sorted_names[p] \in Name /\ p \in Nat
      BY SortedFacts
    <3>. QED  BY <3>1, TranslationFacts DEF Compiled!CompiledRule
  <2>2. /\ DOMAIN sorted_names = 1 .. Len(sorted_names) /\ Len(sorted_names) \in Nat
        /\ DOMAIN compiled_rules' = DOMAIN sorted_names
    BY SortedFacts
  <2>. QED  BY <2>1, <2>2
<1>2. TypeOK'
  BY <1>1 DEF TypeOK
<1>3. Registered'
  BY DEF Registered, IsInjective, Fields, Passed
<1>4. ChecksPassed' /\ Ordered'
  <2>1. rules' = rules /\ sorted_names' = sorted_names
    OBVIOUS
  <2>. QED  BY <2>1 DEF ChecksPassed, Ordered, TerminalsKnown, TerminalsOnce
<1>5. Translated'
  BY DEF Translated, RuleNamed
<1>6. (FailureJustified /\ TerminalsKept /\ Resolved)'
  BY DEF FailureJustified, TerminalsKept, Resolved
<1>. QED  BY <1>2, <1>3, <1>4, <1>5, <1>6

LEMMA SortTerminalsIInv == IInv /\ SortTerminals => IInv'
<1>. SUFFICES ASSUME IInv, SortTerminals PROVE IInv'
  OBVIOUS
<1>. USE DEF SortTerminals, IInv, Pass, built, cursor
<1>0. terminals = declared
  BY DEF TerminalsKept
<1>1. PICK position \in Bijection(DOMAIN declared, DOMAIN declared) :
        /\ \A k, m \in DOMAIN declared : k < m => Before(position[k], position[m])
        /\ terminals' = [k \in DOMAIN declared |-> declared[position[k]]]
  BY <1>0
<1>2. terminals' \in Seq(Compiled!Terminal)
  <2>1. position \in [DOMAIN declared -> DOMAIN declared]
    BY DEF Bijection, Injection
  <2>2. Len(declared) \in Nat /\ DOMAIN declared = 1 .. Len(declared)
    BY RuleTypes
  <2>3. \A k \in DOMAIN declared : declared[k] \in Compiled!Terminal
    BY DEF TypeOK
  <2>. QED  BY <1>1, <2>1, <2>2, <2>3
<1>3. TypeOK'
  BY <1>2 DEF TypeOK
<1>4. TerminalsKept'
  BY <1>0, <1>1 DEF TerminalsKept, StablySorted, Before, DeclaredBefore
<1>5. Registered'
  BY DEF Registered, IsInjective, Fields, Passed
<1>6. ChecksPassed' /\ Ordered'
  <2>1. rules' = rules /\ sorted_names' = sorted_names
    OBVIOUS
  <2>. QED  BY <2>1 DEF ChecksPassed, Ordered, TerminalsKnown, TerminalsOnce
<1>7. (FailureJustified /\ Translated /\ Resolved)'
  <2>1. \A n : RuleNamed(n)' = RuleNamed(n)
    BY DEF RuleNamed
  <2>2. Translated'
    BY <2>1 DEF Translated
  <2>. QED  BY <2>2 DEF FailureJustified, Resolved
<1>. QED  BY <1>3, <1>4, <1>5, <1>6, <1>7

\* the sorted terminals are those declared
LEMMA SortedTerminals ==
  ASSUME IInv, stage \in AtResolve
  PROVE  /\ DOMAIN terminals = DOMAIN declared
         /\ DOMAIN declared = 1 .. Len(declared) /\ Len(declared) \in Nat
         /\ Len(terminals) = Len(declared)
         /\ \A k \in DOMAIN terminals :
              /\ terminals[k].rule_name \in Range(sorted_names)
              /\ \E i \in DOMAIN declared : terminals[k] = declared[i]
<1>1. PICK position \in Bijection(DOMAIN declared, DOMAIN declared) :
        terminals = [k \in DOMAIN declared |-> declared[position[k]]]
  BY DEF IInv, TerminalsKept, StablySorted
<1>2. position \in [DOMAIN declared -> DOMAIN declared]
  BY DEF Bijection, Injection
<1>3. \A i \in DOMAIN declared : declared[i].rule_name \in Range(sorted_names)
  BY SortedFacts DEF IInv, ChecksPassed, TerminalsKnown
<1>4. DOMAIN declared = 1 .. Len(declared) /\ Len(declared) \in Nat
  BY RuleTypes DEF IInv
<1>5. DOMAIN terminals = 1 .. Len(terminals) /\ Len(terminals) \in Nat
  BY LenProperties DEF IInv, TypeOK
<1>6. DOMAIN terminals = DOMAIN declared
  BY <1>1
<1>7. Len(terminals) = Len(declared)
  BY <1>4, <1>5, <1>6, IntervalCounted
<1>. QED  BY <1>1, <1>2, <1>3, <1>4, <1>6, <1>7

LEMMA ResolveTerminalsIInv == IInv /\ ResolveTerminals => IInv'
<1>. SUFFICES ASSUME IInv, ResolveTerminals PROVE IInv'
  OBVIOUS
<1>. USE DEF ResolveTerminals, IInv, Pass, cursor
<1>1. terminal_indices' \in Seq(Nat)
  <2>1. ASSUME NEW k \in DOMAIN terminals
        PROVE  terminal_indices'[k] \in Nat
    <3>1. \E i \in DOMAIN sorted_names : sorted_names[i] = terminals[k].rule_name
      BY SortedTerminals DEF Range
    <3>2. DOMAIN sorted_names \subseteq Nat
      BY SortedFacts
    <3>. QED  BY <3>1, <3>2
  <2>2. /\ DOMAIN terminals = 1 .. Len(terminals) /\ Len(terminals) \in Nat
        /\ terminal_indices' = [k \in DOMAIN terminals |-> terminal_indices'[k]]
    BY SortedTerminals
  <2>. QED  BY <2>1, <2>2
<1>2. TypeOK'
  BY <1>1 DEF TypeOK
<1>3. Registered'
  BY DEF Registered, IsInjective, Fields, Passed
<1>4. ChecksPassed' /\ Ordered'
  <2>1. rules' = rules /\ sorted_names' = sorted_names
    OBVIOUS
  <2>. QED  BY <2>1 DEF ChecksPassed, Ordered, TerminalsKnown, TerminalsOnce
<1>5. TerminalsKept'
  BY DEF TerminalsKept, StablySorted, DeclaredBefore
<1>6. Translated'
  <2>1. \A n : RuleNamed(n)' = RuleNamed(n)
    BY DEF RuleNamed
  <2>. QED  BY <2>1 DEF Translated
<1>7. (FailureJustified /\ Resolved)'
  BY DEF FailureJustified, Resolved
<1>. QED  BY <1>2, <1>3, <1>4, <1>5, <1>6, <1>7

-----------------------------------------------------------------------------
(* The theorems *)

LEMMA StutterIInv == IInv /\ UNCHANGED vars => IInv'
<1>. SUFFICES ASSUME IInv, UNCHANGED vars PROVE IInv'
  OBVIOUS
<1>. USE DEF IInv, vars
<1>1. TypeOK'
  BY DEF TypeOK
<1>2. Registered'
  BY DEF Registered, IsInjective, Fields, Passed
<1>3. ChecksPassed' /\ Ordered'
  <2>1. rules' = rules /\ sorted_names' = sorted_names
    OBVIOUS
  <2>. QED  BY <2>1 DEF ChecksPassed, Ordered, TerminalsKnown, TerminalsOnce
<1>4. TerminalsKept'
  BY DEF TerminalsKept, StablySorted, DeclaredBefore
<1>5. Translated' /\ Resolved'
  <2>1. \A n : RuleNamed(n)' = RuleNamed(n)
    BY DEF RuleNamed
  <2>. QED  BY <2>1 DEF Translated, Resolved
<1>6. FailureJustified'
  <2>. SUFFICES ASSUME stage = "err" PROVE FailureJustified'
    BY DEF FailureJustified
  <2>1. error \in CompileError /\ Justified(error) /\ ~Valid
    BY DEF FailureJustified
  <2>2. Justified(error)'
    BY <2>1 DEF Justified, DependsOn, Refs
  <2>3. ~Valid'
    BY <2>1 DEF Valid
  <2>. QED  BY <2>1, <2>2, <2>3 DEF FailureJustified
<1>. QED  BY <1>1, <1>2, <1>3, <1>4, <1>5, <1>6

\* At every stage of every call, what the stages before it are there to
\* establish is established.
THEOREM Invariance == Spec => []IInv
<1>1. IInv /\ [Next]_vars => IInv'
  <2>. SUFFICES ASSUME IInv, [Next]_vars PROVE IInv'
    OBVIOUS
  <2>1. CASE Next
    BY <2>1, AddRuleIInv, AddTerminalIInv, CompileIInv, CheckMissingConditionsIInv,
       CheckDuplicatesIInv, CheckNoTerminalsIInv, CheckTerminalsIInv,
       CheckDuplicateTerminalsIInv, CheckReferencesIInv, TopologicalSortIInv,
       RegisterFieldIInv, NextRuleIInv, FieldsDoneIInv, CompileRulesIInv,
       SortTerminalsIInv, ResolveTerminalsIInv DEF Next
  <2>2. CASE UNCHANGED vars
    BY <2>2, StutterIInv
  <2>. QED  BY <2>1, <2>2
<1>. QED  BY InitIInv, <1>1, PTL DEF Spec

\* What compile() builds has its type, and it fails exactly with an error.
THEOREM TypeCorrect == Spec => []TypeOK
BY Invariance, PTL DEF IInv

\* No `.expect()' and no `map[key]' of compile() can panic, whatever the rules.
THEOREM LookupsSucceedAlways == Spec => []LookupsSucceed
<1>1. ASSUME IInv
      PROVE  LookupsSucceed
  <2>1. stage \in {"references", "sort", "fields", "compile_rules"} => AllConditioned(rules)
    BY <1>1 DEF IInv, ChecksPassed
  <2>2. stage = "sort" => Sortable(rules)
    BY <1>1, SortedFacts
  <2>3. stage = "compile_rules" => Range(sorted_names) \subseteq NamesOf(rules)
    BY <1>1, SortedFacts
  <2>4. stage = "compile_rules" => \A i \in DOMAIN rules :
          /\ Range(FieldsOf(rules[i].condition)) \subseteq Range(field_registry)
          /\ Range(Refs(rules, i)) \subseteq Range(sorted_names)
    BY <1>1, RulesCovered DEF Covers, Refs
  <2>5. stage = "resolve_terminals" =>
          \A k \in DOMAIN terminals : terminals[k].rule_name \in Range(sorted_names)
    BY <1>1, SortedTerminals
  <2>. QED  BY <2>1, <2>2, <2>3, <2>4, <2>5 DEF LookupsSucceed
<1>. QED  BY <1>1, Invariance, PTL

\* compile() accepts exactly the valid rules, and its error names an offender
\* there is.
THEOREM OutcomeIsRightAlways == Spec => []OutcomeIsRight
<1>1. ASSUME IInv, stage = "ok"
      PROVE  Valid
  <2>1. Acyclic(rules)
    BY <1>1, SortedFacts
  <2>. QED  BY <1>1, <2>1 DEF IInv, ChecksPassed, TerminalsKnown, TerminalsOnce, Valid
<1>2. ASSUME IInv, stage = "err"
      PROVE  Justified(error) /\ ~Valid
  BY <1>2 DEF IInv, FailureJustified
<1>3. IInv => OutcomeIsRight
  BY <1>1, <1>2 DEF OutcomeIsRight
<1>. QED  BY <1>3, Invariance, PTL

LEMMA DoneIsWellFormed ==
  ASSUME IInv, stage = "ok"
  PROVE  /\ Compiled!IndexedInOrder(ruleset)
         /\ Compiled!TerminalsResolved(ruleset)
         /\ Compiled!PrioritiesAscend(ruleset)
         /\ Compiled!RuleNamesUnique(ruleset)
<1>1. /\ ruleset.rules = compiled_rules /\ ruleset.terminals = terminals
      /\ ruleset.terminal_indices = terminal_indices
  BY DEF ruleset
<1>2. /\ DOMAIN compiled_rules = DOMAIN sorted_names
      /\ \A p \in DOMAIN sorted_names :
           /\ compiled_rules[p].name = sorted_names[p]
           /\ compiled_rules[p].index = p
           /\ Reads(compiled_rules[p].condition) \subseteq 1 .. p - 1
  BY TranslationFacts DEF IInv, Translated
<1>3. Compiled!IndexedInOrder(ruleset)
  BY <1>1, <1>2 DEF Compiled!IndexedInOrder
<1>4. Compiled!TerminalsResolved(ruleset)
  <2>1. terminal_indices = [k \in DOMAIN terminals |->
          CHOOSE p \in DOMAIN sorted_names : sorted_names[p] = terminals[k].rule_name]
    BY DEF IInv, Resolved
  <2>2. \A k \in DOMAIN terminals :
          /\ terminal_indices[k] \in DOMAIN sorted_names
          /\ sorted_names[terminal_indices[k]] = terminals[k].rule_name
    BY <2>1, SortedTerminals DEF Range
  <2>3. Len(terminal_indices) = Len(terminals)
    BY <2>1, SortedTerminals
  <2>. QED  BY <1>1, <1>2, <2>2, <2>3 DEF Compiled!TerminalsResolved
<1>5. Compiled!PrioritiesAscend(ruleset)
  <2>. SUFFICES ASSUME NEW k \in DOMAIN terminals, NEW m \in DOMAIN terminals, k <= m
                PROVE  terminals[k].priority <= terminals[m].priority
    BY <1>1 DEF Compiled!PrioritiesAscend
  <2>1. PICK position \in Bijection(DOMAIN declared, DOMAIN declared) : StablySorted(position)
    BY DEF IInv, TerminalsKept
  <2>2. position[k] \in DOMAIN declared /\ position[m] \in DOMAIN declared
    BY SortedTerminals DEF Bijection, Injection
  <2>3. /\ terminals[k] = declared[position[k]] /\ terminals[m] = declared[position[m]]
        /\ k < m => DeclaredBefore(position[k], position[m])
    BY <2>1, SortedTerminals DEF StablySorted
  <2>4. terminals[k].priority \in Nat /\ terminals[m].priority \in Nat
    BY <2>2, <2>3, RuleTypes DEF IInv
  <2>5. k \in Nat /\ m \in Nat
    BY SMTT(30), SortedTerminals
  <2>. QED  BY <2>3, <2>4, <2>5 DEF DeclaredBefore
<1>6. Compiled!RuleNamesUnique(ruleset)
  BY <1>1, <1>2, SortedFacts DEF Compiled!RuleNamesUnique, IsInjective
<1>. QED  BY <1>3, <1>4, <1>5, <1>6

\* Every rule set compile() yields is one the evaluator may be given
\* (Evaluator's RuleSetsWellFormed).
THEOREM OutputWellFormedAlways == Spec => []OutputWellFormed
<1>1. IInv => OutputWellFormed
  BY DoneIsWellFormed DEF OutputWellFormed
<1>. QED  BY <1>1, Invariance, PTL

-----------------------------------------------------------------------------
(* What the rule set means.  An assignment of truth values by rule name and  *)
(* one by position are two forms of one.                                     *)

ConditionAt(p) == RuleNamed(sorted_names[p]).condition

Assignments == [NamesOf(rules) -> BOOLEAN]

\* each rule has the truth its condition has under the others
TrueTo(truth, env) ==
  \A p \in DOMAIN sorted_names :
    truth[sorted_names[p]] = Means(ConditionAt(p), env, truth)

ByPlace(truth) == [p \in DOMAIN sorted_names |-> truth[sorted_names[p]]]

\* the same said of the rules in the order of their declaration
LEMMA TrueByDeclaration ==
  ASSUME IInv, stage = "ok", NEW env, NEW truth
  PROVE  TrueTo(truth, env) <=>
           \A i \in DOMAIN rules : truth[rules[i].name] = Means(rules[i].condition, env, truth)
<1>1. ASSUME NEW p \in DOMAIN sorted_names
      PROVE  \E i \in DOMAIN rules :
               rules[i].name = sorted_names[p] /\ rules[i].condition = ConditionAt(p)
  BY OrderedRule DEF ConditionAt
<1>2. ASSUME NEW i \in DOMAIN rules
      PROVE  \E p \in DOMAIN sorted_names :
               rules[i].name = sorted_names[p] /\ rules[i].condition = ConditionAt(p)
  <2>1. rules[i].name \in Range(sorted_names)
    BY SortedFacts DEF NamesOf
  <2>2. PICK p \in DOMAIN sorted_names : rules[i].name = sorted_names[p]
    BY <2>1 DEF Range
  <2>3. ConditionAt(p) = rules[i].condition
    BY <2>2, RuleNamedFacts DEF ConditionAt
  <2>. QED  BY <2>2, <2>3
<1>3. ASSUME TrueTo(truth, env), NEW i \in DOMAIN rules
      PROVE  truth[rules[i].name] = Means(rules[i].condition, env, truth)
  BY <1>2, <1>3 DEF TrueTo
<1>4. ASSUME \A i \in DOMAIN rules : truth[rules[i].name] = Means(rules[i].condition, env, truth),
             NEW p \in DOMAIN sorted_names
      PROVE  truth[sorted_names[p]] = Means(ConditionAt(p), env, truth)
  BY <1>1, <1>4
<1>. QED  BY <1>3, <1>4 DEF TrueTo

LEMMA ConditionFacts ==
  ASSUME IInv, stage = "ok", NEW p \in DOMAIN sorted_names
  PROVE  /\ ConditionAt(p) \in Condition
         /\ Covers(field_registry, sorted_names, ConditionAt(p))
         /\ Range(RefsOf[ConditionAt(p)]) \subseteq NamesOf(rules)
         /\ \A n \in Range(RefsOf[ConditionAt(p)]) :
              \E q \in 1 .. p - 1 : q \in DOMAIN sorted_names /\ sorted_names[q] = n
<1>1. PICK i \in DOMAIN rules : RuleNamed(sorted_names[p]) = rules[i]
  BY OrderedRule
<1>2. ConditionAt(p) \in Condition /\ Covers(field_registry, sorted_names, ConditionAt(p))
  BY <1>1, RulesCovered DEF ConditionAt
<1>3. Range(RefsOf[ConditionAt(p)]) \subseteq Range(sorted_names)
  BY <1>2 DEF Covers
<1>4. ASSUME NEW n \in Range(RefsOf[ConditionAt(p)])
      PROVE  \E q \in 1 .. p - 1 : q \in DOMAIN sorted_names /\ sorted_names[q] = n
  <2>1. PICK q \in DOMAIN sorted_names : sorted_names[q] = n
    BY <1>3 DEF Range
  <2>2. q \in 1 .. p - 1
    BY <2>1, ReferencesPrecede DEF ConditionAt
  <2>. QED  BY <2>1, <2>2
<1>. QED  BY <1>2, <1>3, <1>4, SortedFacts

\* assignments that agree on the rules before p give its condition one truth
LEMMA MeaningBefore ==
  ASSUME IInv, stage = "ok", NEW env \in Environments, NEW p \in DOMAIN sorted_names,
         NEW t \in Assignments, NEW u \in Assignments,
         \A q \in 1 .. p - 1 : t[sorted_names[q]] = u[sorted_names[q]]
  PROVE  /\ Means(ConditionAt(p), env, t) \in BOOLEAN
         /\ Means(ConditionAt(p), env, t) = Means(ConditionAt(p), env, u)
<1>. DEFINE c == ConditionAt(p)
            refs == Range(RefsOf[c])
<1>1. NamesOf(rules) \in SUBSET Name
  BY RuleTypes DEF IInv, NamesOf
<1>2. c \in Condition /\ refs \subseteq NamesOf(rules)
  BY ConditionFacts
<1>3. [n \in refs |-> t[n]] = [n \in refs |-> u[n]]
  <2>1. \A n \in refs : t[n] = u[n]
    BY ConditionFacts
  <2>. QED  BY <2>1
<1>4. /\ Means(c, env, t) \in BOOLEAN
      /\ Means(c, env, t) = Means(c, env, [n \in refs |-> t[n]])
  BY <1>1, <1>2, MeaningIsLocal DEF Assignments
<1>5. Means(c, env, u) = Means(c, env, [n \in refs |-> u[n]])
  BY <1>1, <1>2, MeaningIsLocal DEF Assignments
<1>. QED  BY <1>3, <1>4, <1>5

\* rules in a topological order determine every truth value
LEMMA TruthIsUnique ==
  ASSUME IInv, stage = "ok", NEW env \in Environments,
         NEW t \in Assignments, NEW u \in Assignments, TrueTo(t, env), TrueTo(u, env)
  PROVE  t = u
<1>. DEFINE Differ == {p \in DOMAIN sorted_names : t[sorted_names[p]] # u[sorted_names[p]]}
<1>1. DOMAIN sorted_names = 1 .. Len(sorted_names) /\ Len(sorted_names) \in Nat
  BY SortedFacts
<1>2. ASSUME Differ # {}
      PROVE  FALSE
  <2>1. Differ \in SUBSET Nat
    BY <1>1
  <2>2. PICK p \in Differ : \A q \in Differ : p <= q
    <3>. HIDE DEF Differ
    <3>. QED  BY <1>2, <2>1, LeastNatural
  <2>3. \A q \in 1 .. p - 1 : t[sorted_names[q]] = u[sorted_names[q]]
    BY <1>1, <2>2
  <2>4. Means(ConditionAt(p), env, t) = Means(ConditionAt(p), env, u)
    BY <2>2, <2>3, MeaningBefore
  <2>. QED  BY <2>2, <2>4 DEF TrueTo
<1>3. \A n \in NamesOf(rules) : t[n] = u[n]
  <2>. SUFFICES ASSUME NEW n \in NamesOf(rules) PROVE t[n] = u[n]
    OBVIOUS
  <2>1. PICK p \in DOMAIN sorted_names : sorted_names[p] = n
    BY SortedFacts DEF Range
  <2>. QED  BY <1>2, <2>1
<1>. QED  BY <1>3 DEF Assignments

\* and there are such truth values: they are found one rule after the other
LEMMA TruthExists ==
  ASSUME IInv, stage = "ok", NEW env \in Environments
  PROVE  \E t \in Assignments : TrueTo(t, env)
<1>. DEFINE n == Len(sorted_names)
            Upto(k, t) == \A p \in 1 .. k : t[sorted_names[p]] = Means(ConditionAt(p), env, t)
            Stuck == {k \in 0 .. n : ~\E t \in Assignments : Upto(k, t)}
<1>1. DOMAIN sorted_names = 1 .. n /\ n \in Nat
  BY SortedFacts
<1>2. ASSUME Stuck # {}
      PROVE  FALSE
  <2>1. Stuck \in SUBSET Nat
    BY <1>1
  <2>2. PICK k \in Stuck : \A j \in Stuck : k <= j
    <3>. HIDE DEF Stuck
    <3>. QED  BY <1>2, <2>1, LeastNatural
  <2>3. k # 0
    <3>1. [m \in NamesOf(rules) |-> TRUE] \in Assignments
      BY DEF Assignments
    <3>2. Upto(0, [m \in NamesOf(rules) |-> TRUE])
      OBVIOUS
    <3>. QED  BY <2>2, <3>1, <3>2
  <2>4. k \in DOMAIN sorted_names /\ k - 1 \in 0 .. n /\ k \in Nat
    BY <1>1, <2>2, <2>3
  <2>5. PICK t \in Assignments : Upto(k - 1, t)
    BY <2>2, <2>4
  <2>. DEFINE u == [t EXCEPT ![sorted_names[k]] = Means(ConditionAt(k), env, t)]
  <2>6. Means(ConditionAt(k), env, t) \in BOOLEAN
    BY <2>4, MeaningBefore
  <2>7. sorted_names[k] \in NamesOf(rules)
    BY <2>4, SortedFacts DEF Range
  <2>8. u \in Assignments /\ u[sorted_names[k]] = Means(ConditionAt(k), env, t)
    BY <2>6, <2>7 DEF Assignments
  <2>9. \A p \in 1 .. k - 1 : u[sorted_names[p]] = t[sorted_names[p]]
    <3>. TAKE p \in 1 .. k - 1
    <3>1. p \in DOMAIN sorted_names /\ p # k
      BY <1>1, <2>4
    <3>2. sorted_names[p] # sorted_names[k] /\ sorted_names[p] \in NamesOf(rules)
      BY <2>4, <3>1, SortedFacts DEF IsInjective, Range
    <3>. QED  BY <3>2 DEF Assignments
  <2>. HIDE DEF u
  <2>10. ASSUME NEW p \in 1 .. k
         PROVE  u[sorted_names[p]] = Means(ConditionAt(p), env, u)
    <3>1. p \in DOMAIN sorted_names /\ p \in Nat /\ \A q \in 1 .. p - 1 : q \in 1 .. k - 1
      BY <1>1, <2>4
    <3>2. Means(ConditionAt(p), env, t) = Means(ConditionAt(p), env, u)
      BY <2>8, <2>9, <3>1, MeaningBefore
    <3>3. CASE p = k
      BY <2>8, <3>2, <3>3
    <3>4. CASE p # k
      <4>1. p \in 1 .. k - 1
        BY <2>4, <3>4
      <4>. QED  BY <2>5, <2>9, <3>2, <4>1
    <3>. QED  BY <3>3, <3>4
  <2>11. Upto(k, u)
    BY <2>10
  <2>. QED  BY <2>2, <2>8, <2>11
<1>3. PICK t \in Assignments : Upto(n, t)
  BY <1>1, <1>2
<1>. QED  BY <1>1, <1>3 DEF TrueTo

\* The compiled conditions, evaluated over the flattened fields, have the truth
\* of the conditions as written.
LEMMA TranslatedTruth ==
  ASSUME IInv, stage = "ok", NEW env \in Environments, NEW t \in Assignments,
         NEW p \in DOMAIN sorted_names
  PROVE  /\ DOMAIN compiled_rules = DOMAIN sorted_names
         /\ compiled_rules[p].name = sorted_names[p]
         /\ Holds(compiled_rules[p].condition, Flatten(env), ByPlace(t)) =
              Means(ConditionAt(p), env, t)
<1>1. /\ DOMAIN compiled_rules = DOMAIN sorted_names
      /\ compiled_rules[p].name = sorted_names[p]
      /\ compiled_rules[p].condition = Translate(ConditionAt(p), field_registry, sorted_names)
  BY DEF IInv, Translated, ConditionAt
<1>2. /\ field_registry \in SetToAllKPermutations(FieldPath)
      /\ sorted_names \in SetToAllKPermutations(Name)
  BY OrderedRule, RulesCovered
<1>3. ConditionAt(p) \in Condition /\ Covers(field_registry, sorted_names, ConditionAt(p))
  BY ConditionFacts
<1>4. t \in [Range(sorted_names) -> BOOLEAN]
  BY SortedFacts DEF Assignments
<1>. QED  BY <1>1, <1>2, <1>3, <1>4, TranslationKeepsMeaning DEF Flatten, ByPlace

LEMMA TrueIsConsistent ==
  ASSUME IInv, stage = "ok", NEW env \in Environments, NEW t \in Assignments
  PROVE  TrueTo(t, env) <=> Compiled!Consistent(ByPlace(t), ruleset, Flatten(env))
<1>1. ruleset.rules = compiled_rules
  BY DEF ruleset
<1>2. DOMAIN compiled_rules = DOMAIN sorted_names
  BY DEF IInv, Translated
<1>3. ByPlace(t) \in [DOMAIN sorted_names -> BOOLEAN]
  BY SortedFacts DEF ByPlace, Assignments, Range
<1>4. \A p \in DOMAIN sorted_names :
        /\ ByPlace(t)[p] = t[sorted_names[p]]
        /\ Holds(compiled_rules[p].condition, Flatten(env), ByPlace(t)) =
             Means(ConditionAt(p), env, t)
  BY TranslatedTruth DEF ByPlace
<1>. QED  BY <1>1, <1>2, <1>3, <1>4 DEF TrueTo, Compiled!Consistent

\* every assignment by position is one by name
LEMMA EveryPlaceHasAName ==
  ASSUME IInv, stage = "ok", NEW u \in [DOMAIN compiled_rules -> BOOLEAN]
  PROVE  \E t \in Assignments : u = ByPlace(t)
<1>. DEFINE place(n) == CHOOSE p \in DOMAIN sorted_names : sorted_names[p] = n
            t == [n \in NamesOf(rules) |-> u[place(n)]]
<1>1. DOMAIN compiled_rules = DOMAIN sorted_names
  BY DEF IInv, Translated
<1>2. \A n \in NamesOf(rules) : place(n) \in DOMAIN sorted_names
  BY SortedFacts DEF Range
<1>3. t \in Assignments
  BY <1>1, <1>2 DEF Assignments
<1>4. \A p \in DOMAIN sorted_names : place(sorted_names[p]) = p
  BY SortedFacts DEF IsInjective
<1>5. \A p \in DOMAIN sorted_names : t[sorted_names[p]] = u[p]
  BY <1>4, SortedFacts DEF Range
<1>6. u = ByPlace(t)
  <2>. HIDE DEF t
  <2>. QED  BY <1>1, <1>5 DEF ByPlace
<1>. QED  BY <1>3, <1>6

\* the terminal that wins is the first true one in the order of priorities and
\* calls: the sort is stable
FirstPlaces(truth) ==
  LET true == {k \in DOMAIN declared : truth[declared[k].rule_name]}
  IN  {m \in true : \A l \in true :
         \/ declared[m].priority < declared[l].priority
         \/ declared[m].priority = declared[l].priority /\ m <= l}

LEMMA WinnerIsFirst ==
  ASSUME IInv, stage = "ok", NEW t \in Assignments,
         NEW position \in Bijection(DOMAIN declared, DOMAIN declared), StablySorted(position),
         NEW k \in DOMAIN declared
  PROVE  Compiled!Wins(k, ruleset, ByPlace(t)) <=> position[k] \in FirstPlaces(t)
<1>. DEFINE held(m) == t[declared[position[m]].rule_name]
<1>1. /\ ruleset.rules = compiled_rules /\ ruleset.terminals = terminals
      /\ DOMAIN compiled_rules = DOMAIN sorted_names
      /\ \A p \in DOMAIN sorted_names : compiled_rules[p].name = sorted_names[p]
  BY DEF ruleset, IInv, Translated
<1>2. /\ position \in [DOMAIN declared -> DOMAIN declared]
      /\ \A l \in DOMAIN declared : \E m \in DOMAIN declared : position[m] = l
  BY DEF Bijection, Injection, Surjection
<1>3. /\ DOMAIN terminals = DOMAIN declared
      /\ \A m \in DOMAIN declared : terminals[m] = declared[position[m]]
      /\ \A l, m \in DOMAIN declared : l < m => DeclaredBefore(position[l], position[m])
  BY DEF StablySorted
<1>4. ASSUME NEW m \in DOMAIN declared
      PROVE  Compiled!Reached(m, ruleset, ByPlace(t)) <=> held(m)
  <2>1. terminals[m].rule_name \in Range(sorted_names)
    BY <1>3, SortedTerminals
  <2>2. PICK p \in DOMAIN sorted_names : sorted_names[p] = terminals[m].rule_name
    BY <2>1 DEF Range
  <2>3. \A q \in DOMAIN sorted_names : sorted_names[q] = terminals[m].rule_name => q = p
    BY <2>2, SortedFacts DEF IsInjective
  <2>4. ByPlace(t)[p] = held(m)
    BY <1>3, <2>2 DEF ByPlace
  <2>. QED  BY <1>1, <2>2, <2>3, <2>4 DEF Compiled!Reached
<1>5. \A m \in DOMAIN declared :
        declared[m].priority \in Nat /\ m \in Nat /\ position[m] \in DOMAIN declared
  BY SMTT(30), <1>2, RuleTypes DEF IInv
<1>6. Compiled!Wins(k, ruleset, ByPlace(t)) <=>
        /\ held(k)
        /\ \A m \in DOMAIN declared : held(m) =>
             \/ terminals[k].priority < terminals[m].priority
             \/ terminals[k].priority = terminals[m].priority /\ k <= m
  BY <1>1, <1>3, <1>4 DEF Compiled!Wins
<1>7. position[k] \in FirstPlaces(t) <=>
        /\ held(k)
        /\ \A m \in DOMAIN declared : held(m) =>
             \/ terminals[k].priority < terminals[m].priority
             \/ terminals[k].priority = terminals[m].priority /\ position[k] <= position[m]
  BY <1>2, <1>3 DEF FirstPlaces
<1>8. ASSUME NEW m \in DOMAIN declared, terminals[k].priority = terminals[m].priority
      PROVE  k <= m <=> position[k] <= position[m]
  <2>1. k < m => position[k] < position[m]
    BY <1>3, <1>5, <1>8 DEF DeclaredBefore
  <2>2. m < k => position[m] < position[k]
    BY <1>3, <1>5, <1>8 DEF DeclaredBefore
  <2>3. position[k] \in Nat /\ position[m] \in Nat /\ k \in Nat /\ m \in Nat
    BY <1>5
  <2>. QED  BY <2>1, <2>2, <2>3
<1>. HIDE DEF held
<1>. QED  BY <1>6, <1>7, <1>8

LEMMA SameFirst ==
  ASSUME IInv, stage = "ok", NEW t \in Assignments
  PROVE  /\ Compiled!Verdict(ruleset, ByPlace(t)) = FirstTrue(t)
         /\ FirstTrue(t) \in SUBSET Name
<1>1. PICK position \in Bijection(DOMAIN declared, DOMAIN declared) : StablySorted(position)
  BY DEF IInv, TerminalsKept
<1>2. /\ ruleset.terminals = terminals /\ DOMAIN terminals = DOMAIN declared
      /\ \A k \in DOMAIN declared : terminals[k] = declared[position[k]]
      /\ \A k \in DOMAIN declared : position[k] \in DOMAIN declared
      /\ \A l \in DOMAIN declared : \E k \in DOMAIN declared : position[k] = l
  BY <1>1 DEF ruleset, StablySorted, Bijection, Injection, Surjection
<1>3. \A k \in DOMAIN declared :
        Compiled!Wins(k, ruleset, ByPlace(t)) <=> position[k] \in FirstPlaces(t)
  BY <1>1, WinnerIsFirst
<1>4. FirstTrue(t) = {declared[m].rule_name : m \in FirstPlaces(t)}
  BY DEF FirstTrue, FirstPlaces
<1>5. FirstPlaces(t) \subseteq DOMAIN declared
  BY DEF FirstPlaces
<1>6. FirstTrue(t) \in SUBSET Name
  BY <1>4, <1>5, RuleTypes DEF IInv
<1>7. Compiled!Verdict(ruleset, ByPlace(t)) =
        {declared[position[k]].rule_name :
           k \in {m \in DOMAIN declared : position[m] \in FirstPlaces(t)}}
  BY <1>2, <1>3 DEF Compiled!Verdict
<1>. QED  BY <1>2, <1>4, <1>5, <1>6, <1>7

\* The rules mean one verdict, and the compiled rule set gives it.
LEMMA OneVerdict ==
  ASSUME IInv, stage = "ok", NEW env \in Environments
  PROVE  \E v \in SUBSET Name : Decided(env) = {v} /\ Meant(env) = {v}
<1>1. PICK t \in Assignments : TrueTo(t, env)
  BY TruthExists
<1>2. FirstTrue(t) \in SUBSET Name /\ Compiled!Verdict(ruleset, ByPlace(t)) = FirstTrue(t)
  BY SameFirst
<1>3. \A u \in Assignments : TrueTo(u, env) <=> u = t
  BY <1>1, TruthIsUnique
<1>4. Meant(env) = {FirstTrue(t)}
  <2>1. {u \in Assignments : \A i \in DOMAIN rules :
           u[rules[i].name] = Means(rules[i].condition, env, u)} = {t}
    BY <1>3, TrueByDeclaration
  <2>. QED  BY <2>1 DEF Meant, Assignments
<1>5. {u \in [DOMAIN compiled_rules -> BOOLEAN] :
         Compiled!Consistent(u, ruleset, Flatten(env))} = {ByPlace(t)}
  <2>1. Compiled!Consistent(ByPlace(t), ruleset, Flatten(env))
    BY <1>1, TrueIsConsistent
  <2>2. ByPlace(t) \in [DOMAIN compiled_rules -> BOOLEAN]
    BY <2>1 DEF Compiled!Consistent, ruleset
  <2>3. ASSUME NEW u \in [DOMAIN compiled_rules -> BOOLEAN],
               Compiled!Consistent(u, ruleset, Flatten(env))
        PROVE  u = ByPlace(t)
    <3>1. PICK w \in Assignments : u = ByPlace(w)
      BY EveryPlaceHasAName
    <3>2. TrueTo(w, env)
      BY <2>3, <3>1, TrueIsConsistent
    <3>. QED  BY <1>3, <3>1, <3>2
  <2>. QED  BY <2>1, <2>2, <2>3
<1>6. Decided(env) = {FirstTrue(t)}
  BY <1>2, <1>5 DEF Decided
<1>. QED  BY <1>2, <1>4, <1>6

\* The compiled rule set gives the one verdict the rules as written define, for
\* any field values, whatever the order of the rules and of the sort.
THEOREM SameVerdictAlways == Spec => []SameVerdict
<1>1. IInv => SameVerdict
  BY OneVerdict DEF SameVerdict
<1>. QED  BY <1>1, Invariance, PTL

(* The engine: what comes out of compile() is what the evaluator and the    *)
(* binary format take for granted, so what is proved of them holds of it.   *)

\* the registries a compiler may make
Registries == {RegistryOf(s) : s \in {u \in Seq(FieldPath) : IsInjective(u)}}

\* the rule sets that can be saved
Saveable ==
  {rs \in [ rules : Seq(Compiled!CompiledRule), terminals : Seq(Compiled!Terminal),
            terminal_indices : Seq(Nat), field_registry : Registries ] :
     /\ Tables(rs) \in Shareable
     /\ \A i \in DOMAIN rs.rules : \A n \in Visited(ToNary(rs.rules[i].condition)) :
          Codec!SlotsOf(n) \subseteq 1 .. rs.field_registry.len}

EP == INSTANCE EvaluatorProofs WITH RuleSets <- Shareable, Contexts <- Vectors, ruleAt <- evalAt

\* No file is written here, but a rule set goes through the same bytes.
BP ==
  INSTANCE BinaryCacheProofs WITH
    Flatten <- ToNary, Unflatten <- FromNary, Nodes <- Visited, Refs <- RefIndices,
    Contexts <- Environments, Serialized <- {ToNary(c) : c \in CompiledCondition},
    Calls <- [ruleset : Saveable, source : Texts],
    Cuts <- {}, Delivered <- {}, Writer <- {}, Reader <- {}, Absent <- {}, MaxSaves <- 0,
    file <- <<>>, writer <- <<>>, reader <- <<>>, loaded <- <<>>, saves <- <<>>,
    overlapped <- FALSE, settled <- {}

LEMMA SameVocabulary ==
  /\ EP!RuleSet = Compiled!RuleSet
  /\ \A rs : /\ EP!IndexedInOrder(rs) <=> Compiled!IndexedInOrder(rs)
             /\ EP!TerminalsResolved(rs) <=> Compiled!TerminalsResolved(rs)
             /\ EP!PrioritiesAscend(rs) <=> Compiled!PrioritiesAscend(rs)
             /\ EP!RuleNamesUnique(rs) <=> Compiled!RuleNamesUnique(rs)
  /\ \A t, rs, ctx : EP!Consistent(t, rs, ctx) <=> Compiled!Consistent(t, rs, ctx)
  /\ \A rs, t : EP!Verdict(rs, t) = Compiled!Verdict(rs, t)
<1>1. EP!RuleSet = Compiled!RuleSet
  BY DEF EP!RuleSet, EP!CompiledRule, EP!Terminal, Compiled!RuleSet, Compiled!CompiledRule,
         Compiled!Terminal
<1>2. \A k, rs, t : EP!Reached(k, rs, t) <=> Compiled!Reached(k, rs, t)
  BY DEF EP!Reached, Compiled!Reached
<1>3. \A k, rs, t : EP!Wins(k, rs, t) <=> Compiled!Wins(k, rs, t)
  BY <1>2 DEF EP!Wins, Compiled!Wins
<1>. QED
  BY <1>1, <1>3
  DEF EP!IndexedInOrder, EP!TerminalsResolved, EP!PrioritiesAscend, EP!RuleNamesUnique,
      EP!Consistent, EP!Verdict, Compiled!IndexedInOrder, Compiled!TerminalsResolved,
      Compiled!PrioritiesAscend, Compiled!RuleNamesUnique, Compiled!Consistent,
      Compiled!Verdict

\* What the evaluator assumes holds of the rule sets that may be shared.
LEMMA EvaluatorMayAssume ==
  /\ EP!ThresholdIsNat
  /\ EP!RuleSetsWellFormed
  /\ EP!HoldsIsLocal
  /\ EP!NothingIsNone
<1>1. EP!ThresholdIsNat
  BY ThresholdIsNat DEF EP!ThresholdIsNat
<1>2. EP!RuleSetsWellFormed
  BY SameVocabulary DEF EP!RuleSetsWellFormed, Shareable
<1>3. EP!HoldsIsLocal
  <2>1. ASSUME NEW rs \in Shareable, NEW i \in DOMAIN rs.rules
        PROVE  /\ rs.rules[i].condition \in CompiledCondition
               /\ Len(rs.rules) \in 0 .. MaxRules + STACK_THRESHOLD
               /\ EP!BufferLen(rs) \in 0 .. MaxRules + STACK_THRESHOLD
               /\ Reads(rs.rules[i].condition) \subseteq 1 .. Len(rs.rules)
               /\ Reads(rs.rules[i].condition) \subseteq 1 .. EP!BufferLen(rs)
    <3>1. /\ rs.rules \in Seq(Compiled!CompiledRule) /\ Len(rs.rules) <= MaxRules
          /\ Reads(rs.rules[i].condition) \subseteq 1 .. i - 1
      BY <2>1 DEF Shareable, Compiled!RuleSet, Compiled!IndexedInOrder
    <3>2. Len(rs.rules) \in Nat /\ i \in 1 .. Len(rs.rules)
      BY <3>1
    <3>3. rs.rules[i] \in Compiled!CompiledRule
      BY <3>1, <3>2
    <3>4. EP!BufferLen(rs) \in {STACK_THRESHOLD, Len(rs.rules)} /\ Len(rs.rules) <= EP!BufferLen(rs)
      BY <3>2, ThresholdIsNat DEF EP!BufferLen
    <3>. QED  BY <3>1, <3>2, <3>3, <3>4, ThresholdIsNat, BoundsAreNat DEF Compiled!CompiledRule
  <2>. QED  BY <2>1, HoldsIsLocal DEF EP!HoldsIsLocal
<1>4. EP!NothingIsNone
  BY NothingIsNone DEF EP!NothingIsNone, EP!Request, Shareable
<1>. QED  BY <1>1, <1>2, <1>3, <1>4

LEMMA SameQueries ==
  /\ \A rs, env : BP!FlattenContext(rs, env) = Queries!FlattenContext(rs, env)
  /\ \A rs : /\ BP!ExecutionOrder(rs) = Queries!ExecutionOrder(rs)
             /\ BP!TerminalOrder(rs) = Queries!TerminalOrder(rs)
             /\ \A n : BP!DependenciesOf(rs, n) = Queries!DependenciesOf(rs, n)
BY DEF BP!FlattenContext, Queries!FlattenContext, BP!ExecutionOrder, Queries!ExecutionOrder,
       BP!TerminalOrder, Queries!TerminalOrder, BP!DependenciesOf, Queries!DependenciesOf

LEMMA SameValidation ==
  \A ser : BP!Validate(ser) <=> Codec!Validate(ser)
<1>1. \A n : BP!SlotsOf(n) = Codec!SlotsOf(n)
  BY DEF BP!SlotsOf, Codec!SlotsOf, BP!Is, Codec!Is
<1>2. \A s, f, r, i : BP!ValidateExpr(s, f, r, i) <=> Codec!ValidateExpr(s, f, r, i)
  BY <1>1 DEF BP!ValidateExpr, Codec!ValidateExpr
<1>3. \A t : BP!SortedByPriority(t) <=> Codec!SortedByPriority(t)
  BY DEF BP!SortedByPriority, Codec!SortedByPriority
<1>. QED
  BY <1>2, <1>3 DEF BP!Validate, Codec!Validate

LEMMA SameBytes ==
  /\ \A rs, source : BP!Encode(rs, source) = Codec!Encode(rs, source)
  /\ \A bytes : BP!Decode(bytes) = Codec!Decode(bytes)
<1>1. \A registry : BP!FieldIndex(registry) = Codec!FieldIndex(registry)
  BY DEF BP!FieldIndex, Codec!FieldIndex, BP!SetToSeqs, Codec!SetToSeqs,
         BP!IsInjective, Codec!IsInjective, BP!Cardinality, Codec!Cardinality
<1>2. \A rs, source : BP!RulesetToSerialized(rs, source) = Codec!RulesetToSerialized(rs, source)
  BY <1>1 DEF BP!RulesetToSerialized, Codec!RulesetToSerialized, BP!Digest, Codec!Digest
<1>3. \A ser : BP!EncodePayload(ser) = Codec!EncodePayload(ser)
  BY DEF BP!EncodePayload, Codec!EncodePayload
<1>4. \A p : BP!WriteHeader(p) = Codec!WriteHeader(p)
  BY DEF BP!WriteHeader, Codec!WriteHeader
<1>5. \A rs, source : BP!Encode(rs, source) = Codec!Encode(rs, source)
  BY <1>2, <1>3, <1>4 DEF BP!Encode, Codec!Encode
<1>6. \A pairs : BP!FromPairs(pairs) = Codec!FromPairs(pairs)
  BY DEF BP!FromPairs, Codec!FromPairs, BP!Max, Codec!Max
<1>7. \A ser : BP!SerializedToRuleset(ser) = Codec!SerializedToRuleset(ser)
  BY <1>6, SameValidation
  DEF BP!SerializedToRuleset, Codec!SerializedToRuleset, BP!Ok, Codec!Ok, BP!Err, Codec!Err
<1>8. \A p : BP!DecodePayload(p) = Codec!DecodePayload(p)
  BY DEF BP!DecodePayload, Codec!DecodePayload, BP!Is, Codec!Is
<1>9. \A bytes : /\ BP!PayloadOf(bytes) = Codec!PayloadOf(bytes)
                 /\ BP!Complete(bytes) <=> Codec!Complete(bytes)
                 /\ BP!Intact(bytes) <=> Codec!Intact(bytes)
  BY DEF BP!PayloadOf, Codec!PayloadOf, BP!PayloadLength, Codec!PayloadLength, BP!Complete,
         Codec!Complete, BP!Intact, Codec!Intact, BP!HEADER_SIZE, Codec!HEADER_SIZE,
         BP!Is, Codec!Is, BP!Min, Codec!Min
<1>10. ASSUME NEW bytes PROVE BP!Decode(bytes) = Codec!Decode(bytes)
  <2>1. BP!DecodePayload(BP!PayloadOf(bytes)) = Codec!DecodePayload(Codec!PayloadOf(bytes))
    BY <1>8, <1>9
  <2>. DEFINE read == Codec!DecodePayload(Codec!PayloadOf(bytes))
  <2>2. BP!SerializedToRuleset(CHOOSE ser \in read : TRUE) =
          Codec!SerializedToRuleset(CHOOSE ser \in read : TRUE)
    BY <1>7
  <2>. QED
    BY <1>9, <2>1, <2>2
    DEF BP!Decode, Codec!Decode, BP!Err, Codec!Err, BP!HEADER_SIZE, Codec!HEADER_SIZE
<1>. QED  BY <1>5, <1>10

-----------------------------------------------------------------------------
\* The fields of a registry have the indices 1..len, each its own, and a
\* context is flattened in their order.
LEMMA RegistryFacts ==
  ASSUME NEW s \in Seq(FieldPath), IsInjective(s)
  PROVE  /\ BP!FieldsDense(RegistryOf(s))
         /\ RegistryOf(s).len = Len(s)
         /\ \A rs, env : rs.field_registry = RegistryOf(s) =>
              Queries!FlattenContext(rs, env) = [i \in DOMAIN s |-> env[s[i]]]
<1>. DEFINE slot == RegistryOf(s).paths
<1>1. Len(s) \in Nat /\ DOMAIN s = 1 .. Len(s) /\ RegistryOf(s).len = Len(s)
  BY DEF RegistryOf
<1>2. slot = [p \in Range(s) |-> CHOOSE i \in DOMAIN s : s[i] = p]
  BY DEF RegistryOf
<1>. HIDE DEF slot
<1>3. ASSUME NEW p \in Range(s)
      PROVE  slot[p] \in 1 .. Len(s) /\ s[slot[p]] = p
  BY <1>1, <1>2 DEF Range
<1>4. ASSUME NEW i \in 1 .. Len(s)
      PROVE  s[i] \in Range(s) /\ slot[s[i]] = i
  <2>1. s[i] \in Range(s)
    BY <1>1 DEF Range
  <2>. QED  BY <2>1, <1>1, <1>3 DEF IsInjective
<1>5. slot \in BP!Bijection(DOMAIN slot, 1 .. Len(s))
  <2>1. DOMAIN slot = Range(s) /\ slot \in [DOMAIN slot -> 1 .. Len(s)]
    BY <1>2, <1>3
  <2>2. \A p, q \in DOMAIN slot : slot[p] = slot[q] => p = q
    BY <1>3, <2>1
  <2>3. \A i \in 1 .. Len(s) : \E p \in DOMAIN slot : slot[p] = i
    BY <1>4, <2>1
  <2>. QED
    BY <2>1, <2>2, <2>3 DEF BP!Bijection, BP!Injection, BP!Surjection, BP!IsInjective
<1>6. ASSUME NEW rs, NEW env, rs.field_registry = RegistryOf(s)
      PROVE  Queries!FlattenContext(rs, env) = [i \in DOMAIN s |-> env[s[i]]]
  <2>1. DOMAIN slot = Range(s)
    BY <1>2
  <2>2. ASSUME NEW i \in 1 .. Len(s)
        PROVE  UNION {env[p] : p \in {q \in DOMAIN slot : slot[q] = i}} = env[s[i]]
    <3>1. {q \in DOMAIN slot : slot[q] = i} = {s[i]}
      BY <1>3, <1>4, <2>1
    <3>2. {env[p] : p \in {q \in DOMAIN slot : slot[q] = i}} = {env[s[i]]}
      BY <3>1
    <3>. QED  BY <3>2
  <2>3. Queries!FlattenContext(rs, env) =
          [i \in 1 .. Len(s) |-> UNION {env[p] : p \in {q \in DOMAIN slot : slot[q] = i}}]
    BY <1>1, <1>6 DEF Queries!FlattenContext, slot
  <2>. QED  BY <1>1, <2>2, <2>3
<1>. QED
  BY <1>1, <1>5, <1>6 DEF BP!FieldsDense, slot

LEMMA SaveableFacts ==
  ASSUME NEW rs \in Saveable
  PROVE  /\ rs.rules \in Seq(Compiled!CompiledRule)
         /\ rs.terminals \in Seq(Compiled!Terminal)
         /\ rs.terminal_indices \in Seq(Nat)
         /\ Tables(rs) \in Shareable
         /\ DOMAIN rs.rules = 1 .. Len(rs.rules) /\ Len(rs.rules) \in 0 .. MaxRules
         /\ \A i \in DOMAIN rs.rules :
              /\ rs.rules[i].condition \in CompiledCondition
              /\ Reads(rs.rules[i].condition) \subseteq 1 .. i - 1
         /\ BP!FieldsDense(rs.field_registry)
         /\ \A env \in Environments : Queries!FlattenContext(rs, env) \in Vectors
<1>1. /\ rs.rules \in Seq(Compiled!CompiledRule)
      /\ rs.terminals \in Seq(Compiled!Terminal)
      /\ rs.terminal_indices \in Seq(Nat)
      /\ rs.field_registry \in Registries
      /\ Tables(rs) \in Shareable
  BY DEF Saveable
<1>2. PICK s \in Seq(FieldPath) : IsInjective(s) /\ rs.field_registry = RegistryOf(s)
  BY <1>1 DEF Registries
<1>3. Tables(rs).rules = rs.rules
  BY DEF Tables
<1>4. Len(rs.rules) <= MaxRules /\ Compiled!IndexedInOrder(Tables(rs))
  BY <1>1, <1>3 DEF Shareable
<1>5. DOMAIN rs.rules = 1 .. Len(rs.rules) /\ Len(rs.rules) \in 0 .. MaxRules
  BY <1>1, <1>4, BoundsAreNat
<1>6. \A i \in DOMAIN rs.rules :
        /\ rs.rules[i].condition \in CompiledCondition
        /\ Reads(rs.rules[i].condition) \subseteq 1 .. i - 1
  <2>1. \A i \in DOMAIN rs.rules : rs.rules[i] \in Compiled!CompiledRule
    BY <1>1, <1>5
  <2>. QED  BY <2>1, <1>3, <1>4 DEF Compiled!CompiledRule, Compiled!IndexedInOrder
<1>7. \A env \in Environments : Queries!FlattenContext(rs, env) \in Vectors
  BY <1>2, RegistryFacts, Arrangement DEF Vectors
<1>8. BP!FieldsDense(rs.field_registry)
  BY <1>2, RegistryFacts
<1>. QED  BY <1>1, <1>5, <1>6, <1>7, <1>8

\* What the binary format assumes holds of the rule sets that can be saved.
LEMMA CacheMayAssume ==
  /\ BP!CutsAreOffsets
  /\ BP!ConditionsComeBack
  /\ BP!ReferencesSeen
  /\ BP!MeaningComesBack
  /\ BP!CallsSaveCompiled
  /\ BP!DeliveredTyped
<1>. DEFINE Calls == [ruleset : Saveable, source : Texts]
<1>0. /\ \A c \in CompiledCondition : BP!Referenced(c) = Reads(c)
      /\ \A s : BP!ReferencesIn(s) = {n.index : n \in {m \in Visited(s) : m.op = "RuleRef"}}
      /\ \A s : BP!ChainsNotEmpty(s) <=>
                  \A n \in Visited(s) : n.op \in {"And", "Or"} => n.children # <<>>
  BY ConditionsComeBack DEF BP!Referenced, BP!Range, Range, BP!ReferencesIn, BP!ChainsNotEmpty
<1>1. BP!CutsAreOffsets /\ BP!DeliveredTyped
  BY DEF BP!CutsAreOffsets, BP!DeliveredTyped
<1>2. BP!ConditionsComeBack
  BY <1>0, ConditionsComeBack DEF BP!ConditionsComeBack
<1>3. BP!ReferencesSeen
  <2>. SUFFICES ASSUME NEW c \in CompiledCondition
                PROVE  /\ BP!ReferencesIn(ToNary(c)) \subseteq Nat \ {0}
                       /\ BP!Referenced(FromNary(ToNary(c))) \subseteq BP!ReferencesIn(ToNary(c))
    BY DEF BP!ReferencesSeen
  <2>1. /\ BP!ReferencesIn(ToNary(c)) = Reads(c) /\ Reads(c) \subseteq Nat \ {0}
        /\ FromNary(ToNary(c)) \in CompiledCondition
        /\ RefIndices(FromNary(ToNary(c))) = RefIndices(c)
    BY <1>0, ConditionsComeBack
  <2>2. BP!Referenced(FromNary(ToNary(c))) = BP!Referenced(c)
    BY <2>1 DEF BP!Referenced
  <2>. QED  BY <1>0, <2>1, <2>2
<1>4. BP!MeaningComesBack
  <2>. SUFFICES ASSUME NEW call \in Calls, NEW ctx \in Environments,
                       NEW truth \in [DOMAIN call.ruleset.rules -> BOOLEAN],
                       NEW i \in DOMAIN call.ruleset.rules
                PROVE  LET condition == call.ruleset.rules[i].condition
                           fields    == BP!FlattenContext(call.ruleset, ctx)
                       IN  Holds(FromNary(ToNary(condition)), fields, truth) =
                             Holds(condition, fields, truth)
    BY DEF BP!MeaningComesBack
  <2>. DEFINE rs == call.ruleset
              condition == rs.rules[i].condition
              len == Len(rs.rules)
  <2>1. rs \in Saveable
    OBVIOUS
  <2>2. /\ condition \in CompiledCondition /\ Reads(condition) \subseteq 1 .. i - 1
        /\ len \in 0 .. MaxRules /\ DOMAIN rs.rules = 1 .. len
        /\ BP!FlattenContext(rs, ctx) \in Vectors
    BY <2>1, SaveableFacts, SameQueries
  <2>3. Reads(condition) \subseteq 1 .. len
    BY <2>2
  <2>. QED  BY <2>2, <2>3, MeaningComesBack
<1>5. BP!CallsSaveCompiled
  <2>. SUFFICES ASSUME NEW rs \in Saveable
                PROVE  /\ rs.rules \in Seq(BP!C!CompiledRule)
                       /\ rs.terminals \in Seq(BP!C!Terminal)
                       /\ rs.terminal_indices \in Seq(Nat)
                       /\ BP!C!IndexedInOrder(rs) /\ BP!C!TerminalsResolved(rs)
                       /\ BP!C!PrioritiesAscend(rs)
                       /\ BP!FieldsDense(rs.field_registry)
                       /\ BP!FieldsRegistered(rs)
    BY DEF BP!CallsSaveCompiled
  <2>1. /\ Tables(rs).rules = rs.rules /\ Tables(rs).terminals = rs.terminals
        /\ Tables(rs).terminal_indices = rs.terminal_indices
    BY DEF Tables
  <2>2. BP!C!CompiledRule = Compiled!CompiledRule /\ BP!C!Terminal = Compiled!Terminal
    BY DEF BP!C!CompiledRule, Compiled!CompiledRule, BP!C!Terminal, Compiled!Terminal
  <2>3. BP!C!IndexedInOrder(rs)
    BY <1>0, <2>1, SaveableFacts DEF BP!C!IndexedInOrder, Compiled!IndexedInOrder, Shareable
  <2>4. BP!C!TerminalsResolved(rs) /\ BP!C!PrioritiesAscend(rs)
    BY <2>1, SaveableFacts
    DEF BP!C!TerminalsResolved, BP!C!PrioritiesAscend, Compiled!TerminalsResolved,
        Compiled!PrioritiesAscend, Shareable
  <2>5. BP!FieldsRegistered(rs)
    <3>1. \A n : BP!SlotsOf(n) = Codec!SlotsOf(n)
      BY DEF BP!SlotsOf, Codec!SlotsOf, BP!Is, Codec!Is
    <3>. QED  BY <3>1 DEF BP!FieldsRegistered, Saveable
  <2>. QED  BY <2>2, <2>3, <2>4, <2>5, SaveableFacts
<1>. QED  BY <1>1, <1>2, <1>3, <1>4, <1>5

\* Whatever can be saved comes back, as itself with its conditions normalised.
LEMMA GoesThereAndBack ==
  ASSUME NEW rs \in Saveable, NEW source \in Texts
  PROVE  ThereAndBack(rs, source) = [ok |-> BP!Reloaded(rs)]
<1>. DEFINE call == [ruleset |-> rs, source |-> source]
<1>1. call \in [ruleset : Saveable, source : Texts] /\ call.ruleset = rs /\ call.source = source
  OBVIOUS
<1>. HIDE DEF call
<1>2. BP!Decode(BP!Saved(call)) = BP!Ok(BP!Reloaded(call.ruleset))
  BY <1>1, CacheMayAssume, BP!SavedComesBack
<1>. QED  BY <1>1, <1>2, SameBytes DEF ThereAndBack, BP!Saved, BP!Ok

LEMMA TablesOf ==
  ASSUME NEW rs
  PROVE  /\ Tables(rs).rules = rs.rules
         /\ Tables(rs).terminals = rs.terminals
         /\ Tables(rs).terminal_indices = rs.terminal_indices
BY DEF Tables

\* What is loaded is what was saved but for its conditions.
LEMMA ReloadedFacts ==
  ASSUME NEW rs \in Saveable
  PROVE  LET new == BP!Reloaded(rs)
         IN  /\ new \in [ rules : Seq(Compiled!CompiledRule), terminals : Seq(Compiled!Terminal),
                          terminal_indices : Seq(Nat), field_registry : Registries ]
             /\ new.terminals = rs.terminals
             /\ new.terminal_indices = rs.terminal_indices
             /\ new.field_registry = rs.field_registry
             /\ Len(new.rules) = Len(rs.rules) /\ DOMAIN new.rules = DOMAIN rs.rules
             /\ \A i \in DOMAIN rs.rules :
                  /\ new.rules[i].name = rs.rules[i].name
                  /\ new.rules[i].index = rs.rules[i].index
                  /\ new.rules[i].condition = FromNary(ToNary(rs.rules[i].condition))
<1>. DEFINE new == BP!Reloaded(rs)
            n   == Len(rs.rules)
<1>1. /\ rs.rules \in Seq(Compiled!CompiledRule) /\ DOMAIN rs.rules = 1 .. n /\ n \in Nat
      /\ rs.terminals \in Seq(Compiled!Terminal)
      /\ rs.terminal_indices \in Seq(Nat)
      /\ \A i \in 1 .. n : rs.rules[i] \in Compiled!CompiledRule
      /\ Len(rs.terminal_indices) = Len(rs.terminals)
  <2>1. Compiled!TerminalsResolved(Tables(rs))
    BY SaveableFacts DEF Shareable
  <2>2. Len(rs.terminal_indices) = Len(rs.terminals)
    BY <2>1, TablesOf DEF Compiled!TerminalsResolved
  <2>3. /\ rs.rules \in Seq(Compiled!CompiledRule) /\ DOMAIN rs.rules = 1 .. n
        /\ rs.terminals \in Seq(Compiled!Terminal) /\ rs.terminal_indices \in Seq(Nat)
    BY SaveableFacts
  <2>4. n \in Nat /\ \A i \in 1 .. n : rs.rules[i] \in Compiled!CompiledRule
    BY <2>3
  <2>. QED  BY <2>2, <2>3, <2>4
<1>2. new.rules = [i \in 1 .. n |->
        [ name |-> rs.rules[i].name, index |-> rs.rules[i].index,
          condition |-> FromNary(ToNary(rs.rules[i].condition)) ]]
  BY <1>1 DEF BP!Reloaded
<1>3. \A i \in 1 .. n : FromNary(ToNary(rs.rules[i].condition)) \in CompiledCondition
  BY <1>1, ConditionsComeBack DEF Compiled!CompiledRule
<1>4. new.rules \in [1 .. n -> Compiled!CompiledRule]
  BY <1>1, <1>2, <1>3 DEF Compiled!CompiledRule
<1>5. new.terminals = rs.terminals
  <2>1. new.terminals = [k \in DOMAIN rs.terminals |->
          [rule_name |-> rs.terminals[k].rule_name, priority |-> rs.terminals[k].priority]]
    BY DEF BP!Reloaded
  <2>2. \A k \in DOMAIN rs.terminals : rs.terminals[k] \in Compiled!Terminal
    BY <1>1
  <2>3. \A k \in DOMAIN rs.terminals :
          rs.terminals[k] =
            [rule_name |-> rs.terminals[k].rule_name, priority |-> rs.terminals[k].priority]
    BY <2>2 DEF Compiled!Terminal
  <2>4. rs.terminals = [k \in DOMAIN rs.terminals |-> rs.terminals[k]]
    BY <1>1
  <2>. QED  BY <2>1, <2>3, <2>4
<1>6. new.terminal_indices = rs.terminal_indices
  <2>1. DOMAIN rs.terminals = DOMAIN rs.terminal_indices
    BY <1>1
  <2>2. rs.terminal_indices = [k \in DOMAIN rs.terminal_indices |-> rs.terminal_indices[k]]
    BY <1>1
  <2>. QED  BY <2>1, <2>2 DEF BP!Reloaded
<1>7. new.field_registry = rs.field_registry
  <2>1. PICK s \in Seq(FieldPath) : rs.field_registry = RegistryOf(s)
    BY DEF Saveable, Registries
  <2>. QED  BY <2>1 DEF BP!Reloaded, RegistryOf
<1>8. new = [ rules |-> new.rules, terminals |-> rs.terminals,
              terminal_indices |-> rs.terminal_indices, field_registry |-> rs.field_registry ]
  BY <1>5, <1>6, <1>7 DEF BP!Reloaded
<1>. HIDE DEF new, n
<1>9. /\ new.rules \in Seq(Compiled!CompiledRule)
      /\ Len(new.rules) = n /\ DOMAIN new.rules = 1 .. n
  BY <1>1, <1>4
<1>10. rs.field_registry \in Registries
  BY DEF Saveable
<1>11. \A f \in Seq(Compiled!CompiledRule) :
         [ rules |-> f, terminals |-> rs.terminals,
           terminal_indices |-> rs.terminal_indices, field_registry |-> rs.field_registry ]
         \in [ rules : Seq(Compiled!CompiledRule), terminals : Seq(Compiled!Terminal),
               terminal_indices : Seq(Nat), field_registry : Registries ]
  BY <1>1, <1>10
<1>12. new \in [ rules : Seq(Compiled!CompiledRule), terminals : Seq(Compiled!Terminal),
                 terminal_indices : Seq(Nat), field_registry : Registries ]
  BY <1>8, <1>9, <1>11
<1>13. \A i \in 1 .. n :
         /\ new.rules[i].name = rs.rules[i].name
         /\ new.rules[i].index = rs.rules[i].index
         /\ new.rules[i].condition = FromNary(ToNary(rs.rules[i].condition))
  BY <1>2
<1>. QED
  BY <1>1, <1>5, <1>6, <1>7, <1>9, <1>12, <1>13 DEF new, n

\* Records with the same fields.
LEMMA SameRule ==
  ASSUME NEW N, NEW C, NEW I, NEW x \in [name : N, condition : C, index : I],
         NEW y \in [name : N, condition : C, index : I],
         x.name = y.name, x.condition = y.condition, x.index = y.index
  PROVE  x = y
OBVIOUS

LEMMA SameRuleSet ==
  ASSUME NEW R, NEW T, NEW I, NEW F,
         NEW x \in [rules : R, terminals : T, terminal_indices : I, field_registry : F],
         NEW y \in [rules : R, terminals : T, terminal_indices : I, field_registry : F],
         x.rules = y.rules, x.terminals = y.terminals,
         x.terminal_indices = y.terminal_indices, x.field_registry = y.field_registry
  PROVE  x = y
OBVIOUS

\* It can be saved again, and another time changes nothing.
LEMMA ReloadedIsSaveable ==
  ASSUME NEW rs \in Saveable
  PROVE  BP!Reloaded(rs) \in Saveable /\ BP!Reloaded(BP!Reloaded(rs)) = BP!Reloaded(rs)
<1>. DEFINE new == BP!Reloaded(rs)
            again == BP!Reloaded(new)
<1>1. /\ new \in [ rules : Seq(Compiled!CompiledRule), terminals : Seq(Compiled!Terminal),
                   terminal_indices : Seq(Nat), field_registry : Registries ]
      /\ Len(new.rules) = Len(rs.rules) /\ DOMAIN new.rules = DOMAIN rs.rules
      /\ \A i \in DOMAIN rs.rules :
           /\ new.rules[i].name = rs.rules[i].name
           /\ new.rules[i].index = rs.rules[i].index
           /\ new.rules[i].condition = FromNary(ToNary(rs.rules[i].condition))
  BY ReloadedFacts
<1>2. /\ new.terminals = rs.terminals /\ new.terminal_indices = rs.terminal_indices
      /\ new.field_registry = rs.field_registry
  BY ReloadedFacts
<1>. HIDE DEF new
<1>3. ASSUME NEW i \in DOMAIN rs.rules
      PROVE  /\ new.rules[i].name = rs.rules[i].name
             /\ new.rules[i].index = rs.rules[i].index
             /\ ToNary(new.rules[i].condition) = ToNary(rs.rules[i].condition)
             /\ Reads(new.rules[i].condition) = Reads(rs.rules[i].condition)
  <2>. DEFINE c == rs.rules[i].condition
  <2>1. c \in CompiledCondition
    BY SaveableFacts
  <2>2. /\ new.rules[i].name = rs.rules[i].name
        /\ new.rules[i].index = rs.rules[i].index
        /\ new.rules[i].condition = FromNary(ToNary(c))
    BY <1>1
  <2>. HIDE DEF c
  <2>3. /\ ToNary(FromNary(ToNary(c))) = ToNary(c)
        /\ FromNary(ToNary(c)) \in CompiledCondition
        /\ RefIndices(FromNary(ToNary(c))) = RefIndices(c)
    BY <2>1, ConditionsComeBack
  <2>4. Reads(FromNary(ToNary(c))) = Range(RefIndices(FromNary(ToNary(c))))
    BY <2>3, ConditionsComeBack
  <2>5. Reads(c) = Range(RefIndices(c))
    BY <2>1, ConditionsComeBack
  <2>. QED  BY <2>2, <2>3, <2>4, <2>5 DEF c
<1>4. Tables(new) \in Shareable
  <2>1. Tables(rs) \in Shareable
    BY SaveableFacts
  <2>2. /\ Tables(new).rules = new.rules /\ Tables(rs).rules = rs.rules
        /\ Tables(new).terminals = rs.terminals /\ Tables(rs).terminals = rs.terminals
        /\ Tables(new).terminal_indices = rs.terminal_indices
        /\ Tables(rs).terminal_indices = rs.terminal_indices
    BY <1>2 DEF Tables
  <2>3. Tables(new) \in Compiled!RuleSet
    BY <1>1, <1>2, SaveableFacts DEF Tables, Compiled!RuleSet
  <2>4. Len(Tables(new).rules) <= MaxRules
    BY <1>1, <2>1, <2>2 DEF Shareable
  <2>5. Compiled!IndexedInOrder(Tables(new))
    BY <1>1, <1>3, <2>1, <2>2 DEF Shareable, Compiled!IndexedInOrder
  <2>6. Compiled!TerminalsResolved(Tables(new))
    <3>1. Compiled!TerminalsResolved(Tables(rs))
      BY <2>1 DEF Shareable
    <3>2. /\ Len(rs.terminal_indices) = Len(rs.terminals)
          /\ \A k \in DOMAIN rs.terminals :
               /\ rs.terminal_indices[k] \in DOMAIN rs.rules
               /\ rs.rules[rs.terminal_indices[k]].name = rs.terminals[k].rule_name
      BY <2>2, <3>1 DEF Compiled!TerminalsResolved
    <3>. QED  BY <1>1, <1>3, <2>2, <3>2 DEF Compiled!TerminalsResolved
  <2>7. Compiled!PrioritiesAscend(Tables(new))
    BY <2>1, <2>2 DEF Shareable, Compiled!PrioritiesAscend
  <2>8. Compiled!RuleNamesUnique(Tables(new))
    BY <1>1, <1>3, <2>1, <2>2 DEF Shareable, Compiled!RuleNamesUnique
  <2>. QED  BY <2>3, <2>4, <2>5, <2>6, <2>7, <2>8 DEF Shareable
<1>5. new \in Saveable
  BY <1>1, <1>2, <1>3, <1>4, SaveableFacts DEF Saveable
<1>6. again = new
  <2>1. /\ again \in [ rules : Seq(Compiled!CompiledRule), terminals : Seq(Compiled!Terminal),
                       terminal_indices : Seq(Nat), field_registry : Registries ]
        /\ Len(again.rules) = Len(new.rules) /\ DOMAIN again.rules = DOMAIN new.rules
        /\ \A i \in DOMAIN new.rules :
             /\ again.rules[i].name = new.rules[i].name
             /\ again.rules[i].index = new.rules[i].index
             /\ again.rules[i].condition = FromNary(ToNary(new.rules[i].condition))
        /\ again.terminals = new.terminals /\ again.terminal_indices = new.terminal_indices
        /\ again.field_registry = new.field_registry
    BY <1>5, ReloadedFacts
  <2>. HIDE DEF again
  <2>2. ASSUME NEW i \in DOMAIN new.rules PROVE again.rules[i] = new.rules[i]
    <3>1. again.rules[i] \in Compiled!CompiledRule /\ new.rules[i] \in Compiled!CompiledRule
      BY <1>1, <2>1
    <3>2. again.rules[i].condition = new.rules[i].condition
      BY <1>1, <1>3, <2>1
    <3>. QED  BY <2>1, <3>1, <3>2, SameRule DEF Compiled!CompiledRule
  <2>3. again.rules = new.rules
    BY <1>1, <2>1, <2>2
  <2>. QED  BY <1>1, <2>1, <2>3, SameRuleSet
<1>. QED  BY <1>5, <1>6 DEF new

\* Evaluated, it decides alike.
LEMMA ReloadedDecides ==
  ASSUME NEW rs \in Saveable, NEW values \in Vectors, NEW t
  PROVE  LET new == Tables(BP!Reloaded(rs))
         IN  /\ Compiled!Consistent(t, new, values) <=> Compiled!Consistent(t, Tables(rs), values)
             /\ Compiled!Verdict(new, t) = Compiled!Verdict(Tables(rs), t)
<1>. DEFINE new == Tables(BP!Reloaded(rs))
            old == Tables(rs)
<1>1. /\ DOMAIN new.rules = DOMAIN old.rules
      /\ new.terminals = old.terminals
      /\ \A i \in DOMAIN old.rules :
           /\ new.rules[i].name = old.rules[i].name
           /\ new.rules[i].condition = FromNary(ToNary(old.rules[i].condition))
  <2>. DEFINE again == BP!Reloaded(rs)
  <2>1. /\ again.terminals = rs.terminals
        /\ DOMAIN again.rules = DOMAIN rs.rules
        /\ \A i \in DOMAIN rs.rules :
             /\ again.rules[i].name = rs.rules[i].name
             /\ again.rules[i].condition = FromNary(ToNary(rs.rules[i].condition))
    BY ReloadedFacts
  <2>. HIDE DEF again
  <2>. QED  BY <2>1, TablesOf DEF again
<1>2. /\ DOMAIN old.rules = 1 .. Len(old.rules) /\ Len(old.rules) \in 0 .. MaxRules
      /\ \A i \in DOMAIN old.rules : /\ old.rules[i].condition \in CompiledCondition
                                     /\ Reads(old.rules[i].condition) \subseteq 1 .. Len(old.rules)
  <2>1. /\ DOMAIN rs.rules = 1 .. Len(rs.rules) /\ Len(rs.rules) \in 0 .. MaxRules
        /\ \A i \in DOMAIN rs.rules : /\ rs.rules[i].condition \in CompiledCondition
                                      /\ Reads(rs.rules[i].condition) \subseteq 1 .. i - 1
    BY SaveableFacts
  <2>2. \A i \in 1 .. Len(rs.rules) : 1 .. i - 1 \subseteq 1 .. Len(rs.rules)
    BY <2>1
  <2>. QED  BY <2>1, <2>2 DEF Tables
<1>. HIDE DEF new, old
<1>3. \A r \in [1 .. Len(old.rules) -> BOOLEAN] : \A i \in DOMAIN old.rules :
        Holds(new.rules[i].condition, values, r) = Holds(old.rules[i].condition, values, r)
  BY <1>1, <1>2, MeaningComesBack
<1>4. Compiled!Consistent(t, new, values) <=> Compiled!Consistent(t, old, values)
  BY <1>1, <1>2, <1>3 DEF Compiled!Consistent
<1>5. \A k : Compiled!Reached(k, new, t) <=> Compiled!Reached(k, old, t)
  BY <1>1 DEF Compiled!Reached
<1>6. \A k : Compiled!Wins(k, new, t) <=> Compiled!Wins(k, old, t)
  BY <1>1, <1>5 DEF Compiled!Wins
<1>7. Compiled!Verdict(new, t) = Compiled!Verdict(old, t)
  BY <1>1, <1>6 DEF Compiled!Verdict
<1>. QED  BY <1>4, <1>7 DEF new, old

-----------------------------------------------------------------------------
\* The compiler's part of a step is a step of the compiler.
THEOREM EngineCompiles == EngineSpec => Spec
<1>1. EngineInit => Init
  BY DEF EngineInit
<1>2. [EngineNext]_engineVars => [Next]_vars
  BY DEF EngineNext, engineVars, Build, Reload, Evaluate, Continue
<1>. QED  BY <1>1, <1>2, PTL DEF EngineSpec, Spec

\* A builder takes MaxRules rules at most; what a program holds is what
\* compile() has made, or that as it comes back; and an evaluation is of one
\* of the two, on field values that were flattened for it.
FewRules == Len(rules) <= MaxRules

HeldComesFromOutput ==
  /\ stage # "ok" => reloaded = {}
  /\ reloaded \subseteq {BP!Reloaded(Output)}

Shared ==
  /\ phase \in [Caller -> {"idle", "rules", "terminals", "returned"}]
  /\ request \in [Caller -> EP!Request \cup {Nothing}]
  /\ asked \in [Caller -> Environments \cup {Nothing}]
  /\ \A c \in Caller : phase[c] # "idle" =>
       /\ stage = "ok"
       /\ asked[c] \in Environments
       /\ request[c].ruleset \in {Tables(Output), Tables(BP!Reloaded(Output))}
       /\ request[c].ctx = Flatten(asked[c])

EInv == IInv /\ FewRules /\ HeldComesFromOutput /\ Shared

LEMMA FewRulesInvariance == Spec => []FewRules
<1>1. Init => FewRules
  BY BoundsAreNat DEF Init, FewRules
<1>2. FewRules /\ TypeOK /\ [Next]_vars => FewRules'
  <2>. SUFFICES ASSUME FewRules, TypeOK, [Next]_vars PROVE FewRules'
    OBVIOUS
  <2>1. CASE AddRule
    <3>1. PICK r \in RuleCalls : rules' = Append(rules, r) /\ Len(rules) < MaxRules
      BY <2>1 DEF AddRule
    <3>2. Len(rules') = Len(rules) + 1 /\ Len(rules) \in Nat
      BY <3>1, RuleCallsAreRules DEF TypeOK
    <3>. QED  BY <3>1, <3>2, BoundsAreNat DEF FewRules
  <2>2. CASE rules' = rules
    BY <2>2 DEF FewRules
  <2>3. AddRule \/ rules' = rules
    BY DEF Next, vars, AddTerminal, Compile, CheckMissingConditions, CheckDuplicates,
           CheckNoTerminals, CheckTerminals, CheckDuplicateTerminals, CheckReferences, Check,
           TopologicalSort, RegisterField, NextRule, FieldsDone, CompileRules, SortTerminals,
           ResolveTerminals
  <2>. QED  BY <2>1, <2>2, <2>3
<1>. QED  BY <1>1, <1>2, TypeCorrect, PTL DEF Spec

\* compile() is done once it has succeeded.
LEMMA NothingAfterOk == stage = "ok" => ~Next
BY DEF Next, AddRule, AddTerminal, Compile, CheckMissingConditions, CheckDuplicates,
       CheckNoTerminals, CheckTerminals, CheckDuplicateTerminals, CheckReferences, Check,
       TopologicalSort, RegisterField, NextRule, FieldsDone, CompileRules, SortTerminals,
       ResolveTerminals

\* The rule set that comes out can be saved, and every environment is flattened
\* for it in the order of the registry.
LEMMA OutputIsSaveable ==
  ASSUME IInv, FewRules, stage = "ok"
  PROVE  /\ Output \in Saveable
         /\ \A rs, env : rs.field_registry = Output.field_registry =>
              Queries!FlattenContext(rs, env) = Flatten(env)
<1>1. /\ Output.rules = compiled_rules /\ Output.terminals = terminals
      /\ Output.terminal_indices = terminal_indices
      /\ Output.field_registry = RegistryOf(field_registry)
      /\ Tables(Output) = ruleset
  BY DEF Output, Tables, ruleset
<1>2. field_registry \in Seq(FieldPath) /\ IsInjective(field_registry)
  BY DEF IInv, TypeOK, Registered
<1>3. ruleset \in Shareable
  <2>1. ruleset \in Compiled!RuleSet
    BY DEF ruleset, Compiled!RuleSet, IInv, TypeOK
  <2>2. Len(compiled_rules) = Len(rules)
    BY SortedFacts DEF IInv, Translated
  <2>. QED  BY <2>1, <2>2, DoneIsWellFormed DEF Shareable, ruleset, FewRules
<1>4. ASSUME NEW p \in DOMAIN sorted_names, NEW n \in Visited(ToNary(compiled_rules[p].condition))
      PROVE  Codec!SlotsOf(n) \subseteq 1 .. Output.field_registry.len
  <2>1. compiled_rules[p].condition =
          Translate(RuleNamed(sorted_names[p]).condition, field_registry, sorted_names)
    BY DEF IInv, Translated
  <2>2. PICK i \in DOMAIN rules : RuleNamed(sorted_names[p]) = rules[i]
    BY OrderedRule
  <2>3. /\ rules[i].condition \in Condition
        /\ field_registry \in SetToAllKPermutations(FieldPath)
        /\ sorted_names \in SetToAllKPermutations(Name)
        /\ Covers(field_registry, sorted_names, rules[i].condition)
    BY RulesCovered
  <2>4. Codec!SlotsOf(n) \subseteq DOMAIN field_registry
    BY <2>1, <2>2, <2>3, TranslationRegistered
  <2>. QED  BY <1>1, <1>2, <2>4, RegistryFacts
<1>5. DOMAIN compiled_rules = DOMAIN sorted_names
  BY DEF IInv, Translated
<1>6. Output \in [ rules : Seq(Compiled!CompiledRule), terminals : Seq(Compiled!Terminal),
                   terminal_indices : Seq(Nat), field_registry : Registries ]
  BY <1>2 DEF Output, Registries, IInv, TypeOK
<1>7. Output \in Saveable
  BY <1>1, <1>3, <1>4, <1>5, <1>6 DEF Saveable
<1>8. \A rs, env : rs.field_registry = Output.field_registry =>
        Queries!FlattenContext(rs, env) = Flatten(env)
  BY <1>1, <1>2, RegistryFacts DEF Flatten
<1>. QED  BY <1>7, <1>8

\* So can all a program holds.
LEMMA HeldFacts ==
  ASSUME EInv, NEW rs \in Held
  PROVE  /\ stage = "ok"
         /\ rs \in {Output, BP!Reloaded(Output)} /\ rs \in Saveable
         /\ BP!Reloaded(rs) = BP!Reloaded(Output)
         /\ \A env : Queries!FlattenContext(rs, env) = Flatten(env)
<1>1. stage = "ok" /\ rs \in {Output, BP!Reloaded(Output)}
  BY DEF Held, EInv, HeldComesFromOutput
<1>2. Output \in Saveable
  BY <1>1, OutputIsSaveable DEF EInv
<1>3. rs \in Saveable /\ BP!Reloaded(rs) = BP!Reloaded(Output)
  BY <1>1, <1>2, ReloadedIsSaveable
<1>4. rs.field_registry = Output.field_registry
  BY <1>1, <1>2, ReloadedFacts
<1>. QED  BY <1>1, <1>3, <1>4, OutputIsSaveable DEF EInv

\* An evaluation is one of a rule set that may be shared.
LEMMA EvaluateFacts ==
  ASSUME EInv, NEW c \in Caller, Evaluate(c)
  PROVE  \E rs \in {Output, BP!Reloaded(Output)}, env \in Environments, detailed \in BOOLEAN :
           LET r == [ruleset |-> Tables(rs), ctx |-> Flatten(env), detailed |-> detailed]
           IN  /\ stage = "ok"
               /\ r \in EP!Request
               /\ Evaluation!Enter(c, r)
               /\ asked' = [asked EXCEPT ![c] = env]
<1>1. PICK rs \in Held, env \in Environments, detailed \in BOOLEAN :
        /\ Evaluation!Enter(c, [ruleset |-> Tables(rs), detailed |-> detailed,
                                ctx |-> Queries!FlattenContext(rs, env)])
        /\ asked' = [asked EXCEPT ![c] = env]
  BY DEF Evaluate
<1>2. /\ stage = "ok" /\ rs \in {Output, BP!Reloaded(Output)} /\ rs \in Saveable
      /\ Queries!FlattenContext(rs, env) = Flatten(env)
  BY HeldFacts
<1>3. Tables(rs) \in Shareable /\ Flatten(env) \in Vectors
  BY <1>2, SaveableFacts
<1>4. [ruleset |-> Tables(rs), ctx |-> Flatten(env), detailed |-> detailed] \in EP!Request
  BY <1>3 DEF EP!Request
<1>. QED  BY <1>1, <1>2, <1>4

LEMMA EvaluateIsCall ==
  ASSUME EInv, NEW c \in Caller, Evaluate(c)
  PROVE  EP!Call(c)
<1>1. \E r \in EP!Request : Evaluation!Enter(c, r)
  BY EvaluateFacts
<1>. QED
  BY <1>1 DEF EP!Call, Evaluation!Enter, EP!Enter, Evaluation!BufferLen, EP!BufferLen

LEMMA ContinueIsStep ==
  ASSUME NEW c \in Caller, Continue(c)
  PROVE  EP!Step(c)
BY DEF Continue, Evaluation!Step, EP!Step, Evaluation!EvalRule, EP!EvalRule,
       Evaluation!RulesDone, EP!RulesDone, Evaluation!ReturnVerdict, EP!ReturnVerdict,
       Evaluation!NextTerminal, EP!NextTerminal, Evaluation!ReturnNone, EP!ReturnNone,
       Evaluation!TerminalHolds, EP!TerminalHolds, Evaluation!Rules, EP!Rules,
       Evaluation!Terminals, EP!Terminals, Evaluation!TerminalIndices, EP!TerminalIndices

-----------------------------------------------------------------------------
LEMMA HeldInit == EngineInit => HeldComesFromOutput
BY DEF EngineInit, HeldComesFromOutput

LEMMA SharedInit == EngineInit => Shared
BY DEF EngineInit, Evaluation!Init, Shared

LEMMA OutputStays == UNCHANGED vars => Output' = Output
BY DEF vars, Output, RegistryOf

LEMMA HeldNext == EInv /\ [EngineNext]_engineVars => HeldComesFromOutput'
<1>. SUFFICES ASSUME EInv, [EngineNext]_engineVars PROVE HeldComesFromOutput'
  OBVIOUS
<1>1. CASE Build
  <2>1. stage # "ok" /\ reloaded = {} /\ reloaded' = {}
    BY <1>1, NothingAfterOk DEF Build, EInv, HeldComesFromOutput
  <2>. QED  BY <2>1 DEF HeldComesFromOutput
<1>2. CASE Reload
  <2>1. PICK rs \in Held, source \in Texts :
          LET read == ThereAndBack(rs, source)
          IN  Is(read, "ok") /\ reloaded' = reloaded \cup {read.ok}
    BY <1>2 DEF Reload
  <2>2. ThereAndBack(rs, source) = [ok |-> BP!Reloaded(Output)] /\ stage = "ok"
    BY HeldFacts, GoesThereAndBack
  <2>3. reloaded' \subseteq {BP!Reloaded(Output)}
    BY <2>1, <2>2 DEF EInv, HeldComesFromOutput
  <2>4. UNCHANGED vars /\ stage' = "ok"
    BY <1>2, <2>2 DEF Reload, vars
  <2>5. Output' = Output
    BY <2>4, OutputStays
  <2>6. BP!Reloaded(Output)' = BP!Reloaded(Output)
    BY <2>5 DEF BP!Reloaded
  <2>. QED  BY <2>3, <2>4, <2>6 DEF HeldComesFromOutput
<1>3. CASE UNCHANGED <<vars, reloaded>>
  <2>1. Output' = Output
    BY <1>3, OutputStays
  <2>2. BP!Reloaded(Output)' = BP!Reloaded(Output)
    BY <2>1 DEF BP!Reloaded
  <2>. QED  BY <1>3, <2>2 DEF EInv, HeldComesFromOutput, vars
<1>. QED
  BY <1>1, <1>2, <1>3 DEF EngineNext, engineVars, Evaluate, Continue

\* An evaluation begins.
LEMMA EvaluateShared ==
  ASSUME EInv, NEW c \in Caller, Evaluate(c)
  PROVE  Shared'
<1>1. PICK rs \in {Output, BP!Reloaded(Output)}, env \in Environments, detailed \in BOOLEAN :
        LET r == [ruleset |-> Tables(rs), ctx |-> Flatten(env), detailed |-> detailed]
        IN  /\ stage = "ok"
            /\ r \in EP!Request
            /\ Evaluation!Enter(c, r)
            /\ asked' = [asked EXCEPT ![c] = env]
  BY EvaluateFacts
<1>. DEFINE r == [ruleset |-> Tables(rs), ctx |-> Flatten(env), detailed |-> detailed]
<1>2. /\ r.ruleset \in {Tables(Output), Tables(BP!Reloaded(Output))}
      /\ r.ctx = Flatten(env)
  BY <1>1
<1>3. /\ request' = [request EXCEPT ![c] = r]
      /\ phase' = [phase EXCEPT ![c] = "rules"]
      /\ asked' = [asked EXCEPT ![c] = env]
      /\ r \in EP!Request /\ stage = "ok"
  BY <1>1 DEF Evaluation!Enter
<1>. HIDE DEF r
<1>4. UNCHANGED vars
  BY DEF Evaluate
<1>5. Output' = Output
  BY <1>4, OutputStays
<1>6. /\ Tables(Output)' = Tables(Output)
      /\ Tables(BP!Reloaded(Output))' = Tables(BP!Reloaded(Output))
  BY <1>5 DEF Tables, BP!Reloaded
<1>7. stage' = stage /\ field_registry' = field_registry
  BY <1>4 DEF vars
<1>8. /\ phase' \in [Caller -> {"idle", "rules", "terminals", "returned"}]
      /\ request' \in [Caller -> EP!Request \cup {Nothing}]
      /\ asked' \in [Caller -> Environments \cup {Nothing}]
  BY <1>3 DEF EInv, Shared
<1>9. ASSUME NEW d \in Caller, phase'[d] # "idle"
      PROVE  /\ asked'[d] \in Environments
             /\ request'[d].ruleset \in {Tables(Output), Tables(BP!Reloaded(Output))}
             /\ request'[d].ctx = Flatten(asked'[d])
  <2>1. CASE d = c
    BY <1>2, <1>3, <2>1 DEF EInv, Shared
  <2>2. CASE d # c
    <3>1. phase'[d] = phase[d] /\ asked'[d] = asked[d] /\ request'[d] = request[d]
      BY <1>3, <2>2 DEF EInv, Shared
    <3>. QED  BY <1>9, <3>1 DEF EInv, Shared
  <2>. QED  BY <2>1, <2>2
<1>. QED  BY <1>3, <1>6, <1>7, <1>8, <1>9 DEF Shared, Flatten

\* Nothing changes of the rule sets: an evaluation goes on, with the arguments
\* it has, or a rule set is saved and loaded.
LEMMA ContinueShared ==
  ASSUME EInv, UNCHANGED vars, UNCHANGED <<request, asked>>,
         \/ UNCHANGED phase
         \/ \E c \in Caller : \E ph \in {"terminals", "returned"} :
              phase[c] # "idle" /\ phase' = [phase EXCEPT ![c] = ph]
  PROVE  Shared'
<1>1. /\ phase' \in [Caller -> {"idle", "rules", "terminals", "returned"}]
      /\ \A d \in Caller : phase'[d] # "idle" => phase[d] # "idle"
  BY DEF EInv, Shared
<1>2. Output' = Output
  BY OutputStays
<1>3. /\ Tables(Output)' = Tables(Output)
      /\ Tables(BP!Reloaded(Output))' = Tables(BP!Reloaded(Output))
  BY <1>2 DEF Tables, BP!Reloaded
<1>4. stage' = stage /\ field_registry' = field_registry
  BY DEF vars
<1>. QED  BY <1>1, <1>3, <1>4 DEF EInv, Shared, Flatten

LEMMA SharedNext == EInv /\ [EngineNext]_engineVars => Shared'
<1>. SUFFICES ASSUME EInv, [EngineNext]_engineVars PROVE Shared'
  OBVIOUS
<1>1. CASE Build
  <2>1. \A c \in Caller : phase[c] = "idle"
    BY <1>1, NothingAfterOk DEF Build, EInv, Shared
  <2>. QED  BY <1>1, <2>1 DEF Build, EInv, Shared, evalVars
<1>2. CASE Reload \/ UNCHANGED engineVars
  <2>1. UNCHANGED <<vars, request, asked, phase>>
    BY <1>2 DEF Reload, engineVars, evalVars
  <2>. QED  BY <2>1, ContinueShared
<1>3. ASSUME NEW c \in Caller, Continue(c) PROVE Shared'
  <2>1. /\ UNCHANGED vars /\ UNCHANGED <<request, asked>>
        /\ \/ UNCHANGED phase
           \/ \E ph \in {"terminals", "returned"} :
                phase[c] # "idle" /\ phase' = [phase EXCEPT ![c] = ph]
    BY <1>3
    DEF Continue, Evaluation!Step, Evaluation!EvalRule, Evaluation!RulesDone,
        Evaluation!ReturnVerdict, Evaluation!NextTerminal, Evaluation!ReturnNone
  <2>. QED  BY <2>1, ContinueShared
<1>. QED  BY <1>1, <1>2, <1>3, EvaluateShared DEF EngineNext

\* All a program holds is what compile() has made, as it is or as it comes back
\* from bytes, however often it has been there; and while anything is being
\* evaluated, every call is on one of the two, with the fields its caller gave
\* in the order of the registry.
THEOREM SharedInvariance == EngineSpec => []EInv
<1>1. EngineInit => HeldComesFromOutput /\ Shared
  BY HeldInit, SharedInit
<1>2. IInv /\ FewRules /\ HeldComesFromOutput /\ Shared /\ [EngineNext]_engineVars
        => HeldComesFromOutput' /\ Shared'
  BY HeldNext, SharedNext DEF EInv
<1>3. EngineSpec => [](HeldComesFromOutput /\ Shared)
  BY <1>1, <1>2, EngineCompiles, Invariance, FewRulesInvariance, PTL DEF EngineSpec
<1>4. IInv /\ FewRules /\ (HeldComesFromOutput /\ Shared) => EInv
  BY DEF EInv
<1>. QED  BY <1>3, <1>4, EngineCompiles, Invariance, FewRulesInvariance, PTL

\* The evaluator's part of a step is a step of Evaluator on rule sets that may
\* be shared: all that is proved of it holds of the rule sets compile() makes
\* and from_bytes() returns.
THEOREM EngineEvaluates == EngineSpec => EP!Spec
<1>1. EngineInit => EP!Init
  BY DEF EngineInit, Evaluation!Init, EP!Init
<1>2. EInv /\ [EngineNext]_engineVars => [EP!Next]_EP!vars
  <2>. SUFFICES ASSUME EInv, [EngineNext]_engineVars
                PROVE  [EP!Next]_EP!vars
    OBVIOUS
  <2>1. CASE Build \/ Reload \/ UNCHANGED engineVars
    BY <2>1 DEF Build, Reload, engineVars, evalVars, EP!vars
  <2>2. ASSUME NEW c \in Caller, Evaluate(c) \/ Continue(c)
        PROVE  EP!Next
    BY <2>2, EvaluateIsCall, ContinueIsStep DEF EP!Next
  <2>. QED  BY <2>1, <2>2 DEF EngineNext
<1>. QED  BY <1>1, <1>2, SharedInvariance, PTL DEF EngineSpec, EP!Spec

\* Every thread, at any time, gets the one verdict the rules mean, by name, for
\* the fields it gave: for any rules compile() accepts, however they were
\* declared and sorted, whether the rule set has been saved and loaded, and
\* whatever the other threads ask.
THEOREM AnswersMeanRulesAlways == EngineSpec => []AnswersMeanRules
<1>1. ASSUME EInv, EP!IInv, NEW c \in Caller, phase[c] = "returned"
      PROVE  Meant(asked[c]) = {verdict[c]}
  <2>. DEFINE t == EP!Truth(c)
              rs == request[c].ruleset
              values == Flatten(asked[c])
  <2>1. /\ stage = "ok" /\ asked[c] \in Environments
        /\ rs \in {Tables(Output), Tables(BP!Reloaded(Output))} /\ request[c].ctx = values
    BY <1>1 DEF EInv, Shared
  <2>2. Compiled!Consistent(t, rs, values) /\ verdict[c] = Compiled!Verdict(rs, t)
    BY <1>1, <2>1, EvaluatorMayAssume, EP!ReturnedFacts, SameVocabulary
  <2>3. Output \in Saveable /\ values \in Vectors
    <3>1. Output \in Saveable /\ Queries!FlattenContext(Output, asked[c]) = values
      BY <1>1, <2>1, OutputIsSaveable DEF EInv
    <3>. QED  BY <2>1, <3>1, SaveableFacts
  <2>4. /\ Compiled!Consistent(t, Tables(Output), values)
        /\ verdict[c] = Compiled!Verdict(Tables(Output), t)
    BY <2>1, <2>2, <2>3, ReloadedDecides
  <2>5. Tables(Output) = ruleset
    BY DEF Output, Tables, ruleset
  <2>6. t \in [DOMAIN compiled_rules -> BOOLEAN]
    BY <2>4, <2>5 DEF Compiled!Consistent, ruleset
  <2>7. verdict[c] \in Decided(asked[c])
    BY <2>4, <2>5, <2>6 DEF Decided
  <2>. QED  BY <1>1, <2>1, <2>7, OneVerdict DEF EInv
<1>2. EInv /\ EP!IInv => AnswersMeanRules
  BY <1>1 DEF AnswersMeanRules
<1>3. EP!Spec => []EP!IInv
  BY EvaluatorMayAssume, EP!Invariance
<1>. QED  BY <1>2, <1>3, EngineEvaluates, SharedInvariance, PTL

\* Whatever compile() accepts can be saved and loaded, as often as one likes:
\* validation refuses none of it, and the queries tell no difference.
THEOREM NothingIsRefusedAlways == EngineSpec => []NothingIsRefused
<1>1. ASSUME EInv, NEW rs \in Held, NEW source \in Texts
      PROVE  LET read == ThereAndBack(rs, source)
             IN  /\ Is(read, "ok")
                 /\ Queries!ExecutionOrder(read.ok) = Queries!ExecutionOrder(rs)
                 /\ Queries!TerminalOrder(read.ok) = Queries!TerminalOrder(rs)
                 /\ \A n \in Name : Queries!DependenciesOf(read.ok, n) = Queries!DependenciesOf(rs, n)
  <2>1. rs \in Saveable
    BY <1>1, HeldFacts
  <2>2. ThereAndBack(rs, source) = [ok |-> BP!Reloaded(rs)]
    BY <2>1, GoesThereAndBack
  <2>. DEFINE call == [ruleset |-> rs, source |-> source]
  <2>3. call \in [ruleset : Saveable, source : Texts] /\ call.ruleset = rs
    BY <2>1
  <2>. HIDE DEF call
  <2>4. BP!Alike(BP!Reloaded(call.ruleset), call.ruleset)
    BY <2>3, CacheMayAssume, BP!ReloadedIsAlike
  <2>. QED  BY <2>2, <2>3, <2>4, SameQueries DEF BP!Alike, Is
<1>2. EInv => NothingIsRefused
  BY <1>1 DEF NothingIsRefused
<1>. QED  BY <1>2, SharedInvariance, PTL
=============================================================================
