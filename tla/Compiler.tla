------------------------------- MODULE Compiler -------------------------------
(***************************************************************************)
(* RuleSetBuilder (types/ruleset.rs) and compile() (compile.rs): calls of  *)
(* rule() and terminal() in any order, then the checks one after the       *)
(* other, the order of evaluation, the field registry, the translation of  *)
(* the conditions and the resolution of the terminals.  topological_sort   *)
(* and find_cycle are one step here, with the contract that TopoSort and   *)
(* CycleFinder establish step by step.                                     *)
(***************************************************************************)
EXTENDS RuleGraph, FiniteSetsExt

CONSTANTS
  RuleCalls,               \* what rule() may be called with
  TerminalCalls,           \* what terminal() may be called with
  MaxRules, MaxTerminals,  \* bounds on the number of those calls
  FieldPath,               \* the paths of fields
  FieldsOf(_),             \* the paths a condition mentions, in order
  Translate(_, _, _),      \* compile_expr: the translation, given the registry and the order
  CompiledCondition,       \* the conditions it yields
  Holds(_, _, _),          \* eval_expr
  Reads(_),                \* the positions a compiled condition refers to
  Means(_, _, _),          \* the truth of a condition, by field path and rule name
  Environments,            \* the values of the fields, by path
  NoError

Compiled == INSTANCE CompiledRules

ASSUME RuleCallsAreRules == RuleCalls \subseteq Rule
ASSUME TerminalCallsAreTerminals == TerminalCalls \subseteq Compiled!Terminal
ASSUME BoundsAreNat == MaxRules \in Nat /\ MaxTerminals \in Nat

ASSUME FieldsOfType == \A c \in Condition : FieldsOf(c) \in Seq(FieldPath)

\* a registry and an order that have all that a condition mentions
Covers(registry, order, c) ==
  Range(FieldsOf(c)) \subseteq Range(registry) /\ Range(RefsOf[c]) \subseteq Range(order)

\* a translated condition reads the positions of the rules it references
ASSUME TranslationRefers ==
  \A c \in Condition :
    \A registry \in SetToAllKPermutations(FieldPath), order \in SetToAllKPermutations(Name) :
      Covers(registry, order, c) =>
        LET t == Translate(c, registry, order)
        IN  /\ t \in CompiledCondition
            /\ \A i \in Reads(t) : i \in DOMAIN order /\ order[i] \in Range(RefsOf[c])

\* the truth of a condition depends on the rules it references alone
ASSUME MeaningIsLocal ==
  \A c \in Condition, env \in Environments :
    \A names \in SUBSET Name : Range(RefsOf[c]) \subseteq names =>
      \A truth \in [names -> BOOLEAN] :
        /\ Means(c, env, truth) \in BOOLEAN
        /\ Means(c, env, truth) = Means(c, env, [n \in Range(RefsOf[c]) |-> truth[n]])

\* a translated condition, on the values of the registered fields and of the
\* rules in order, has the truth of the condition
ASSUME TranslationKeepsMeaning ==
  \A c \in Condition, env \in Environments :
    \A registry \in SetToAllKPermutations(FieldPath), order \in SetToAllKPermutations(Name) :
      Covers(registry, order, c) =>
        \A truth \in [Range(order) -> BOOLEAN] :
          Holds(Translate(c, registry, order), [i \in DOMAIN registry |-> env[registry[i]]],
                [i \in DOMAIN order |-> truth[order[i]]]) = Means(c, env, truth)

CompileError ==
       [kind : {"MissingCondition"}, rule : Name]
  \cup [kind : {"DuplicateRule"}, name : Name]
  \cup [kind : {"NoTerminals"}]
  \cup [kind : {"UndefinedTerminal", "DuplicateTerminal"}, terminal : Name]
  \cup [kind : {"UndefinedRuleRef"}, rule : Name, reference : Name]
  \cup [kind : {"CyclicDependency"}, path : Seq(Name)]

ASSUME NoErrorIsNone == NoError \notin CompileError

VARIABLES
  stage,            \* "build", the step of compile() to be taken, "ok" or "err"
  rules,            \* RuleSetBuilder::rules
  declared,         \* RuleSetBuilder::terminals
  terminals,        \* the argument of compile(), sorted in place
  error,            \* the CompileError returned
  sorted_names,     \* execution order
  ruleAt,           \* the rule and
  fieldAt,          \*   the path in its condition that collect_fields is at
  field_registry,   \* the paths registered; a path's index is its position
  compiled_rules,
  terminal_indices

vars == <<stage, rules, declared, terminals, error, sorted_names, ruleAt, fieldAt,
          field_registry, compiled_rules, terminal_indices>>

Init ==
  /\ stage = "build"
  /\ rules = <<>>
  /\ declared = <<>>
  /\ terminals = <<>>
  /\ error = NoError
  /\ sorted_names = <<>>
  /\ ruleAt = 1
  /\ fieldAt = 1
  /\ field_registry = <<>>
  /\ compiled_rules = <<>>
  /\ terminal_indices = <<>>

cursor == <<ruleAt, fieldAt>>
built == <<sorted_names, cursor, field_registry, compiled_rules, terminal_indices>>

AddRule ==
  /\ stage = "build"
  /\ Len(rules) < MaxRules
  /\ \E r \in RuleCalls : rules' = Append(rules, r)
  /\ UNCHANGED <<stage, declared, terminals, error, built>>

AddTerminal ==
  /\ stage = "build"
  /\ Len(declared) < MaxTerminals
  /\ \E t \in TerminalCalls : declared' = Append(declared, t)
  /\ UNCHANGED <<stage, rules, terminals, error, built>>

\* the builder is consumed
Compile ==
  /\ stage = "build"
  /\ terminals' = declared
  /\ stage' = "missing_conditions"
  /\ UNCHANGED <<rules, declared, error, built>>

-----------------------------------------------------------------------------
(* The checks.  Each returns at its first offender. *)

Fail(e) == error' = e /\ stage' = "err"
Pass(to) == stage' = to /\ UNCHANGED error

Check(at, offenders, Error(_), to) ==
  /\ stage = at
  /\ IF offenders = {} THEN Pass(to) ELSE Fail(Error(Min(offenders)))
  /\ UNCHANGED <<rules, declared, terminals, built>>

Unconditioned == {i \in DOMAIN rules : rules[i].condition = NoCondition}

CheckMissingConditions ==
  Check("missing_conditions", Unconditioned,
        LAMBDA i : [kind |-> "MissingCondition", rule |-> rules[i].name], "duplicates")

Repeated == {i \in DOMAIN rules : \E j \in 1 .. i - 1 : rules[j].name = rules[i].name}

CheckDuplicates ==
  Check("duplicates", Repeated,
        LAMBDA i : [kind |-> "DuplicateRule", name |-> rules[i].name], "no_terminals")

CheckNoTerminals ==
  /\ stage = "no_terminals"
  /\ IF terminals = <<>> THEN Fail([kind |-> "NoTerminals"]) ELSE Pass("terminals")
  /\ UNCHANGED <<rules, declared, terminals, built>>

Unresolved == {k \in DOMAIN terminals : terminals[k].rule_name \notin NamesOf(rules)}

\* Faulty: only the first terminal is looked up.
CheckTerminals_First ==
  Check("terminals", Unresolved \cap {1},
        LAMBDA k : [kind |-> "UndefinedTerminal", terminal |-> terminals[k].rule_name],
        "duplicate_terminals")

CheckTerminals ==
  Check("terminals", Unresolved,
        LAMBDA k : [kind |-> "UndefinedTerminal", terminal |-> terminals[k].rule_name],
        "duplicate_terminals")

RepeatedTerminals ==
  {k \in DOMAIN terminals : \E m \in 1 .. k - 1 : terminals[m].rule_name = terminals[k].rule_name}

\* Faulty: a rule may be a terminal twice.
CheckDuplicateTerminals_Never ==
  Check("duplicate_terminals", {},
        LAMBDA k : [kind |-> "DuplicateTerminal", terminal |-> terminals[k].rule_name],
        "references")

CheckDuplicateTerminals ==
  Check("duplicate_terminals", RepeatedTerminals,
        LAMBDA k : [kind |-> "DuplicateTerminal", terminal |-> terminals[k].rule_name],
        "references")

UnknownRefs(i) == {k \in DOMAIN Refs(rules, i) : Refs(rules, i)[k] \notin NamesOf(rules)}

Dangling == {i \in DOMAIN rules : UnknownRefs(i) # {}}

CheckReferences ==
  Check("references", Dangling,
        LAMBDA i : [kind |-> "UndefinedRuleRef", rule |-> rules[i].name,
                    reference |-> Refs(rules, i)[Min(UnknownRefs(i))]], "sort")

-----------------------------------------------------------------------------
TopologicalSort ==
  /\ stage = "sort"
  /\ IF Acyclic(rules)
       THEN sorted_names' \in TopologicalOrders(rules) /\ Pass("fields")
       ELSE /\ \E path \in Cycles(rules) : Fail([kind |-> "CyclicDependency", path |-> path])
            /\ UNCHANGED sorted_names
  /\ UNCHANGED <<rules, declared, terminals, cursor, field_registry, compiled_rules,
                 terminal_indices>>

\* Faulty: a known path gets a new index.
Register_Anew(registry, path) == Append(registry, path)

\* FieldRegistry::register: a known path keeps its index.
Register(registry, path) ==
  IF Contains(registry, path) THEN registry ELSE Append(registry, path)

\* the fields collect_fields meets in rule i
Fields(i) == FieldsOf(rules[i].condition)

RegisterField ==
  /\ stage = "fields"
  /\ ruleAt <= Len(rules)
  /\ fieldAt <= Len(Fields(ruleAt))
  /\ field_registry' = Register(field_registry, Fields(ruleAt)[fieldAt])
  /\ fieldAt' = fieldAt + 1
  /\ UNCHANGED <<stage, rules, declared, terminals, error, sorted_names, ruleAt,
                 compiled_rules, terminal_indices>>

NextRule ==
  /\ stage = "fields"
  /\ ruleAt <= Len(rules)
  /\ fieldAt > Len(Fields(ruleAt))
  /\ ruleAt' = ruleAt + 1
  /\ fieldAt' = 1
  /\ UNCHANGED <<stage, rules, declared, terminals, error, sorted_names, field_registry,
                 compiled_rules, terminal_indices>>

FieldsDone ==
  /\ stage = "fields"
  /\ ruleAt > Len(rules)
  /\ Pass("compile_rules")
  /\ UNCHANGED <<rules, declared, terminals, built>>

\* rule_map[name]
RuleNamed(n) == rules[CHOOSE i \in DOMAIN rules : rules[i].name = n]

CompileRules ==
  /\ stage = "compile_rules"
  /\ compiled_rules' =
       [i \in DOMAIN sorted_names |->
          [name |-> sorted_names[i],
           condition |-> Translate(RuleNamed(sorted_names[i]).condition, field_registry,
                                   sorted_names),
           index |-> i]]
  /\ Pass("sort_terminals")
  /\ UNCHANGED <<rules, declared, terminals, sorted_names, cursor, field_registry,
                 terminal_indices>>

\* Faulty: equal priorities come out in reverse.
Before_Unstable(k, m) ==
  \/ terminals[k].priority < terminals[m].priority
  \/ terminals[k].priority = terminals[m].priority /\ k > m

\* k is to stand before m: sort_by_key is stable
Before(k, m) ==
  \/ terminals[k].priority < terminals[m].priority
  \/ terminals[k].priority = terminals[m].priority /\ k < m

SortTerminals ==
  /\ stage = "sort_terminals"
  /\ \E position \in Bijection(DOMAIN terminals, DOMAIN terminals) :
       /\ \A k, m \in DOMAIN terminals : k < m => Before(position[k], position[m])
       /\ terminals' = [k \in DOMAIN terminals |-> terminals[position[k]]]
  /\ Pass("resolve_terminals")
  /\ UNCHANGED <<rules, declared, built>>

\* Faulty: the terminals are resolved in the order they were declared in.
ResolveTerminals_AsDeclared ==
  /\ stage = "resolve_terminals"
  /\ terminal_indices' =
       [k \in DOMAIN declared |->
          CHOOSE i \in DOMAIN sorted_names : sorted_names[i] = declared[k].rule_name]
  /\ Pass("ok")
  /\ UNCHANGED <<rules, declared, terminals, sorted_names, cursor, field_registry,
                 compiled_rules>>

\* rule_indices[&t.rule_name]
ResolveTerminals ==
  /\ stage = "resolve_terminals"
  /\ terminal_indices' =
       [k \in DOMAIN terminals |->
          CHOOSE i \in DOMAIN sorted_names : sorted_names[i] = terminals[k].rule_name]
  /\ Pass("ok")
  /\ UNCHANGED <<rules, declared, terminals, sorted_names, cursor, field_registry,
                 compiled_rules>>

Next ==
  \/ AddRule \/ AddTerminal \/ Compile
  \/ CheckMissingConditions \/ CheckDuplicates \/ CheckNoTerminals \/ CheckTerminals
  \/ CheckDuplicateTerminals \/ CheckReferences
  \/ TopologicalSort \/ RegisterField \/ NextRule \/ FieldsDone \/ CompileRules
  \/ SortTerminals \/ ResolveTerminals

Spec == Init /\ [][Next]_vars

-----------------------------------------------------------------------------
(* Properties *)

\* A field has one index, however many conditions mention it: the values of a
\* caller's fields are stored by it (field_registry.rs:31).
TypeOK ==
  /\ rules \in Seq(Rule)
  /\ declared \in Seq(Compiled!Terminal)
  /\ terminals \in Seq(Compiled!Terminal)
  /\ error \in CompileError \cup {NoError}
  /\ sorted_names \in Seq(Name)
  /\ ruleAt \in 1 .. Len(rules) + 1
  /\ fieldAt \in Nat \ {0}
  /\ field_registry \in Seq(FieldPath) /\ IsInjective(field_registry)
  /\ compiled_rules \in Seq(Compiled!CompiledRule)
  /\ terminal_indices \in Seq(Nat)
  /\ stage = "err" <=> error # NoError

\* Every lookup finds its key, so no `.expect()` and no `map[key]' of the
\* compiler can panic: condition_of (compile.rs:65), rule_map[name] (36), the
\* registered fields (379-466), the rule indices (410 and 49).  Each rests on
\* a check several stages earlier.
LookupsSucceed ==
  /\ stage \in {"references", "sort", "fields", "compile_rules"} => AllConditioned(rules)
  /\ stage = "sort" => Sortable(rules)
  /\ stage = "compile_rules" =>
       /\ Range(sorted_names) \subseteq NamesOf(rules)
       /\ \A i \in DOMAIN rules :
            /\ Range(FieldsOf(rules[i].condition)) \subseteq Range(field_registry)
            /\ Range(Refs(rules, i)) \subseteq Range(sorted_names)
  /\ stage = "resolve_terminals" =>
       \A k \in DOMAIN terminals : terminals[k].rule_name \in Range(sorted_names)

\* What compile() accepts.
Valid ==
  /\ AllConditioned(rules) /\ NamesUnique(rules) /\ RefsKnown(rules) /\ Acyclic(rules)
  /\ declared # <<>>
  /\ \A k \in DOMAIN declared : declared[k].rule_name \in NamesOf(rules)
  /\ \A k, m \in DOMAIN declared : declared[k].rule_name = declared[m].rule_name => k = m

\* The error is one the rules really have.
Justified(e) ==
  CASE e.kind = "MissingCondition" ->
         \E i \in DOMAIN rules : rules[i].name = e.rule /\ rules[i].condition = NoCondition
    [] e.kind = "DuplicateRule" ->
         \E i, j \in DOMAIN rules : i # j /\ rules[i].name = e.name /\ rules[j].name = e.name
    [] e.kind = "NoTerminals" -> declared = <<>>
    [] e.kind = "UndefinedTerminal" ->
         /\ e.terminal \notin NamesOf(rules)
         /\ \E k \in DOMAIN declared : declared[k].rule_name = e.terminal
    [] e.kind = "DuplicateTerminal" ->
         \E k, m \in DOMAIN declared :
           k # m /\ declared[k].rule_name = e.terminal /\ declared[m].rule_name = e.terminal
    [] e.kind = "UndefinedRuleRef" ->
         e.reference \notin NamesOf(rules) /\ DependsOn(rules, e.rule, e.reference)
    [] e.kind = "CyclicDependency" -> IsCycle(e.path, rules)

\* compile() accepts exactly the valid rules, and an error names an offender
\* that exists.
OutcomeIsRight ==
  /\ stage = "ok" => Valid
  /\ stage = "err" => Justified(error) /\ ~Valid

ruleset ==
  [rules |-> compiled_rules, terminals |-> terminals, terminal_indices |-> terminal_indices]

\* What the evaluator takes for granted of a RuleSet: rules indexed by their
\* place and referring only to earlier ones, terminals in ascending priority,
\* terminal_indices parallel to them (evaluate.rs:89, 93 and 130).
OutputWellFormed ==
  stage = "ok" =>
    /\ Compiled!IndexedInOrder(ruleset)
    /\ Compiled!TerminalsResolved(ruleset)
    /\ Compiled!PrioritiesAscend(ruleset)
    /\ Compiled!RuleNamesUnique(ruleset)

\* flatten_context
Flatten(env) == [i \in DOMAIN field_registry |-> env[field_registry[i]]]

\* The verdicts the compiled rule set can give, and those the rules as written
\* mean: the first terminal by priority, then by the order of the terminal()
\* calls, among those true by name.
Decided(env) ==
  {Compiled!Verdict(ruleset, t) :
     t \in {u \in [DOMAIN compiled_rules -> BOOLEAN] :
              Compiled!Consistent(u, ruleset, Flatten(env))}}

FirstTrue(truth) ==
  LET true == {k \in DOMAIN declared : truth[declared[k].rule_name]}
  IN  {declared[k].rule_name : k \in {m \in true : \A l \in true :
         \/ declared[m].priority < declared[l].priority
         \/ declared[m].priority = declared[l].priority /\ m <= l}}

Meant(env) ==
  {FirstTrue(truth) :
     truth \in {t \in [NamesOf(rules) -> BOOLEAN] :
       \A i \in DOMAIN rules : t[rules[i].name] = Means(rules[i].condition, env, t)}}

\* Compilation preserves meaning: for any field values the compiled rule set
\* gives the one verdict the rules as written define, whatever order the rules
\* were declared in and whichever topological order came out of the HashMap.
SameVerdict ==
  stage = "ok" =>
    \A env \in Environments :
      LET verdicts == Decided(env)
      IN  verdicts = Meant(env) /\ \E v \in SUBSET Name : verdicts = {v}
=============================================================================
