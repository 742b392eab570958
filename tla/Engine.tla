--------------------------------- MODULE Engine ---------------------------------
(***************************************************************************)
(* The library as a program meets it: rules are built and compiled; the    *)
(* rule set that comes out can be turned into bytes and read back; and any *)
(* number of threads evaluate what the program holds while the others do.  *)
(* Compiler, Serial and Evaluator, with nothing between them but the       *)
(* methods of RuleSet.                                                     *)
(***************************************************************************)
EXTENDS Compiler, Variants

CONSTANTS
  Caller,           \* the threads
  STACK_THRESHOLD,  \* rule sets up to this long evaluate in a fixed-size array
  Nothing,          \* a caller has made no call, or a call has not returned
  RefIndices(_),    \* collect_rule_ref_indices
  ToNary(_),        \* flatten_expr
  FromNary(_),      \* unflatten_expr
  Visited(_),       \* the conditions validate_expr visits
  MAGIC, FORMAT_VERSION,
  Sources           \* texts a rule set may have been compiled from

ASSUME ThresholdIsNat == STACK_THRESHOLD \in Nat

\* the field values an evaluation is given, for any registry
Vectors ==
  {[i \in DOMAIN registry |-> env[registry[i]]] :
     registry \in SetToAllKPermutations(FieldPath), env \in Environments}

\* eval_expr indexes `results' at the positions of its RuleRefs and nowhere
\* else, in a buffer that may be longer than the rules.
ASSUME HoldsIsLocal ==
  \A condition \in CompiledCondition, values \in Vectors :
    \A len \in 0 .. MaxRules + STACK_THRESHOLD : \A r \in [1 .. len -> BOOLEAN] :
      Reads(condition) \subseteq 1 .. len =>
        /\ Holds(condition, values, r) \in BOOLEAN
        /\ Holds(condition, values, r) = Holds(condition, values, [j \in Reads(condition) |-> r[j]])

Codec == INSTANCE Serial WITH Flatten <- ToNary, Unflatten <- FromNary, Nodes <- Visited

\* The n-ary form has the references of the condition and no others, and its
\* way back and forth again changes nothing.
ASSUME ConditionsComeBack ==
  \A c \in CompiledCondition :
    LET s == ToNary(c)
    IN  /\ FromNary(s) \in CompiledCondition
        /\ ToNary(FromNary(s)) = s
        /\ RefIndices(FromNary(s)) = RefIndices(c)
        /\ Range(RefIndices(c)) = Reads(c) /\ Reads(c) \subseteq Nat \ {0}
        /\ {n.index : n \in {m \in Visited(s) : m.op = "RuleRef"}} = Reads(c)
        /\ \A n \in Visited(s) : n.op \in {"And", "Or"} => n.children # <<>>

\* && and || are associative.
ASSUME MeaningComesBack ==
  \A c \in CompiledCondition, values \in Vectors :
    \A len \in 0 .. MaxRules : \A r \in [1 .. len -> BOOLEAN] :
      Reads(c) \subseteq 1 .. len => Holds(FromNary(ToNary(c)), values, r) = Holds(c, values, r)

\* a translated condition has the indices of registered fields
ASSUME TranslationRegistered ==
  \A c \in Condition :
    \A registry \in SetToAllKPermutations(FieldPath), order \in SetToAllKPermutations(Name) :
      Covers(registry, order, c) =>
        \A n \in Visited(ToNary(Translate(c, registry, order))) :
          Codec!SlotsOf(n) \subseteq DOMAIN registry

ASSUME NothingIsNone ==
  /\ \A names \in SUBSET Name : names # Nothing
  /\ Nothing \notin [ruleset : Compiled!RuleSet, ctx : Vectors, detailed : BOOLEAN]
  /\ Nothing \notin [ruleset : Compiled!RuleSet, ctx : Vectors]

VARIABLES
  reloaded,  \* the rule sets from_bytes has returned
  phase, request, results, evalAt, terminalAt, evaluation_order, evaluated, verdict,
             \* of Evaluator; evalAt is its ruleAt
  asked      \* the environment of each caller's last call, before it was flattened

evalVars == <<phase, request, results, evalAt, terminalAt, evaluation_order, evaluated, verdict>>

engineVars == <<vars, reloaded, evalVars, asked>>

-----------------------------------------------------------------------------
(* Rule sets *)

\* a FieldRegistry
RegistryOf(registry) ==
  [paths |-> [p \in Range(registry) |-> CHOOSE i \in DOMAIN registry : registry[i] = p],
   len   |-> Len(registry)]

\* the RuleSet that compile() returns
Output ==
  [rules |-> compiled_rules, terminals |-> terminals, terminal_indices |-> terminal_indices,
   field_registry |-> RegistryOf(field_registry)]

\* the rule sets the program has
Held == (IF stage = "ok" THEN {Output} ELSE {}) \cup reloaded

\* the fields of a RuleSet that the evaluator is given
Tables(rs) ==
  [rules |-> rs.rules, terminals |-> rs.terminals, terminal_indices |-> rs.terminal_indices]

\* Of a rule set, nothing is used in an evaluation but this.
Shareable ==
  {rs \in Compiled!RuleSet :
     /\ Len(rs.rules) <= MaxRules
     /\ Compiled!IndexedInOrder(rs) /\ Compiled!TerminalsResolved(rs)
     /\ Compiled!PrioritiesAscend(rs) /\ Compiled!RuleNamesUnique(rs)}

Evaluation ==
  INSTANCE Evaluator WITH RuleSets <- Shareable, Contexts <- Vectors, ruleAt <- evalAt

Queries == INSTANCE RuleSets WITH Contexts <- Environments, Refs <- RefIndices

-----------------------------------------------------------------------------
EngineInit ==
  /\ Init
  /\ Evaluation!Init
  /\ reloaded = {}
  /\ asked = [c \in Caller |-> Nothing]

\* RuleSetBuilder and compile(): one thread, that has the rules to itself
Build == Next /\ UNCHANGED <<reloaded, evalVars, asked>>

\* Option<&str>: the set of the texts given
Texts == {{}} \cup {{s} : s \in Sources}

\* from_bytes(&rs.to_bytes(source)), in this program or another one
ThereAndBack(rs, source) == Codec!Decode(Codec!Encode(rs, source))

Reload ==
  /\ \E rs \in Held, source \in Texts :
       LET read == ThereAndBack(rs, source)
       IN  Is(read, "ok") /\ reloaded' = reloaded \cup {read.ok}
  /\ UNCHANGED <<vars, evalVars, asked>>

\* Faulty: the fields are flattened in the order of the paths in the first
\* rule, not of the registry.
Evaluate_Unregistered(c) ==
  /\ \E rs \in Held, env \in Environments, detailed \in BOOLEAN :
       /\ Evaluation!Enter(c, [ruleset |-> Tables(rs), detailed |-> detailed,
                               ctx |-> [i \in DOMAIN Fields(1) |-> env[Fields(1)[i]]]])
       /\ asked' = [asked EXCEPT ![c] = env]
  /\ UNCHANGED <<vars, reloaded>>

\* RuleSet::evaluate and evaluate_detailed: flatten_context, then the loops
Evaluate(c) ==
  /\ \E rs \in Held, env \in Environments, detailed \in BOOLEAN :
       /\ Evaluation!Enter(c, [ruleset |-> Tables(rs), detailed |-> detailed,
                               ctx |-> Queries!FlattenContext(rs, env)])
       /\ asked' = [asked EXCEPT ![c] = env]
  /\ UNCHANGED <<vars, reloaded>>

Continue(c) == Evaluation!Step(c) /\ UNCHANGED <<vars, reloaded, asked>>

EngineNext == Build \/ Reload \/ \E c \in Caller : Evaluate(c) \/ Continue(c)

EngineSpec == EngineInit /\ [][EngineNext]_engineVars

-----------------------------------------------------------------------------
(* Properties *)

\* From the rules as they were written to the answer a thread gets: it is the
\* one verdict that the rules mean, by name, for the fields the thread gave,
\* whatever order the rules and terminals were declared in, whichever
\* topological order came out, however often the rule set has been saved and
\* loaded, by either entry point (evaluate.rs:61-75 and 88-99) and whatever
\* the other threads are asking.
AnswersMeanRules ==
  \A c \in Caller : phase[c] = "returned" => Meant(asked[c]) = {verdict[c]}

\* What compile() makes, validation accepts (serial.rs:554-736), and what comes
\* back answers the queries alike and can be saved again.
NothingIsRefused ==
  \A rs \in Held, source \in Texts :
    LET read == ThereAndBack(rs, source)
    IN  /\ Is(read, "ok")
        /\ Queries!ExecutionOrder(read.ok) = Queries!ExecutionOrder(rs)
        /\ Queries!TerminalOrder(read.ok) = Queries!TerminalOrder(rs)
        /\ \A n \in Name : Queries!DependenciesOf(read.ok, n) = Queries!DependenciesOf(rs, n)
=============================================================================
