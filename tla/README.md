# A TLA+ specification of ooroo

ooroo is a rule engine: named boolean rules over a context of typed values,
compiled once into an indexed, immutable `RuleSet` and then evaluated any number
of times, by any number of threads, without synchronisation. Rules are built by
calls or written in a small language, and a compiled rule set can be kept in a
file. This directory specifies the compiler, the evaluator, the two contexts,
the cache file, the language and the comparisons of values, checks the
specification with TLC on small instances and proves the central properties
with TLAPS for all of them.

Paths below are relative to the repository's root (`src/compile.rs`, ...).
Rule and field indices count from 1 in the specification, from 0 in the code.

## 1. The system

| Part | State it keeps | Operations | Correct when |
|---|---|---|---|
| `RuleSetBuilder` (`src/types/ruleset.rs`) | `rules`, `terminals`, in the order of the calls | `rule`, `terminal`, `compile` | every sequence of calls is accepted; `compile` consumes it |
| `compile` (`src/compile.rs`) | locals handed from stage to stage | six checks, sort, field registry, translation, terminals | exactly the valid rules are accepted; an error names a real offender; no `expect` fails; the output is well formed and means what the rules mean |
| `topological_sort` | `in_degree`, `dependents`, `queue`, `sorted` | Kahn's algorithm | the output is a topological order, or the graph has a cycle |
| `find_cycle`, `dfs` | `state`, `stack`, the Rust call stack | depth-first search | the path reported is a cycle |
| `FieldRegistry` | path -> index | `register`, `get`, `from_pairs` | indices are dense and stable |
| `RuleSet` | `rules`, `terminals`, `field_registry`, `terminal_indices` | `evaluate*`, `context_builder`, queries | immutable: safe to share |
| evaluator (`src/evaluate.rs`) | per call: `results`, the report's lists | `evaluate`, `evaluate_detailed` | the first true terminal by priority; both functions agree; no result is read before it is written |
| `Value` (`src/types/value.rs`) | none | `compare`, `like_match` | the order is coherent: no chain of comparisons leads back over a strict one; LIKE finds a way to lay the pattern over the value if there is one. (Where the comments say something else: the run `like_chars`, and the remarks in section 3.) |
| `Context` (`src/types/context.rs`) | nested maps | `set`, `insert`, `get` | the last `set` on a path is the one `get` returns, until a path inside or around it is set |
| `IndexedContext` (`src/types/indexed_context.rs`) | a vector parallel to the registry | `set`, `build` | evaluates like the `Context` built by the same calls, as long as no path lies inside another |
| binary cache (`src/serial.rs`) | bytes, a file | `encode`, `decode`, `to_binary_file`, `from_binary_file` | decoding gives back the rule set, or an error |
| DSL parser (`src/parse/`) | the input position | `parse` | precedence and names as documented |

How they interact: the builder (or the parser) hands lists of rules and
terminals to `compile`, which calls the sort and, when the sort falls short, the
cycle finder. Its output is only valid *together*: conditions refer to other
rules by position in the execution order, to fields by position in the registry,
and `terminal_indices` is parallel to the sorted `terminals`. The evaluator
trusts all of it and checks nothing. `evaluate` flattens a `Context` through the
registry, `evaluate_indexed` takes a vector built through it. `to_binary_file`
zips the vectors of a rule set and writes them; `from_binary_file`, in this
process or another one, validates what it finds before it rebuilds them.

What is hard here is, first, agreement at a distance: checks in one function that keep an `expect` in
another from failing, arrays parallel by construction, an order that comes out
of a `HashMap` and differs between runs, references repeated within one rule,
a search with marks that outlive the stack, a loop written twice; a grammar in
which a failed attempt either steps back or ends everything, and whose keywords
are recognised by their first letters; a matcher that forgets all choices but
the last; an order in which integers are rounded. Only the cache file has to do
with failure: it is written in place, while others may be reading or writing it
and may stop at any point. `PROJECT.json`
lists these hazards line by line with the properties that watch them.

## 2. The modules

| Module | Models | State and actions |
|---|---|---|
| `RuleGraph` | the dependency graph of a list of rules | no state: `Refs`, `DepsOf`, `Sortable`, `Acyclic`, `IsCycle`, `DependenciesPrecede`; and what a sort or a search may answer, `TopologicalOrders`, `Cycles` |
| `TopoSort` | `topological_sort` | the locals of the function; one action per iteration of each loop: `AddEdge`, `NextRule`, `SeedQueue`, `PopFront`, `Release`, `PushSorted`, `Finish` |
| `CycleFinder` | `find_cycle` and `dfs` | `active` and `cursor` are the activations of `dfs`, `stack` is its vector and `state` its marks: `StartAt`, `PassOver`, `GiveUp`, `Close`, `Descend`, `SkipDone`, `Leave`; `SortThenSearch` is the sort with the search behind it |
| `Variants` | enums | `Is`: the variant a value is of |
| `Like` | what `LIKE` asks | no state: `Matches`, a pattern laid over a value |
| `Values` | `Value`, `compare`, `like_match` | operators only |
| `Leaves` | the arms of `eval_expr` without conditions inside | operators only: `EvalLeaf` |
| `Expressions` | `Expr`, `CompiledExpr`, the walks of the compiler, `compile_expr`, the rest of `eval_expr` | operators only, and `Meaning`, a reference definition of what a condition says before anything is indexed |
| `Compiler` | `RuleSetBuilder` and `compile` | `stage` is the statement of `compile` to be executed; one action per stage, and one per field registered (`RegisterField`) |
| `CompiledRules` | `RuleSet` | no state: the shape of a rule set, what makes it well formed, and the `Verdict` it stands for |
| `Decision` | the promise of `evaluate*` | abstract specification: `Ask` and `Answer` |
| `ContextMap` | the promise of `Context` | abstract specification: a map from paths to values, `Set` |
| `Contexts` | `Context` and `ContextBuilder`, fed by the same calls | `data` (the nested maps, a function from the address of an entry, the segments that lead to it, to the entry), `values` (the vector), `registry`, and the history `calls`; `Set` starts a call, `WalkInto`, `InsertMap`, `ReplaceLeaf` and `InsertLeaf` are the calls of `insert_recursive`, `SetIndexed` is the same `set` on the builder |
| `Evaluator` | `evaluate`, `evaluate_detailed`, `evaluate_inner` | every variable is a function of the calling thread; one action per loop iteration: `Enter` (a call, on any rule set, context and entry point), `EvalRule`, `RulesDone`, `ReturnVerdict`, `NextTerminal`, `ReturnNone` |
| `ValueOrder` | fields compared with one another, through `EvalLeaf` | `field_values`; `Set` |
| `LikeMatcher` | `like_match_inner` | its locals; one action per turn of its loops: `TakeByte`, `MeetPercent`, `Backtrack`, `Fail`, `EndOfValue`, `SkipPercent`, `Finish` |
| `Engine` | the library as a program uses it: `Compiler`, `Serial` and `Evaluator` together | their variables, the rule sets that came back from bytes (`reloaded`) and what each thread `asked`; `Build` (the compiler's steps), `Reload` (`to_bytes`, then `from_bytes`), `Evaluate` (`flatten_context` and the call), `Continue` (the evaluator's steps) |
| `RuleSets` | the queries of `RuleSet` | no state: `DependenciesOf`, `Evaluate`, when two rule sets are `Alike`; what validation establishes of one (`Ordered`) and what an evaluation takes for granted (`Usable`) |
| `ConditionCodec` | a condition in `serial.rs` | operators only: `FlattenExpr`, `UnflattenExpr`, and the nodes `validate_expr` visits |
| `Serial` | the rest of `serial.rs` | no state: `RulesetToSerialized`, `Validate`, `SerializedToRuleset`, `Encode`, `Decode` |
| `BinaryCache` | `to_binary_file`, `from_binary_file` | `file`, what each `writer` has still to write, what each `reader` has read; `ToBinaryFile`, `WriteSome`, `Stop`, `FromBinaryFile`, `OpenFails`, `ReadSome`, `ReadEnd` |
| `Grammar` | `parse/grammar.rs`, and `Display` of conditions | no state: one operator per parser |
| `Parser` | a file of rules as it is written | `defs` and `body`, from which the text is made; `Type`, `Define` |

The recursive walks over a condition are operators of `Expressions` and
`ConditionCodec`; everything in a condition that is not recursive is in `Leaves` and
`Values`, which are proved about too (`Equals`, the equality of values, goes down
into lists and is a parameter there). The modules about whole rule sets (`CompiledRules`, `Decision`,
`Evaluator`, `Compiler`, `Engine`, `RuleSets`, `Serial`, `BinaryCache`) take them as parameters
(`Holds`, `Reads`, `Translate`, `Flatten`, ...), so that they can be proved about; the
`MC` modules give them those definitions, and what the proofs assume of a
parameter is a named `ASSUME`, which TLC evaluates on the conditions of the run.

Seams. `Compiler` instantiates `CompiledRules` to say what its output must satisfy
(`OutputWellFormed`); `Evaluator` assumes exactly that (`RuleSetsWellFormed`), and so
does `BinaryCache` of what is saved (`CallsSaveCompiled`). `Engine` hands the one's
output to the others, with nothing between them but `flatten_context`; that its
steps are then steps of `Evaluator` is a theorem (`EngineEvaluates`), and so is what
either assumes of a rule set (`EvaluatorMayAssume`, `CacheMayAssume` and
`OutputIsSaveable` of `CompilerProofs`). In `Compiler` the sort is a
single step: any of the `TopologicalOrders`, or an error with any of the `Cycles`.
That this is what `TopoSort` and `CycleFinder` answer is proved
(`AnswersAreTopologicalOrders`, `AnswersAreCycles`). It allows more orders than a
first-in-first-out queue can produce, so what holds of `Compiler` holds of the code.

Abstractions, all of data: names are model values; a float counts halves and NaN
is a variant of its own, with the precision of a float a parameter (`Mantissa`)
so that rounding happens at small numbers (`AsFloat` is the nearest float to an
integer of `-Limit .. Limit`, of two the even one, as `as f64` rounds); `Option` is a set of at most one
element; messages, timing and formatting are left out, except that of a
condition, which writes the language the parser reads. A short-circuited `&&`,
`||` or `AtLeast` is the connective itself: conditions have no effects.

A file is a sequence of cells, a header field, a rule or a vector each: what
matters of bytes is which are there and which are from another save. BLAKE3 is
injective and bincode exact. The text of a rule file is a sequence of atoms: a
keyword, a piece of an identifier, a digit, a mark or a blank. The code looks at
letters; so no atom but a keyword may begin with a keyword's letters, and the
name `notify` is the two atoms `not`, `ify`. A parser returns a value and a
position, or one of winnow's two errors, `Back` and `Cut`.

A definition called `X_Something`, commented *Faulty*, stands beside the action
`X` it is a wrong version of: a dropped guard, a missing reset, an off-by-one. No
specification uses it. With `X` replaced by it, TLC finds the property that
`PROJECT.json` pairs it with violated, which shows that the property can fail.

## 3. What TLC checks

| Run | Instance | Shows |
|---|---|---|
| `sort_and_search` | every graph of three rules with at most two references per rule, self and repeated references included, and seven of four rules; every seeding of the queue; the search after each sort, also a successful one | of the sort: in-degrees count pending references exactly (`DegreeCountsPending`), a rule is queued once, the output is a topological order, `Ok` and the error tell acyclic from cyclic, it ends; of the search: marks and stack agree, the path is a simple cycle, `Done` nodes lie on no cycle, the empty path only for acyclic graphs, it ends |
| `evaluator` | two threads, three rule sets of 3, 4 and 5 rules with `STACK_THRESHOLD` 4, three contexts (everything missing; an int against an equal float; NaN and a bool), plain and detailed calls | no result is read before it is written or changed after (`ResultsStand`), the report matches the results, all calls agree, and the loops implement `Decision` (`Decides`) |
| `compiler` | every sequence of up to three `rule` and two `terminal` calls out of nine and four, over seven conditions, `AtLeast` with 0 and with more than there are among them; four assignments of values to the two fields | a field has one index however often it is registered (`TypeOK`), no lookup can fail (`LookupsSucceed`), exactly the valid rules are accepted and errors are justified (`OutcomeIsRight`), the output is well formed (`OutputWellFormed`), and it means what the rules mean (`SameVerdict`); evaluates what the proofs assume of a condition (`TranslationRefers`, `MeaningIsLocal`, `TranslationKeepsMeaning`) |
| `contexts` | every sequence of up to four `set` calls over five paths (`a`, `a.b`, `a.c`, `a.b.c`, `b`) and two values, with two registries | the nested maps keep the last value set unless a path inside or around it was set later (`KeepsLastSet`, a refinement of `ContextMap`), and the nested and the indexed context differ in exactly the fields so superseded (`DifferOnlyByConflict`) |
| `contexts_agree` | the same; expected to fail | `EvaluationsAgree`, the comment at `tests/proptest_eval.rs:117`, does not hold without a condition on the paths: after `set("a", 1)` and `set("a.b", 1)` a rule on `a` holds for `evaluate_indexed` and not for `evaluate` |
| `values` | three fields, 25 values of all types, floats with a mantissa of two bits; 66 strings of up to five bytes, 138 patterns of up to five. The two have no state in common and take turns | no chain of comparisons leads back over a strict one, and none depends on the side a field stands on (`OrderIsCoherent`); the LIKE matcher finds a match if there is one (`ResultIsRight`) and never returns to where it was (`AlwaysAdvances`) |
| `like_chars` | those strings; expected to fail | `WildcardsAreCharacters`, the comment at `src/types/value.rs:83`: `_` is one byte, so a character of two bytes does not match it |
| `engine` | up to three rules that refer to one another, up to two terminals that may tie, rule sets saved and loaded at any time, also while they are evaluated; two environments; two threads, which are symmetric, `STACK_THRESHOLD` 2 | what a thread gets is the one verdict that the rules mean, by name, for the fields it gave (`AnswersMeanRules`); a cache of what was compiled is not refused and answers the queries alike (`NothingIsRefused`); evaluates what the proof assumes (`HoldsIsLocal`, `ConditionsComeBack`, `MeaningComesBack`, `TranslationRegistered`) |
| `binary_cache` | two writers, one reader, two saves of two rule sets whose parts could be mixed, over no file, files of other kinds and versions, damaged ones, eight well-formed ones that are not valid and four whose rules are not numbered by position | what is loaded means what was saved (`LoadedMeansSaved`), a completed save loads (`SettledFileLoads`), a save cut short is refused as short (`CrashLooksShort`), saving again tells whether the source has changed (`DigestTellsStaleness`), in whatever validation lets through, references lead to rules there are and below the number of their rule, terminals to rules there are, in order (`AcceptedIsOrdered`); evaluates what the proofs assume (`ConditionsComeBack`, `ReferencesSeen`, `MeaningComesBack`, `CallsSaveCompiled`, `DeliveredTyped`, `CutsAreOffsets`) |
| `binary_cache_numbers` | the same; expected to fail | `AcceptedIsNumbered`, the comment at `src/types/rule.rs:20`: `validate` does not compare the number a rule carries with its position, and the evaluator writes its results by the one while references and terminals read them by the other |
| `parser` | every condition of up to five words over `AND`, `OR`, `NOT`, parentheses and two names, with 33 leaves of every form, right and wrong, in every place; files of two definitions | a condition is accepted exactly when an ambiguous reference grammar derives it, with its one tree (`GroupsByPrecedence`); what `Display` writes is read back (`ParsedPrintsBack`); definitions do not run into one another (`DefinitionsCompose`) |
| `parser_names` | the same; expected to fail | `DefinedRulesCanBeReferenced`: a rule called `notify` can be defined, but a condition that names it is `NOT ify` |

Why the bounds are enough. Three rules and two references give self-loops,
two- and three-cycles, a cycle entered from outside, repeated references, a
dependency shared by two rules and disconnected parts; the graphs of four rules
add diamonds declared either way round, a chain of repeated references, two cycles
through one rule and a cycle behind a rule that is `Done`. The
code looks at one reference at a time, so a third reference adds length, not a
case. The rule sets of the evaluator lie below, at and above the threshold. The
terminals of the compiler tie, repeat, dangle and come in either order; its rules
lack a condition, repeat a name, dangle, reference themselves or close a cycle.
The paths of the contexts cover every way two paths can stand to each other:
equal, one step inside, two steps inside, beside, apart; four calls set a field,
supersede it from inside and from outside and set it again. Two threads suffice
for a model in which no step reads another thread's state; the proof covers any
number.

In `engine` two rules fit the array of fixed size and three do not, the terminals
are declared in an order they are not sorted in, and `y` may be registered before `x`;
one condition has an `Or` inside an `Or`, which comes back from bytes as another
tree. The environments are the fewest that tell the conditions apart.

With a mantissa of two bits (`Mantissa`) the integers 7 and 9 lie between floats,
as 2^53 + 1 does in the code, and three fields make every chain of two
comparisons. Five bytes hold three `%` with bytes between them, which is where a
matcher that remembers one could go wrong. `Limit` bounds the integers. The proofs
cover all lengths, precisions and bounds. A
system call may end at the offsets `Cuts`, inside the header, between rules and
between vectors, or at the end; one writer, its crash and a reader in between
need one save, a mixture needs two (`MaxSaves`). Five words (`MaxSize`) are two
operators with three operands, in any order and with parentheses or `NOT`, which
is what precedence and association are about; a leaf counts for `LeafSize`, so that
each stands alone, under `NOT`, in parentheses and on each side of an operator.
`MaxInt` and `MaxPriority` stand for 2^63 - 1 and 2^32 - 1: the leaves lie on
both sides of the former.

Fairness. `sort_and_search` assumes weak fairness of `SortThenSearch`: these
functions run on the caller's thread, take no lock and wait for nothing, so an
enabled step is taken. The other modules state no liveness: the loops of the
evaluator are bounded `for` loops, which end by their shape; a writer may stop;
nobody is obliged to call or to write a rule. That the matcher ends is `AlwaysAdvances`, a bounded variant.
`TopoSort`, `CycleFinder`, `LikeMatcher` and `Compiler` end, and `Contexts` and
`Parser` by their bounds (`MaxCalls`; `MaxSize`, `MaxDefs`), so
their runs (with `values`) do not check for deadlock, nor does that of `Engine`, in
which nothing follows a failed `compile`; that the first two end where they should
is `Terminates` and `SearchTerminates`. The evaluator and the users of a file never stop for good, and
their runs check for deadlock.

Remarks, on what the runs show and is easily overlooked. Equality between an
integer and a float is not transitive once integers are rounded, which
`OrderIsCoherent` leaves room for. Two different booleans compare by `Gt` and
`Lt`, true above false: the comment at `src/types/value.rs:23` says that `compare`
returns `None` then, the one at line 70 that the order is there and should not be
used; `Compare` does as the code does. `at_least 0` holds, and more than there are does
not, whichever of its two tests the loop of `AtLeast` returns from. A decoded rule
set has lost the digest; a caller has to keep the file, or to save again, to tell
whether it is stale. A rule may be called `rule`, and a definition may follow
another on the same line.

## 4. What TLAPS proves

For every value of the constants, from the assumptions declared in the modules:

* `TopoSortProofs`: `TypeCorrect`, `DegreeCountsPendingAlways`, `QueuedOnceAlways`,
  `DependenciesFirstAlways`, `OutcomeCorrectAlways`, assuming `RuleListsSortable`
  (the earlier checks of `compile` passed). The inductive invariant adds to the
  properties what relates the two loops: every entry of `dependents` is a
  reference and every reference already passed has its entry; a rule has degree
  zero exactly when it has entered the queue; the rule in hand references only
  rules of the output. `Release` is the heart: it removes one pair from the set
  of pending references, which the counter must lose and no other. For
  `OutcomeCorrect`, an order of all the rules makes the graph acyclic (take the
  member of a set that stands first), and a non-empty rest of rules that all have
  a pending reference is a set without a source, so the graph is cyclic; that
  the lengths decide is a counting argument on injective sequences.
  `AnswersAreTopologicalOrders` puts them together: what the sort returns is what
  the one-step sort of `Compiler` may choose.
* `CycleFinderProofs`: `TypeCorrect`, `MarksAgreeAlways`, `PathIsCycleAlways`,
  `DoneIsSafeAlways`, `EmptyOnlyIfAcyclicAlways`. The invariant says that the
  vector holds the nodes of the activations (`active = stack` of `SearchTypeOK`), that each
  suspended activation stands just behind the neighbour the next one is for
  (`Chained`), that everything else passed is `Done`, and that `Done` is closed
  under dependencies; `DoneIsSafe` then survives `Leave`, because the node that
  becomes `Done` depends only on `Done` nodes. `AnswersAreCycles`: for cyclic rules
  the search answers with a path that the failing sort of `Compiler` may choose.
* `CompilerProofs` (with `RuleGraphProofs`, facts on graphs): `TypeCorrect`,
  `LookupsSucceedAlways`, `OutcomeIsRightAlways`, `OutputWellFormedAlways`,
  `SameVerdictAlways`. The inductive invariant lists what each stage has established
  for the later ones: the checks passed, the order, the fields registered so far,
  the rules translated, the terminals sorted without changing the order of equals.
  Assumed of the conditions: their lists of references and fields have the right
  types; translating one turns the names it refers to into their positions
  (`TranslationRefers`), its meaning depends only on those (`MeaningIsLocal`), and the
  translation of one condition keeps its truth (`TranslationKeepsMeaning`). What is
  proved from that is the step to whole rule sets: evaluated one after another the
  rules have exactly one assignment of truth values (existence by going up the
  order, uniqueness by the first rule that differs), it is the same for the
  rules by name and for the compiled ones by position, and sorting the terminals
  stably keeps the winner. So the evaluator's assumption on rule sets is a theorem
  about the compiler.
* `EvaluatorProofs`: `TypeCorrect`, `ResultsStandAlways`, `ReportMatchesResultsAlways`,
  `AnswersAgreeAlways`, `TruthIsUnique` and `Implements` (`Spec => Decides`, the refinement of
  `Decision`). All that is assumed of a condition is `HoldsIsLocal`: it has a
  boolean value that depends only on the results at the positions it reads. The
  invariant is that of one call, for each caller: what is written stands, the
  terminals passed are false, and a verdict returned is the one `Verdict` names.
  `TruthIsUnique` (a least-counterexample argument over positions) is why the
  order of evaluation cannot matter. The report needs one more fact about the loop
  (`EvalRuleReported`): writing a result appends the rule at the place the count of
  true rules before it gives, and moves none of the others.
* `BinaryCacheProofs`: `CrashLooksShortAlways`, `SettledFileLoadsAlways`,
  `DigestTellsStalenessAlways`, `AcceptedIsOrderedAlways`, `NumberedIsUsableAlways`,
  `LoadedVouchedForAlways`, `LoadedMeansSavedAlways`, for any rule sets a compiler may yield, any number of writers and
  readers, and writes and reads cut anywhere. First about one file: decoding a
  payload gives back what was encoded (`PayloadComesBack`), a file cut short is
  taken for short (`DecodePart`), the field registry comes back (`RegistryComesBack`),
  what is saved passes validation (`SavedIsValid`), what comes back answers like what
  was saved (`ReloadedIsAlike`) and saves alike (`ReloadedSavesAlike`), and what passes
  validation is in order (`ValidIsOrdered`). Then about the place: without an
  overlap the file is the first part of the last save, as far as its one writer has
  come (`Undisturbed`); and whoever overlaps, the hash in the header, in the file and
  in what each reader has read of it, is of a save, or all of the header is of a
  file found (`HashesKnown`). That is why a mixture is never accepted: the payload must
  be the one that a single call hashed. Assumed: flattening one condition keeps
  its references and its meaning and is undone by saving again
  (`ConditionsComeBack`, `MeaningComesBack`), `validate_expr` meets every reference
  (`ReferencesSeen`), the rule sets saved are compiled ones, and of foreign
  files no more than the types bincode decodes to (`DeliveredTyped`). So a rule set
  that is accepted is in order by the numbers its rules carry; if these are their
  positions, which `validate` leaves open, it has all that an evaluation takes for
  granted (`NumberedIsUsableAlways`). `LoadedMeansSavedAlways` has a hypothesis the run does not
  have, `FoundUndamaged`: no file found in the place has a header and not the payload
  it announces (such a file could be completed by a save that happens to write what
  is missing). The run has a damaged file; `LoadedVouchedForAlways` covers it.
* `ContextsProofs`: `TypeCorrect`, `DifferOnlyByConflictAlways` and `Implements`
  (`Spec => KeepsLastSet`, the refinement of `ContextMap`), for any paths, values and
  registries, assuming that a path has a segment and a registry lists no path
  twice. A call counts from its start: `Promised` is what `get` will return when
  the walk is done, a step that begins a call is a `Set` of `ContextMap` by it, and
  each step of the walk has to leave it as it is. The invariant is that the entries
  form a tree, that the maps walked through are still there (`Walked`), and
  `DifferOnlyByConflict` of what is promised (`DifferOnlyByPromise`). A leaf dropped on
  the way, and the entries below the path dropped at its end, are exactly what the
  call's path conflicts with.
* `ValueProofs`, of `LikeMatcher`: `Invariance`, `MatcherIsRight` (`ResultIsRight`),
  `LoopAdvances` (`AlwaysAdvances`) and `IndicesInBounds`, assuming only that strings
  are sequences of bytes. A match is a function that lays the pattern over the
  value. The invariant: since the last `%` every byte of the pattern has taken one
  of the value (`Anchored`); if that `%` can take more and still match, then so can
  the rest of the pattern from that much further on (`Shifted`); hence there is a
  match exactly if there is one from here or one with the last `%` taking more
  (`Undecided`). `Shifted` is why the earlier `%` may be forgotten: at a new one,
  whatever an old one could still take the new one can take instead. What the
  matcher decides is `Matches`, which is also what the evaluator's `EvalLeaf` asks.
* `ValueProofs`, of `ValueOrder`: `OrderIsCoherentAlways`, for every precision of a float
  (`FloatsAreBounded`), any values (`SamplesAreValues`) and any symmetric equality of
  lists (`EqualityIsSymmetric`). The nearest float exists and rounding to it is
  monotone (`AsFloatIsMonotone`); the comparisons of one kind of values are strict
  orders, for strings by the first byte that differs (`CmpStringIsLexicographic`), and
  values of two kinds do not compare (`OfOneKind`); what rounding can do to a chain
  of comparisons is to make a strict step equal, and never to turn one round
  (`OrderChains`).
* `CompilerProofs`, of `Engine`: `EngineCompiles` and `EngineEvaluates`, the steps of the
  whole are steps of `Compiler` and of `Evaluator`, for the rule sets that may come
  out (`Shareable`). `SharedInvariance`: what a program holds is the rule set compiled
  or that one as it comes back from bytes, since another round changes nothing
  (`ReloadedIsSaveable`); and every call that is running is on one of the two, with
  the fields its caller gave in the order of its registry. `AnswersMeanRulesAlways`
  brings the parts together: the evaluator's answer is the verdict of an assignment
  consistent with the rules it was given (`ReturnedFacts`), for those that came back
  this is an assignment of those compiled (`ReloadedDecides`), there is one such
  verdict, and it is what the rules mean by name (`OneVerdict`).
  `NothingIsRefusedAlways`: what was compiled passes validation (by `GoesThereAndBack`
  of what `OutputIsSaveable` says can be saved). Nothing is assumed of rule sets: what
  `EvaluatorProofs` and `BinaryCacheProofs` assume of them is proved of what `compile`
  makes. Assumed is what `Compiler` assumes of conditions and, of the same conditions,
  what `Evaluator` and `BinaryCache` do (`HoldsIsLocal`; `ConditionsComeBack` and
  `MeaningComesBack`), and that a translated condition has the indices of registered
  fields (`TranslationRegistered`).

Only model-checked: liveness (`Terminates`, `SearchTerminates`), which needs fairness and
`ENABLED`; and what the recursive definitions of `Expressions`, `ConditionCodec`,
`Grammar` and `Parser` compute: the three properties of the parser
(`GroupsByPrecedence`, `ParsedPrintsBack`, `DefinitionsCompose`), and the assumptions on
conditions that the proofs of the compiler, of the engine and of the cache start
from. Induction over data is out of the prover's reach.

## 5. What is not modelled

Out of scope: the fluent constructors of `Expr`, which only build values; the
messages of the error types, with the positions in a parse error; the clock in
`EvaluationReport`; the benchmarks and examples. The stack depth of the recursive
walks is not modelled: a deep enough condition or chain of rules would exhaust
the thread's stack. Of the cache, the encoding inside a payload (bincode) and
collisions of the hash. What an evaluation of an accepted rule set does that is not
numbered by position (the run `binary_cache_numbers`; no file this program writes
is like that) is not followed further: `Evaluator` assumes compiled rule sets.

`ParsedPrintsBack` leaves out what `Display` cannot write (`Printable`): it does not
escape quotes and backslashes, prints a float without a fraction like an integer,
and an `AT_LEAST` of no conditions with a comma too many. The precision of a float
in the text, `-0.0`, and `\r` among the blanks are left out.

## 6. Plan

Every component but the error type, the benchmarks and the examples is
modelled; all of them but the parser have proofs. What is left:

1. The parser in `Engine`: rules parsed from a text and evaluated like the ones
   built. The meaning of a text has to be defined on what `Parser` types.
2. `LoadedMeansSaved` without `FoundUndamaged`. It is false as it stands, if a save
   happens to write just what a damaged file lacks of what its header announces;
   what can be said is that what is loaded was then meant by whoever wrote that
   header (`LoadedVouchedForAlways`).

## 7. Running it

    tlc -workers 2 -config MCTopoSort.cfg MCTopoSort      # likewise the others
    tlapm TopoSortProofs.tla                              # likewise the others
