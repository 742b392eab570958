------------------------------- MODULE Evaluator -------------------------------
(***************************************************************************)
(* evaluate, evaluate_detailed and evaluate_inner (evaluate.rs), called by *)
(* any number of threads on rule sets they share: one step per iteration   *)
(* of the loop over the rules and of the loop over the terminals, with the *)
(* buffer of results local to each call.                                   *)
(***************************************************************************)
EXTENDS CompiledRules, SequencesExt

CONSTANTS
  RuleSets,         \* the rule sets the program holds
  Contexts,         \* the vectors of field values an evaluation is given
  Caller,           \* the threads that share the rule sets
  STACK_THRESHOLD,  \* rule sets up to this long evaluate in a fixed-size array
  Nothing           \* a caller has made no call, or a call has not returned

ASSUME ThresholdIsNat == STACK_THRESHOLD \in Nat

\* What compile() hands over (OutputWellFormed of Compiler).
ASSUME RuleSetsWellFormed ==
  \A rs \in RuleSets :
    /\ rs \in RuleSet
    /\ IndexedInOrder(rs) /\ TerminalsResolved(rs)
    /\ PrioritiesAscend(rs) /\ RuleNamesUnique(rs)

\* the length of the `results' an evaluation of rs works on
BufferLen(rs) ==
  IF Len(rs.rules) <= STACK_THRESHOLD THEN STACK_THRESHOLD ELSE Len(rs.rules)

\* eval_expr indexes `results` at the positions of its RuleRefs and nowhere else.
ASSUME HoldsIsLocal ==
  \A rs \in RuleSets, ctx \in Contexts : \A i \in DOMAIN rs.rules :
    LET condition == rs.rules[i].condition
    IN  \A r \in [1 .. Len(rs.rules) -> BOOLEAN] \cup [1 .. BufferLen(rs) -> BOOLEAN] :
          /\ Holds(condition, ctx, r) \in BOOLEAN
          /\ Holds(condition, ctx, r)
               = Holds(condition, ctx, [j \in Reads(condition) |-> r[j]])

\* evaluate and evaluate_detailed are told apart by `detailed'.
Request == [ruleset : RuleSets, ctx : Contexts, detailed : BOOLEAN]

ASSUME NothingIsNone ==
  /\ \A names \in SUBSET Name : names # Nothing
  /\ Nothing \notin Request
  /\ Nothing \notin [ruleset : RuleSets, ctx : Contexts]

VARIABLES
  phase,             \* "idle", the loop the call is in, or "returned"
  request,           \* the arguments of the call
  results,           \* results[c][i]: rule i, false until it is written
  ruleAt,            \* position of the loop over the rules
  terminalAt,        \* position of the loop over the terminals
  evaluation_order,  \* EvaluationReport::evaluation_order so far
  evaluated,         \* EvaluationReport::evaluated so far
  verdict            \* {}: no terminal is true; {name}: Some(Verdict)

vars == <<phase, request, results, ruleAt, terminalAt, evaluation_order,
          evaluated, verdict>>

Init ==
  /\ phase = [c \in Caller |-> "idle"]
  /\ request = [c \in Caller |-> Nothing]
  /\ results = [c \in Caller |-> <<>>]
  /\ ruleAt = [c \in Caller |-> 1]
  /\ terminalAt = [c \in Caller |-> 1]
  /\ evaluation_order = [c \in Caller |-> <<>>]
  /\ evaluated = [c \in Caller |-> <<>>]
  /\ verdict = [c \in Caller |-> Nothing]

\* Faulty: the buffer has the fixed size, however many rules there are.
Enter_FixedBuffer(c, r) ==
  /\ phase[c] \in {"idle", "returned"}
  /\ request' = [request EXCEPT ![c] = r]
  /\ results' = [results EXCEPT ![c] = [i \in 1 .. STACK_THRESHOLD |-> FALSE]]
  /\ phase' = [phase EXCEPT ![c] = "rules"]
  /\ ruleAt' = [ruleAt EXCEPT ![c] = 1]
  /\ terminalAt' = [terminalAt EXCEPT ![c] = 1]
  /\ evaluation_order' = [evaluation_order EXCEPT ![c] = <<>>]
  /\ evaluated' = [evaluated EXCEPT ![c] = <<>>]
  /\ verdict' = [verdict EXCEPT ![c] = Nothing]

\* the call c makes with the arguments r
Enter(c, r) ==
  /\ phase[c] \in {"idle", "returned"}
  /\ request' = [request EXCEPT ![c] = r]
  /\ results' = [results EXCEPT ![c] = [i \in 1 .. BufferLen(r.ruleset) |-> FALSE]]
  /\ phase' = [phase EXCEPT ![c] = "rules"]
  /\ ruleAt' = [ruleAt EXCEPT ![c] = 1]
  /\ terminalAt' = [terminalAt EXCEPT ![c] = 1]
  /\ evaluation_order' = [evaluation_order EXCEPT ![c] = <<>>]
  /\ evaluated' = [evaluated EXCEPT ![c] = <<>>]
  /\ verdict' = [verdict EXCEPT ![c] = Nothing]

Call(c) == \E r \in Request : Enter(c, r)

Rules(c) == request[c].ruleset.rules
Terminals(c) == request[c].ruleset.terminals
TerminalIndices(c) == request[c].ruleset.terminal_indices

\* Faulty: once the first terminal is true the remaining rules are skipped.
EvalRule_ShortCircuit(c) ==
  /\ phase[c] = "rules"
  /\ ruleAt[c] <= Len(Rules(c))
  /\ results' = IF results[c][TerminalIndices(c)[1]] THEN results
                ELSE [results EXCEPT ![c] = [@ EXCEPT ![Rules(c)[ruleAt[c]].index] =
                        Holds(Rules(c)[ruleAt[c]].condition, request[c].ctx, results[c])]]
  /\ ruleAt' = [ruleAt EXCEPT ![c] = @ + 1]
  /\ UNCHANGED <<phase, request, terminalAt, evaluation_order, evaluated, verdict>>

\* Faulty: the report looks at the result of the rule before it is written.
EvalRule_ReportsFirst(c) ==
  /\ phase[c] = "rules"
  /\ ruleAt[c] <= Len(Rules(c))
  /\ LET rule == Rules(c)[ruleAt[c]]
         held == Holds(rule.condition, request[c].ctx, results[c])
     IN  /\ results' = [results EXCEPT ![c] = [@ EXCEPT ![rule.index] = held]]
         /\ IF request[c].detailed
              THEN /\ evaluation_order' = [evaluation_order EXCEPT ![c] = Append(@, rule.name)]
                   /\ evaluated' = IF results[c][rule.index]
                                     THEN [evaluated EXCEPT ![c] = Append(@, rule.name)]
                                     ELSE evaluated
              ELSE UNCHANGED <<evaluation_order, evaluated>>
  /\ ruleAt' = [ruleAt EXCEPT ![c] = @ + 1]
  /\ UNCHANGED <<phase, request, terminalAt, verdict>>

\* results[rule.index] = eval_expr(&rule.condition, field_values, results)
EvalRule(c) ==
  /\ phase[c] = "rules"
  /\ ruleAt[c] <= Len(Rules(c))
  /\ LET rule == Rules(c)[ruleAt[c]]
         held == Holds(rule.condition, request[c].ctx, results[c])
     IN  /\ results' = [results EXCEPT ![c] = [@ EXCEPT ![rule.index] = held]]
         /\ IF request[c].detailed
              THEN /\ evaluation_order' = [evaluation_order EXCEPT ![c] = Append(@, rule.name)]
                   /\ evaluated' = IF held
                                     THEN [evaluated EXCEPT ![c] = Append(@, rule.name)]
                                     ELSE evaluated
              ELSE UNCHANGED <<evaluation_order, evaluated>>
  /\ ruleAt' = [ruleAt EXCEPT ![c] = @ + 1]
  /\ UNCHANGED <<phase, request, terminalAt, verdict>>

RulesDone(c) ==
  /\ phase[c] = "rules"
  /\ ruleAt[c] > Len(Rules(c))
  /\ phase' = [phase EXCEPT ![c] = "terminals"]
  /\ UNCHANGED <<request, results, ruleAt, terminalAt, evaluation_order, evaluated, verdict>>

TerminalHolds(c) == results[c][TerminalIndices(c)[terminalAt[c]]]

\* Faulty: without the `break', a report ends with the last true terminal.
ReturnVerdict_NoBreak(c) ==
  /\ phase[c] = "terminals"
  /\ terminalAt[c] <= Len(Terminals(c))
  /\ TerminalHolds(c)
  /\ \E k \in terminalAt[c] .. Len(Terminals(c)) :
       /\ results[c][TerminalIndices(c)[k]]
       /\ request[c].detailed =>
            \A m \in k + 1 .. Len(Terminals(c)) : ~results[c][TerminalIndices(c)[m]]
       /\ ~request[c].detailed => k = terminalAt[c]
       /\ verdict' = [verdict EXCEPT ![c] = {Terminals(c)[k].rule_name}]
  /\ phase' = [phase EXCEPT ![c] = "returned"]
  /\ UNCHANGED <<request, results, ruleAt, terminalAt, evaluation_order, evaluated>>

\* Faulty: the verdict is named for the rule at the terminal's place.
ReturnVerdict_RuleAtPlace(c) ==
  /\ phase[c] = "terminals"
  /\ terminalAt[c] <= Len(Terminals(c))
  /\ TerminalHolds(c)
  /\ verdict' = [verdict EXCEPT ![c] = {Rules(c)[terminalAt[c]].name}]
  /\ phase' = [phase EXCEPT ![c] = "returned"]
  /\ UNCHANGED <<request, results, ruleAt, terminalAt, evaluation_order, evaluated>>

\* the first terminal, in priority order, whose rule is true
ReturnVerdict(c) ==
  /\ phase[c] = "terminals"
  /\ terminalAt[c] <= Len(Terminals(c))
  /\ TerminalHolds(c)
  /\ verdict' = [verdict EXCEPT ![c] = {Terminals(c)[terminalAt[c]].rule_name}]
  /\ phase' = [phase EXCEPT ![c] = "returned"]
  /\ UNCHANGED <<request, results, ruleAt, terminalAt, evaluation_order, evaluated>>

NextTerminal(c) ==
  /\ phase[c] = "terminals"
  /\ terminalAt[c] <= Len(Terminals(c))
  /\ ~TerminalHolds(c)
  /\ terminalAt' = [terminalAt EXCEPT ![c] = @ + 1]
  /\ UNCHANGED <<phase, request, results, ruleAt, evaluation_order, evaluated, verdict>>

ReturnNone(c) ==
  /\ phase[c] = "terminals"
  /\ terminalAt[c] > Len(Terminals(c))
  /\ verdict' = [verdict EXCEPT ![c] = {}]
  /\ phase' = [phase EXCEPT ![c] = "returned"]
  /\ UNCHANGED <<request, results, ruleAt, terminalAt, evaluation_order, evaluated>>

Step(c) ==
  \/ EvalRule(c) \/ RulesDone(c)
  \/ ReturnVerdict(c) \/ NextTerminal(c) \/ ReturnNone(c)

Next == \E c \in Caller : Call(c) \/ Step(c)

Spec == Init /\ [][Next]_vars

-----------------------------------------------------------------------------
(* Properties *)

TypeOK ==
  /\ phase \in [Caller -> {"idle", "rules", "terminals", "returned"}]
  /\ request \in [Caller -> Request \cup {Nothing}]
  /\ results \in [Caller -> Seq(BOOLEAN)]
  /\ ruleAt \in [Caller -> Nat \ {0}]
  /\ terminalAt \in [Caller -> Nat \ {0}]
  /\ evaluation_order \in [Caller -> Seq(Name)]
  /\ evaluated \in [Caller -> Seq(Name)]
  /\ verdict \in [Caller -> (SUBSET Name) \cup {Nothing}]
  /\ \A c \in Caller :
       /\ phase[c] = "idle" <=> request[c] = Nothing
       /\ phase[c] = "returned" <=> verdict[c] # Nothing
       /\ phase[c] # "idle" =>
            /\ results[c] \in [1 .. BufferLen(request[c].ruleset) -> BOOLEAN]
            /\ ruleAt[c] <= Len(Rules(c)) + 1
            /\ terminalAt[c] <= Len(Terminals(c)) + 1

\* The rules of c evaluated so far.
Written(c) == 1 .. ruleAt[c] - 1

\* Each result written stays the value of its rule's condition over the buffer
\* as it is now: no later rule overwrites what an earlier one has read, and no
\* rule has read a result that was not written yet (evaluate.rs:89 and 130).
ResultsStand ==
  \A c \in Caller : phase[c] # "idle" =>
    \A i \in Written(c) :
      results[c][i] = Holds(Rules(c)[i].condition, request[c].ctx, results[c])

\* The rules among the first i that are true.
TrueUpTo(c, i) == {j \in 1 .. i : results[c][j]}

\* The report of a detailed evaluation lists the rules in execution order, and
\* as evaluated exactly those that are true, once each and in the same order
\* (evaluate.rs:61-67).
ReportMatchesResults ==
  \A c \in Caller : phase[c] # "idle" /\ request[c].detailed =>
    /\ evaluation_order[c] = [i \in Written(c) |-> Rules(c)[i].name]
    /\ Len(evaluated[c]) = Cardinality(TrueUpTo(c, ruleAt[c] - 1))
    /\ \A i \in Written(c) :
         results[c][i] => evaluated[c][Cardinality(TrueUpTo(c, i))] = Rules(c)[i].name

\* evaluate and evaluate_detailed, on any thread and in any call, agree on the
\* verdict for the same rule set and field values (two copies of the loops,
\* evaluate.rs:61-75 and 88-99).
AnswersAgree ==
  \A c, d \in Caller :
    /\ phase[c] = "returned" /\ phase[d] = "returned"
    /\ request[c].ruleset = request[d].ruleset /\ request[c].ctx = request[d].ctx
    => verdict[c] = verdict[d]

\* The evaluator implements Decision: a verdict is the reached terminal with
\* the smallest priority, first in declaration order among equals, although the
\* loop stops at the first true one and looks at results by position.
Promise ==
  INSTANCE Decision WITH
    request <- [c \in Caller |-> IF request[c] = Nothing THEN Nothing
                  ELSE [ruleset |-> request[c].ruleset, ctx |-> request[c].ctx]],
    answer <- verdict

Decides == Promise!Spec
=============================================================================
