------------------------------- MODULE Decision -------------------------------
(***************************************************************************)
(* What RuleSet::evaluate and evaluate_detailed promise a caller: the      *)
(* answer is the reached terminal that comes first by priority, under the  *)
(* truth values the conditions define, whichever thread asks and whatever  *)
(* the other threads are doing.                                            *)
(***************************************************************************)
EXTENDS CompiledRules

CONSTANTS
  RuleSets,  \* the rule sets the program holds
  Contexts,  \* the vectors of field values an evaluation is given
  Caller,    \* the threads that share the rule sets
  Nothing    \* a caller has made no call

VARIABLES
  request,  \* the call each caller made last
  answer    \* the verdict it got, Nothing until then

Request == [ruleset : RuleSets, ctx : Contexts]

Init ==
  /\ request = [c \in Caller |-> Nothing]
  /\ answer = [c \in Caller |-> Nothing]

Idle(c) == request[c] = Nothing \/ answer[c] # Nothing

Ask(c) ==
  /\ Idle(c)
  /\ \E r \in Request : request' = [request EXCEPT ![c] = r]
  /\ answer' = [answer EXCEPT ![c] = Nothing]

Answer(c) ==
  /\ ~Idle(c)
  /\ LET rs == request[c].ruleset
     IN  \E truth \in [DOMAIN rs.rules -> BOOLEAN] :
           /\ Consistent(truth, rs, request[c].ctx)
           /\ answer' = [answer EXCEPT ![c] = Verdict(rs, truth)]
  /\ UNCHANGED request

Next == \E c \in Caller : Ask(c) \/ Answer(c)

Spec == Init /\ [][Next]_<<request, answer>>
=============================================================================
