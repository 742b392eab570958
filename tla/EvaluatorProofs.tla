---------------------------- MODULE EvaluatorProofs ----------------------------
(***************************************************************************)
(* Proofs about Evaluator, for any rule sets, contexts and callers.  A     *)
(* condition is any function of the results it reads: HoldsIsLocal is all  *)
(* that is assumed of it.                                                  *)
(***************************************************************************)
EXTENDS Evaluator, FiniteSetTheorems, NaturalsInduction, WellFoundedInduction, TLAPS

(* The state of one call, as a predicate on values: the results written      *)
(* stand, the terminals passed are false, and the verdict is the one Verdict *)
(* names under the final results.                                            *)
Sound(ph, rs, ctx, res, ra, ta, vd) ==
  /\ res \in [1 .. BufferLen(rs) -> BOOLEAN]
  /\ ra \in 1 .. Len(rs.rules) + 1
  /\ ta \in 1 .. Len(rs.terminals) + 1
  /\ \A i \in 1 .. ra - 1 : res[i] = Holds(rs.rules[i].condition, ctx, res)
  /\ ph = "rules" => ta = 1
  /\ ph # "rules" => ra = Len(rs.rules) + 1
  /\ ph = "terminals" => \A k \in 1 .. ta - 1 : ~res[rs.terminal_indices[k]]
  /\ ph = "returned" => vd = Verdict(rs, [i \in DOMAIN rs.rules |-> res[i]])

SoundCalls ==
  \A c \in Caller : phase[c] # "idle" =>
    Sound(phase[c], request[c].ruleset, request[c].ctx, results[c], ruleAt[c],
          terminalAt[c], verdict[c])

\* The inductive invariant.
IInv == TypeOK /\ SoundCalls

-----------------------------------------------------------------------------
(* Facts about a rule set *)

\* truth values of the rules alone, or of a whole buffer
Results(rs) == [1 .. Len(rs.rules) -> BOOLEAN] \cup [1 .. BufferLen(rs) -> BOOLEAN]

LEMMA RuleSetFacts ==
  ASSUME NEW rs \in RuleSets
  PROVE  /\ rs.rules \in Seq(CompiledRule) /\ Len(rs.rules) \in Nat
         /\ DOMAIN rs.rules = 1 .. Len(rs.rules)
         /\ rs.terminals \in Seq(Terminal) /\ Len(rs.terminals) \in Nat
         /\ DOMAIN rs.terminals = 1 .. Len(rs.terminals)
         /\ \A i \in DOMAIN rs.rules : rs.rules[i] \in CompiledRule
         /\ \A k \in DOMAIN rs.terminals : rs.terminals[k] \in Terminal
         /\ BufferLen(rs) \in Nat /\ Len(rs.rules) <= BufferLen(rs)
<1>1. rs \in RuleSet
  BY RuleSetsWellFormed
<1>2. rs.rules \in Seq(CompiledRule) /\ rs.terminals \in Seq(Terminal)
  BY <1>1 DEF RuleSet
<1>3. Len(rs.rules) \in Nat /\ Len(rs.terminals) \in Nat
  BY <1>2
<1>4. BufferLen(rs) \in Nat /\ Len(rs.rules) <= BufferLen(rs)
  BY <1>3, ThresholdIsNat DEF BufferLen
<1>. QED  BY <1>2, <1>3, <1>4

LEMMA ResolvedFacts ==
  ASSUME NEW rs \in RuleSets
  PROVE  /\ \A i \in DOMAIN rs.rules :
              rs.rules[i].index = i /\ Reads(rs.rules[i].condition) \subseteq 1 .. i - 1
         /\ \A k \in DOMAIN rs.terminals :
              /\ rs.terminal_indices[k] \in DOMAIN rs.rules
              /\ rs.rules[rs.terminal_indices[k]].name = rs.terminals[k].rule_name
         /\ \A k, m \in DOMAIN rs.terminals :
              k <= m => rs.terminals[k].priority <= rs.terminals[m].priority
         /\ \A i, j \in DOMAIN rs.rules : rs.rules[i].name = rs.rules[j].name => i = j
BY RuleSetsWellFormed DEF IndexedInOrder, TerminalsResolved, PrioritiesAscend, RuleNamesUnique

\* Two buffers that agree below i give the condition of rule i the same value.
LEMMA Locality ==
  ASSUME NEW rs \in RuleSets, NEW ctx \in Contexts, NEW i \in DOMAIN rs.rules,
         NEW r \in Results(rs),
         NEW s \in Results(rs),
         \A j \in 1 .. i - 1 : r[j] = s[j]
  PROVE  Holds(rs.rules[i].condition, ctx, r) = Holds(rs.rules[i].condition, ctx, s)
<1>. DEFINE condition == rs.rules[i].condition
<1>1. Reads(condition) \subseteq 1 .. i - 1
  BY ResolvedFacts
<1>2. [j \in Reads(condition) |-> r[j]] = [j \in Reads(condition) |-> s[j]]
  BY <1>1
<1>3. Holds(condition, ctx, r) = Holds(condition, ctx, [j \in Reads(condition) |-> r[j]])
  BY HoldsIsLocal DEF Results
<1>4. Holds(condition, ctx, s) = Holds(condition, ctx, [j \in Reads(condition) |-> s[j]])
  BY HoldsIsLocal DEF Results
<1>. QED  BY <1>2, <1>3, <1>4

LEMMA HoldsIsBoolean ==
  ASSUME NEW rs \in RuleSets, NEW ctx \in Contexts, NEW i \in DOMAIN rs.rules,
         NEW r \in Results(rs)
  PROVE  Holds(rs.rules[i].condition, ctx, r) \in BOOLEAN
BY HoldsIsLocal DEF Results

LEMMA LeastMember ==
  ASSUME NEW S \in SUBSET Nat, S # {}
  PROVE  \E m \in S : \A n \in S : m <= n
<1>1. PICK R : R = {p \in Nat \X Nat : p[1] < p[2]}
  OBVIOUS
<1>2. R = OpToRel(<, Nat)
  BY <1>1 DEF OpToRel
<1>3. IsWellFoundedOn(R, Nat)
  BY <1>2, NatLessThanWellFounded
<1>4. PICK m \in S : \A n \in S : ~(<<n, m>> \in R)
  BY <1>3, WFMin
<1>5. ASSUME NEW n \in S
      PROVE  m <= n
  <2>1. m \in Nat /\ n \in Nat /\ <<n, m>> \notin R
    BY <1>4
  <2>. QED  BY <2>1, <1>1
<1>. QED  BY <1>5

\* The conditions of a rule set and the field values determine every truth
\* value: a rule reads only rules before it.
THEOREM TruthIsUnique ==
  ASSUME NEW rs \in RuleSets, NEW ctx \in Contexts, NEW t, NEW u,
         Consistent(t, rs, ctx), Consistent(u, rs, ctx)
  PROVE  t = u
<1>. DEFINE Differ == {i \in 1 .. Len(rs.rules) : t[i] # u[i]}
<1>1. /\ DOMAIN rs.rules = 1 .. Len(rs.rules) /\ Len(rs.rules) \in Nat
      /\ t \in [1 .. Len(rs.rules) -> BOOLEAN] /\ u \in [1 .. Len(rs.rules) -> BOOLEAN]
  BY RuleSetFacts DEF Consistent
<1>2. ASSUME Differ # {}
      PROVE  FALSE
  <2>0. Differ \in SUBSET Nat
    BY <1>1
  <2>1. PICK i \in Differ : \A j \in Differ : i <= j
    <3>. HIDE DEF Differ
    <3>. QED  BY <1>2, <2>0, LeastMember
  <2>2. \A j \in 1 .. i - 1 : t[j] = u[j]
    BY <1>1, <2>1
  <2>3. Holds(rs.rules[i].condition, ctx, t) = Holds(rs.rules[i].condition, ctx, u)
    <3>1. i \in DOMAIN rs.rules /\ t \in Results(rs) /\ u \in Results(rs)
      BY <1>1, <2>1 DEF Results
    <3>. QED  BY <2>2, <3>1, Locality
  <2>4. t[i] = Holds(rs.rules[i].condition, ctx, t) /\ u[i] = Holds(rs.rules[i].condition, ctx, u)
    BY <1>1 DEF Consistent
  <2>. QED  BY <2>1, <2>3, <2>4
<1>. QED  BY <1>1, <1>2

-----------------------------------------------------------------------------
(* The verdict *)

LEMMA ReachedByIndex ==
  ASSUME NEW rs \in RuleSets, NEW t, NEW k \in DOMAIN rs.terminals
  PROVE  Reached(k, rs, t) <=> t[rs.terminal_indices[k]]
BY ResolvedFacts DEF Reached

LEMMA FirstTrueWins ==
  ASSUME NEW rs \in RuleSets, NEW t, NEW k \in DOMAIN rs.terminals,
         t[rs.terminal_indices[k]],
         \A m \in 1 .. k - 1 : ~t[rs.terminal_indices[m]]
  PROVE  Verdict(rs, t) = {rs.terminals[k].rule_name}
<1>0. /\ DOMAIN rs.terminals = 1 .. Len(rs.terminals) /\ Len(rs.terminals) \in Nat
      /\ \A m \in DOMAIN rs.terminals : rs.terminals[m].priority \in Nat
  BY RuleSetFacts DEF Terminal
<1>1. \A m \in DOMAIN rs.terminals : Reached(m, rs, t) => k <= m
  BY <1>0, ReachedByIndex
<1>2. Wins(k, rs, t)
  <2>1. Reached(k, rs, t)
    BY ReachedByIndex
  <2>2. ASSUME NEW m \in DOMAIN rs.terminals, Reached(m, rs, t)
        PROVE  \/ rs.terminals[k].priority < rs.terminals[m].priority
               \/ rs.terminals[k].priority = rs.terminals[m].priority /\ k <= m
    <3>1. k <= m
      BY <1>1, <2>2
    <3>2. rs.terminals[k].priority <= rs.terminals[m].priority
      BY <3>1, ResolvedFacts
    <3>3. rs.terminals[k].priority \in Nat /\ rs.terminals[m].priority \in Nat
      BY <1>0
    <3>. QED  BY <3>1, <3>2, <3>3
  <2>. QED  BY <2>1, <2>2 DEF Wins
<1>3. ASSUME NEW m \in DOMAIN rs.terminals, Wins(m, rs, t)
      PROVE  m = k
  <2>1. k <= m
    BY <1>1, <1>3 DEF Wins
  <2>2. rs.terminals[k].priority <= rs.terminals[m].priority
    BY <2>1, ResolvedFacts
  <2>3. \/ rs.terminals[m].priority < rs.terminals[k].priority
        \/ rs.terminals[m].priority = rs.terminals[k].priority /\ m <= k
    BY <1>2, <1>3 DEF Wins
  <2>4. m \in Nat /\ k \in Nat /\ rs.terminals[k].priority \in Nat /\ rs.terminals[m].priority \in Nat
    BY <1>0
  <2>. QED  BY <2>1, <2>2, <2>3, <2>4
<1>. QED  BY <1>2, <1>3 DEF Verdict

LEMMA NoneTrueNoneWins ==
  ASSUME NEW rs \in RuleSets, NEW t,
         \A m \in DOMAIN rs.terminals : ~t[rs.terminal_indices[m]]
  PROVE  Verdict(rs, t) = {}
BY ReachedByIndex DEF Verdict, Wins

LEMMA VerdictIsNames ==
  ASSUME NEW rs \in RuleSets, NEW t
  PROVE  Verdict(rs, t) \in SUBSET Name
BY RuleSetFacts DEF Verdict, Terminal

\* the part of a finished buffer that belongs to the rules
LEMMA FinishedIsConsistent ==
  ASSUME NEW rs \in RuleSets, NEW ctx \in Contexts,
         NEW res \in [1 .. BufferLen(rs) -> BOOLEAN],
         \A i \in DOMAIN rs.rules : res[i] = Holds(rs.rules[i].condition, ctx, res)
  PROVE  Consistent([i \in DOMAIN rs.rules |-> res[i]], rs, ctx)
<1>. DEFINE t == [i \in DOMAIN rs.rules |-> res[i]]
<1>1. DOMAIN rs.rules = 1 .. Len(rs.rules) /\ Len(rs.rules) <= BufferLen(rs)
      /\ Len(rs.rules) \in Nat /\ BufferLen(rs) \in Nat
  BY RuleSetFacts
<1>2. t \in [1 .. Len(rs.rules) -> BOOLEAN]
  BY <1>1
<1>3. ASSUME NEW i \in DOMAIN rs.rules
      PROVE  t[i] = Holds(rs.rules[i].condition, ctx, t)
  <2>1. \A j \in 1 .. i - 1 : res[j] = t[j]
    BY <1>1
  <2>2. Holds(rs.rules[i].condition, ctx, res) = Holds(rs.rules[i].condition, ctx, t)
    <3>1. res \in Results(rs) /\ t \in Results(rs)
      BY <1>2 DEF Results
    <3>. HIDE DEF t
    <3>. QED  BY <2>1, <3>1, Locality
  <2>. QED  BY <2>2
<1>. QED  BY <1>1, <1>2, <1>3 DEF Consistent

-----------------------------------------------------------------------------
(* One call: each step keeps it Sound *)

LEMMA CallSound ==
  ASSUME NEW rs \in RuleSets, NEW ctx \in Contexts, NEW vd
  PROVE  Sound("rules", rs, ctx, [i \in 1 .. BufferLen(rs) |-> FALSE], 1, 1, vd)
BY RuleSetFacts DEF Sound

LEMMA EvalRuleSound ==
  ASSUME NEW rs \in RuleSets, NEW ctx \in Contexts, NEW res, NEW ra, NEW ta, NEW vd,
         Sound("rules", rs, ctx, res, ra, ta, vd),
         ra <= Len(rs.rules)
  PROVE  Sound("rules", rs, ctx,
               [res EXCEPT ![rs.rules[ra].index] = Holds(rs.rules[ra].condition, ctx, res)],
               ra + 1, ta, vd)
<1>1. /\ DOMAIN rs.rules = 1 .. Len(rs.rules) /\ Len(rs.rules) \in Nat
      /\ BufferLen(rs) \in Nat /\ Len(rs.rules) <= BufferLen(rs)
  BY RuleSetFacts
<1>2. res \in [1 .. BufferLen(rs) -> BOOLEAN] /\ ra \in DOMAIN rs.rules /\ ra \in Nat
  BY <1>1 DEF Sound
<1>3. rs.rules[ra].index = ra
  BY <1>2, ResolvedFacts
<1>. DEFINE held == Holds(rs.rules[ra].condition, ctx, res)
            next == [res EXCEPT ![ra] = held]
<1>4. held \in BOOLEAN
  BY <1>2, HoldsIsBoolean DEF Results
<1>5. /\ next \in [1 .. BufferLen(rs) -> BOOLEAN]
      /\ next[ra] = held
      /\ \A j \in 1 .. BufferLen(rs) : j # ra => next[j] = res[j]
  <2>. HIDE DEF held
  <2>. QED  BY <1>1, <1>2, <1>4
<1>6. ASSUME NEW i \in 1 .. ra
      PROVE  next[i] = Holds(rs.rules[i].condition, ctx, next)
  <2>1. i \in DOMAIN rs.rules /\ i \in 1 .. BufferLen(rs)
    BY <1>1, <1>2
  <2>2. \A j \in 1 .. i - 1 : res[j] = next[j]
    <3>1. \A j \in 1 .. i - 1 : j \in 1 .. BufferLen(rs) /\ j # ra
      BY <1>1, <1>2
    <3>. QED  BY <3>1, <1>5
  <2>3. Holds(rs.rules[i].condition, ctx, res) = Holds(rs.rules[i].condition, ctx, next)
    <3>. HIDE DEF next
    <3>1. res \in Results(rs) /\ next \in Results(rs)
      BY <1>2, <1>5 DEF Results
    <3>. QED  BY <3>1, <2>1, <2>2, Locality
  <2>4. CASE i = ra
    BY <2>3, <2>4, <1>5
  <2>5. CASE i # ra
    <3>1. i \in 1 .. ra - 1
      BY <2>5, <1>2
    <3>2. res[i] = Holds(rs.rules[i].condition, ctx, res)
      BY <3>1 DEF Sound
    <3>. QED  BY <2>1, <2>3, <2>5, <3>2, <1>5
  <2>. QED  BY <2>4, <2>5
<1>7. ra + 1 \in 1 .. Len(rs.rules) + 1 /\ ta \in 1 .. Len(rs.terminals) + 1 /\ (ra + 1) - 1 = ra
  BY <1>1, <1>2 DEF Sound
<1>9. ta = 1
  BY DEF Sound
<1>. HIDE DEF next
<1>8. Sound("rules", rs, ctx, next, ra + 1, ta, vd)
  BY <1>5, <1>6, <1>7, <1>9 DEF Sound
<1>. QED  BY <1>3, <1>8 DEF next

LEMMA RulesDoneSound ==
  ASSUME NEW rs \in RuleSets, NEW ctx \in Contexts, NEW res, NEW ra, NEW ta, NEW vd,
         Sound("rules", rs, ctx, res, ra, ta, vd),
         ra > Len(rs.rules)
  PROVE  Sound("terminals", rs, ctx, res, ra, ta, vd)
<1>1. ra = Len(rs.rules) + 1
  <2>1. Len(rs.rules) \in Nat /\ ra \in 1 .. Len(rs.rules) + 1
    BY RuleSetFacts DEF Sound
  <2>. QED  BY <2>1
<1>2. ta = 1 /\ \A k \in 1 .. ta - 1 : FALSE
  BY DEF Sound
<1>. QED  BY <1>1, <1>2 DEF Sound

LEMMA NextTerminalSound ==
  ASSUME NEW rs \in RuleSets, NEW ctx \in Contexts, NEW res, NEW ra, NEW ta, NEW vd,
         Sound("terminals", rs, ctx, res, ra, ta, vd),
         ta <= Len(rs.terminals), ~res[rs.terminal_indices[ta]]
  PROVE  Sound("terminals", rs, ctx, res, ra, ta + 1, vd)
<1>1. ta \in Nat /\ Len(rs.terminals) \in Nat /\ ta >= 1
  BY RuleSetFacts DEF Sound
<1>2. \A k \in 1 .. (ta + 1) - 1 : k = ta \/ k \in 1 .. ta - 1
  BY <1>1
<1>. QED  BY <1>1, <1>2 DEF Sound

LEMMA ReturnSound ==
  ASSUME NEW rs \in RuleSets, NEW ctx \in Contexts, NEW res, NEW ra, NEW ta, NEW vd, NEW old,
         Sound("terminals", rs, ctx, res, ra, ta, old),
         \/ /\ ta <= Len(rs.terminals) /\ res[rs.terminal_indices[ta]]
            /\ vd = {rs.terminals[ta].rule_name}
         \/ ta > Len(rs.terminals) /\ vd = {}
  PROVE  Sound("returned", rs, ctx, res, ra, ta, vd)
<1>. DEFINE t == [i \in DOMAIN rs.rules |-> res[i]]
<1>1. /\ ta \in Nat /\ Len(rs.terminals) \in Nat /\ ta >= 1 /\ ta <= Len(rs.terminals) + 1
      /\ DOMAIN rs.terminals = 1 .. Len(rs.terminals)
  BY RuleSetFacts DEF Sound
<1>2. \A k \in DOMAIN rs.terminals : t[rs.terminal_indices[k]] = res[rs.terminal_indices[k]]
  BY ResolvedFacts
<1>3. \A k \in 1 .. ta - 1 : k \in DOMAIN rs.terminals /\ ~t[rs.terminal_indices[k]]
  <2>1. \A k \in 1 .. ta - 1 : k \in DOMAIN rs.terminals
    BY <1>1
  <2>. QED  BY <1>2, <2>1 DEF Sound
<1>4. vd = Verdict(rs, t)
  <2>1. CASE ta <= Len(rs.terminals) /\ res[rs.terminal_indices[ta]] /\ vd = {rs.terminals[ta].rule_name}
    <3>1. ta \in DOMAIN rs.terminals
      BY <2>1, <1>1
    <3>2. t[rs.terminal_indices[ta]]
      BY <2>1, <3>1, <1>2
    <3>. HIDE DEF t
    <3>. QED  BY <2>1, <3>1, <3>2, <1>3, FirstTrueWins
  <2>2. CASE ta > Len(rs.terminals) /\ vd = {}
    <3>1. \A k \in DOMAIN rs.terminals : k \in 1 .. ta - 1
      BY <2>2, <1>1
    <3>. HIDE DEF t
    <3>. QED  BY <2>2, <3>1, <1>3, NoneTrueNoneWins
  <2>. QED  BY <2>1, <2>2
<1>. QED  BY <1>4 DEF Sound

-----------------------------------------------------------------------------
(* The whole state: a step of one caller leaves the calls of the others *)

LEMMA RequestFacts ==
  ASSUME IInv, NEW c \in Caller, phase[c] # "idle"
  PROVE  /\ request[c] \in Request
         /\ request[c].ruleset \in RuleSets /\ request[c].ctx \in Contexts
         /\ Rules(c) = request[c].ruleset.rules
         /\ Terminals(c) = request[c].ruleset.terminals
         /\ TerminalIndices(c) = request[c].ruleset.terminal_indices
BY DEF IInv, TypeOK, Request, Rules, Terminals, TerminalIndices

LEMMA SoundGivesTypes ==
  ASSUME NEW ph, NEW rs \in RuleSets, NEW ctx, NEW res, NEW ra, NEW ta, NEW vd,
         Sound(ph, rs, ctx, res, ra, ta, vd)
  PROVE  /\ ra \in Nat \ {0} /\ ta \in Nat \ {0}
         /\ res \in [1 .. BufferLen(rs) -> BOOLEAN]
         /\ ra <= Len(rs.rules) + 1 /\ ta <= Len(rs.terminals) + 1
         /\ ph = "returned" => vd \in SUBSET Name
<1>1. Len(rs.rules) \in Nat /\ Len(rs.terminals) \in Nat
  BY RuleSetFacts
<1>2. ra \in 1 .. Len(rs.rules) + 1 /\ ta \in 1 .. Len(rs.terminals) + 1
      /\ res \in [1 .. BufferLen(rs) -> BOOLEAN]
  BY DEF Sound
<1>3. ph = "returned" => vd \in SUBSET Name
  BY VerdictIsNames DEF Sound
<1>. QED  BY <1>1, <1>2, <1>3

\* Only caller c moves, and its call is left Sound.
LEMMA StepOfOneCaller ==
  ASSUME IInv, NEW c \in Caller,
         NEW ph \in {"rules", "terminals", "returned"}, NEW rq \in Request,
         NEW res, NEW ra, NEW ta, NEW vd, NEW eo \in Seq(Name), NEW ev \in Seq(Name),
         Sound(ph, rq.ruleset, rq.ctx, res, ra, ta, vd),
         ph # "returned" => vd = Nothing,
         phase' = [phase EXCEPT ![c] = ph],
         request' = [request EXCEPT ![c] = rq],
         results' = [results EXCEPT ![c] = res],
         ruleAt' = [ruleAt EXCEPT ![c] = ra],
         terminalAt' = [terminalAt EXCEPT ![c] = ta],
         evaluation_order' = [evaluation_order EXCEPT ![c] = eo],
         evaluated' = [evaluated EXCEPT ![c] = ev],
         verdict' = [verdict EXCEPT ![c] = vd]
  PROVE  IInv'
<1>. USE DEF IInv
<1>1. /\ rq.ruleset \in RuleSets /\ rq # Nothing
      /\ rq \in Request \cup {Nothing}
  BY NothingIsNone DEF Request
<1>2. /\ ra \in Nat \ {0} /\ ta \in Nat \ {0}
      /\ res \in [1 .. BufferLen(rq.ruleset) -> BOOLEAN]
      /\ ra <= Len(rq.ruleset.rules) + 1 /\ ta <= Len(rq.ruleset.terminals) + 1
      /\ ph = "returned" => vd \in SUBSET Name
  BY <1>1, SoundGivesTypes
<1>3. vd \in (SUBSET Name) \cup {Nothing} /\ (ph = "returned" <=> vd # Nothing)
  BY <1>2, NothingIsNone
<1>4. /\ phase'[c] = ph /\ request'[c] = rq /\ results'[c] = res /\ ruleAt'[c] = ra
      /\ terminalAt'[c] = ta /\ verdict'[c] = vd
  BY DEF TypeOK
<1>5. ASSUME NEW d \in Caller, d # c
      PROVE  /\ phase'[d] = phase[d] /\ request'[d] = request[d] /\ results'[d] = results[d]
             /\ ruleAt'[d] = ruleAt[d] /\ terminalAt'[d] = terminalAt[d]
             /\ verdict'[d] = verdict[d]
  BY <1>5 DEF TypeOK
<1>6. /\ phase' \in [Caller -> {"idle", "rules", "terminals", "returned"}]
      /\ request' \in [Caller -> Request \cup {Nothing}]
      /\ results' \in [Caller -> Seq(BOOLEAN)]
      /\ ruleAt' \in [Caller -> Nat \ {0}]
      /\ terminalAt' \in [Caller -> Nat \ {0}]
      /\ evaluation_order' \in [Caller -> Seq(Name)]
      /\ evaluated' \in [Caller -> Seq(Name)]
      /\ verdict' \in [Caller -> (SUBSET Name) \cup {Nothing}]
  <2>1. phase' \in [Caller -> {"idle", "rules", "terminals", "returned"}]
    BY DEF TypeOK
  <2>2. request' \in [Caller -> Request \cup {Nothing}]
    BY <1>1 DEF TypeOK
  <2>6. results' \in [Caller -> Seq(BOOLEAN)]
    <3>1. res \in Seq(BOOLEAN)
      <4>1. BufferLen(rq.ruleset) \in Nat
        BY <1>1, RuleSetFacts
      <4>2. \A n \in Nat : [1 .. n -> BOOLEAN] \subseteq Seq(BOOLEAN)
        OBVIOUS
      <4>. QED  BY <1>2, <4>1, <4>2
    <3>. QED  BY <3>1 DEF TypeOK
  <2>3. ruleAt' \in [Caller -> Nat \ {0}] /\ terminalAt' \in [Caller -> Nat \ {0}]
    BY <1>2 DEF TypeOK
  <2>4. evaluation_order' \in [Caller -> Seq(Name)] /\ evaluated' \in [Caller -> Seq(Name)]
    BY DEF TypeOK
  <2>5. verdict' \in [Caller -> (SUBSET Name) \cup {Nothing}]
    BY <1>3 DEF TypeOK
  <2>. QED  BY <2>1, <2>2, <2>3, <2>4, <2>5, <2>6
<1>7. ASSUME NEW d \in Caller
      PROVE  /\ phase'[d] = "idle" <=> request'[d] = Nothing
             /\ phase'[d] = "returned" <=> verdict'[d] # Nothing
             /\ phase'[d] # "idle" =>
                  /\ results'[d] \in [1 .. BufferLen(request'[d].ruleset) -> BOOLEAN]
                  /\ ruleAt'[d] <= Len(request'[d].ruleset.rules) + 1
                  /\ terminalAt'[d] <= Len(request'[d].ruleset.terminals) + 1
                  /\ Sound(phase'[d], request'[d].ruleset, request'[d].ctx, results'[d],
                           ruleAt'[d], terminalAt'[d], verdict'[d])
  <2>1. CASE d = c
    BY <2>1, <1>1, <1>2, <1>3, <1>4
  <2>2. CASE d # c
    BY <2>2, <1>5 DEF TypeOK, SoundCalls, Rules, Terminals
  <2>. QED  BY <2>1, <2>2
<1>8. TypeOK'
  BY <1>6, <1>7 DEF TypeOK, Rules, Terminals
<1>9. SoundCalls'
  BY <1>7 DEF SoundCalls
<1>. QED  BY <1>8, <1>9

LEMMA InitIInv == Init => IInv
BY NothingIsNone DEF Init, IInv, TypeOK, SoundCalls

LEMMA CallIInv ==
  ASSUME IInv, NEW c \in Caller, Call(c)
  PROVE  IInv'
<1>1. PICK r \in Request :
        /\ request' = [request EXCEPT ![c] = r]
        /\ results' = [results EXCEPT ![c] = [i \in 1 .. BufferLen(r.ruleset) |-> FALSE]]
  BY DEF Call, Enter
<1>2. r.ruleset \in RuleSets /\ r.ctx \in Contexts
  BY DEF Request
<1>3. Sound("rules", r.ruleset, r.ctx, [i \in 1 .. BufferLen(r.ruleset) |-> FALSE], 1, 1, Nothing)
  BY <1>2, CallSound
<1>4. <<>> \in Seq(Name)
  OBVIOUS
<1>. DEFINE buffer == [i \in 1 .. BufferLen(r.ruleset) |-> FALSE]
<1>5. /\ phase' = [phase EXCEPT ![c] = "rules"]
      /\ results' = [results EXCEPT ![c] = buffer]
      /\ ruleAt' = [ruleAt EXCEPT ![c] = 1]
      /\ terminalAt' = [terminalAt EXCEPT ![c] = 1]
      /\ evaluation_order' = [evaluation_order EXCEPT ![c] = <<>>]
      /\ evaluated' = [evaluated EXCEPT ![c] = <<>>]
      /\ verdict' = [verdict EXCEPT ![c] = Nothing]
  BY <1>1 DEF Call, Enter
<1>6. Sound("rules", r.ruleset, r.ctx, buffer, 1, 1, Nothing)
  BY <1>3
<1>. HIDE DEF buffer
<1>. QED  BY <1>1, <1>4, <1>5, <1>6, StepOfOneCaller

\* a variable that keeps its value at c is an update with that value
LEMMA Unmoved ==
  ASSUME IInv, NEW c \in Caller
  PROVE  /\ phase = [phase EXCEPT ![c] = phase[c]]
         /\ request = [request EXCEPT ![c] = request[c]]
         /\ ruleAt = [ruleAt EXCEPT ![c] = ruleAt[c]]
         /\ terminalAt = [terminalAt EXCEPT ![c] = terminalAt[c]]
         /\ evaluation_order = [evaluation_order EXCEPT ![c] = evaluation_order[c]]
         /\ evaluated = [evaluated EXCEPT ![c] = evaluated[c]]
         /\ verdict = [verdict EXCEPT ![c] = verdict[c]]
         /\ results = [results EXCEPT ![c] = results[c]]
BY DEF IInv, TypeOK

LEMMA EvalRuleIInv ==
  ASSUME IInv, NEW c \in Caller, EvalRule(c)
  PROVE  IInv'
<1>. DEFINE rs == request[c].ruleset
            rule == rs.rules[ruleAt[c]]
            held == Holds(rule.condition, request[c].ctx, results[c])
<1>1. /\ phase[c] = "rules" /\ request[c] \in Request
      /\ rs \in RuleSets /\ request[c].ctx \in Contexts
      /\ Rules(c) = rs.rules
  BY RequestFacts DEF EvalRule
<1>2. Sound("rules", rs, request[c].ctx, results[c], ruleAt[c], terminalAt[c], verdict[c])
  BY <1>1 DEF IInv, SoundCalls
<1>3. ruleAt[c] <= Len(rs.rules)
  BY <1>1 DEF EvalRule
<1>4. Sound("rules", rs, request[c].ctx, [results[c] EXCEPT ![rule.index] = held],
            ruleAt[c] + 1, terminalAt[c], verdict[c])
  BY <1>1, <1>2, <1>3, EvalRuleSound
<1>5. rule.name \in Name
  <2>1. ruleAt[c] \in DOMAIN rs.rules
    <3>1. ruleAt[c] \in Nat \ {0}
      BY <1>1, <1>2, SoundGivesTypes
    <3>2. DOMAIN rs.rules = 1 .. Len(rs.rules) /\ Len(rs.rules) \in Nat
      BY <1>1, RuleSetFacts
    <3>. HIDE DEF rs
    <3>. QED  BY <1>3, <3>1, <3>2
  <2>. QED  BY <1>1, <2>1, RuleSetFacts DEF CompiledRule
<1>6. verdict[c] = Nothing
  BY <1>1 DEF IInv, TypeOK
<1>7. evaluation_order[c] \in Seq(Name) /\ evaluated[c] \in Seq(Name)
  BY DEF IInv, TypeOK
<1>8. PICK eo \in Seq(Name), ev \in Seq(Name) :
        /\ evaluation_order' = [evaluation_order EXCEPT ![c] = eo]
        /\ evaluated' = [evaluated EXCEPT ![c] = ev]
  <2>1. Append(evaluation_order[c], rule.name) \in Seq(Name)
        /\ Append(evaluated[c], rule.name) \in Seq(Name)
    BY <1>5, <1>7
  <2>2. \/ evaluation_order' = [evaluation_order EXCEPT ![c] = Append(evaluation_order[c], rule.name)]
        \/ evaluation_order' = evaluation_order
    BY <1>1 DEF EvalRule
  <2>3. \/ evaluated' = [evaluated EXCEPT ![c] = Append(evaluated[c], rule.name)]
        \/ evaluated' = evaluated
    BY <1>1 DEF EvalRule
  <2>. HIDE DEF rule
  <2>4. \E eo \in Seq(Name) : evaluation_order' = [evaluation_order EXCEPT ![c] = eo]
    BY <1>7, <2>1, <2>2, Unmoved
  <2>5. \E ev \in Seq(Name) : evaluated' = [evaluated EXCEPT ![c] = ev]
    BY <1>7, <2>1, <2>3, Unmoved
  <2>. QED  BY <2>4, <2>5
<1>9. PICK res :
        /\ res = [results[c] EXCEPT ![rule.index] = held]
        /\ results' = [results EXCEPT ![c] = res]
  BY <1>1 DEF EvalRule
<1>10. /\ phase' = [phase EXCEPT ![c] = "rules"]
       /\ request' = [request EXCEPT ![c] = request[c]]
       /\ ruleAt' = [ruleAt EXCEPT ![c] = ruleAt[c] + 1]
       /\ terminalAt' = [terminalAt EXCEPT ![c] = terminalAt[c]]
       /\ verdict' = [verdict EXCEPT ![c] = verdict[c]]
  BY <1>1, Unmoved DEF EvalRule
<1>11. Sound("rules", request[c].ruleset, request[c].ctx, res, ruleAt[c] + 1, terminalAt[c], verdict[c])
  BY <1>4, <1>9
<1>. HIDE DEF rs, rule, held
<1>. QED  BY <1>1, <1>6, <1>8, <1>9, <1>10, <1>11, StepOfOneCaller

\* the steps of the loop over the terminals write neither buffer nor report
LEMMA TerminalStepIInv ==
  ASSUME IInv, NEW c \in Caller, phase[c] # "idle",
         NEW ph \in {"terminals", "returned"}, NEW ta, NEW vd,
         Sound(ph, request[c].ruleset, request[c].ctx, results[c], ruleAt[c], ta, vd),
         ph # "returned" => vd = Nothing,
         phase' = [phase EXCEPT ![c] = ph],
         terminalAt' = [terminalAt EXCEPT ![c] = ta],
         verdict' = [verdict EXCEPT ![c] = vd],
         request' = [request EXCEPT ![c] = request[c]],
         results' = [results EXCEPT ![c] = results[c]],
         ruleAt' = [ruleAt EXCEPT ![c] = ruleAt[c]],
         evaluation_order' = [evaluation_order EXCEPT ![c] = evaluation_order[c]],
         evaluated' = [evaluated EXCEPT ![c] = evaluated[c]]
  PROVE  IInv'
<1>1. request[c] \in Request /\ evaluation_order[c] \in Seq(Name) /\ evaluated[c] \in Seq(Name)
  BY RequestFacts DEF IInv, TypeOK
<1>2. ph \in {"rules", "terminals", "returned"}
  OBVIOUS
<1>. QED  BY <1>1, <1>2, StepOfOneCaller

\* what holds of a call before a step of its loop over the terminals
LEMMA InTerminals ==
  ASSUME IInv, NEW c \in Caller, phase[c] \in {"rules", "terminals"}
  PROVE  /\ request[c].ruleset \in RuleSets /\ request[c].ctx \in Contexts
         /\ Rules(c) = request[c].ruleset.rules
         /\ Terminals(c) = request[c].ruleset.terminals
         /\ TerminalIndices(c) = request[c].ruleset.terminal_indices
         /\ Sound(phase[c], request[c].ruleset, request[c].ctx, results[c], ruleAt[c],
                  terminalAt[c], verdict[c])
         /\ verdict[c] = Nothing
BY RequestFacts DEF IInv, TypeOK, SoundCalls

LEMMA RulesDoneIInv ==
  ASSUME IInv, NEW c \in Caller, RulesDone(c)
  PROVE  IInv'
<1>1. Sound("terminals", request[c].ruleset, request[c].ctx, results[c], ruleAt[c],
            terminalAt[c], verdict[c])
  BY InTerminals, RulesDoneSound DEF RulesDone
<1>2. /\ verdict[c] = Nothing
      /\ terminalAt' = [terminalAt EXCEPT ![c] = terminalAt[c]]
      /\ verdict' = [verdict EXCEPT ![c] = verdict[c]]
      /\ request' = [request EXCEPT ![c] = request[c]]
      /\ results' = [results EXCEPT ![c] = results[c]]
      /\ ruleAt' = [ruleAt EXCEPT ![c] = ruleAt[c]]
      /\ evaluation_order' = [evaluation_order EXCEPT ![c] = evaluation_order[c]]
      /\ evaluated' = [evaluated EXCEPT ![c] = evaluated[c]]
  BY InTerminals, Unmoved DEF RulesDone
<1>3. phase[c] # "idle" /\ phase' = [phase EXCEPT ![c] = "terminals"]
  BY DEF RulesDone
<1>. QED  BY <1>1, <1>2, <1>3, TerminalStepIInv

LEMMA NextTerminalIInv ==
  ASSUME IInv, NEW c \in Caller, NextTerminal(c)
  PROVE  IInv'
<1>1. Sound("terminals", request[c].ruleset, request[c].ctx, results[c], ruleAt[c],
            terminalAt[c] + 1, verdict[c])
  BY InTerminals, NextTerminalSound DEF NextTerminal, TerminalHolds
<1>2. /\ verdict[c] = Nothing
      /\ phase' = [phase EXCEPT ![c] = "terminals"]
      /\ terminalAt' = [terminalAt EXCEPT ![c] = terminalAt[c] + 1]
      /\ verdict' = [verdict EXCEPT ![c] = verdict[c]]
      /\ request' = [request EXCEPT ![c] = request[c]]
      /\ results' = [results EXCEPT ![c] = results[c]]
      /\ ruleAt' = [ruleAt EXCEPT ![c] = ruleAt[c]]
      /\ evaluation_order' = [evaluation_order EXCEPT ![c] = evaluation_order[c]]
      /\ evaluated' = [evaluated EXCEPT ![c] = evaluated[c]]
      /\ phase[c] # "idle"
  BY InTerminals, Unmoved DEF NextTerminal
<1>. QED  BY <1>1, <1>2, TerminalStepIInv

LEMMA ReturnIInv ==
  ASSUME IInv, NEW c \in Caller, ReturnVerdict(c) \/ ReturnNone(c)
  PROVE  IInv'
<1>1. phase[c] = "terminals" /\ verdict' = [verdict EXCEPT ![c] = verdict'[c]]
  BY DEF ReturnVerdict, ReturnNone, IInv, TypeOK
<1>2. PICK vd : vd = verdict'[c]
  OBVIOUS
<1>3. Sound("returned", request[c].ruleset, request[c].ctx, results[c], ruleAt[c],
            terminalAt[c], vd)
  <2>1. \/ /\ terminalAt[c] <= Len(request[c].ruleset.terminals)
           /\ results[c][request[c].ruleset.terminal_indices[terminalAt[c]]]
           /\ vd = {request[c].ruleset.terminals[terminalAt[c]].rule_name}
        \/ terminalAt[c] > Len(request[c].ruleset.terminals) /\ vd = {}
    BY <1>1, <1>2, InTerminals DEF ReturnVerdict, ReturnNone, TerminalHolds, IInv, TypeOK
  <2>. QED  BY <1>1, <2>1, InTerminals, ReturnSound
<1>4. /\ phase' = [phase EXCEPT ![c] = "returned"]
      /\ terminalAt' = [terminalAt EXCEPT ![c] = terminalAt[c]]
      /\ verdict' = [verdict EXCEPT ![c] = vd]
      /\ request' = [request EXCEPT ![c] = request[c]]
      /\ results' = [results EXCEPT ![c] = results[c]]
      /\ ruleAt' = [ruleAt EXCEPT ![c] = ruleAt[c]]
      /\ evaluation_order' = [evaluation_order EXCEPT ![c] = evaluation_order[c]]
      /\ evaluated' = [evaluated EXCEPT ![c] = evaluated[c]]
  BY <1>1, <1>2, Unmoved DEF ReturnVerdict, ReturnNone
<1>. QED  BY <1>1, <1>3, <1>4, TerminalStepIInv

LEMMA NextIInv == IInv /\ [Next]_vars => IInv'
<1>. SUFFICES ASSUME IInv, [Next]_vars
              PROVE  IInv'
  OBVIOUS
<1>1. ASSUME NEW c \in Caller, Call(c) \/ Step(c)
      PROVE  IInv'
  BY <1>1, CallIInv, EvalRuleIInv, RulesDoneIInv, NextTerminalIInv, ReturnIInv DEF Step
<1>2. CASE UNCHANGED vars
  BY <1>2 DEF vars, IInv, TypeOK, SoundCalls, Rules, Terminals
<1>. QED  BY <1>1, <1>2 DEF Next

THEOREM Invariance == Spec => []IInv
BY InitIInv, NextIInv, PTL DEF Spec

-----------------------------------------------------------------------------
(* What follows from the invariant *)

\* Every reachable state is of the declared types: in particular no result is
\* written or read outside the buffer and no terminal past the last is looked at.
THEOREM TypeCorrect == Spec => []TypeOK
BY Invariance, PTL DEF IInv

\* A result once written stays the value of its condition: the order of the
\* rules lets one pass over them compute every truth value (evaluate.rs:88-90).
THEOREM ResultsStandAlways == Spec => []ResultsStand
<1>1. ASSUME IInv, NEW c \in Caller, phase[c] # "idle", NEW i \in Written(c)
      PROVE  results[c][i] = Holds(Rules(c)[i].condition, request[c].ctx, results[c])
  <2>1. Sound(phase[c], request[c].ruleset, request[c].ctx, results[c], ruleAt[c],
              terminalAt[c], verdict[c])
    BY <1>1 DEF IInv, SoundCalls
  <2>2. i \in 1 .. ruleAt[c] - 1 /\ Rules(c) = request[c].ruleset.rules
    BY <1>1 DEF Written, Rules
  <2>. QED  BY <2>1, <2>2 DEF Sound
<1>2. IInv => ResultsStand
  BY <1>1 DEF ResultsStand
<1>. QED  BY <1>2, Invariance, PTL

\* the truth values of a call that has returned
Truth(c) == [i \in DOMAIN request[c].ruleset.rules |-> results[c][i]]

LEMMA ReturnedFacts ==
  ASSUME IInv, NEW c \in Caller, phase[c] = "returned"
  PROVE  /\ request[c].ruleset \in RuleSets /\ request[c].ctx \in Contexts
         /\ Consistent(Truth(c), request[c].ruleset, request[c].ctx)
         /\ verdict[c] = Verdict(request[c].ruleset, Truth(c))
<1>1. /\ request[c].ruleset \in RuleSets /\ request[c].ctx \in Contexts
      /\ Sound("returned", request[c].ruleset, request[c].ctx, results[c], ruleAt[c],
               terminalAt[c], verdict[c])
  BY RequestFacts DEF IInv, SoundCalls
<1>2. DOMAIN request[c].ruleset.rules = 1 .. Len(request[c].ruleset.rules)
      /\ Len(request[c].ruleset.rules) \in Nat
  BY <1>1, RuleSetFacts
<1>3. /\ results[c] \in [1 .. BufferLen(request[c].ruleset) -> BOOLEAN]
      /\ ruleAt[c] - 1 = Len(request[c].ruleset.rules)
      /\ \A i \in 1 .. ruleAt[c] - 1 :
           results[c][i] = Holds(request[c].ruleset.rules[i].condition, request[c].ctx, results[c])
  <2>1. ruleAt[c] = Len(request[c].ruleset.rules) + 1
    BY <1>1 DEF Sound
  <2>2. ruleAt[c] - 1 = Len(request[c].ruleset.rules)
    BY <1>2, <2>1
  <2>. QED  BY <1>1, <2>2 DEF Sound
<1>4. Consistent(Truth(c), request[c].ruleset, request[c].ctx)
  BY <1>1, <1>2, <1>3, FinishedIsConsistent DEF Truth
<1>5. verdict[c] = Verdict(request[c].ruleset, Truth(c))
  BY <1>1 DEF Sound, Truth
<1>. QED  BY <1>1, <1>4, <1>5

\* Two calls with the same rule set and field values return the same verdict,
\* on whatever threads and whether or not a report was asked for.
THEOREM AnswersAgreeAlways == Spec => []AnswersAgree
<1>1. ASSUME IInv, NEW c \in Caller, NEW d \in Caller,
             phase[c] = "returned", phase[d] = "returned",
             request[c].ruleset = request[d].ruleset, request[c].ctx = request[d].ctx
      PROVE  verdict[c] = verdict[d]
  <2>1. Truth(c) = Truth(d)
    BY <1>1, ReturnedFacts, TruthIsUnique
  <2>. QED  BY <1>1, <2>1, ReturnedFacts
<1>2. IInv => AnswersAgree
  BY <1>1 DEF AnswersAgree
<1>. QED  BY <1>2, Invariance, PTL

-----------------------------------------------------------------------------
(* Evaluator implements Decision *)

Asked ==
  [c \in Caller |-> IF request[c] = Nothing THEN Nothing
     ELSE [ruleset |-> request[c].ruleset, ctx |-> request[c].ctx]]

LEMMA SameVocabulary ==
  /\ \A t, rs, ctx : Promise!Consistent(t, rs, ctx) <=> Consistent(t, rs, ctx)
  /\ \A rs, t : Promise!Verdict(rs, t) = Verdict(rs, t)
  /\ Promise!Request = [ruleset : RuleSets, ctx : Contexts]
<1>1. \A k, rs, t : Promise!Reached(k, rs, t) <=> Reached(k, rs, t)
  BY DEF Promise!Reached, Reached
<1>2. \A k, rs, t : Promise!Wins(k, rs, t) <=> Wins(k, rs, t)
  BY <1>1 DEF Promise!Wins, Wins
<1>. QED  BY <1>2 DEF Promise!Consistent, Consistent, Promise!Verdict, Verdict, Promise!Request

LEMMA CallAsks ==
  ASSUME IInv, NEW c \in Caller, Call(c)
  PROVE  Promise!Ask(c)
<1>1. PICK r \in Request : request' = [request EXCEPT ![c] = r]
  BY DEF Call, Enter
<1>2. verdict' = [verdict EXCEPT ![c] = Nothing] /\ phase[c] \in {"idle", "returned"}
  BY DEF Call, Enter
<1>. DEFINE q == [ruleset |-> r.ruleset, ctx |-> r.ctx]
<1>3. q \in Promise!Request /\ r # Nothing
  BY SameVocabulary, NothingIsNone DEF Request
<1>4. Asked' = [Asked EXCEPT ![c] = q]
  BY <1>1, <1>3 DEF Asked, IInv, TypeOK
<1>5. Asked[c] = Nothing \/ verdict[c] # Nothing
  BY <1>2 DEF Asked, IInv, TypeOK
<1>. HIDE DEF q
<1>. QED  BY <1>2, <1>3, <1>4, <1>5 DEF Promise!Ask, Promise!Idle, Asked

ReturnedCalls ==
  \A c \in Caller : phase[c] = "returned" =>
    /\ Consistent(Truth(c), request[c].ruleset, request[c].ctx)
    /\ verdict[c] = Verdict(request[c].ruleset, Truth(c))

LEMMA ReturnedCallsHold == IInv => ReturnedCalls
BY ReturnedFacts DEF ReturnedCalls

LEMMA ReturnAnswers ==
  ASSUME IInv, IInv', NEW c \in Caller, ReturnVerdict(c) \/ ReturnNone(c)
  PROVE  Promise!Answer(c)
<1>1. /\ phase[c] = "terminals" /\ phase'[c] = "returned"
      /\ UNCHANGED <<request, results>>
      /\ verdict' = [verdict EXCEPT ![c] = verdict'[c]]
  BY DEF ReturnVerdict, ReturnNone, IInv, TypeOK
<1>2. /\ Consistent(Truth(c)', request[c].ruleset, request[c].ctx)
      /\ verdict'[c] = Verdict(request[c].ruleset, Truth(c)')
  <2>1. /\ Consistent(Truth(c)', request'[c].ruleset, request'[c].ctx)
        /\ verdict'[c] = Verdict(request'[c].ruleset, Truth(c)')
    <3>1. ReturnedCalls'
      BY ReturnedCallsHold, PTL
    <3>. QED  BY <1>1, <3>1 DEF ReturnedCalls
  <2>. QED  BY <1>1, <2>1
<1>3. PICK t : t = Truth(c)'
  OBVIOUS
<1>4. /\ Asked[c] = [ruleset |-> request[c].ruleset, ctx |-> request[c].ctx]
      /\ Asked[c] # Nothing /\ verdict[c] = Nothing /\ Asked' = Asked
  <2>1. request[c] \in Request /\ request[c] # Nothing
    BY <1>1, RequestFacts, NothingIsNone
  <2>2. [ruleset |-> request[c].ruleset, ctx |-> request[c].ctx] \in [ruleset : RuleSets, ctx : Contexts]
    BY <2>1 DEF Request
  <2>3. verdict[c] = Nothing
    BY <1>1 DEF IInv, TypeOK
  <2>4. Asked' = Asked
    BY <1>1 DEF Asked
  <2>. QED  BY <2>1, <2>2, <2>3, <2>4, NothingIsNone DEF Asked
<1>. QED  BY <1>1, <1>2, <1>3, <1>4, SameVocabulary
          DEF Promise!Answer, Promise!Idle, Asked, Consistent

\* Whatever the threads do, each is answered with the terminal Decision names.
THEOREM Implements == Spec => Decides
<1>1. Init => Promise!Init
  BY NothingIsNone DEF Init, Promise!Init
<1>2. ASSUME IInv, IInv', [Next]_vars
      PROVE  [Promise!Next]_<<Asked, verdict>>
  <2>1. ASSUME NEW c \in Caller, Call(c)
        PROVE  Promise!Next
    BY <2>1, <1>2, CallAsks DEF Promise!Next
  <2>2. ASSUME NEW c \in Caller, ReturnVerdict(c) \/ ReturnNone(c)
        PROVE  Promise!Next
    BY <2>2, <1>2, ReturnAnswers DEF Promise!Next
  <2>3. ASSUME NEW c \in Caller, EvalRule(c) \/ RulesDone(c) \/ NextTerminal(c)
        PROVE  UNCHANGED <<Asked, verdict>>
    BY <2>3 DEF EvalRule, RulesDone, NextTerminal, Asked
  <2>4. CASE UNCHANGED vars
    BY <2>4 DEF vars, Asked
  <2>. QED  BY <1>2, <2>1, <2>2, <2>3, <2>4 DEF Next, Step
<1>3. IInv /\ IInv' /\ [Next]_vars =>
        [Promise!Next]_<<[c \in Caller |-> IF request[c] = Nothing THEN Nothing
           ELSE [ruleset |-> request[c].ruleset, ctx |-> request[c].ctx]], verdict>>
  BY <1>2 DEF Asked
<1>. QED  BY <1>1, <1>3, Invariance, PTL DEF Spec, Decides, Promise!Spec

-----------------------------------------------------------------------------
(* The report *)

\* the rules among the first i that are true in res
TrueIn(res, i) == {j \in 1 .. i : res[j]}

\* The report of a call whose loop stands at rule ra.
Reported(rs, res, ra, eo, ev) ==
  /\ eo = [i \in 1 .. ra - 1 |-> rs.rules[i].name]
  /\ Len(ev) = Cardinality(TrueIn(res, ra - 1))
  /\ \A i \in 1 .. ra - 1 : res[i] => ev[Cardinality(TrueIn(res, i))] = rs.rules[i].name

Reporting ==
  \A c \in Caller : phase[c] # "idle" /\ request[c].detailed =>
    Reported(request[c].ruleset, results[c], ruleAt[c], evaluation_order[c], evaluated[c])

LEMMA ReportingIsReportMatches == Reporting <=> ReportMatchesResults
BY DEF Reporting, Reported, ReportMatchesResults, TrueIn, TrueUpTo, Written, Rules

LEMMA TrueInIsFinite ==
  ASSUME NEW res, NEW i \in Nat
  PROVE  IsFiniteSet(TrueIn(res, i)) /\ Cardinality(TrueIn(res, i)) \in Nat
<1>1. IsFiniteSet(1 .. i)
  BY FS_Interval
<1>2. TrueIn(res, i) \in SUBSET (1 .. i)
  BY DEF TrueIn
<1>3. IsFiniteSet(TrueIn(res, i))
  BY <1>1, <1>2, FS_Subset
<1>. QED  BY <1>3, FS_CardinalityType

\* A true rule among the first n has its place among their true ones.
LEMMA PlaceInRange ==
  ASSUME NEW res, NEW n \in Nat, NEW i \in 1 .. n, res[i]
  PROVE  Cardinality(TrueIn(res, i)) \in 1 .. Cardinality(TrueIn(res, n))
<1>1. i \in Nat /\ TrueIn(res, i) \in SUBSET TrueIn(res, n) /\ {i} \in SUBSET TrueIn(res, i)
  BY DEF TrueIn
<1>2. /\ IsFiniteSet(TrueIn(res, i)) /\ Cardinality(TrueIn(res, i)) \in Nat
      /\ IsFiniteSet(TrueIn(res, n)) /\ Cardinality(TrueIn(res, n)) \in Nat
  BY <1>1, TrueInIsFinite
<1>3. Cardinality(TrueIn(res, i)) <= Cardinality(TrueIn(res, n))
  BY ONLY <1>1, <1>2, FS_Subset
<1>4. Cardinality({i}) = 1
  BY FS_Singleton
<1>5. Cardinality({i}) <= Cardinality(TrueIn(res, i))
  BY ONLY <1>1, <1>2, FS_Subset
<1>. QED  BY <1>2, <1>3, <1>4, <1>5

LEMMA CallReported ==
  ASSUME NEW rs, NEW res
  PROVE  Reported(rs, res, 1, <<>>, <<>>)
<1>1. TrueIn(res, 0) = {} /\ 1 - 1 = 0 /\ 1 .. 0 = {}
  BY DEF TrueIn
<1>2. Cardinality({}) = 0
  BY FS_EmptySet
<1>3. <<>> = [i \in {} |-> rs.rules[i].name]
  OBVIOUS
<1>. QED  BY <1>1, <1>2, <1>3 DEF Reported

\* One iteration: rule ra is appended to the order, and to the true ones if it is.
LEMMA EvalRuleReported ==
  ASSUME NEW rs, NEW n \in Nat, NEW ra \in 1 .. n, NEW res \in [1 .. n -> BOOLEAN],
         NEW held \in BOOLEAN, NEW eo \in Seq(Name), NEW ev \in Seq(Name), NEW ev2,
         rs.rules[ra].name \in Name,
         Reported(rs, res, ra, eo, ev),
         ev2 = IF held THEN Append(ev, rs.rules[ra].name) ELSE ev
  PROVE  Reported(rs, [res EXCEPT ![ra] = held], ra + 1, Append(eo, rs.rules[ra].name), ev2)
<1>. DEFINE next == [res EXCEPT ![ra] = held]
            name == rs.rules[ra].name
            place(i) == Cardinality(TrueIn(res, i))
<1>1. /\ next[ra] = held
      /\ \A j \in 1 .. ra - 1 : next[j] = res[j]
      /\ ra \in Nat /\ ra - 1 \in Nat /\ (ra + 1) - 1 = ra
  OBVIOUS
<1>. HIDE DEF next
<1>2. \A i \in 1 .. ra - 1 : TrueIn(next, i) = TrueIn(res, i)
  BY <1>1 DEF TrueIn
<1>3. TrueIn(next, ra) = IF held THEN TrueIn(res, ra - 1) \cup {ra} ELSE TrueIn(res, ra - 1)
  BY <1>1 DEF TrueIn
<1>4. /\ IsFiniteSet(TrueIn(res, ra - 1)) /\ place(ra - 1) \in Nat
      /\ ra \notin TrueIn(res, ra - 1)
  <2>1. ra \notin TrueIn(res, ra - 1)
    BY <1>1 DEF TrueIn
  <2>. QED  BY <1>1, <2>1, TrueInIsFinite
<1>5. Cardinality(TrueIn(next, ra)) = IF held THEN place(ra - 1) + 1 ELSE place(ra - 1)
  <2>1. Cardinality(TrueIn(res, ra - 1) \cup {ra}) = place(ra - 1) + 1
    BY <1>4, FS_AddElement
  <2>. QED  BY <1>3, <2>1
<1>6. Len(ev) = place(ra - 1)
  BY DEF Reported
<1>7. ev2 \in Seq(Name) /\ Len(ev2) = Cardinality(TrueIn(next, ra))
  <2>. HIDE DEF place
  <2>. QED  BY <1>4, <1>5, <1>6
<1>8. Append(eo, name) = [i \in 1 .. ra |-> rs.rules[i].name]
  <2>1. eo = [i \in 1 .. ra - 1 |-> rs.rules[i].name]
    BY DEF Reported
  <2>2. Len(eo) = ra - 1
    BY <1>1, <2>1
  <2>. QED  BY <1>1, <2>1, <2>2
<1>9. ASSUME NEW i \in 1 .. ra, next[i]
      PROVE  ev2[Cardinality(TrueIn(next, i))] = rs.rules[i].name
  <2>1. CASE i = ra
    <3>1. ev2 = Append(ev, name) /\ Cardinality(TrueIn(next, i)) = Len(ev) + 1
      BY <2>1, <1>1, <1>5, <1>6, <1>9
    <3>. QED  BY <2>1, <3>1
  <2>2. CASE i # ra
    <3>1. i \in 1 .. ra - 1 /\ res[i]
      BY <2>2, <1>1, <1>9
    <3>2. Cardinality(TrueIn(next, i)) = place(i) /\ ev[place(i)] = rs.rules[i].name
      BY <3>1, <1>2 DEF Reported
    <3>3. place(i) \in 1 .. Len(ev)
      BY <1>1, <1>6, <3>1, PlaceInRange
    <3>. HIDE DEF place
    <3>4. ev2[place(i)] = ev[place(i)]
      BY <3>3
    <3>. QED  BY <3>2, <3>4
  <2>. QED  BY <2>1, <2>2
<1>10. Reported(rs, next, ra + 1, Append(eo, name), ev2)
  BY <1>1, <1>7, <1>8, <1>9 DEF Reported
<1>. QED  BY <1>10 DEF next

LEMMA CallReporting ==
  ASSUME IInv, Reporting, NEW c \in Caller, Call(c)
  PROVE  Reporting'
<1>1. /\ phase \in [Caller -> {"idle", "rules", "terminals", "returned"}]
      /\ request \in [Caller -> Request \cup {Nothing}]
      /\ results \in [Caller -> Seq(BOOLEAN)] /\ ruleAt \in [Caller -> Nat \ {0}]
      /\ evaluation_order \in [Caller -> Seq(Name)] /\ evaluated \in [Caller -> Seq(Name)]
  BY DEF IInv, TypeOK
<1>2. /\ ruleAt'[c] = 1 /\ evaluation_order'[c] = <<>> /\ evaluated'[c] = <<>>
  BY <1>1 DEF Call, Enter
<1>3. ASSUME NEW d \in Caller, d # c
      PROVE  /\ phase'[d] = phase[d] /\ request'[d] = request[d] /\ results'[d] = results[d]
             /\ ruleAt'[d] = ruleAt[d] /\ evaluation_order'[d] = evaluation_order[d]
             /\ evaluated'[d] = evaluated[d]
  BY <1>1, <1>3 DEF Call, Enter
<1>. QED  BY <1>2, <1>3, CallReported DEF Reporting

LEMMA EvalRuleReporting ==
  ASSUME IInv, Reporting, NEW c \in Caller, EvalRule(c)
  PROVE  Reporting'
<1>. DEFINE rs == request[c].ruleset
            rule == rs.rules[ruleAt[c]]
            held == Holds(rule.condition, request[c].ctx, results[c])
<1>1. /\ phase \in [Caller -> {"idle", "rules", "terminals", "returned"}]
      /\ results \in [Caller -> Seq(BOOLEAN)] /\ ruleAt \in [Caller -> Nat \ {0}]
      /\ evaluation_order \in [Caller -> Seq(Name)] /\ evaluated \in [Caller -> Seq(Name)]
  BY DEF IInv, TypeOK
<1>2. /\ phase[c] = "rules" /\ rs \in RuleSets /\ request[c].ctx \in Contexts
      /\ Rules(c) = rs.rules
  BY RequestFacts DEF EvalRule
<1>3. results[c] \in [1 .. BufferLen(rs) -> BOOLEAN]
  BY <1>2 DEF IInv, TypeOK
<1>4. /\ ruleAt[c] \in DOMAIN rs.rules /\ ruleAt[c] \in 1 .. BufferLen(rs)
      /\ BufferLen(rs) \in Nat
  <2>1. ruleAt[c] <= Len(rs.rules)
    BY <1>2 DEF EvalRule
  <2>2. /\ DOMAIN rs.rules = 1 .. Len(rs.rules) /\ Len(rs.rules) \in Nat
        /\ BufferLen(rs) \in Nat /\ Len(rs.rules) <= BufferLen(rs)
    BY <1>2, RuleSetFacts
  <2>. QED  BY <1>1, <2>1, <2>2
<1>5. rule.index = ruleAt[c] /\ rule.name \in Name
  BY <1>2, <1>4, ResolvedFacts, RuleSetFacts DEF CompiledRule
<1>6. held \in BOOLEAN
  <2>1. results[c] \in Results(rs)
    BY <1>3 DEF Results
  <2>. QED  BY <1>2, <1>4, <2>1, HoldsIsBoolean
<1>7. /\ phase' = phase /\ request' = request
      /\ results' = [results EXCEPT ![c] = [results[c] EXCEPT ![ruleAt[c]] = held]]
      /\ ruleAt' = [ruleAt EXCEPT ![c] = ruleAt[c] + 1]
  BY <1>2, <1>5 DEF EvalRule
<1>8. request[c].detailed =>
        /\ evaluation_order' = [evaluation_order EXCEPT ![c] = Append(evaluation_order[c], rule.name)]
        /\ evaluated' = [evaluated EXCEPT ![c] =
             IF held THEN Append(evaluated[c], rule.name) ELSE evaluated[c]]
  <2>1. evaluated = [evaluated EXCEPT ![c] = evaluated[c]]
    BY <1>1
  <2>. QED  BY <1>2, <2>1 DEF EvalRule
<1>9. ASSUME NEW d \in Caller, d # c
      PROVE  /\ results'[d] = results[d] /\ ruleAt'[d] = ruleAt[d]
             /\ evaluation_order'[d] = evaluation_order[d] /\ evaluated'[d] = evaluated[d]
  BY <1>1, <1>9 DEF EvalRule
<1>10. ASSUME request[c].detailed
       PROVE  Reported(rs, results'[c], ruleAt'[c], evaluation_order'[c], evaluated'[c])
  <2>1. Reported(rs, results[c], ruleAt[c], evaluation_order[c], evaluated[c])
    BY <1>2, <1>10 DEF Reporting
  <2>2. PICK ev2 : ev2 = IF held THEN Append(evaluated[c], rule.name) ELSE evaluated[c]
    OBVIOUS
  <2>3. evaluation_order[c] \in Seq(Name) /\ evaluated[c] \in Seq(Name)
    BY <1>1
  <2>4. Reported(rs, [results[c] EXCEPT ![ruleAt[c]] = held], ruleAt[c] + 1,
                 Append(evaluation_order[c], rule.name), ev2)
    <3>. HIDE DEF held, rs
    <3>. QED  BY <1>3, <1>4, <1>5, <1>6, <2>1, <2>2, <2>3, EvalRuleReported
  <2>5. /\ results'[c] = [results[c] EXCEPT ![ruleAt[c]] = held]
        /\ ruleAt'[c] = ruleAt[c] + 1
        /\ evaluation_order'[c] = Append(evaluation_order[c], rule.name)
        /\ evaluated'[c] = ev2
    <3>. HIDE DEF held, rule
    <3>. QED  BY <1>1, <1>7, <1>8, <1>10, <2>2
  <2>. QED  BY <2>4, <2>5
<1>11. ASSUME NEW d \in Caller, phase'[d] # "idle", request'[d].detailed
       PROVE  Reported(request'[d].ruleset, results'[d], ruleAt'[d], evaluation_order'[d],
                       evaluated'[d])
  <2>1. CASE d = c
    BY <2>1, <1>7, <1>10, <1>11
  <2>2. CASE d # c
    BY <2>2, <1>7, <1>9, <1>11 DEF Reporting
  <2>. QED  BY <2>1, <2>2
<1>. QED  BY <1>11 DEF Reporting

\* A detailed report is exact at every moment: it lists the rules in execution
\* order and, of those, the true ones once each (evaluate.rs:61-67), whatever
\* the later rules and the other threads do.
THEOREM ReportMatchesResultsAlways == Spec => []ReportMatchesResults
<1>1. Init => Reporting
  BY DEF Init, Reporting
<1>2. ASSUME IInv, Reporting, [Next]_vars
      PROVE  Reporting'
  <2>1. ASSUME NEW c \in Caller, RulesDone(c) \/ ReturnVerdict(c) \/ NextTerminal(c) \/ ReturnNone(c)
        PROVE  Reporting'
    <3>1. UNCHANGED <<request, results, ruleAt, evaluation_order, evaluated>>
      BY <2>1 DEF RulesDone, ReturnVerdict, NextTerminal, ReturnNone
    <3>2. \A d \in Caller : phase'[d] # "idle" => phase[d] # "idle"
      BY <1>2, <2>1 DEF RulesDone, ReturnVerdict, NextTerminal, ReturnNone, IInv, TypeOK
    <3>. QED  BY <1>2, <3>1, <3>2 DEF Reporting
  <2>2. CASE UNCHANGED vars
    BY <1>2, <2>2 DEF vars, Reporting
  <2>. QED  BY <1>2, <2>1, <2>2, CallReporting, EvalRuleReporting DEF Next, Step
<1>3. Spec => []Reporting
  BY <1>1, <1>2, Invariance, PTL DEF Spec
<1>. QED  BY <1>3, ReportingIsReportMatches, PTL
=============================================================================
