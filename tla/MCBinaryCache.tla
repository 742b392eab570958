----------------------------- MODULE MCBinaryCache -----------------------------
(***************************************************************************)
(* BinaryCache with two rule sets of the same shape, whose parts could be  *)
(* mixed, and with what other programs may have left in the place: files   *)
(* of other kinds and versions, and well-formed ones whose rule set is not *)
(* or whose rules carry other numbers than their positions.                *)
(***************************************************************************)
EXTENDS BinaryCache, ConditionCodec

CONSTANTS a, b, c, s1, s2, w1, w2, r1, Theirs

MCName == {a, b, c}
MCSources == {s1, s2}
MCWriter == {w1, w2}
MCReader == {r1}

Old == [op |-> "Compare", field |-> 1, cmp |-> "Gte", value |-> Int_(2)]
Known == [op |-> "IsNotNull", field |-> 2]
Ref(i) == [op |-> "RuleRef", index |-> i]

Make(names, conditions, terminals, indices) ==
  [ rules |-> [i \in DOMAIN names |->
                 [name |-> names[i], index |-> i, condition |-> conditions[i]]],
    terminals |-> terminals, terminal_indices |-> indices,
    field_registry |-> [paths |-> ("x" :> 1 @@ "y" :> 2), len |-> 2] ]

At(name, priority) == [rule_name |-> name, priority |-> priority]

\* a chain that nests to the right, under Not; and one on both sides
Denying ==
  Make(<<a, b>>,
       << OrE(Old, OrE(NotE(Known), AndE(Known, Old))),
          NotE(AndE(Ref(1), AndE(Known, Old))) >>,
       <<At(b, 1), At(a, 1)>>, <<2, 1>>)

Allowing ==
  Make(<<b, a>>,
       << AtLeastE(1, <<AndE(AndE(Old, Known), AndE(Known, Old)), NotE(Known)>>),
          OrE([op |-> "Between", field |-> 1, low |-> Literal(Int_(1)),
               high |-> [index |-> 2]], Ref(1)) >>,
       <<At(b, 0), At(a, 1)>>, <<1, 2>>)

MCCalls == { [ruleset |-> Denying, source |-> {s1}], [ruleset |-> Allowing, source |-> {}] }

MCConditions ==
  UNION {{call.ruleset.rules[i].condition : i \in DOMAIN call.ruleset.rules} : call \in MCCalls}

\* inside the header, inside the rules, and between two other vectors
MCCuts == {2, 7, 9}

MCContexts ==
  { [p \in {"x", "y"} |-> {}], [p \in {"x", "y"} |-> {Int_(2)}],
    [p \in {"x", "y"} |-> IF p = "x" THEN {Int_(1)} ELSE {}] }

-----------------------------------------------------------------------------
Ser == RulesetToSerialized(Denying, {})

Whole(ser) == WriteHeader(EncodePayload(ser)) \o EncodePayload(ser)

\* a producer of this format whose rule sets are not sound
Unsound ==
  { [Ser EXCEPT !.rules[1].condition = Ref(2)],
    [Ser EXCEPT !.rules[2].condition = [op |-> "Not", inner |-> Ref(2)]],
    [Ser EXCEPT !.rules[1].condition = [op |-> "And", children |-> <<>>]],
    [Ser EXCEPT !.rules[1].condition = [op |-> "IsNull", field |-> 3]],
    [Ser EXCEPT !.terminals[1].rule_index = 3],
    [Ser EXCEPT !.terminals[1].priority = 2],
    [Ser EXCEPT !.metadata.terminal_count = 1],
    [Ser EXCEPT !.rule_names = <<@[1]>>] }

\* one that numbers its rules otherwise: a number twice, one beyond the last, a
\* reference to a later rule, and the positions the other way round
Misnumbered ==
  { [Ser EXCEPT !.rules[1].index = 2],
    [Ser EXCEPT !.rules[2].index = 3],
    [Ser EXCEPT !.rules[1] = [index |-> 3, condition |-> Ref(2)]],
    [Ser EXCEPT !.rules[1].index = 2, !.rules[2].index = 1] }

MCSerialized ==
  {FlattenExpr(condition) : condition \in MCConditions}
    \cup UNION {{ser.rules[i].condition : i \in DOMAIN ser.rules} : ser \in Unsound \cup Misnumbered}

MCDelivered ==
  {Whole(ser) : ser \in Unsound \cup Misnumbered}
    \cup { Encode(Denying, {}) \o <<Zero>>,                       \* with a tail
           [Encode(Denying, {}) EXCEPT ![2] = [version |-> FORMAT_VERSION - 1]],
           [Encode(Denying, {}) EXCEPT ![1] = [magic |-> Theirs]],
           [Encode(Denying, {}) EXCEPT ![6] = [count |-> 1]],     \* a cell damaged
           Whole([Ser EXCEPT !.rules = Append(@, [@[1] EXCEPT !.index = 3])]),
           <<Zero>> }
=============================================================================
