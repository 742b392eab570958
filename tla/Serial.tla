-------------------------------- MODULE Serial --------------------------------
(***************************************************************************)
(* serial.rs: the binary form of a compiled rule set.  The parallel        *)
(* vectors of a RuleSet are zipped and validated; a header with the length *)
(* and a hash of the payload goes in front.  What becomes of a condition   *)
(* is a parameter.                                                         *)
(*                                                                         *)
(* A file is a sequence of cells.  The four header fields that are read    *)
(* take a cell each, the payload one for its metadata, one for the number  *)
(* of rules, one for every rule and one for each of its other vectors.     *)
(* BLAKE3 has no collisions here: the hash of a text or of a payload is    *)
(* that text or payload.  Indices count from 1.                            *)
(***************************************************************************)
EXTENDS Integers, SequencesExt, Variants

CONSTANTS
  MAGIC, FORMAT_VERSION,
  Flatten(_),    \* flatten_expr
  Unflatten(_),  \* unflatten_expr
  Nodes(_)       \* the conditions validate_expr visits

HEADER_SIZE == 4

-----------------------------------------------------------------------------
(* Conditions *)

\* the slots of the field registry a node reads
SlotsOf(s) ==
  LET slots(bounds) == {bounds[i].index : i \in {k \in DOMAIN bounds : Is(bounds[k], "index")}}
  IN  CASE s.op \in {"In", "NotIn"} -> {s.field} \cup slots(s.members)
        [] s.op = "Between"         -> {s.field} \cup slots(<<s.low, s.high>>)
        [] s.op = "CompareFields"   -> {s.lhs, s.rhs}
        [] Is(s, "field")           -> {s.field}
        [] OTHER                    -> {}

\* Faulty: a reference may point ahead, to a rule evaluated later.
X_ValidateExpr_AnyRule(s, field_count, rule_count, current) ==
  \A n \in Nodes(s) :
    /\ SlotsOf(n) \subseteq 1 .. field_count
    /\ n.op = "RuleRef" => n.index <= rule_count
    /\ n.op \in {"And", "Or"} => n.children # <<>>

ValidateExpr(s, field_count, rule_count, current) ==
  \A n \in Nodes(s) :
    /\ SlotsOf(n) \subseteq 1 .. field_count
    /\ n.op = "RuleRef" => n.index <= rule_count /\ n.index < current
    /\ n.op \in {"And", "Or"} => n.children # <<>>

-----------------------------------------------------------------------------
(* Rule sets.  field_registry is a FieldRegistry: the slot of each path, and *)
(* the number of slots.  source is the set of the texts given: one or none.  *)

\* Faulty: the digest is not embedded.
X_Digest_Dropped(source) == {}

Digest(source) == source

\* the pairs of a field registry in the order of their slots
FieldIndex(registry) ==
  LET pairs == {[path |-> p, index |-> registry.paths[p]] : p \in DOMAIN registry.paths}
  IN  CHOOSE seq \in SetToSeqs(pairs) :
        \A i, j \in DOMAIN seq : i <= j => seq[i].index <= seq[j].index

RulesetToSerialized(rs, source) ==
  [ metadata |->
      [ rule_count |-> Len(rs.rules), terminal_count |-> Len(rs.terminals),
        field_count |-> rs.field_registry.len, source_digest |-> Digest(source) ],
    rules |->
      [i \in DOMAIN rs.rules |->
         [index |-> rs.rules[i].index, condition |-> Flatten(rs.rules[i].condition)]],
    terminals |->
      [k \in DOMAIN rs.terminals |->
         [ rule_index |-> rs.terminal_indices[k], name |-> rs.terminals[k].rule_name,
           priority |-> rs.terminals[k].priority ]],
    field_index |-> FieldIndex(rs.field_registry),
    rule_names |->
      [i \in DOMAIN rs.rules |-> [name |-> rs.rules[i].name, index |-> rs.rules[i].index]] ]

\* FieldRegistry::from_pairs: of two pairs with one path the later stands
FromPairs(pairs) ==
  LET places(p) == {i \in DOMAIN pairs : pairs[i].path = p}
  IN  [ paths |-> [p \in {pairs[i].path : i \in DOMAIN pairs} |-> pairs[Max(places(p))].index],
        len |-> Max({0} \cup {pairs[i].index : i \in DOMAIN pairs}) ]

\* Faulty: no two terminals of one priority.
X_SortedByPriority_Strictly(terminals) ==
  \A k \in 2 .. Len(terminals) : terminals[k - 1].priority < terminals[k].priority

SortedByPriority(terminals) ==
  \A k \in 2 .. Len(terminals) : terminals[k - 1].priority <= terminals[k].priority

Validate(ser) ==
  LET field_count == Len(ser.field_index)
      rule_count  == Len(ser.rules)
  IN  /\ ser.metadata.rule_count = rule_count
      /\ ser.metadata.terminal_count = Len(ser.terminals)
      /\ ser.metadata.field_count = field_count
      /\ Len(ser.rule_names) = rule_count
      /\ \A i \in DOMAIN ser.rules :
           ValidateExpr(ser.rules[i].condition, field_count, rule_count, ser.rules[i].index)
      /\ \A k \in DOMAIN ser.terminals : ser.terminals[k].rule_index <= rule_count
      /\ SortedByPriority(ser.terminals)

Ok(rs)     == [ok |-> rs]
Err(error) == [err |-> error]

SerializedToRuleset(ser) ==
  IF ~Validate(ser) THEN Err("Validation")
  ELSE Ok([ rules |->
              [i \in DOMAIN ser.rules |->
                 [ name |-> ser.rule_names[i].name, index |-> ser.rules[i].index,
                   condition |-> Unflatten(ser.rules[i].condition) ]],
            terminals |->
              [k \in DOMAIN ser.terminals |->
                 [rule_name |-> ser.terminals[k].name, priority |-> ser.terminals[k].priority]],
            terminal_indices |-> [k \in DOMAIN ser.terminals |-> ser.terminals[k].rule_index],
            field_registry |-> FromPairs(ser.field_index) ])

-----------------------------------------------------------------------------
(* Bytes. *)

\* bincode::serde::encode_to_vec
EncodePayload(ser) ==
  <<[metadata |-> ser.metadata], [count |-> Len(ser.rules)]>>
    \o [i \in DOMAIN ser.rules |-> [rule |-> ser.rules[i]]]
    \o <<[terminals |-> ser.terminals], [field_index |-> ser.field_index],
         [rule_names |-> ser.rule_names]>>

\* bincode::serde::decode_from_slice, which asks for no more than it needs
DecodePayload(p) ==
  LET n    == IF Len(p) > 1 /\ Is(p[2], "count") THEN p[2].count ELSE 0
      kind == [i \in 1 .. n + 5 |->
                 CASE i = 1 -> "metadata"         [] i = 2 -> "count"
                   [] i = n + 3 -> "terminals"    [] i = n + 4 -> "field_index"
                   [] i = n + 5 -> "rule_names"   [] OTHER -> "rule"]
  IN  IF Len(p) < n + 5 \/ \E i \in DOMAIN kind : ~Is(p[i], kind[i]) THEN {}
      ELSE {[ metadata |-> p[1].metadata, rules |-> [i \in 1 .. n |-> p[i + 2].rule],
              terminals |-> p[n + 3].terminals, field_index |-> p[n + 4].field_index,
              rule_names |-> p[n + 5].rule_names ]}

WriteHeader(payload) ==
  <<[magic |-> MAGIC], [version |-> FORMAT_VERSION], [length |-> Len(payload)],
    [hash |-> payload]>>

Encode(rs, source) ==
  LET payload == EncodePayload(RulesetToSerialized(rs, source))
  IN  WriteHeader(payload) \o payload

\* the payload the header announces, as far as there is one
PayloadLength(bytes) == IF Is(bytes[3], "length") THEN bytes[3].length ELSE 0
PayloadOf(bytes) ==
  SubSeq(bytes, HEADER_SIZE + 1, Min({Len(bytes), HEADER_SIZE + PayloadLength(bytes)}))

\* Faulty: the header is enough.
X_Complete_HeaderOnly(bytes) == Len(bytes) >= HEADER_SIZE

Complete(bytes) == Len(bytes) >= HEADER_SIZE + PayloadLength(bytes)

\* Faulty: the hash is not compared.
X_Intact_Trusting(bytes) == TRUE

Intact(bytes) == bytes[4] = [hash |-> PayloadOf(bytes)]

Decode(bytes) ==
  IF Len(bytes) < HEADER_SIZE THEN Err("LengthMismatch")
  ELSE IF bytes[1] # [magic |-> MAGIC] THEN Err("BadMagic")
  ELSE IF bytes[2] # [version |-> FORMAT_VERSION] THEN Err("IncompatibleVersion")
  ELSE IF ~Complete(bytes) THEN Err("LengthMismatch")
  ELSE IF ~Intact(bytes) THEN Err("ChecksumMismatch")
  ELSE LET read == DecodePayload(PayloadOf(bytes))
       IN  IF read = {} THEN Err("Decode") ELSE SerializedToRuleset(CHOOSE ser \in read : TRUE)
=============================================================================
