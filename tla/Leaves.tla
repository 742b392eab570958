-------------------------------- MODULE Leaves --------------------------------
(***************************************************************************)
(* The conditions that have no conditions inside (evaluate.rs): a field    *)
(* compared with values or with other fields.  Fields are given by their   *)
(* index: fields[i] is the set of the values of field i, {} when the       *)
(* context has none.                                                       *)
(***************************************************************************)
EXTENDS Values

\* field_values.get(i).and_then(Option::as_ref)
Given(fields, i) == IF i \in DOMAIN fields THEN fields[i] ELSE {}

ResolveBound(b, fields) == IF Is(b, "index") THEN Given(fields, b.index) ELSE {b.literal}

\* the value equals the bound, or an element of the list the bound holds
MatchesBound(v, b, fields) ==
  \E m \in ResolveBound(b, fields) :
    IF Is(m, "list") THEN \E i \in DOMAIN m.list : CompareHolds(v, "Eq", m.list[i])
                     ELSE CompareHolds(v, "Eq", m)

IsMember(v, members, fields) == \E i \in DOMAIN members : MatchesBound(v, members[i], fields)

\* A leaf on a field that has no value is false, whatever its operator, but
\* for IsNull.
EvalLeaf(c, fields) ==
  CASE c.op = "Compare"   -> \E v \in Given(fields, c.field) : CompareHolds(v, c.cmp, c.value)
    [] c.op = "In"        -> \E v \in Given(fields, c.field) : IsMember(v, c.members, fields)
    [] c.op = "NotIn"     -> \E v \in Given(fields, c.field) : ~IsMember(v, c.members, fields)
    [] c.op = "Between"   -> \E v \in Given(fields, c.field) :
                               /\ \E l \in ResolveBound(c.low, fields) : CompareHolds(v, "Gte", l)
                               /\ \E h \in ResolveBound(c.high, fields) : CompareHolds(v, "Lte", h)
    [] c.op = "Like"      -> \E v \in Given(fields, c.field) :
                               Is(v, "string") /\ LikeMatch(v.string, c.pattern)
    [] c.op = "NotLike"   -> \E v \in Given(fields, c.field) :
                               Is(v, "string") /\ ~LikeMatch(v.string, c.pattern)
    [] c.op = "IsNull"    -> Given(fields, c.field) = {}
    [] c.op = "IsNotNull" -> Given(fields, c.field) # {}
    [] c.op = "CompareFields" ->
         \E l \in Given(fields, c.lhs), r \in Given(fields, c.rhs) : CompareHolds(l, c.cmp, r)
=============================================================================
