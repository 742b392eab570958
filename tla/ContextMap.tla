------------------------------- MODULE ContextMap -------------------------------
(***************************************************************************)
(* What a Context promises: a map from paths to values in which set(path)  *)
(* is what get(path) returns from then on, until a path that contains it,  *)
(* or that it contains, is set instead.  A path is a sequence of segments. *)
(***************************************************************************)
EXTENDS SequencesExt

CONSTANTS Path, Value

VARIABLE fields

Init == fields = [p \in {} |-> {}]

\* one of the two lies inside the other: a and a.b
Conflict(p, q) == IsStrictPrefix(p, q) \/ IsStrictPrefix(q, p)

Set ==
  \E p \in Path, v \in Value :
    fields' = [q \in {r \in DOMAIN fields : ~Conflict(r, p)} \cup {p} |->
                 IF q = p THEN v ELSE fields[q]]

Spec == Init /\ [][Set]_fields
=============================================================================
