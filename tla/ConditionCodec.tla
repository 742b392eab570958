---------------------------- MODULE ConditionCodec ----------------------------
(***************************************************************************)
(* The binary form of a condition (serial.rs): chains of And and Or become *)
(* one n-ary node and come back as a chain that nests to the left.  The    *)
(* variants other than And and Or keep their fields.                       *)
(***************************************************************************)
EXTENDS Expressions

RECURSIVE FlattenExpr(_), ChainOf(_, _)
FlattenExpr(c) ==
  CASE c.op \in {"And", "Or"} -> [op |-> c.op, children |-> ChainOf(c, c.op)]
    [] c.op = "Not"           -> [c EXCEPT !.inner = FlattenExpr(@)]
    [] c.op = "AtLeast"       -> [c EXCEPT !.exprs = [i \in DOMAIN @ |-> FlattenExpr(@[i])]]
    [] OTHER                  -> c

\* collect_and_children and collect_or_children
ChainOf(c, op) ==
  IF c.op = op THEN ChainOf(c.left, op) \o ChainOf(c.right, op) ELSE <<FlattenExpr(c)>>

RECURSIVE UnflattenExpr(_)
UnflattenExpr(s) ==
  CASE s.op \in {"And", "Or"} ->
         FoldLeft(LAMBDA acc, child : [op |-> s.op, left |-> acc, right |-> UnflattenExpr(child)],
                  UnflattenExpr(s.children[1]), Tail(s.children))
    [] s.op = "Not"           -> [s EXCEPT !.inner = UnflattenExpr(@)]
    [] s.op = "AtLeast"       -> [s EXCEPT !.exprs = [i \in DOMAIN @ |-> UnflattenExpr(@[i])]]
    [] OTHER                  -> s

\* the conditions of which s is made
Subconditions(s) ==
  CASE s.op \in {"And", "Or"} -> s.children
    [] s.op = "Not"           -> <<s.inner>>
    [] s.op = "AtLeast"       -> s.exprs
    [] OTHER                  -> <<>>

\* s and all that is inside it, as validate_expr comes by it
RECURSIVE NodesOf(_)
NodesOf(s) ==
  {s} \cup UNION {NodesOf(Subconditions(s)[i]) : i \in DOMAIN Subconditions(s)}
=============================================================================
