------------------------------ MODULE ValueOrder ------------------------------
(***************************************************************************)
(* Three fields of a context, set to values of any type, and what the      *)
(* conditions that compare them say (types/value.rs through evaluate.rs):  *)
(* an integer beside a float is rounded to a float first, other pairs of   *)
(* types do not compare.                                                   *)
(***************************************************************************)
EXTENDS Leaves

CONSTANT Samples  \* the values looked at

Scalar ==
  [int : -Limit .. Limit] \cup [float : Int] \cup [bool : BOOLEAN] \cup [string : Seq(Int)] \cup [nan : {TRUE}]

ASSUME SamplesAreValues == \A v \in Samples : v \in Scalar \/ DOMAIN v = {"list"}

ASSUME EqualityIsSymmetric ==
  \A u, v \in Samples : Equals(u, v) \in BOOLEAN /\ Equals(u, v) = Equals(v, u)

VARIABLE field_values  \* by the index of the field: the set of its value

Slot == 1 .. 3

OrderInit == field_values = [i \in Slot |-> {}]

\* Context::set
Set(i, value) == field_values' = [field_values EXCEPT ![i] = {value}]

OrderNext == \E i \in Slot, value \in Samples : Set(i, value)

OrderSpec == OrderInit /\ [][OrderNext]_field_values

-----------------------------------------------------------------------------
\* CompareFields and Between, as conditions on the fields
Says(i, cmp, j) ==
  EvalLeaf([op |-> "CompareFields", lhs |-> i, cmp |-> cmp, rhs |-> j], field_values)

Within(i, lo, hi) ==
  EvalLeaf([op |-> "Between", field |-> i, low |-> [index |-> lo], high |-> [index |-> hi]],
           field_values)

Swapped == [Eq |-> "Eq", Neq |-> "Neq", Gt |-> "Lt", Gte |-> "Lte", Lt |-> "Gt", Lte |-> "Gte"]

\* Rounding an integer does not bend the order.  Strict steps add up to a
\* strict one; a strict step and one that is not never lead back; a range
\* that holds a value other than its low end has its ends in order; and no
\* comparison depends on which field stands on the left.  (More is not true:
\* two integers may round to one float, so that 7 < 8, 8 <= 8.0 and
\* 7 == 8.0, and two steps that are not strict can lead back.)
OrderIsCoherent ==
  \A i, j, k \in Slot :
    /\ Says(i, "Lt", j) /\ Says(j, "Lt", k)  => Says(i, "Lt", k)
    /\ Says(i, "Lte", j) /\ Says(j, "Lt", k) => Says(i, "Lte", k)
    /\ Says(i, "Lt", j) /\ Says(j, "Lte", k) => Says(i, "Lte", k)
    /\ Within(i, j, k) /\ Says(i, "Neq", j)  => Says(j, "Lte", k)
    /\ \A cmp \in CompareOps : Says(i, cmp, j) <=> Says(j, Swapped[cmp], i)
=============================================================================
