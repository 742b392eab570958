------------------------------- MODULE MCValues -------------------------------
(***************************************************************************)
(* The two computations behind the leaves of a condition: ValueOrder, with *)
(* two bits of mantissa (the floats next to 8 are 6 and 12, and the        *)
(* integers between them are rounded), and LikeMatcher on the strings of   *)
(* MCLikeMatcher.  Neither sees the state of the other, so one of them     *)
(* rests while the other moves.                                            *)
(***************************************************************************)
EXTENDS MCLikeMatcher, ValueOrder

X == INSTANCE Expressions

MCSameValue(a, b) == X!SameValue(a, b)

MCSamples ==
  {Int_(i) : i \in {-9, -2, 0, 1, 7, 8, 9, 10, 11}}
    \cup {Half(h) : h \in {-24, -1, 0, 1, 3, 12, 16, 24}}
    \cup {NaN, Bool(FALSE), Bool(TRUE), String(<<1>>), String(<<1, 2>>), String(<<>>),
          List(<<>>), List(<<Int_(1)>>)}

-----------------------------------------------------------------------------
ValuesInit == Init /\ OrderInit

Matching  == OrderInit /\ Next /\ UNCHANGED field_values
Comparing == v = <<>> /\ p = <<>> /\ pc = "scan" /\ OrderNext /\ UNCHANGED vars

ValuesSpec == ValuesInit /\ [][Matching \/ Comparing]_<<vars, field_values>>
=============================================================================
