------------------------------ MODULE MCContexts ------------------------------
(***************************************************************************)
(* Contexts on paths up to three segments deep that contain one another,   *)
(* stand beside one another or have nothing in common, two values, and     *)
(* registries with and without paths that conflict.                        *)
(***************************************************************************)
EXTENDS Contexts, Expressions

MCSegment == {"a", "b", "c"}

MCPath == { <<"a">>, <<"a", "b">>, <<"a", "c">>, <<"a", "b", "c">>, <<"b">> }

MCValue == {Int_(1), Int_(2)}

MCRegistries ==
  { << <<"a", "b">>, <<"b">> >>,
    << <<"a">>, <<"a", "b", "c">>, <<"a", "c">> >> }

\* field == 1, and the field is there, for the first two fields
Conditions ==
  {CompareE(i, "Eq", Int_(1)) : i \in 1 .. 2} \cup {IsNotNullE(i) : i \in 1 .. 2}

\* "Indexed and Context evaluation paths produce the same result."
\* (tests/proptest_eval.rs:117): a rule with one of the conditions holds for
\* evaluate() exactly when it holds for evaluate_indexed().
EvaluationsAgree ==
  phase = "idle" =>
    \A c \in Conditions : EvalExpr(c, FlattenContext, <<>>) <=> EvalExpr(c, values, <<>>)
=============================================================================
