------------------------------- MODULE MCParser -------------------------------
(***************************************************************************)
(* Parser with every form of leaf, some of them errors, and rules whose    *)
(* names begin like keywords.                                              *)
(***************************************************************************)
EXTENDS Parser

MCWords == {"a", "b", "x", "y", "ify"}
MCSigns == {<<w>> : w \in {"a", "b", "AND", "OR", "NOT", "(", ")"}}
MCNames == {<<"not", "ify">>, <<"rule">>}
MCPriorities == {{}, {1}}

X == <<"x">>
Y == <<"y">>
One == Int_(1)

\* with blanks, comments, signs and spellings of keywords as they may come
Accepted ==
  <<"x", " ", ">=", " ", "1">>            :> CompareE(X, "Gte", One)
  @@ <<"x", "==", "y", ".", "1">>         :> CompareFieldsE(X, "Eq", <<"y", ".", "1">>)
  @@ <<"x", "==", "true">>                :> CompareE(X, "Eq", Bool(TRUE))
  @@ <<"x", "==", "0", ".", "5">>         :> CompareE(X, "Eq", Half(1))
  @@ <<"x", "<", "-", "1", ".", "5">>     :> CompareE(X, "Lt", Half(-3))
  @@ <<"x", "<", "-", "0", "2", ".">>     :> CompareE(X, "Lt", Half(-4))
  @@ <<"x", "==", "[", "+", "1", ",", "\"", "a", "\"", "]">>
                                          :> CompareE(X, "Eq", List(<<One, String(<<"a">>)>>))
  @@ <<"x", "!=", "\"", "\\", "\"", "\\", "b", "\"">>
                                          :> CompareE(X, "Neq", String(<<"\"", "\\", "b">>))
  @@ <<"x", " ", "IN", " ", "[", " ", "1", ",", "y", "]">>
                                          :> InE(X, <<Literal(One), Field(Y)>>)
  @@ <<"x", " ", "not", "\n", "in", "[", "-", "2", " ", ",", "[", "]", "]">>
                                          :> NotInE(X, <<Literal(Int_(-2)), Literal(List(<<>>))>>)
  @@ <<"x", " ", "BETWEEN", " ", "1", ",", "y">> :> BetweenE(X, Literal(One), Field(Y))
  @@ <<"x", " ", "like", "\"", "a", "#", "\"">>  :> LikeE(X, <<"a", "#">>)
  @@ <<"x", " ", "NOT", " ", "LIKE", "\"", "\"">> :> NotLikeE(X, <<>>)
  @@ <<"x", " ", "IS", " ", "NOT", " ", "NULL">> :> IsNotNullE(X)
  @@ <<"x", " ", "#", " ", "a", "\n", "is", " ", "null", "#", "OR", "\n">> :> IsNullE(X)
  @@ <<"AT_LEAST", "(", "1", ",", "a", " ", "and", " ", "b", ",", "x", ")">>
        :> AtLeastE(1, <<AndE(RuleRefE(<<"a">>), RuleRefE(<<"b">>)), RuleRefE(X)>>)
  @@ <<"(", "a", " ", "OR", "\n", "b", ")">> :> OrE(RuleRefE(<<"a">>), RuleRefE(<<"b">>))
  @@ <<"at_least", " ", "(", "2", ")">>   :> AtLeastE(2, <<>>)
  @@ <<"at_least">>                       :> RuleRefE(<<"at_least">>)

Refused ==
  { <<"x", "IN", "[", "1", "]">>,                        \* a name xIN
    <<"x", " ", "IN", " ", "[", "]">>,                    \* no members
    <<"x", " ", "IN", " ", "[", "1", ",", "]">>,
    <<"x", "==", "1", "2">>,                              \* too large
    <<"x", "==", "-", "1", "2">>,
    <<"x", "==", "0", "1">>,                              \* 0, and a 1 nobody asks for
    <<"x", "==", "-", "1", ".", ".", "2">>,
    <<"x", "==", "[", "1", " ", "1", "]">>,
    <<"x", "==", "\"", "a">>,                             \* not closed
    <<"x", " ", "NOT">>, <<"x", " ", "IS">>,
    <<"x", " ", "BETWEEN", " ", "1", " ", "1">>,
    <<"AT_LEAST", "(", "-", "1", ",", "a", ")">>,
    <<"AT_LEAST", "(", "1", ",", ")">> }

MCLeaves == [p \in DOMAIN Accepted \cup Refused |-> IF p \in Refused THEN {} ELSE {Accepted[p]}]
=============================================================================
