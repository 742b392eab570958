------------------------------ MODULE MCTopoSort ------------------------------
(***************************************************************************)
(* The sort, and the search behind it, on every way three rules can        *)
(* reference one another at most twice each, and on wider graphs of four:  *)
(* diamonds, a chain of repeated references, cycles that are entered from  *)
(* outside, lie behind a rule that is already Done, or share a rule.       *)
(***************************************************************************)
EXTENDS CycleFinder, Expressions

CONSTANTS a, b, c, d

MCName == {a, b, c, d}

Leaf == IsNotNullE("x")

\* conditions with no, one and two references, under every connective
Shape(refs) ==
  CASE Len(refs) = 0 -> Leaf
    [] Len(refs) = 1 -> AndE(Leaf, NotE(RuleRefE(refs[1])))
    [] OTHER         -> AtLeastE(1, <<RuleRefE(refs[1]), Leaf, RuleRefE(refs[2])>>)

RefLists(names) == {<<>>} \cup {<<n>> : n \in names} \cup {<<m, n>> : m, n \in names}

MCCondition == {Shape(r) : r \in RefLists(MCName)}

MCRefsOf == [e \in MCCondition |-> CollectRuleRefs(e)]

RuleList(names, refs) ==
  [i \in DOMAIN names |-> [name |-> names[i], condition |-> Shape(refs[i])]]

Triples ==
  {RuleList(<<a, b, c>>, refs) : refs \in [1 .. 3 -> RefLists({a, b, c})]}

Quads ==
  {RuleList(<<a, b, c, d>>, refs) : refs \in
     { << <<b, c>>, <<d>>, <<d>>, <<>> >>,       \* diamond, declared top first
       << <<>>, <<a>>, <<a>>, <<c, b>> >>,       \* diamond, declared bottom first
       << <<b, b>>, <<c, d>>, <<d, d>>, <<>> >>, \* repeated references down a chain
       << <<b>>, <<c>>, <<d>>, <<b>> >>,         \* a cycle a rule outside it leads into
       << <<b, c>>, <<>>, <<b, d>>, <<c>> >>,    \* one behind a Done rule
       << <<b, c>>, <<a>>, <<d>>, <<a>> >>,      \* two cycles through a
       << <<>>, <<>>, <<>>, <<>> >> }}

MCRuleLists == Triples \cup Quads
=============================================================================
