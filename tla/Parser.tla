-------------------------------- MODULE Parser --------------------------------
(***************************************************************************)
(* A file of rules while it is written: a condition grows piece by piece,  *)
(* and becomes the body of a definition.  parse (parse/mod.rs) is asked    *)
(* about every text on the way, and its answers are compared with a        *)
(* grammar that knows nothing of descent, backtracking or positions.       *)
(*                                                                         *)
(* A piece is a text of its own: a word, a parenthesis or a whole leaf of  *)
(* a condition.  Pieces are set apart by a blank.                          *)
(***************************************************************************)
EXTENDS Grammar

CONSTANTS
  Signs,       \* the pieces of one atom
  Leaves,      \* what each longer piece says: one condition, or none if it is an error
  Names,       \* of the rules
  Priorities,  \* sets of at most one priority
  MaxSize,     \* of a condition: a leaf counts LeafSize
  LeafSize,
  MaxDefs

VARIABLES defs,  \* the definitions so far
          body   \* the pieces of the next condition
vars == <<defs, body>>

Text(pieces) == Separated(pieces, <<" ">>)

DefText(d) ==
  <<"rule", " ">> \o d.name
    \o FlattenSeq(SetToSeq({<<" ", "(", "priority", " ">> \o ShowInt(p) \o <<")">> : p \in d.priority}))
    \o <<":">> \o Text(d.body)

FileText == Separated([i \in DOMAIN defs |-> DefText(defs[i])], <<"\n">>)

-----------------------------------------------------------------------------
(* The grammar of conditions, as the documentation gives it: any split of   *)
(* the pieces at an OR, else at an AND, else after a NOT.  A word is the    *)
(* name of a rule wherever it can be one; NOT never is.                     *)

RECURSIVE OrTrees(_), AndTrees(_), NotTrees(_), PrimaryTrees(_)

Places(ps, word) == {k \in DOMAIN ps : ps[k] = <<word>>}
Before(ps, k) == SubSeq(ps, 1, k - 1)
After(ps, k)  == SubSeq(ps, k + 1, Len(ps))

OrTrees(ps) ==
  AndTrees(ps) \cup UNION {{OrE(l, r) : l \in OrTrees(Before(ps, k)), r \in AndTrees(After(ps, k))}
                           : k \in Places(ps, "OR")}

AndTrees(ps) ==
  NotTrees(ps) \cup UNION {{AndE(l, r) : l \in AndTrees(Before(ps, k)), r \in NotTrees(After(ps, k))}
                           : k \in Places(ps, "AND")}

NotTrees(ps) ==
  PrimaryTrees(ps)
    \cup {NotE(e) : e \in IF 1 \in Places(ps, "NOT") THEN NotTrees(Tail(ps)) ELSE {}}

PrimaryTrees(ps) ==
  CASE Len(ps) = 1 /\ ps[1] \in DOMAIN Leaves -> Leaves[ps[1]]
    [] Len(ps) = 1 /\ ps[1] \notin DOMAIN Leaves ->
         {RuleRefE(ps[1]) : w \in {ps[1][1]} \cap (Word \ {"NOT", "not"})}
    [] Len(ps) > 2 /\ ps[1] = <<"(">> /\ ps[Len(ps)] = <<")">> ->
         OrTrees(SubSeq(ps, 2, Len(ps) - 1))
    [] OTHER -> {}

-----------------------------------------------------------------------------
Init == defs = <<>> /\ body = <<>>

Size(ps) == FoldLeft(LAMBDA n, p : n + (IF p \in DOMAIN Leaves THEN LeafSize ELSE 1), 0, ps)

\* Conditions of many pieces are looked at alone, definitions with short ones.
Type ==
  \E p \in Signs \cup DOMAIN Leaves :
    /\ IF defs = <<>> THEN Size(Append(body, p)) <= MaxSize
                      ELSE body = <<>> /\ Len(defs) < MaxDefs
    /\ body' = Append(body, p)
    /\ UNCHANGED defs

Define ==
  /\ Len(defs) < MaxDefs
  /\ Len(body) = 1 /\ OrTrees(body) # {}
  /\ \E name \in Names, priority \in Priorities :
       defs' = Append(defs, [name |-> name, priority |-> priority, body |-> body])
  /\ body' = <<>>

Next == Type \/ Define

Spec == Init /\ [][Next]_vars

-----------------------------------------------------------------------------
(* Properties *)

TreeOf(r) == IF Succeeded(r) THEN {r.value} ELSE {}
ParseCondition(text) == TreeOf(Whole(text, Expr(text, 1)))

\* A condition is accepted exactly when the grammar derives it, and then the
\* derivation is unique and gives the same tree: OR binds less than AND, AND
\* less than NOT, chains nest to the left, and no committed error, no keyword
\* taken for a name and no name for a keyword stands in the way.
GroupsByPrecedence == body # <<>> => ParseCondition(Text(body)) = OrTrees(body)

\* Display writes some values in a way that is read differently: a quote or
\* a backslash is not escaped, and a float with no fraction looks like an
\* integer.
RECURSIVE Writable(_), Printable(_)
Writable(v) ==
  CASE Is(v, "string") -> Range(v.string) \cap {"\"", "\\"} = {}
    [] Is(v, "float")  -> v.float % 2 = 1
    [] Is(v, "list")   -> \A i \in DOMAIN v.list : Writable(v.list[i])
    [] OTHER           -> TRUE

WritableBound(b) == Is(b, "literal") => Writable(b.literal)

Printable(e) ==
  /\ e.op = "Compare" => Writable(e.value)
  /\ e.op \in {"In", "NotIn"} => \A i \in DOMAIN e.members : WritableBound(e.members[i])
  /\ e.op = "Between" => WritableBound(e.low) /\ WritableBound(e.high)
  /\ e.op \in {"Like", "NotLike"} => Writable(String(e.pattern))
  /\ e.op = "AtLeast" => e.exprs # <<>>
  /\ \A i \in DOMAIN Children(e) : Printable(Children(e)[i])

\* What a condition prints, in a report or an error, is read back as the same
\* condition: every parenthesis and keyword the grammar needs is there.
ParsedPrintsBack ==
  \A e \in ParseCondition(Text(body)) : Printable(e) => ParseCondition(ShowExpr(e)) = {e}

\* Definitions that stand after one another are read as the same definitions,
\* in order, whatever the bodies: nothing but the word `rule' separates them,
\* and no body or comment takes a part of the next definition.
DefinitionsCompose ==
  LET tree(i)  == CHOOSE e \in OrTrees(defs[i].body) : TRUE
      terms(i) == {[rule_name |-> defs[i].name, priority |-> p] : p \in defs[i].priority}
      marked   == SelectSeq([i \in DOMAIN defs |-> i], LAMBDA i : terms(i) # {})
  IN  TreeOf(Parse(FileText)) =
        {[ rules     |-> [i \in DOMAIN defs |-> [name |-> defs[i].name, condition |-> tree(i)]],
           terminals |-> [k \in DOMAIN marked |-> CHOOSE x \in terms(marked[k]) : TRUE] ]}

\* A condition can refer to every rule that a file can define.
DefinedRulesCanBeReferenced ==
  \A i \in DOMAIN defs : ParseCondition(defs[i].name) = {RuleRefE(defs[i].name)}
=============================================================================
