----------------------------- MODULE MCLikeMatcher -----------------------------
(***************************************************************************)
(* LikeMatcher on short strings over two letters, the wildcards, and one   *)
(* character that UTF-8 encodes in two bytes.                              *)
(***************************************************************************)
EXTENDS LikeMatcher, SequencesExt

A == 97
B == 98
Umlaut == <<195, 164>>

MCSubjects == SeqOf({A, B}, 5) \cup { <<AnyOne, AnyRun>>, Umlaut, <<A>> \o Umlaut }

\* three `%' or two with a byte between them, and every mixture of wildcards
MCPatterns ==
  SeqOf({A, AnyRun}, 5) \cup SeqOf({A, B, AnyRun, AnyOne}, 3)
    \cup { <<AnyRun, A, AnyRun, B>>, <<AnyRun, B, AnyOne, A>>, Umlaut,
           Umlaut \o <<AnyRun>>, <<A, AnyRun>> \o Umlaut }

-----------------------------------------------------------------------------
(* The characters of a string: a byte between 128 and 191 continues one.  *)

Starts(s) == SetToSortSeq({k \in DOMAIN s : s[k] \notin 128 .. 191}, LAMBDA a, b : a < b)

Characters(s) ==
  [k \in DOMAIN Starts(s) |->
     SubSeq(s, Starts(s)[k], IF k < Len(Starts(s)) THEN Starts(s)[k + 1] - 1 ELSE Len(s))]

\* a character as one byte: itself, or a number no other character has
OneByte(c) == IF Len(c) = 1 THEN c[1] ELSE 128 + (c[2] % 64)

\* The wildcards count characters: `_' stands for one, whatever its encoding.
WildcardsAreCharacters ==
  LET chars(s) == [k \in DOMAIN Characters(s) |-> OneByte(Characters(s)[k])]
  IN  pc = "done" => (result <=> Matches(chars(v), chars(p)))
=============================================================================
