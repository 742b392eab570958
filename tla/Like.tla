--------------------------------- MODULE Like ---------------------------------
(***************************************************************************)
(* What LIKE asks (types/value.rs): strings are sequences of bytes, `%'    *)
(* stands for a run of bytes and `_' for one.  A pattern matches when it   *)
(* can be laid over the value, each of its bytes over a run of bytes it    *)
(* stands for.  LikeMatcher is the search for such a match.                *)
(***************************************************************************)
EXTENDS Integers, Sequences

AnyRun == 37  \* b'%'
AnyOne == 95  \* b'_'

Covers(s, b, from, to) ==
  IF b = AnyRun THEN from <= to
  ELSE to = from + 1 /\ (b = AnyOne \/ b = s[from])

\* the pattern t from its byte i on can be laid over s from its byte j on: f[q]
\* is where the run of byte q of the pattern begins, and it ends where the next
\* one begins
MatchesFrom(s, t, i, j) ==
  \E f \in [1 .. Len(t) + 1 -> 1 .. Len(s) + 1] :
    /\ f[i] = j /\ f[Len(t) + 1] = Len(s) + 1
    /\ \A q \in i .. Len(t) : Covers(s, t[q], f[q], f[q + 1])

Matches(s, t) == MatchesFrom(s, t, 1, 1)
=============================================================================
