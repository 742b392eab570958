------------------------------ MODULE LikeMatcher ------------------------------
(***************************************************************************)
(* like_match (types/value.rs), one step for each turn of its loops: the   *)
(* greedy matcher of LIKE, which remembers only the last `%' it met.       *)
(* Strings are sequences of bytes; positions count from 1.                 *)
(***************************************************************************)
EXTENDS Like

CONSTANTS Subjects, Patterns  \* as_bytes of the strings and patterns looked at

ASSUME StringsAreBytes == Subjects \cup Patterns \subseteq Seq(0 .. 255)

VARIABLES
  v, p,              \* the arguments
  vi, pi,            \* the next byte of each
  last_percent_pat,  \* 0 for None
  last_percent_val,
  pc,                \* "scan" the value, "trail" after it, "done"
  result
vars == <<v, p, vi, pi, last_percent_pat, last_percent_val, pc, result>>

-----------------------------------------------------------------------------
Init ==
  /\ v \in Subjects /\ p \in Patterns
  /\ vi = 1 /\ pi = 1
  /\ last_percent_pat = 0 /\ last_percent_val = 1
  /\ pc = "scan" /\ result = FALSE

\* the pattern byte b takes the value byte c
Takes(b, c) == b = AnyOne \/ (b # AnyRun /\ b = c)

InPattern == pi <= Len(p)

TakeByte ==
  /\ pc = "scan" /\ vi <= Len(v) /\ InPattern /\ Takes(p[pi], v[vi])
  /\ vi' = vi + 1 /\ pi' = pi + 1
  /\ UNCHANGED <<v, p, last_percent_pat, last_percent_val, pc, result>>

\* Faulty: the place in the value is not remembered.
X_MeetPercent_NoPlace ==
  /\ pc = "scan" /\ vi <= Len(v) /\ InPattern /\ p[pi] = AnyRun
  /\ last_percent_pat' = pi
  /\ pi' = pi + 1
  /\ UNCHANGED <<v, p, vi, last_percent_val, pc, result>>

MeetPercent ==
  /\ pc = "scan" /\ vi <= Len(v) /\ InPattern /\ p[pi] = AnyRun
  /\ last_percent_pat' = pi /\ last_percent_val' = vi
  /\ pi' = pi + 1
  /\ UNCHANGED <<v, p, vi, pc, result>>

Stuck ==
  /\ pc = "scan" /\ vi <= Len(v)
  /\ ~(InPattern /\ (p[pi] = AnyRun \/ Takes(p[pi], v[vi])))

\* Faulty: the same bytes are tried again.
X_Backtrack_Again ==
  /\ Stuck /\ last_percent_pat > 0
  /\ vi' = last_percent_val /\ pi' = last_percent_pat + 1
  /\ UNCHANGED <<v, p, last_percent_pat, last_percent_val, pc, result>>

\* the last `%' takes one byte more
Backtrack ==
  /\ Stuck /\ last_percent_pat > 0
  /\ last_percent_val' = last_percent_val + 1
  /\ vi' = last_percent_val + 1 /\ pi' = last_percent_pat + 1
  /\ UNCHANGED <<v, p, last_percent_pat, pc, result>>

Fail ==
  /\ Stuck /\ last_percent_pat = 0
  /\ pc' = "done" /\ result' = FALSE
  /\ UNCHANGED <<v, p, vi, pi, last_percent_pat, last_percent_val>>

EndOfValue ==
  /\ pc = "scan" /\ vi > Len(v)
  /\ pc' = "trail"
  /\ UNCHANGED <<v, p, vi, pi, last_percent_pat, last_percent_val, result>>

SkipPercent ==
  /\ pc = "trail" /\ InPattern /\ p[pi] = AnyRun
  /\ pi' = pi + 1
  /\ UNCHANGED <<v, p, vi, last_percent_pat, last_percent_val, pc, result>>

Finish ==
  /\ pc = "trail" /\ ~(InPattern /\ p[pi] = AnyRun)
  /\ pc' = "done" /\ result' = (pi = Len(p) + 1)
  /\ UNCHANGED <<v, p, vi, pi, last_percent_pat, last_percent_val>>

Next == \/ TakeByte \/ MeetPercent \/ Backtrack \/ Fail
        \/ EndOfValue \/ SkipPercent \/ Finish

Spec == Init /\ [][Next]_vars

-----------------------------------------------------------------------------
(* Properties *)

TypeOK ==
  /\ v \in Seq(0 .. 255) /\ p \in Seq(0 .. 255)
  /\ vi \in 1 .. Len(v) + 1 /\ pi \in 1 .. Len(p) + 1
  /\ last_percent_pat \in 0 .. Len(p) /\ last_percent_val \in 1 .. Len(v) + 1
  /\ pc \in {"scan", "trail", "done"} /\ result \in BOOLEAN

\* Forgetting every `%' but the last loses nothing: the matcher says TRUE
\* exactly when there is some way to lay the pattern over the value.
ResultIsRight == pc = "done" => (result <=> Matches(v, p))

\* The matcher goes back, in the value and in the pattern, but never to where
\* it was: the last `%' takes more, or it takes the same and the pattern has
\* moved on.  Both are bounded, so the loop ends.
AlwaysAdvances ==
  [][ pc = "scan" /\ pc' = "scan" =>
        \/ last_percent_val' > last_percent_val
        \/ last_percent_val' = last_percent_val /\ pi' > pi ]_vars
=============================================================================
