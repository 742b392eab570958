------------------------------ MODULE ValueProofs ------------------------------
(***************************************************************************)
(* Values, of every type.  LikeMatcher, for all strings: the matcher       *)
(* decides Matches, and it never goes back to where it was.  ValueOrder,   *)
(* for all precisions of a float: the comparisons make one coherent order. *)
(***************************************************************************)
EXTENDS LikeMatcher, ValueOrder, NaturalsInduction, WellFoundedInduction, TLAPS

Byte == 0 .. 255

-----------------------------------------------------------------------------
(* Laying the rest of a pattern over the rest of a value, one byte of the   *)
(* pattern at a time *)

\* Past the end of the pattern there is nothing left to cover.
LEMMA NothingLeft ==
  ASSUME NEW s \in Seq(Byte), NEW t \in Seq(Byte), NEW j \in 1 .. Len(s) + 1
  PROVE  MatchesFrom(s, t, Len(t) + 1, j) <=> j = Len(s) + 1
<1> DEFINE I == 1 .. Len(t) + 1
           J == 1 .. Len(s) + 1
<1>0. Len(t) \in Nat /\ Len(s) \in Nat OBVIOUS
<1>1. ASSUME j = Len(s) + 1 PROVE MatchesFrom(s, t, Len(t) + 1, j)
  <2> DEFINE f == [q \in I |-> j]
  <2>1. f \in [I -> J] OBVIOUS
  <2>2. f[Len(t) + 1] = j BY <1>0
  <2> QED BY <1>0, <1>1, <2>1, <2>2 DEF MatchesFrom
<1> QED BY <1>1 DEF MatchesFrom

\* The next byte of the pattern covers a run, and the rest matches after it.
LEMMA NextCovers ==
  ASSUME NEW s \in Seq(Byte), NEW t \in Seq(Byte),
         NEW i \in 1 .. Len(t), NEW j \in 1 .. Len(s) + 1, MatchesFrom(s, t, i, j)
  PROVE  \E k \in 1 .. Len(s) + 1 : Covers(s, t[i], j, k) /\ MatchesFrom(s, t, i + 1, k)
<1>0. Len(t) \in Nat /\ Len(s) \in Nat OBVIOUS
<1>1. PICK f \in [1 .. Len(t) + 1 -> 1 .. Len(s) + 1] :
         /\ f[i] = j /\ f[Len(t) + 1] = Len(s) + 1
         /\ \A q \in i .. Len(t) : Covers(s, t[q], f[q], f[q + 1])
  BY DEF MatchesFrom
<1>2. f[i + 1] \in 1 .. Len(s) + 1 BY SMTT(30), <1>0
<1>3. Covers(s, t[i], j, f[i + 1]) BY <1>0, <1>1
<1>4. \A q \in i + 1 .. Len(t) : Covers(s, t[q], f[q], f[q + 1]) BY <1>0, <1>1
<1>5. MatchesFrom(s, t, i + 1, f[i + 1]) BY <1>1, <1>4 DEF MatchesFrom
<1> QED BY <1>2, <1>3, <1>5

\* The converse: a covered run goes in front.
LEMMA CoverFirst ==
  ASSUME NEW s \in Seq(Byte), NEW t \in Seq(Byte),
         NEW i \in 1 .. Len(t), NEW j \in 1 .. Len(s) + 1, NEW k \in 1 .. Len(s) + 1,
         Covers(s, t[i], j, k), MatchesFrom(s, t, i + 1, k)
  PROVE  MatchesFrom(s, t, i, j)
<1>0. Len(t) \in Nat /\ Len(s) \in Nat OBVIOUS
<1>1. PICK f \in [1 .. Len(t) + 1 -> 1 .. Len(s) + 1] :
         /\ f[i + 1] = k /\ f[Len(t) + 1] = Len(s) + 1
         /\ \A q \in i + 1 .. Len(t) : Covers(s, t[q], f[q], f[q + 1])
  BY DEF MatchesFrom
<1> DEFINE g == [f EXCEPT ![i] = j]
<1>2. g \in [1 .. Len(t) + 1 -> 1 .. Len(s) + 1] OBVIOUS
<1>3. g[i] = j /\ g[Len(t) + 1] = Len(s) + 1 BY <1>0, <1>1
<1>4. ASSUME NEW q \in i .. Len(t) PROVE Covers(s, t[q], g[q], g[q + 1])
  <2>1. CASE q = i BY <1>0, <1>1, <2>1
  <2>2. CASE q # i
    <3>1. g[q] = f[q] /\ g[q + 1] = f[q + 1] /\ q \in i + 1 .. Len(t) BY <1>0, <2>2
    <3> QED BY <1>1, <3>1
  <2> QED BY <2>1, <2>2
<1> QED BY <1>2, <1>3, <1>4 DEF MatchesFrom

\* A byte that is no `%' moves both positions on by one.
LEMMA TakenByte ==
  ASSUME NEW s \in Seq(Byte), NEW t \in Seq(Byte),
         NEW i \in 1 .. Len(t), NEW j \in 1 .. Len(s) + 1,
         t[i] # AnyRun, MatchesFrom(s, t, i, j)
  PROVE  /\ j <= Len(s) /\ Takes(t[i], s[j])
         /\ MatchesFrom(s, t, i + 1, j + 1)
<1>1. PICK k \in 1 .. Len(s) + 1 : Covers(s, t[i], j, k) /\ MatchesFrom(s, t, i + 1, k)
  BY NextCovers
<1>2. k = j + 1 /\ (t[i] = AnyOne \/ t[i] = s[j]) BY <1>1 DEF Covers
<1> QED BY <1>1, <1>2 DEF Takes

LEMMA TakeIsCover ==
  ASSUME NEW s \in Seq(Byte), NEW t \in Seq(Byte),
         NEW i \in 1 .. Len(t), NEW j \in 1 .. Len(s),
         Takes(t[i], s[j]), MatchesFrom(s, t, i + 1, j + 1)
  PROVE  MatchesFrom(s, t, i, j)
<1>1. Covers(s, t[i], j, j + 1) BY DEF Takes, Covers, AnyRun, AnyOne
<1>2. Len(s) \in Nat OBVIOUS
<1>3. j \in 1 .. Len(s) + 1 /\ j + 1 \in 1 .. Len(s) + 1 BY <1>2
<1> QED BY <1>1, <1>3, CoverFirst

\* A `%' reaches as far as one likes.
LEMMA Percent ==
  ASSUME NEW s \in Seq(Byte), NEW t \in Seq(Byte),
         NEW i \in 1 .. Len(t), NEW j \in 1 .. Len(s) + 1, t[i] = AnyRun
  PROVE  MatchesFrom(s, t, i, j) <=> \E k \in j .. Len(s) + 1 : MatchesFrom(s, t, i + 1, k)
<1>1. ASSUME MatchesFrom(s, t, i, j)
      PROVE  \E k \in j .. Len(s) + 1 : MatchesFrom(s, t, i + 1, k)
  <2>1. PICK k \in 1 .. Len(s) + 1 : Covers(s, t[i], j, k) /\ MatchesFrom(s, t, i + 1, k)
    BY <1>1, NextCovers
  <2>2. k \in j .. Len(s) + 1 BY <2>1 DEF Covers
  <2> QED BY <2>1, <2>2
<1>2. ASSUME NEW k \in j .. Len(s) + 1, MatchesFrom(s, t, i + 1, k)
      PROVE  MatchesFrom(s, t, i, j)
  <2>1. Covers(s, t[i], j, k) BY DEF Covers
  <2>2. k \in 1 .. Len(s) + 1 OBVIOUS
  <2> QED BY <1>2, <2>1, <2>2, CoverFirst
<1> QED BY <1>1, <1>2

-----------------------------------------------------------------------------
(* The inductive invariant *)

\* the bytes of the pattern since the last `%' have each taken one
Anchored ==
  /\ last_percent_pat = 0 => last_percent_val = 1
  /\ last_percent_pat > 0 => p[last_percent_pat] = AnyRun
  /\ pc = "scan" /\ last_percent_pat > 0 =>
       /\ last_percent_pat < pi
       /\ vi - last_percent_val = pi - last_percent_pat - 1

\* the last `%' may still take more
Later ==
  /\ last_percent_pat > 0
  /\ \E k \in last_percent_val + 1 .. Len(v) + 1 : MatchesFrom(v, p, last_percent_pat + 1, k)

\* and if it does, the bytes after it take that much more as well
Shifted ==
  pc = "scan" /\ last_percent_pat > 0 =>
    \A k \in last_percent_val + 1 .. Len(v) + 1 :
      MatchesFrom(v, p, last_percent_pat + 1, k)
        => MatchesFrom(v, p, pi, k + (pi - last_percent_pat - 1))

\* what has been tried and given up was no match
Undecided ==
  /\ pc = "scan" => (Matches(v, p) <=> MatchesFrom(v, p, pi, vi) \/ Later)
  /\ pc = "trail" => (Matches(v, p) <=> MatchesFrom(v, p, pi, Len(v) + 1))

IInv == TypeOK /\ Anchored /\ Shifted /\ Undecided /\ ResultIsRight

\* The positions of a match are positions of the value.
LEMMA InValue ==
  ASSUME NEW s \in Seq(Byte), NEW t \in Seq(Byte), NEW i \in 1 .. Len(t) + 1, NEW j,
         MatchesFrom(s, t, i, j)
  PROVE  j \in 1 .. Len(s) + 1
BY DEF MatchesFrom

\* With a byte of the value that the pattern cannot take, there is no match
\* from here.
LEMMA StuckNoMatch ==
  ASSUME TypeOK, Stuck
  PROVE  ~MatchesFrom(v, p, pi, vi)
<1>1. v \in Seq(Byte) /\ p \in Seq(Byte) /\ vi \in 1 .. Len(v) + 1 /\ vi <= Len(v)
       /\ Len(p) \in Nat /\ Len(v) \in Nat
  BY DEF TypeOK, Stuck, Byte
<1>2. CASE pi = Len(p) + 1 BY <1>1, <1>2, NothingLeft
<1>3. CASE pi # Len(p) + 1
  <2>1. pi \in 1 .. Len(p) /\ p[pi] # AnyRun /\ ~Takes(p[pi], v[vi])
    BY <1>1, <1>3 DEF TypeOK, Stuck, InPattern
  <2> QED BY <1>1, <2>1, TakenByte
<1> QED BY <1>2, <1>3

THEOREM InvInit == Init => IInv
<1> SUFFICES ASSUME Init PROVE IInv OBVIOUS
<1>1. v \in Seq(Byte) /\ p \in Seq(Byte) BY StringsAreBytes DEF Init, Byte
<1>2. Len(v) \in Nat /\ Len(p) \in Nat BY <1>1
<1>3. 1 \in 1 .. Len(v) + 1 /\ 1 \in 1 .. Len(p) + 1 /\ 0 \in 0 .. Len(p) BY <1>2
<1>4. TypeOK BY <1>1, <1>3 DEF Init, TypeOK, Byte
<1>5. Undecided BY DEF Init, Undecided, Later, Matches
<1> QED BY <1>4, <1>5 DEF Init, IInv, Anchored, Shifted, ResultIsRight

\* The facts about the positions that every step uses.
LEMMA Positions ==
  ASSUME TypeOK
  PROVE  /\ v \in Seq(Byte) /\ p \in Seq(Byte) /\ Len(v) \in Nat /\ Len(p) \in Nat
         /\ vi \in 1 .. Len(v) + 1 /\ pi \in 1 .. Len(p) + 1
         /\ last_percent_pat \in 0 .. Len(p) /\ last_percent_val \in 1 .. Len(v) + 1
BY DEF TypeOK, Byte

LEMMA TakeByteKeepsIInv == IInv /\ TakeByte => IInv'
<1> SUFFICES ASSUME IInv, TakeByte PROVE IInv' OBVIOUS
<1> USE DEF IInv
<1> DEFINE wp == last_percent_pat
           wv == last_percent_val
<1>1. /\ v' = v /\ p' = p /\ wp' = wp /\ wv' = wv /\ pc = "scan" /\ pc' = "scan"
      /\ vi' = vi + 1 /\ pi' = pi + 1 /\ result' = result
      /\ vi <= Len(v) /\ pi <= Len(p) /\ Takes(p[pi], v[vi]) /\ p[pi] # AnyRun
  BY DEF TakeByte, InPattern, Takes, AnyOne, AnyRun
<1>2. /\ v \in Seq(Byte) /\ p \in Seq(Byte) /\ Len(v) \in Nat /\ Len(p) \in Nat
      /\ vi \in 1 .. Len(v) /\ pi \in 1 .. Len(p)
      /\ wp \in 0 .. Len(p) /\ wv \in 1 .. Len(v) + 1
  BY <1>1, Positions
<1>3. TypeOK' BY <1>1, <1>2 DEF TypeOK, Byte
<1>4. Anchored' BY <1>1, <1>2 DEF Anchored
<1>5. MatchesFrom(v, p, pi, vi) <=> MatchesFrom(v, p, pi + 1, vi + 1)
  BY <1>1, <1>2, TakenByte, TakeIsCover
<1>6. Later' <=> Later BY <1>1 DEF Later
<1>7. Undecided' BY <1>1, <1>5, <1>6 DEF Undecided
<1>8. ASSUME wp > 0, NEW k \in wv + 1 .. Len(v) + 1, MatchesFrom(v, p, wp + 1, k)
      PROVE  MatchesFrom(v, p, pi + 1, k + (pi + 1 - wp - 1))
  <2>1. MatchesFrom(v, p, pi, k + (pi - wp - 1)) BY <1>1, <1>8 DEF Shifted
  <2>2. k + (pi - wp - 1) \in 1 .. Len(v) + 1 BY SMTT(30), <1>2, <2>1, InValue
  <2>3. MatchesFrom(v, p, pi + 1, k + (pi - wp - 1) + 1) BY <1>1, <1>2, <2>1, <2>2, TakenByte
  <2>4. k + (pi - wp - 1) + 1 = k + (pi + 1 - wp - 1) BY <1>2
  <2> QED BY <2>3, <2>4
<1>9. Shifted'
  <2> SUFFICES ASSUME wp' > 0, NEW k \in wv' + 1 .. Len(v') + 1, MatchesFrom(v', p', wp' + 1, k)
               PROVE  MatchesFrom(v', p', pi', k + (pi' - wp' - 1))
    BY DEF Shifted
  <2>1. MatchesFrom(v, p, pi + 1, k + (pi + 1 - wp - 1)) BY <1>1, <1>8
  <2>2. k + (pi' - wp' - 1) = k + (pi + 1 - wp - 1) BY <1>1, <1>2
  <2>3. v' = v /\ p' = p /\ pi' = pi + 1 BY <1>1
  <2> QED BY <2>1, <2>2, <2>3
<1>10. ResultIsRight' BY <1>1 DEF ResultIsRight
<1> QED BY <1>3, <1>4, <1>7, <1>9, <1>10

LEMMA MeetPercentKeepsIInv == IInv /\ MeetPercent => IInv'
<1> SUFFICES ASSUME IInv, MeetPercent PROVE IInv' OBVIOUS
<1> USE DEF IInv
<1> DEFINE wp == last_percent_pat
           wv == last_percent_val
<1>1. /\ v' = v /\ p' = p /\ wp' = pi /\ wv' = vi /\ pc = "scan" /\ pc' = "scan"
      /\ vi' = vi /\ pi' = pi + 1 /\ result' = result
      /\ vi <= Len(v) /\ pi <= Len(p) /\ p[pi] = AnyRun
  BY DEF MeetPercent, InPattern
<1>2. /\ v \in Seq(Byte) /\ p \in Seq(Byte) /\ Len(v) \in Nat /\ Len(p) \in Nat
      /\ vi \in 1 .. Len(v) /\ pi \in 1 .. Len(p)
      /\ wp \in 0 .. Len(p) /\ wv \in 1 .. Len(v) + 1
  BY <1>1, Positions
<1>3. TypeOK' BY <1>1, <1>2 DEF TypeOK, Byte
<1>4. Anchored' BY <1>1, <1>2 DEF Anchored
<1>5. Shifted' BY <1>1, <1>2 DEF Shifted
\* what the earlier `%' could still reach, the new one reaches
<1>6. Later => \E k \in vi .. Len(v) + 1 : MatchesFrom(v, p, pi + 1, k)
  <2> SUFFICES ASSUME wp > 0, NEW k \in wv + 1 .. Len(v) + 1, MatchesFrom(v, p, wp + 1, k)
               PROVE  \E m \in vi .. Len(v) + 1 : MatchesFrom(v, p, pi + 1, m)
    BY DEF Later
  <2> DEFINE j == k + (pi - wp - 1)
  <2>1. MatchesFrom(v, p, pi, j) BY <1>1 DEF Shifted
  <2>2. j \in 1 .. Len(v) + 1
    <3>1. pi \in 1 .. Len(p) + 1 BY <1>2
    <3> HIDE DEF j
    <3> QED BY <1>2, <2>1, <3>1, InValue
  <2>3. PICK m \in j .. Len(v) + 1 : MatchesFrom(v, p, pi + 1, m)
    BY SMTT(30), <1>1, <1>2, <2>1, <2>2, Percent
  <2>4. vi - wv = pi - wp - 1 BY <1>1 DEF Anchored
  <2>5. m \in vi .. Len(v) + 1 BY <1>2, <2>2, <2>4
  <2> QED BY <2>3, <2>5
<1>7. MatchesFrom(v, p, pi, vi) <=> \E k \in vi .. Len(v) + 1 : MatchesFrom(v, p, pi + 1, k)
  BY <1>1, <1>2, Percent
<1>8. Later' <=> \E k \in vi + 1 .. Len(v) + 1 : MatchesFrom(v, p, pi + 1, k)
  BY <1>1, <1>2 DEF Later
<1>9. (\E k \in vi .. Len(v) + 1 : MatchesFrom(v, p, pi + 1, k))
        <=> MatchesFrom(v, p, pi + 1, vi) \/ \E k \in vi + 1 .. Len(v) + 1 : MatchesFrom(v, p, pi + 1, k)
  <2>1. vi .. Len(v) + 1 = {vi} \cup (vi + 1 .. Len(v) + 1) BY <1>2
  <2> QED BY <2>1
<1>10. Matches(v, p) <=> MatchesFrom(v, p, pi + 1, vi) \/ Later'
  BY <1>1, <1>6, <1>7, <1>8, <1>9 DEF Undecided
<1>11. Undecided' BY <1>1, <1>10 DEF Undecided
<1>12. ResultIsRight' BY <1>1 DEF ResultIsRight
<1> QED BY <1>3, <1>4, <1>5, <1>11, <1>12

LEMMA BacktrackKeepsIInv == IInv /\ Backtrack => IInv'
<1> SUFFICES ASSUME IInv, Backtrack PROVE IInv' OBVIOUS
<1> USE DEF IInv
<1> DEFINE wp == last_percent_pat
           wv == last_percent_val
<1>1. /\ v' = v /\ p' = p /\ wp' = wp /\ wv' = wv + 1 /\ pc = "scan" /\ pc' = "scan"
      /\ vi' = wv + 1 /\ pi' = wp + 1 /\ result' = result
      /\ vi <= Len(v) /\ wp > 0
  BY DEF Backtrack, Stuck
<1>2. /\ v \in Seq(Byte) /\ p \in Seq(Byte) /\ Len(v) \in Nat /\ Len(p) \in Nat
      /\ vi \in 1 .. Len(v) /\ pi \in 1 .. Len(p) + 1
      /\ wp \in 1 .. Len(p) /\ wv \in 1 .. Len(v) + 1
  BY <1>1, Positions
<1>3. wv <= vi BY <1>1, <1>2 DEF Anchored
<1>4. TypeOK' BY <1>1, <1>2, <1>3 DEF TypeOK, Byte
<1>5. Anchored' BY <1>1, <1>2 DEF Anchored
<1>6. Shifted' BY <1>1, <1>2 DEF Shifted
<1>7. ~MatchesFrom(v, p, pi, vi) BY StuckNoMatch DEF Backtrack
<1>8. wv + 1 .. Len(v) + 1 = {wv + 1} \cup (wv + 2 .. Len(v) + 1) BY <1>2, <1>3
<1>9. Later <=> MatchesFrom(v, p, wp + 1, wv + 1) \/ Later'
  <2>1. Later' <=> \E k \in wv + 2 .. Len(v) + 1 : MatchesFrom(v, p, wp + 1, k)
    <3>1. wv + 1 + 1 = wv + 2 BY <1>2
    <3> QED BY <1>1, <3>1 DEF Later
  <2> QED BY <1>1, <1>8, <2>1 DEF Later
<1>10. Undecided' BY <1>1, <1>7, <1>9 DEF Undecided
<1>11. ResultIsRight' BY <1>1 DEF ResultIsRight
<1> QED BY <1>4, <1>5, <1>6, <1>10, <1>11

LEMMA FailKeepsIInv == IInv /\ Fail => IInv'
<1> SUFFICES ASSUME IInv, Fail PROVE IInv' OBVIOUS
<1>1. ~Matches(v, p)
  <2>1. ~MatchesFrom(v, p, pi, vi) BY StuckNoMatch DEF Fail, IInv
  <2>2. ~Later BY DEF Fail, Later
  <2> QED BY <2>1, <2>2 DEF Fail, Stuck, IInv, Undecided
<1> QED BY <1>1 DEF Fail, IInv, TypeOK, Anchored, Shifted, Undecided, ResultIsRight

LEMMA EndOfValueKeepsIInv == IInv /\ EndOfValue => IInv'
<1> SUFFICES ASSUME IInv, EndOfValue PROVE IInv' OBVIOUS
<1> USE DEF IInv
<1> DEFINE wp == last_percent_pat
           wv == last_percent_val
<1>1. /\ v' = v /\ p' = p /\ pi' = pi /\ pc = "scan" /\ pc' = "trail" /\ vi = Len(v) + 1
      /\ UNCHANGED <<vi, last_percent_pat, last_percent_val, result>>
  BY Positions DEF EndOfValue
<1>2. ~Later
  <2> SUFFICES ASSUME wp > 0, NEW k \in wv + 1 .. Len(v) + 1, MatchesFrom(v, p, wp + 1, k)
               PROVE  FALSE
    BY DEF Later
  <2>1. MatchesFrom(v, p, pi, k + (pi - wp - 1)) BY <1>1 DEF Shifted
  <2>2. k + (pi - wp - 1) \in 1 .. Len(v) + 1 BY <2>1, Positions, InValue
  <2>3. vi - wv = pi - wp - 1 BY <1>1 DEF Anchored
  <2> QED BY <1>1, <2>2, <2>3, Positions
<1>3. Undecided' BY <1>1, <1>2 DEF Undecided
<1> QED BY <1>1, <1>3 DEF TypeOK, Anchored, Shifted, ResultIsRight

LEMMA SkipPercentKeepsIInv == IInv /\ SkipPercent => IInv'
<1> SUFFICES ASSUME IInv, SkipPercent PROVE IInv' OBVIOUS
<1> USE DEF IInv
<1>1. /\ v' = v /\ p' = p /\ pi' = pi + 1 /\ pc = "trail" /\ pc' = "trail"
      /\ pi <= Len(p) /\ p[pi] = AnyRun
      /\ UNCHANGED <<vi, last_percent_pat, last_percent_val, result>>
  BY DEF SkipPercent, InPattern
<1>2. /\ v \in Seq(Byte) /\ p \in Seq(Byte) /\ Len(v) \in Nat /\ Len(p) \in Nat
      /\ pi \in 1 .. Len(p) /\ Len(v) + 1 \in 1 .. Len(v) + 1
  BY <1>1, Positions
<1>3. MatchesFrom(v, p, pi, Len(v) + 1) <=> MatchesFrom(v, p, pi + 1, Len(v) + 1)
  <2>1. Len(v) + 1 .. Len(v) + 1 = {Len(v) + 1} BY <1>2
  <2> QED BY <1>1, <1>2, <2>1, Percent
<1>4. Undecided' BY <1>1, <1>3 DEF Undecided
<1>5. TypeOK' BY <1>1, <1>2 DEF TypeOK
<1> QED BY <1>1, <1>4, <1>5 DEF Anchored, Shifted, ResultIsRight

LEMMA FinishKeepsIInv == IInv /\ Finish => IInv'
<1> SUFFICES ASSUME IInv, Finish PROVE IInv' OBVIOUS
<1> USE DEF IInv
<1>1. /\ v \in Seq(Byte) /\ p \in Seq(Byte) /\ Len(v) \in Nat /\ Len(p) \in Nat
      /\ pi \in 1 .. Len(p) + 1 /\ Len(v) + 1 \in 1 .. Len(v) + 1
  BY Positions
<1>2. MatchesFrom(v, p, pi, Len(v) + 1) <=> pi = Len(p) + 1
  <2>1. CASE pi = Len(p) + 1 BY <1>1, <2>1, NothingLeft
  <2>2. CASE pi # Len(p) + 1
    <3>1. pi \in 1 .. Len(p) /\ p[pi] # AnyRun BY <1>1, <2>2 DEF Finish, InPattern
    <3> QED BY <1>1, <3>1, TakenByte
  <2> QED BY <2>1, <2>2
<1>3. ResultIsRight' BY <1>2 DEF Finish, Undecided, ResultIsRight
<1> QED BY <1>3 DEF Finish, TypeOK, Anchored, Shifted, Undecided

\* Every step keeps the invariant.
THEOREM InvStep == IInv /\ [Next]_vars => IInv'
<1> SUFFICES ASSUME IInv, [Next]_vars PROVE IInv' OBVIOUS
<1>1. CASE TakeByte BY <1>1, TakeByteKeepsIInv
<1>2. CASE MeetPercent BY <1>2, MeetPercentKeepsIInv
<1>3. CASE Backtrack BY <1>3, BacktrackKeepsIInv
<1>4. CASE Fail BY <1>4, FailKeepsIInv
<1>5. CASE EndOfValue BY <1>5, EndOfValueKeepsIInv
<1>6. CASE SkipPercent BY <1>6, SkipPercentKeepsIInv
<1>7. CASE Finish BY <1>7, FinishKeepsIInv
<1>8. CASE UNCHANGED vars
  BY <1>8 DEF vars, IInv, TypeOK, Anchored, Shifted, Undecided, Later, ResultIsRight
<1> QED BY <1>1, <1>2, <1>3, <1>4, <1>5, <1>6, <1>7, <1>8 DEF Next

\* The invariant holds of every run.
THEOREM Invariance == Spec => []IInv
<1>1. Init => IInv BY InvInit
<1>2. IInv /\ [Next]_vars => IInv' BY InvStep
<1> QED BY <1>1, <1>2, PTL DEF Spec

-----------------------------------------------------------------------------
(* The properties *)

\* For all strings and patterns, like_match (types/value.rs) says TRUE
\* exactly when the pattern can be laid over the string: remembering one `%'
\* is enough.
THEOREM MatcherIsRight == Spec => []ResultIsRight
<1>1. IInv => ResultIsRight BY DEF IInv
<1> QED BY <1>1, Invariance, PTL

\* The positions stay inside the strings: no index of like_match is out of
\* bounds.
THEOREM IndicesInBounds == Spec => []TypeOK
<1>1. IInv => TypeOK BY DEF IInv
<1> QED BY <1>1, Invariance, PTL

\* The loop of like_match never returns to where it was, for all strings.
THEOREM LoopAdvances == Spec => AlwaysAdvances
<1> DEFINE Advance == pc = "scan" /\ pc' = "scan" =>
                        \/ last_percent_val' > last_percent_val
                        \/ last_percent_val' = last_percent_val /\ pi' > pi
<1>1. IInv /\ [Next]_vars => [Advance]_vars
  <2> SUFFICES ASSUME IInv, Next, pc = "scan", pc' = "scan" PROVE Advance OBVIOUS
  <2>1. /\ vi \in Int /\ pi \in Int /\ last_percent_val \in Int /\ last_percent_pat \in Nat
        /\ vi >= 1
    BY Positions DEF IInv
  <2>2. CASE TakeByte BY <2>1, <2>2 DEF TakeByte
  <2>3. CASE MeetPercent
    <3>1. last_percent_val <= vi BY <2>1 DEF IInv, Anchored
    <3> QED BY <2>1, <2>3, <3>1 DEF MeetPercent
  <2>4. CASE Backtrack BY <2>1, <2>4 DEF Backtrack
  <2> QED BY <2>2, <2>3, <2>4 DEF Next, Fail, EndOfValue, SkipPercent, Finish
<1> QED BY <1>1, Invariance, PTL DEF Spec, AlwaysAdvances
-----------------------------------------------------------------------------
\* A set of natural numbers has a least one.
LEMMA LeastNatural ==
  ASSUME NEW T \in SUBSET Nat, T # {}
  PROVE  \E n \in T : \A m \in T : n <= m
<1>1. PICK R : R = {e \in Nat \X Nat : e[1] < e[2]} OBVIOUS
<1>2. R = OpToRel(<, Nat) BY <1>1 DEF OpToRel
<1>3. IsWellFoundedOn(R, Nat) BY <1>2, NatLessThanWellFounded
<1>4. PICK n \in T : \A m \in T : <<m, n>> \notin R BY <1>3, WFMin
<1>5. ASSUME NEW m \in T PROVE n <= m
  <2>1. n \in Nat /\ m \in Nat /\ <<m, n>> \notin R BY <1>4
  <2> QED BY <2>1, <1>1
<1> QED BY <1>5

-----------------------------------------------------------------------------
(* The order of values *)

Rounds == -Limit .. Limit  \* the integers that are rounded

\* 0 is a float, so every integer has a nearest one, and AsFloat is a nearest one.
LEMMA AsFloatIsNearest ==
  ASSUME NEW i \in Rounds
  PROVE  \E x \in Int, d \in Nat :
           /\ AsFloat(i) = 2 * x
           /\ x = i - d \/ x = i + d
           /\ OfBits(x, Mantissa)
           /\ \A z \in Int : OfBits(z, Mantissa) => z <= i - d \/ z >= i + d
<1> DEFINE Floats(d) == {x \in {i - d, i + d} : OfBits(x, Mantissa)}
           Gaps  == {d \in 0 .. Limit : Floats(d) # {}}
           gap   == CHOOSE d \in 0 .. Limit : Floats(d) # {} /\ \A c \in 0 .. d - 1 : Floats(c) = {}
           even  == {x \in Floats(gap) : OfBits(x, Mantissa - 1)}
           x     == CHOOSE y \in Floats(gap) : y \in even \/ even = {}
<1>0. Limit \in Nat /\ i \in Int BY FloatsAreBounded DEF Rounds
<1>1. Gaps # {}
  <2>1. 0 \in Floats(i) \/ 0 \in Floats(-i) BY <1>0 DEF OfBits
  <2>2. i \in 0 .. Limit \/ -i \in 0 .. Limit BY <1>0 DEF Rounds
  <2>3. Floats(i) = Floats(-i) BY <1>0
  <2> HIDE DEF Floats
  <2> QED BY <2>1, <2>2, <2>3
<1>2. PICK d \in Gaps : \A c \in Gaps : d <= c
  <2> HIDE DEF Gaps
  <2>1. Gaps \in SUBSET Nat BY <1>0 DEF Gaps
  <2> QED BY <1>1, <2>1, LeastNatural
<1>3. d \in 0 .. Limit /\ Floats(d) # {} /\ \A c \in 0 .. d - 1 : Floats(c) = {}
  <2> HIDE DEF Floats
  <2> QED BY <1>0, <1>2
<1>4. gap \in 0 .. Limit /\ Floats(gap) # {} /\ \A c \in 0 .. gap - 1 : Floats(c) = {}
  <2> HIDE DEF Floats
  <2> QED BY <1>3
<1>5. x \in Floats(gap)
  <2> HIDE DEF Floats, gap
  <2> QED BY <1>4
<1>6. AsFloat(i) = 2 * x BY DEF AsFloat
<1> HIDE DEF gap, x
<1>7. x \in Int /\ (x = i - gap \/ x = i + gap) /\ OfBits(x, Mantissa) /\ gap \in Nat
  BY <1>0, <1>4, <1>5
<1>8. ASSUME NEW z \in Int, OfBits(z, Mantissa) PROVE z <= i - gap \/ z >= i + gap
  <2> SUFFICES ASSUME i - gap < z, z < i + gap PROVE FALSE BY <1>0, <1>7
  <2>1. PICK c \in 0 .. gap - 1 : z = i - c \/ z = i + c
    <3>1. CASE z <= i
      <4>1. i - z \in 0 .. gap - 1 /\ z = i - (i - z) BY <1>0, <1>7, <3>1
      <4> QED BY <4>1
    <3>2. CASE z > i
      <4>1. z - i \in 0 .. gap - 1 /\ z = i + (z - i) BY <1>0, <1>7, <3>2
      <4> QED BY <4>1
    <3> QED BY <1>0, <3>1, <3>2
  <2>2. z \in Floats(c) BY <1>8, <2>1
  <2> HIDE DEF Floats
  <2> QED BY <1>4, <2>1, <2>2
<1> QED BY <1>6, <1>7, <1>8

\* Rounding keeps the order: a value nearer to both of two floats than they
\* are to each other cannot be between them.
LEMMA AsFloatIsMonotone ==
  ASSUME NEW i \in Rounds, NEW j \in Rounds, i <= j
  PROVE  AsFloat(i) \in Int /\ AsFloat(j) \in Int /\ AsFloat(i) <= AsFloat(j)
<1>0. i \in Int /\ j \in Int BY FloatsAreBounded DEF Rounds
<1>1. PICK x \in Int, d \in Nat :
           /\ AsFloat(i) = 2 * x
           /\ x = i - d \/ x = i + d
           /\ OfBits(x, Mantissa)
           /\ \A z \in Int : OfBits(z, Mantissa) => z <= i - d \/ z >= i + d
  BY AsFloatIsNearest
<1>2. PICK y \in Int, e \in Nat :
           /\ AsFloat(j) = 2 * y
           /\ y = j - e \/ y = j + e
           /\ OfBits(y, Mantissa)
           /\ \A z \in Int : OfBits(z, Mantissa) => z <= j - e \/ z >= j + e
  BY AsFloatIsNearest
<1>3. CASE i = j BY <1>1, <1>3
<1>4. CASE i < j
  <2>1. (y <= i - d \/ y >= i + d) /\ (x <= j - e \/ x >= j + e) BY <1>1, <1>2
  <2>2. x <= y BY <1>0, <1>1, <1>2, <1>4, <2>1
  <2> QED BY <1>1, <1>2, <2>2
<1> QED BY <1>0, <1>3, <1>4

LEMMA AsFloatIsInt == ASSUME NEW i \in Rounds PROVE AsFloat(i) \in Int
BY AsFloatIsMonotone, FloatsAreBounded DEF Rounds

\* a comes before b: after a common beginning a ends or has the lower byte
Before(a, b) ==
  \E n \in 1 .. Len(b) :
    /\ n <= Len(a) + 1
    /\ \A k \in 1 .. n - 1 : a[k] = b[k]
    /\ n <= Len(a) => a[n] < b[n]

\* What the comparison of two strings says.
LEMMA CmpStringIsLexicographic ==
  ASSUME NEW a \in Seq(Int), NEW b \in Seq(Int)
  PROVE  \/ CmpString(a, b) = Less /\ Before(a, b)
         \/ CmpString(a, b) = Equal /\ a = b
         \/ CmpString(a, b) = Greater /\ Before(b, a)
<1> DEFINE Common == {i \in 1 .. Len(a) : i <= Len(b)}
           Differ == {i \in Common : a[i] # b[i]}
<1>0. /\ Len(a) \in Nat /\ Len(b) \in Nat
      /\ \A k \in 1 .. Len(a) : a[k] \in Int
      /\ \A k \in 1 .. Len(b) : b[k] \in Int
  OBVIOUS
<1>1. CASE Differ = {}
  <2>1. CmpString(a, b) = CmpInt(Len(a), Len(b)) BY <1>1 DEF CmpString
  <2>2. \A k \in 1 .. Len(a) : k <= Len(b) => a[k] = b[k] BY <1>1
  <2>3. CASE Len(a) < Len(b)
    <3>1. Len(a) + 1 \in 1 .. Len(b) BY <1>0, <2>3
    <3>2. \A k \in 1 .. Len(a) : a[k] = b[k] BY <1>0, <2>2, <2>3
    <3>3. Before(a, b) BY <1>0, <3>1, <3>2 DEF Before
    <3> QED BY <2>1, <2>3, <3>3 DEF CmpInt
  <2>4. CASE Len(a) = Len(b)
    <3>1. a \in [1 .. Len(a) -> Int] /\ b \in [1 .. Len(a) -> Int] BY <2>4
    <3>2. \A k \in 1 .. Len(a) : a[k] = b[k] BY <1>0, <2>2, <2>4
    <3>3. a = b BY <3>1, <3>2
    <3> QED BY <2>1, <2>4, <3>3, <1>0 DEF CmpInt
  <2>5. CASE Len(a) > Len(b)
    <3>1. Len(b) + 1 \in 1 .. Len(a) BY <1>0, <2>5
    <3>2. \A k \in 1 .. Len(b) : b[k] = a[k] BY <1>0, <2>2, <2>5
    <3>3. Before(b, a) BY <1>0, <3>1, <3>2 DEF Before
    <3> QED BY <2>1, <2>5, <3>3, <1>0 DEF CmpInt
  <2> QED BY <1>0, <2>3, <2>4, <2>5
<1>2. CASE Differ # {}
  <2> DEFINE i == CHOOSE j \in Differ : \A k \in Differ : j <= k
  <2>1. CmpString(a, b) = CmpInt(a[i], b[i]) BY <1>2 DEF CmpString
  <2>2. Differ \in SUBSET Nat BY <1>0
  <2>3. \E j \in Differ : \A k \in Differ : j <= k BY <1>2, <2>2, LeastNatural
  <2>4. i \in Differ /\ \A k \in Differ : i <= k BY <2>3
  <2> HIDE DEF i
  <2>5. i \in 1 .. Len(a) /\ i \in 1 .. Len(b) /\ a[i] # b[i] BY <1>0, <2>4
  <2>6. \A k \in 1 .. i - 1 : a[k] = b[k]
    <3> TAKE k \in 1 .. i - 1
    <3>1. k \in Common /\ k \notin Differ BY <1>0, <2>4, <2>5
    <3> QED BY <3>1
  <2>7. CASE a[i] < b[i]
    <3>1. i \in 1 .. Len(b) /\ i <= Len(a) + 1 BY <1>0, <2>5
    <3>2. Before(a, b) BY <2>6, <2>7, <3>1 DEF Before
    <3> QED BY <2>1, <2>7, <3>2 DEF CmpInt
  <2>8. CASE b[i] < a[i]
    <3>1. Before(b, a) BY <1>0, <2>5, <2>6, <2>8 DEF Before
    <3>2. a[i] \in Int /\ b[i] \in Int BY <1>0, <2>5
    <3>3. CmpInt(a[i], b[i]) = Greater BY <2>8, <3>2 DEF CmpInt
    <3> QED BY <2>1, <3>1, <3>3
  <2>9. a[i] \in Int /\ b[i] \in Int BY <1>0, <2>5
  <2> QED BY <2>5, <2>7, <2>8, <2>9
<1> QED BY <1>1, <1>2

LEMMA BeforeIsTransitive ==
  ASSUME NEW a \in Seq(Int), NEW b \in Seq(Int), NEW c \in Seq(Int), Before(a, b), Before(b, c)
  PROVE  Before(a, c)
<1>0. /\ Len(a) \in Nat /\ Len(b) \in Nat /\ Len(c) \in Nat
      /\ \A k \in 1 .. Len(a) : a[k] \in Int
      /\ \A k \in 1 .. Len(b) : b[k] \in Int
      /\ \A k \in 1 .. Len(c) : c[k] \in Int
  OBVIOUS
<1>1. PICK n \in 1 .. Len(b) : /\ n <= Len(a) + 1
                               /\ \A k \in 1 .. n - 1 : a[k] = b[k]
                               /\ n <= Len(a) => a[n] < b[n]
  BY DEF Before
<1>2. PICK m \in 1 .. Len(c) : /\ m <= Len(b) + 1
                               /\ \A k \in 1 .. m - 1 : b[k] = c[k]
                               /\ m <= Len(b) => b[m] < c[m]
  BY DEF Before
<1>3. CASE n < m
  <2>1. n \in 1 .. Len(c) /\ b[n] = c[n] BY <1>0, <1>1, <1>2, <1>3
  <2>2. \A k \in 1 .. n - 1 : a[k] = c[k] BY <1>0, <1>1, <1>2, <1>3
  <2> QED BY <1>1, <2>1, <2>2 DEF Before
<1>4. CASE m <= n
  <2>1. m <= Len(a) + 1 /\ m \in 1 .. Len(b) BY <1>0, <1>1, <1>2, <1>4
  <2>2. \A k \in 1 .. m - 1 : a[k] = c[k] BY <1>0, <1>1, <1>2, <1>4
  <2>3. ASSUME m <= Len(a) PROVE a[m] < c[m]
    <3>1. a[m] \in Int /\ b[m] \in Int /\ c[m] \in Int BY <1>0, <1>2, <2>1, <2>3
    <3>2. b[m] < c[m] BY <1>2, <2>1
    <3>3. CASE m < n BY <1>1, <1>2, <3>2, <3>3
    <3>4. CASE m = n BY <1>1, <2>3, <3>1, <3>2, <3>4
    <3> QED BY <1>4, <3>3, <3>4
  <2> QED BY <1>2, <2>1, <2>2, <2>3 DEF Before
<1> QED BY <1>3, <1>4
\* No string comes before itself, and no two before each other.
LEMMA StringOrderIsStrict ==
  ASSUME NEW a \in Seq(Int), NEW b \in Seq(Int), Before(a, b)
  PROVE  a # b /\ ~Before(b, a)
<1>1. ASSUME NEW c \in Seq(Int), Before(c, c) PROVE FALSE
  <2>1. PICK n \in 1 .. Len(c) : n <= Len(c) => c[n] < c[n] BY <1>1 DEF Before
  <2>2. n <= Len(c) /\ c[n] \in Int OBVIOUS
  <2> QED BY <2>1, <2>2
<1> QED BY <1>1, BeforeIsTransitive

IsValue(u) == u \in Scalar \/ DOMAIN u = {"list"}

\* The kinds of values that have an order among themselves.
Number(u) == u \in [int : Rounds] \cup [float : Int]
Truth(u)  == u \in [bool : BOOLEAN]
Text(u)   == u \in [string : Seq(Int)]

LEMMA OfOneKind ==
  ASSUME NEW u, NEW w, IsValue(u), IsValue(w), PartialCmpValue(u, w) # None
  PROVE  \/ Number(u) /\ Number(w)
         \/ Truth(u) /\ Truth(w)
         \/ Text(u) /\ Text(w)
<1>1. \/ Number(u) \/ Truth(u) \/ Text(u) \/ DOMAIN u \in {{"nan"}, {"list"}}
  BY DEF IsValue, Scalar, Number, Truth, Text, Rounds
<1>2. \/ Number(w) \/ Truth(w) \/ Text(w) \/ DOMAIN w \in {{"nan"}, {"list"}}
  BY DEF IsValue, Scalar, Number, Truth, Text, Rounds
<1>3. /\ Number(u) => DOMAIN u \in {{"int"}, {"float"}}
      /\ Truth(u) => DOMAIN u = {"bool"}
      /\ Text(u) => DOMAIN u = {"string"}
  BY DEF Number, Truth, Text
<1>4. /\ Number(w) => DOMAIN w \in {{"int"}, {"float"}}
      /\ Truth(w) => DOMAIN w = {"bool"}
      /\ Text(w) => DOMAIN w = {"string"}
  BY DEF Number, Truth, Text
<1>5. \/ Is(u, "int") /\ Is(w, "int")
      \/ Is(u, "float") /\ Is(w, "float")
      \/ Is(u, "int") /\ Is(w, "float")
      \/ Is(u, "float") /\ Is(w, "int")
      \/ Is(u, "bool") /\ Is(w, "bool")
      \/ Is(u, "string") /\ Is(w, "string")
  BY DEF PartialCmpValue
<1> QED BY <1>1, <1>2, <1>3, <1>4, <1>5 DEF Is

\* Two integers are compared as they are, any other two numbers as floats.
Exact(u, w)  == Is(u, "int") /\ Is(w, "int")
Float(u)     == IF Is(u, "int") THEN AsFloat(u.int) ELSE u.float

LEMMA NumbersCompare ==
  ASSUME NEW u, NEW w, Number(u), Number(w)
  PROVE  /\ Float(u) \in Int /\ Float(w) \in Int
         /\ Exact(u, w) =>
              /\ u.int \in Int /\ w.int \in Int
              /\ PartialCmpValue(u, w) = CmpInt(u.int, w.int)
              /\ u.int <= w.int => Float(u) <= Float(w)
         /\ ~Exact(u, w) => PartialCmpValue(u, w) = CmpInt(Float(u), Float(w))
<1>1. u \in [int : Rounds] \/ u \in [float : Int] BY DEF Number
<1>2. w \in [int : Rounds] \/ w \in [float : Int] BY DEF Number
<1>3. Rounds \subseteq Int BY FloatsAreBounded DEF Rounds
<1>4. CASE u \in [int : Rounds] /\ w \in [int : Rounds]
  <2>1. DOMAIN u = {"int"} /\ DOMAIN w = {"int"} BY <1>4
  <2>2. u.int \in Rounds /\ w.int \in Rounds BY <1>4
  <2>3. Float(u) = AsFloat(u.int) /\ Float(w) = AsFloat(w.int) BY <2>1 DEF Float, Is
  <2>4. PartialCmpValue(u, w) = CmpInt(u.int, w.int) BY <2>1 DEF PartialCmpValue, Is
  <2>5. u.int <= w.int => AsFloat(u.int) <= AsFloat(w.int) BY <2>2, AsFloatIsMonotone
  <2>6. AsFloat(u.int) \in Int /\ AsFloat(w.int) \in Int BY <2>2, AsFloatIsInt
  <2> QED BY <1>3, <2>1, <2>2, <2>3, <2>4, <2>5, <2>6 DEF Exact, Is
<1>5. CASE u \in [int : Rounds] /\ w \in [float : Int]
  <2>1. DOMAIN u = {"int"} /\ DOMAIN w = {"float"} BY <1>5
  <2>2. u.int \in Rounds /\ w.float \in Int BY <1>5
  <2>3. Float(u) = AsFloat(u.int) /\ Float(w) = w.float BY <2>1 DEF Float, Is
  <2>4. PartialCmpValue(u, w) = CmpInt(AsFloat(u.int), w.float) BY <2>1 DEF PartialCmpValue, Is
  <2> QED BY <2>1, <2>2, <2>3, <2>4, AsFloatIsInt DEF Exact, Is
<1>6. CASE u \in [float : Int] /\ w \in [int : Rounds]
  <2>1. DOMAIN u = {"float"} /\ DOMAIN w = {"int"} BY <1>6
  <2>2. u.float \in Int /\ w.int \in Rounds BY <1>6
  <2>3. Float(u) = u.float /\ Float(w) = AsFloat(w.int) BY <2>1 DEF Float, Is
  <2>4. PartialCmpValue(u, w) = CmpInt(u.float, AsFloat(w.int)) BY <2>1 DEF PartialCmpValue, Is
  <2> QED BY <2>1, <2>2, <2>3, <2>4, AsFloatIsInt DEF Exact, Is
<1>7. CASE u \in [float : Int] /\ w \in [float : Int]
  <2>1. DOMAIN u = {"float"} /\ DOMAIN w = {"float"} BY <1>7
  <2>2. u.float \in Int /\ w.float \in Int BY <1>7
  <2>3. PartialCmpValue(u, w) = CmpInt(u.float, w.float) BY <2>1 DEF PartialCmpValue, Is
  <2> QED BY <2>1, <2>2, <2>3 DEF Exact, Float, Is
<1> QED BY <1>1, <1>2, <1>4, <1>5, <1>6, <1>7

LEMMA TruthsCompare ==
  ASSUME NEW u, NEW w, Truth(u), Truth(w)
  PROVE  /\ u.bool \in BOOLEAN /\ w.bool \in BOOLEAN
         /\ PartialCmpValue(u, w) = CmpBool(u.bool, w.bool)
<1>1. u.bool \in BOOLEAN /\ w.bool \in BOOLEAN /\ DOMAIN u = {"bool"} /\ DOMAIN w = {"bool"}
  BY DEF Truth
<1> QED BY <1>1 DEF PartialCmpValue, Is

LEMMA TextsCompare ==
  ASSUME NEW u, NEW w, Text(u), Text(w)
  PROVE  /\ u.string \in Seq(Int) /\ w.string \in Seq(Int)
         /\ PartialCmpValue(u, w) = CmpString(u.string, w.string)
<1>1. u.string \in Seq(Int) /\ w.string \in Seq(Int)
       /\ DOMAIN u = {"string"} /\ DOMAIN w = {"string"}
  BY DEF Text
<1> QED BY <1>1 DEF PartialCmpValue, Is

\* the order seen from the other side
Flip(ord) == CASE ord = Less -> Greater [] ord = Greater -> Less [] OTHER -> ord

LEMMA OrderFlips ==
  ASSUME NEW u, NEW w, IsValue(u), IsValue(w)
  PROVE  /\ PartialCmpValue(u, w) \in {Less, Equal, Greater, None}
         /\ PartialCmpValue(w, u) = Flip(PartialCmpValue(u, w))
<1> USE DEF Less, Equal, Greater, None
<1>1. CASE Number(u) /\ Number(w)
  <2>1. CASE Exact(u, w)
    <3>1. Exact(w, u) BY <2>1 DEF Exact
    <3> QED BY <1>1, <2>1, <3>1, NumbersCompare DEF CmpInt, Flip
  <2>2. CASE ~Exact(u, w)
    <3>1. ~Exact(w, u) BY <2>2 DEF Exact
    <3> QED BY <1>1, <2>2, <3>1, NumbersCompare DEF CmpInt, Flip
  <2> QED BY <2>1, <2>2
<1>2. CASE Truth(u) /\ Truth(w)
  <2>1. u.bool \in BOOLEAN /\ w.bool \in BOOLEAN BY <1>2, TruthsCompare
  <2>2. PartialCmpValue(u, w) = CmpBool(u.bool, w.bool)
         /\ PartialCmpValue(w, u) = CmpBool(w.bool, u.bool)
    BY <1>2, TruthsCompare
  <2> QED BY <2>1, <2>2 DEF CmpBool, Flip
<1>3. CASE Text(u) /\ Text(w)
  <2>1. u.string \in Seq(Int) /\ w.string \in Seq(Int)
         /\ PartialCmpValue(u, w) = CmpString(u.string, w.string)
         /\ PartialCmpValue(w, u) = CmpString(w.string, u.string)
    BY <1>3, TextsCompare
  <2> QED BY <2>1, CmpStringIsLexicographic, StringOrderIsStrict DEF Flip
<1>4. CASE PartialCmpValue(u, w) = None /\ PartialCmpValue(w, u) = None BY <1>4 DEF Flip
<1> QED BY <1>1, <1>2, <1>3, <1>4, OfOneKind

\* Lt, or Lte
Lt(ord) == ord = Less
Le(ord) == ord \in {Less, Equal}

LEMMA OrderChains ==
  ASSUME NEW u, NEW w, NEW x, IsValue(u), IsValue(w), IsValue(x)
  PROVE  /\ Lt(PartialCmpValue(u, w)) /\ Lt(PartialCmpValue(w, x)) => Lt(PartialCmpValue(u, x))
         /\ Le(PartialCmpValue(u, w)) /\ Lt(PartialCmpValue(w, x)) => Le(PartialCmpValue(u, x))
         /\ Lt(PartialCmpValue(u, w)) /\ Le(PartialCmpValue(w, x)) => Le(PartialCmpValue(u, x))
<1> USE DEF Less, Equal, Greater, None
<1> DEFINE uw == PartialCmpValue(u, w)
           wx == PartialCmpValue(w, x)
           ux == PartialCmpValue(u, x)
<1>0. SUFFICES ASSUME uw # None, wx # None
               PROVE  /\ Lt(uw) /\ Lt(wx) => Lt(ux)
                      /\ Le(uw) /\ Lt(wx) => Le(ux)
                      /\ Lt(uw) /\ Le(wx) => Le(ux)
  BY DEF Lt, Le
<1>1. CASE Number(u) /\ Number(w) /\ Number(x)
  <2> DEFINE fu == Float(u)
             fw == Float(w)
             fx == Float(x)
  <2>1. /\ fu \in Int /\ fw \in Int /\ fx \in Int
        /\ Exact(u, w) => u.int \in Int /\ w.int \in Int /\ uw = CmpInt(u.int, w.int)
                          /\ (u.int <= w.int => fu <= fw)
        /\ Exact(w, x) => w.int \in Int /\ x.int \in Int /\ wx = CmpInt(w.int, x.int)
                          /\ (w.int <= x.int => fw <= fx)
        /\ Exact(u, x) => u.int \in Int /\ x.int \in Int /\ ux = CmpInt(u.int, x.int)
        /\ Exact(x, u) => (x.int <= u.int => fx <= fu)
        /\ ~Exact(u, w) => uw = CmpInt(fu, fw)
        /\ ~Exact(w, x) => wx = CmpInt(fw, fx)
        /\ ~Exact(u, x) => ux = CmpInt(fu, fx)
    <3> HIDE DEF uw, wx, ux
    <3> QED BY <1>1, NumbersCompare DEF uw, wx, ux
  <2> HIDE DEF uw, wx, ux, fu, fw, fx
  <2> QED BY <2>1 DEF Exact, CmpInt, Lt, Le
<1>2. CASE Truth(u) /\ Truth(w) /\ Truth(x)
  <2>1. /\ u.bool \in BOOLEAN /\ w.bool \in BOOLEAN /\ x.bool \in BOOLEAN
        /\ uw = CmpBool(u.bool, w.bool) /\ wx = CmpBool(w.bool, x.bool)
        /\ ux = CmpBool(u.bool, x.bool)
    BY <1>2, TruthsCompare
  <2> HIDE DEF uw, wx, ux
  <2> QED BY <2>1 DEF CmpBool, Lt, Le
<1>3. CASE Text(u) /\ Text(w) /\ Text(x)
  <2>1. /\ u.string \in Seq(Int) /\ w.string \in Seq(Int) /\ x.string \in Seq(Int)
        /\ uw = CmpString(u.string, w.string) /\ wx = CmpString(w.string, x.string)
        /\ ux = CmpString(u.string, x.string)
    BY <1>3, TextsCompare
  <2> HIDE DEF uw, wx, ux
  <2>2. ASSUME Before(u.string, w.string), Before(w.string, x.string) PROVE ux = Less
    <3>1. Before(u.string, x.string) BY <2>1, <2>2, BeforeIsTransitive
    <3> QED BY <2>1, <3>1, CmpStringIsLexicographic, StringOrderIsStrict
  <2>3. /\ \/ uw = Less /\ Before(u.string, w.string)
           \/ uw = Equal /\ u.string = w.string
           \/ uw = Greater
        /\ \/ wx = Less /\ Before(w.string, x.string)
           \/ wx = Equal /\ w.string = x.string
           \/ wx = Greater
    BY <2>1, CmpStringIsLexicographic
  <2> QED BY <2>1, <2>2, <2>3 DEF Lt, Le
<1>4. (Number(u) /\ Number(w)) \/ (Truth(u) /\ Truth(w)) \/ (Text(u) /\ Text(w))
  BY <1>0, OfOneKind
<1>5. (Number(w) /\ Number(x)) \/ (Truth(w) /\ Truth(x)) \/ (Text(w) /\ Text(x))
  BY <1>0, OfOneKind
<1>6. ~(Number(w) /\ Truth(w)) /\ ~(Number(w) /\ Text(w)) /\ ~(Truth(w) /\ Text(w))
  BY DEF Number, Truth, Text
<1> QED BY <1>1, <1>2, <1>3, <1>4, <1>5, <1>6
-----------------------------------------------------------------------------
(* ValueOrder *)

Ranking == {"Gt", "Gte", "Lt", "Lte"}  \* the operators that need an order

\* Lists have no order, and other values are ranked by it.
LEMMA RankedByOrder ==
  ASSUME NEW u, NEW w, IsValue(u), IsValue(w), NEW cmp \in Ranking
  PROVE  CompareHolds(u, cmp, w) <=>
           PartialCmpValue(u, w) # None /\ Holding(cmp, PartialCmpValue(u, w))
<1>1. CASE Is(u, "list") /\ Is(w, "list")
  <2>0. ASSUME NEW x \in Scalar PROVE ~Is(x, "list")
    <3>1. DOMAIN x \in {{"int"}, {"float"}, {"bool"}, {"string"}, {"nan"}} BY DEF Scalar
    <3> QED BY <3>1 DEF Is
  <2>1. u \notin Scalar /\ w \notin Scalar BY <1>1, <2>0
  <2>2. DOMAIN u = {"list"} /\ DOMAIN w = {"list"} BY <2>1 DEF IsValue
  <2>3. PartialCmpValue(u, w) = None BY <2>2 DEF PartialCmpValue, Is
  <2>4. Compare(u, cmp, w) = {} BY <1>1 DEF Compare, Ranking
  <2> QED BY <2>3, <2>4 DEF CompareHolds
<1>2. CASE ~(Is(u, "list") /\ Is(w, "list"))
  <2>1. Holding(cmp, PartialCmpValue(u, w)) \in BOOLEAN BY DEF Holding, Ranking
  <2>2. Compare(u, cmp, w) = IF PartialCmpValue(u, w) = None THEN {}
                             ELSE {Holding(cmp, PartialCmpValue(u, w))}
    BY <1>2 DEF Compare
  <2> QED BY <2>1, <2>2 DEF CompareHolds
<1> QED BY <1>1, <1>2

\* The value of every field is a sample.
Filled == field_values \in [Slot -> {{}} \cup {{u} : u \in Samples}]

THEOREM FilledInvariance == OrderSpec => []Filled
<1>1. OrderInit => Filled BY DEF OrderInit, Filled
<1>2. Filled /\ [OrderNext]_field_values => Filled'
  <2> SUFFICES ASSUME Filled, [OrderNext]_field_values PROVE Filled' OBVIOUS
  <2>1. CASE UNCHANGED field_values BY <2>1 DEF Filled
  <2>2. ASSUME NEW i \in Slot, NEW u \in Samples, Set(i, u) PROVE Filled'
    BY <2>2 DEF Set, Filled
  <2> QED BY <2>1, <2>2 DEF OrderNext
<1> QED BY <1>1, <1>2, PTL DEF OrderSpec

\* What two fields say is what their values say.
LEMMA SaysOfValues ==
  ASSUME Filled, NEW i \in Slot, NEW j \in Slot, NEW cmp
  PROVE  Says(i, cmp, j) <=>
           \E u \in field_values[i], w \in field_values[j] : CompareHolds(u, cmp, w)
<1>1. i \in DOMAIN field_values /\ j \in DOMAIN field_values BY DEF Filled
<1> QED BY <1>1 DEF Says, EvalLeaf, Given

LEMMA WithinOfValues ==
  ASSUME Filled, NEW i \in Slot, NEW j \in Slot, NEW k \in Slot
  PROVE  Within(i, j, k) <=>
           \E u \in field_values[i] :
             /\ \E l \in field_values[j] : CompareHolds(u, "Gte", l)
             /\ \E h \in field_values[k] : CompareHolds(u, "Lte", h)
<1>1. /\ i \in DOMAIN field_values /\ j \in DOMAIN field_values
      /\ k \in DOMAIN field_values
  BY DEF Filled
<1>2. ResolveBound([index |-> j], field_values) = field_values[j]
       /\ ResolveBound([index |-> k], field_values) = field_values[k]
  BY <1>1 DEF ResolveBound, Given, Is
<1>3. Given(field_values, i) = field_values[i] BY <1>1 DEF Given
<1> QED BY <1>2, <1>3 DEF Within, EvalLeaf

\* A field has at most one value.
LEMMA OneValue ==
  ASSUME Filled, NEW i \in Slot, NEW u \in field_values[i], NEW w \in field_values[i]
  PROVE  u = w /\ u \in Samples /\ IsValue(u)
<1>1. field_values[i] \in {{}} \cup {{x} : x \in Samples} BY DEF Filled
<1>2. u = w /\ u \in Samples BY <1>1
<1> QED BY <1>2, SamplesAreValues DEF IsValue

\* No comparison depends on the side a value stands on.
LEMMA HoldsFlipped ==
  ASSUME NEW u \in Samples, NEW w \in Samples, NEW cmp \in CompareOps
  PROVE  CompareHolds(u, cmp, w) <=> CompareHolds(w, Swapped[cmp], u)
<1> DEFINE uw == PartialCmpValue(u, w)
           wu == PartialCmpValue(w, u)
<1>1. uw \in {Less, Equal, Greater, None} /\ wu = Flip(uw)
  BY SamplesAreValues, OrderFlips DEF IsValue
<1>2. CASE Is(u, "list") /\ Is(w, "list")
  <2>1. /\ Compare(u, cmp, w) = CASE cmp = "Eq"  -> {Equals(u, w)}
                                  [] cmp = "Neq" -> {~Equals(u, w)}
                                  [] OTHER -> {}
        /\ Compare(w, Swapped[cmp], u) = CASE Swapped[cmp] = "Eq"  -> {Equals(w, u)}
                                           [] Swapped[cmp] = "Neq" -> {~Equals(w, u)}
                                           [] OTHER -> {}
    BY <1>2 DEF Compare
  <2>2. Equals(u, w) = Equals(w, u) BY EqualityIsSymmetric
  <2>3. (cmp = "Eq" <=> Swapped[cmp] = "Eq") /\ (cmp = "Neq" <=> Swapped[cmp] = "Neq")
    BY DEF CompareOps, Swapped
  <2>4. Compare(u, cmp, w) = Compare(w, Swapped[cmp], u) BY <2>1, <2>2, <2>3
  <2> QED BY <2>4 DEF CompareHolds
<1>3. CASE ~(Is(u, "list") /\ Is(w, "list"))
  <2>1. /\ Compare(u, cmp, w) = IF uw = None THEN {} ELSE {Holding(cmp, uw)}
        /\ Compare(w, Swapped[cmp], u) = IF wu = None THEN {} ELSE {Holding(Swapped[cmp], wu)}
    BY <1>3 DEF Compare
  <2> HIDE DEF uw, wu
  <2>2. uw = None <=> wu = None BY <1>1 DEF Flip, Less, Equal, Greater, None
  <2>3. uw # None => Holding(cmp, uw) = Holding(Swapped[cmp], wu)
    BY <1>1 DEF Flip, Less, Equal, Greater, None, CompareOps, Swapped, Holding
  <2>4. Compare(u, cmp, w) = Compare(w, Swapped[cmp], u) BY <2>1, <2>2, <2>3
  <2> QED BY <2>4 DEF CompareHolds
<1> QED BY <1>2, <1>3

\* A value that is not equal to another is, if they compare, on one side of it.
LEMMA NotEqualIsOrdered ==
  ASSUME NEW u, NEW w, IsValue(u), IsValue(w),
         CompareHolds(u, "Gte", w), CompareHolds(u, "Neq", w)
  PROVE  PartialCmpValue(u, w) = Greater
<1> DEFINE uw == PartialCmpValue(u, w)
<1>1. uw \in {Less, Equal, Greater, None} BY OrderFlips
<1>2. uw # None /\ Holding("Gte", uw) BY RankedByOrder DEF Ranking
<1>3. ~(Is(u, "list") /\ Is(w, "list"))
  BY DEF CompareHolds, Compare
<1>4. TRUE \in {Holding("Neq", uw)} BY <1>2, <1>3 DEF CompareHolds, Compare
<1> HIDE DEF uw
<1>5. uw # Equal BY <1>4 DEF Holding
<1>6. uw # Less BY <1>2 DEF Holding
<1> QED BY <1>1, <1>2, <1>5, <1>6 DEF uw

\* Less and Less-or-Equal, as operators and as orders.
LEMMA StrictAndWeak ==
  ASSUME NEW u, NEW w, IsValue(u), IsValue(w)
  PROVE  /\ CompareHolds(u, "Lt", w) <=> Lt(PartialCmpValue(u, w))
         /\ CompareHolds(u, "Lte", w) <=> Le(PartialCmpValue(u, w))
<1>1. PartialCmpValue(u, w) \in {Less, Equal, Greater, None} BY OrderFlips
<1>2. CompareHolds(u, "Lt", w) <=>
        PartialCmpValue(u, w) # None /\ Holding("Lt", PartialCmpValue(u, w))
  BY RankedByOrder DEF Ranking
<1>3. CompareHolds(u, "Lte", w) <=>
        PartialCmpValue(u, w) # None /\ Holding("Lte", PartialCmpValue(u, w))
  BY RankedByOrder DEF Ranking
<1> QED BY <1>1, <1>2, <1>3 DEF Holding, Lt, Le, Less, Equal, Greater, None

LEMMA FilledIsCoherent ==
  ASSUME Filled
  PROVE  OrderIsCoherent
<1> SUFFICES ASSUME NEW i \in Slot, NEW j \in Slot, NEW k \in Slot
    PROVE /\ Says(i, "Lt", j) /\ Says(j, "Lt", k)  => Says(i, "Lt", k)
          /\ Says(i, "Lte", j) /\ Says(j, "Lt", k) => Says(i, "Lte", k)
          /\ Says(i, "Lt", j) /\ Says(j, "Lte", k) => Says(i, "Lte", k)
          /\ Within(i, j, k) /\ Says(i, "Neq", j)  => Says(j, "Lte", k)
          /\ \A cmp \in CompareOps : Says(i, cmp, j) <=> Says(j, Swapped[cmp], i)
  BY DEF OrderIsCoherent
<1>1. ASSUME NEW c1 \in {"Lt", "Lte"}, NEW c2 \in {"Lt", "Lte"}, c1 = "Lt" \/ c2 = "Lt",
             Says(i, c1, j), Says(j, c2, k)
      PROVE  /\ Says(i, "Lte", k)
             /\ c1 = "Lt" /\ c2 = "Lt" => Says(i, "Lt", k)
  <2>1. PICK u \in field_values[i], w \in field_values[j] : CompareHolds(u, c1, w)
    BY <1>1, SaysOfValues
  <2>2. PICK w2 \in field_values[j], x \in field_values[k] : CompareHolds(w2, c2, x)
    BY <1>1, SaysOfValues
  <2>3. w2 = w /\ IsValue(u) /\ IsValue(w) /\ IsValue(x) BY OneValue
  <2>4. CompareHolds(w, c2, x) BY <2>2, <2>3
  <2>5. /\ c1 = "Lt" => Lt(PartialCmpValue(u, w))
        /\ c1 = "Lte" => Le(PartialCmpValue(u, w))
        /\ c2 = "Lt" => Lt(PartialCmpValue(w, x))
        /\ c2 = "Lte" => Le(PartialCmpValue(w, x))
    BY <2>1, <2>3, <2>4, StrictAndWeak
  <2>6. \A ord : Lt(ord) => Le(ord) BY DEF Lt, Le
  <2>7. /\ Le(PartialCmpValue(u, x))
        /\ c1 = "Lt" /\ c2 = "Lt" => Lt(PartialCmpValue(u, x))
    BY <1>1, <2>3, <2>5, <2>6, OrderChains
  <2>8. /\ CompareHolds(u, "Lte", x)
        /\ c1 = "Lt" /\ c2 = "Lt" => CompareHolds(u, "Lt", x)
    BY <2>3, <2>7, StrictAndWeak
  <2> QED BY <2>8, SaysOfValues
<1>2. ASSUME Within(i, j, k), Says(i, "Neq", j) PROVE Says(j, "Lte", k)
  <2>1. PICK u \in field_values[i], w \in field_values[j], x \in field_values[k] :
          CompareHolds(u, "Gte", w) /\ CompareHolds(u, "Lte", x)
    BY <1>2, WithinOfValues
  <2>2. PICK u2 \in field_values[i], w2 \in field_values[j] : CompareHolds(u2, "Neq", w2)
    BY <1>2, SaysOfValues
  <2>3. u2 = u /\ w2 = w /\ IsValue(u) /\ IsValue(w) /\ IsValue(x) BY OneValue
  <2>4. PartialCmpValue(u, w) = Greater BY <2>1, <2>2, <2>3, NotEqualIsOrdered
  <2>5. Lt(PartialCmpValue(w, u)) BY <2>3, <2>4, OrderFlips DEF Lt, Flip, Less, Greater
  <2>6. Le(PartialCmpValue(u, x)) BY <2>1, <2>3, StrictAndWeak
  <2>7. Le(PartialCmpValue(w, x)) BY <2>3, <2>5, <2>6, OrderChains
  <2>8. CompareHolds(w, "Lte", x) BY <2>3, <2>7, StrictAndWeak
  <2> QED BY <2>8, SaysOfValues
<1>3. ASSUME NEW cmp \in CompareOps PROVE Says(i, cmp, j) <=> Says(j, Swapped[cmp], i)
  <2>1. \A u \in field_values[i], w \in field_values[j] :
          CompareHolds(u, cmp, w) <=> CompareHolds(w, Swapped[cmp], u)
    BY OneValue, HoldsFlipped
  <2> QED BY <2>1, SaysOfValues
<1> QED BY <1>1, <1>2, <1>3

\* Whatever three fields hold, and however coarse a float is, what their
\* comparisons say is coherent.
THEOREM OrderIsCoherentAlways == OrderSpec => []OrderIsCoherent
BY FilledInvariance, FilledIsCoherent, PTL
=============================================================================
