--------------------------- MODULE BinaryCacheProofs ---------------------------
(***************************************************************************)
(* BinaryCache, for any number of writers and readers, rule sets, sources, *)
(* files found in the place and offsets at which a system call may end:    *)
(* what is saved can be loaded and means the same, and nothing else is     *)
(* loaded.                                                                 *)
(***************************************************************************)
EXTENDS BinaryCache, SequenceTheorems, FiniteSetTheorems, NaturalsInduction,
        WellFoundedInduction, TLAPS

-----------------------------------------------------------------------------
(* Sequences *)

\* a non-empty set of natural numbers has a least element
LEMMA LeastOf ==
  ASSUME NEW T \in SUBSET Nat, T # {}
  PROVE  \E x \in T : \A y \in T : x <= y
<1>1. PICK R : R = {e \in Nat \X Nat : e[1] < e[2]}
  OBVIOUS
<1>2. R = OpToRel(<, Nat)
  BY <1>1 DEF OpToRel
<1>3. PICK x \in T : \A y \in T : <<y, x>> \notin R
  BY <1>2, NatLessThanWellFounded, WFMin
<1>4. ASSUME NEW y \in T PROVE x <= y
  <2>1. x \in Nat /\ y \in Nat /\ <<y, x>> \notin R
    BY <1>3
  <2>. QED  BY <2>1, <1>1
<1>. QED  BY <1>4

\* a function on 1..n is a sequence of n elements
LEMMA FunctionSeq ==
  ASSUME NEW n \in Nat, NEW S, NEW f \in [1 .. n -> S]
  PROVE  f \in Seq(S) /\ Len(f) = n /\ DOMAIN f = 1 .. n
<1>1. f \in Seq(S)
  BY SeqDef
<1>2. Len(f) \in Nat /\ DOMAIN f = 1 .. Len(f) /\ DOMAIN f = 1 .. n
  BY <1>1, LenProperties
<1>3. Len(f) = n
  <2>1. CASE n = 0
    BY <2>1, <1>2
  <2>2. CASE n # 0
    <3>1. n \in 1 .. Len(f) /\ (Len(f) > 0 => Len(f) \in 1 .. n)
      BY <2>2, <1>2
    <3>. QED  BY <3>1, <1>2
  <2>. QED  BY <2>1, <2>2
<1>. QED  BY <1>1, <1>2, <1>3

\* what stands at the places of s \o t
LEMMA Places ==
  ASSUME NEW S, NEW s \in Seq(S), NEW T, NEW t \in Seq(T)
  PROVE  /\ s \o t \in Seq(S \cup T)
         /\ Len(s) \in Nat /\ Len(t) \in Nat
         /\ Len(s \o t) = Len(s) + Len(t)
         /\ DOMAIN (s \o t) = 1 .. Len(s) + Len(t)
         /\ \A i \in 1 .. Len(s) : (s \o t)[i] = s[i]
         /\ \A i \in 1 .. Len(t) : (s \o t)[Len(s) + i] = t[i]
<1>1. s \in Seq(S \cup T) /\ t \in Seq(S \cup T)
  BY SeqMonotonic, S \subseteq S \cup T, T \subseteq S \cup T
<1>2. /\ s \o t \in Seq(S \cup T)
      /\ Len(s \o t) = Len(s) + Len(t)
      /\ \A i \in 1 .. Len(s) + Len(t) :
           (s \o t)[i] = IF i <= Len(s) THEN s[i] ELSE t[i - Len(s)]
  BY <1>1, ConcatProperties
<1>3. Len(s) \in Nat /\ Len(t) \in Nat /\ DOMAIN (s \o t) = 1 .. Len(s \o t)
  BY <1>1, <1>2, LenProperties
<1>4. \A i \in 1 .. Len(s) : (s \o t)[i] = s[i]
  BY <1>2, <1>3
<1>5. ASSUME NEW i \in 1 .. Len(t) PROVE (s \o t)[Len(s) + i] = t[i]
  <2>1. Len(s) + i \in 1 .. Len(s) + Len(t) /\ ~(Len(s) + i <= Len(s)) /\ (Len(s) + i) - Len(s) = i
    BY <1>3
  <2>. QED  BY <2>1, <1>2
<1>. QED  BY <1>2, <1>3, <1>4, <1>5

-----------------------------------------------------------------------------
(* bincode *)

LEMMA PayloadPlaces ==
  ASSUME NEW ser, NEW X, ser.rules \in Seq(X)
  PROVE  LET n == Len(ser.rules)
             p == EncodePayload(ser)
         IN  /\ p \in Seq(Range(p)) /\ n \in Nat /\ Len(p) = n + 5
             /\ p[1] = [metadata |-> ser.metadata]
             /\ p[2] = [count |-> n]
             /\ \A i \in 1 .. n : p[i + 2] = [rule |-> ser.rules[i]]
             /\ p[n + 3] = [terminals |-> ser.terminals]
             /\ p[n + 4] = [field_index |-> ser.field_index]
             /\ p[n + 5] = [rule_names |-> ser.rule_names]
<1>. DEFINE n == Len(ser.rules)
            front == <<[metadata |-> ser.metadata], [count |-> n]>>
            middle == [i \in DOMAIN ser.rules |-> [rule |-> ser.rules[i]]]
            back == <<[terminals |-> ser.terminals], [field_index |-> ser.field_index],
                      [rule_names |-> ser.rule_names]>>
            p == EncodePayload(ser)
<1>1. n \in Nat /\ DOMAIN ser.rules = 1 .. n
  BY LenProperties
<1>2. PICK F : front \in Seq(F) /\ Len(front) = 2
  <2>1. front \in Seq({[metadata |-> ser.metadata], [count |-> n]}) /\ Len(front) = 2
    OBVIOUS
  <2>. QED  BY <2>1
<1>3. PICK B : back \in Seq(B) /\ Len(back) = 3
  <2>1. back \in Seq({[terminals |-> ser.terminals], [field_index |-> ser.field_index],
                      [rule_names |-> ser.rule_names]}) /\ Len(back) = 3
    OBVIOUS
  <2>. QED  BY <2>1
<1>4. PICK M : middle \in Seq(M) /\ Len(middle) = n
  <2>. DEFINE M == {[rule |-> ser.rules[i]] : i \in 1 .. n}
  <2>1. middle \in [1 .. n -> M]
    BY <1>1
  <2>. HIDE DEF middle, M, n
  <2>2. middle \in Seq(M) /\ Len(middle) = n
    BY <2>1, <1>1, FunctionSeq
  <2>. QED  BY <2>2
<1>5. /\ front[1] = [metadata |-> ser.metadata] /\ front[2] = [count |-> n]
      /\ \A i \in 1 .. n : middle[i] = [rule |-> ser.rules[i]]
      /\ back[1] = [terminals |-> ser.terminals]
      /\ back[2] = [field_index |-> ser.field_index]
      /\ back[3] = [rule_names |-> ser.rule_names]
  BY <1>1
<1>6. p = (front \o middle) \o back
  BY DEF EncodePayload
<1>. HIDE DEF front, middle, back, p, n
<1>7. /\ front \o middle \in Seq(F \cup M) /\ Len(front \o middle) = n + 2
      /\ (front \o middle)[1] = front[1] /\ (front \o middle)[2] = front[2]
      /\ \A i \in 1 .. n : (front \o middle)[i + 2] = middle[i]
  <2>1. /\ front \o middle \in Seq(F \cup M)
        /\ Len(front \o middle) = Len(front) + Len(middle)
        /\ \A i \in 1 .. Len(front) : (front \o middle)[i] = front[i]
        /\ \A i \in 1 .. Len(middle) : (front \o middle)[Len(front) + i] = middle[i]
    BY <1>2, <1>4, Places
  <2>2. 2 + n = n + 2 /\ \A i \in 1 .. n : 2 + i = i + 2
    BY <1>1
  <2>. QED  BY <2>1, <2>2, <1>2, <1>4
<1>. DEFINE fm == front \o middle
<1>. HIDE DEF fm
<1>8. /\ \E P : p \in Seq(P)
      /\ Len(p) = n + 5
      /\ \A i \in 1 .. n + 2 : p[i] = fm[i]
      /\ \A i \in 1 .. 3 : p[n + 2 + i] = back[i]
  <2>1. PICK G : fm \in Seq(G)
    BY <1>7 DEF fm
  <2>2. /\ fm \o back \in Seq(G \cup B)
        /\ Len(fm \o back) = Len(fm) + Len(back)
        /\ \A i \in 1 .. Len(fm) : (fm \o back)[i] = fm[i]
        /\ \A i \in 1 .. Len(back) : (fm \o back)[Len(fm) + i] = back[i]
    <3>1. back \in Seq(B)
      BY <1>3
    <3>. QED  BY ONLY <2>1, <3>1, Places
  <2>3. (n + 2) + 3 = n + 5
    BY <1>1
  <2>4. Len(fm) = n + 2 /\ p = fm \o back
    BY <1>6, <1>7 DEF fm
  <2>. QED  BY <2>2, <2>3, <2>4, <1>3
<1>9. p \in Seq(Range(p))
  BY <1>8, SeqOfRange
<1>10. p[1] = front[1] /\ p[2] = front[2] /\ \A i \in 1 .. n : p[i + 2] = middle[i]
  <2>1. fm[1] = front[1] /\ fm[2] = front[2] /\ \A i \in 1 .. n : fm[i + 2] = middle[i]
    BY <1>7 DEF fm
  <2>2. 1 \in 1 .. n + 2 /\ 2 \in 1 .. n + 2 /\ \A i \in 1 .. n : i + 2 \in 1 .. n + 2
    BY <1>1
  <2>. QED  BY <2>1, <2>2, <1>8
<1>11. p[n + 3] = back[1] /\ p[n + 4] = back[2] /\ p[n + 5] = back[3]
  BY <1>1, <1>8
<1>. QED  BY <1>1, <1>5, <1>8, <1>9, <1>10, <1>11 DEF p, n

\* decode_from_slice gives back what encode_to_vec was given
LEMMA PayloadComesBack ==
  ASSUME NEW ser, NEW X, ser.rules \in Seq(X),
         NEW md, NEW ts, NEW fi, NEW ns,
         ser = [ metadata |-> md, rules |-> ser.rules, terminals |-> ts,
                 field_index |-> fi, rule_names |-> ns ]
  PROVE  DecodePayload(EncodePayload(ser)) = {ser}
<1>. DEFINE n == Len(ser.rules)
            p == EncodePayload(ser)
            kind == [i \in 1 .. n + 5 |->
                       CASE i = 1 -> "metadata"         [] i = 2 -> "count"
                         [] i = n + 3 -> "terminals"    [] i = n + 4 -> "field_index"
                         [] i = n + 5 -> "rule_names"   [] OTHER -> "rule"]
<1>1. /\ n \in Nat /\ Len(p) = n + 5
      /\ p[1] = [metadata |-> ser.metadata]
      /\ p[2] = [count |-> n]
      /\ \A i \in 1 .. n : p[i + 2] = [rule |-> ser.rules[i]]
      /\ p[n + 3] = [terminals |-> ser.terminals]
      /\ p[n + 4] = [field_index |-> ser.field_index]
      /\ p[n + 5] = [rule_names |-> ser.rule_names]
  BY ZenonT(30), PayloadPlaces
<1>2. DOMAIN ser.rules = 1 .. n /\ ser.rules = [i \in 1 .. n |-> ser.rules[i]]
  BY LenProperties
<1>. HIDE DEF n, p
<1>3. Len(p) > 1 /\ Is(p[2], "count") /\ p[2].count = n
  BY <1>1 DEF Is
<1>4. ASSUME NEW i \in 1 .. n + 5 PROVE Is(p[i], kind[i])
  <2>1. CASE i \in {1, 2, n + 3, n + 4, n + 5}
    BY <2>1, <1>1 DEF Is
  <2>2. CASE i \notin {1, 2, n + 3, n + 4, n + 5}
    <3>1. i - 2 \in 1 .. n /\ (i - 2) + 2 = i /\ kind[i] = "rule"
      BY <2>2, <1>1
    <3>2. p[i] = [rule |-> ser.rules[i - 2]]
      BY <3>1, <1>1
    <3>. QED  BY <3>1, <3>2 DEF Is
  <2>. QED  BY <2>1, <2>2
<1>5. DecodePayload(p) =
        {[ metadata |-> p[1].metadata, rules |-> [i \in 1 .. n |-> p[i + 2].rule],
           terminals |-> p[n + 3].terminals, field_index |-> p[n + 4].field_index,
           rule_names |-> p[n + 5].rule_names ]}
  <2>1. ~(Len(p) < n + 5) /\ DOMAIN kind = 1 .. n + 5
    BY <1>1
  <2>2. ~(\E i \in DOMAIN kind : ~Is(p[i], kind[i]))
    BY <2>1, <1>4
  <2>. QED  BY <1>3, <2>1, <2>2 DEF DecodePayload
<1>6. [i \in 1 .. n |-> p[i + 2].rule] = ser.rules
  <2>. HIDE DEF kind
  <2>1. ASSUME NEW i \in 1 .. n PROVE p[i + 2].rule = ser.rules[i]
    <3>1. p[i + 2] = [rule |-> ser.rules[i]]
      BY <1>1
    <3>. QED  BY ONLY <3>1
  <2>2. [i \in 1 .. n |-> p[i + 2].rule] = [i \in 1 .. n |-> ser.rules[i]]
    BY <2>1
  <2>. QED  BY <2>2, <1>2
<1>7. ser = [ metadata |-> ser.metadata, rules |-> ser.rules, terminals |-> ser.terminals,
              field_index |-> ser.field_index, rule_names |-> ser.rule_names ]
  OBVIOUS
<1>8. /\ p[1].metadata = ser.metadata /\ p[n + 3].terminals = ser.terminals
      /\ p[n + 4].field_index = ser.field_index /\ p[n + 5].rule_names = ser.rule_names
  BY <1>1
<1>. HIDE DEF kind
<1>9. DecodePayload(p) = {ser}
  BY <1>5, <1>6, <1>7, <1>8
<1>. QED  BY <1>9 DEF p

-----------------------------------------------------------------------------
(* The header *)

Saved(call) == Encode(call.ruleset, call.source)

PayloadFor(call) == EncodePayload(RulesetToSerialized(call.ruleset, call.source))

\* what a saved file looks like
LEMMA FilePlaces ==
  ASSUME NEW call, NEW X, call.ruleset.rules \in Seq(X)
  PROVE  LET f == Saved(call)
             p == PayloadFor(call)
         IN  /\ p \in Seq(Range(p)) /\ Len(p) \in Nat /\ Len(p) >= 5
             /\ f \in Seq(Range(f)) /\ Len(f) = Len(p) + 4 /\ DOMAIN f = 1 .. Len(f)
             /\ f[1] = [magic |-> MAGIC]
             /\ f[2] = [version |-> FORMAT_VERSION]
             /\ f[3] = [length |-> Len(p)]
             /\ f[4] = [hash |-> p]
             /\ SubSeq(f, 5, Len(f)) = p
<1>. DEFINE ser == RulesetToSerialized(call.ruleset, call.source)
            p == PayloadFor(call)
            f == Saved(call)
            header == WriteHeader(p)
            H == {[magic |-> MAGIC], [version |-> FORMAT_VERSION], [length |-> Len(p)],
                  [hash |-> p]}
<1>1. PICK Y : ser.rules \in Seq(Y)
  <2>. DEFINE Y == {[index |-> call.ruleset.rules[i].index,
                     condition |-> Flatten(call.ruleset.rules[i].condition)] :
                       i \in 1 .. Len(call.ruleset.rules)}
  <2>1. Len(call.ruleset.rules) \in Nat
        /\ ser.rules \in [1 .. Len(call.ruleset.rules) -> Y]
    BY LenProperties DEF RulesetToSerialized
  <2>. HIDE DEF Y, ser
  <2>. QED  BY <2>1, FunctionSeq
<1>2. p \in Seq(Range(p)) /\ Len(p) \in Nat /\ Len(p) >= 5
  <2>. HIDE DEF ser
  <2>1. /\ EncodePayload(ser) \in Seq(Range(EncodePayload(ser)))
        /\ Len(ser.rules) \in Nat /\ Len(EncodePayload(ser)) = Len(ser.rules) + 5
    BY <1>1, PayloadPlaces
  <2>. QED  BY <2>1 DEF ser, PayloadFor
<1>3. f = header \o p
  BY DEF Saved, PayloadFor, Encode
<1>. HIDE DEF p, f, ser
<1>4. /\ header \in Seq(H) /\ Len(header) = 4
      /\ header[1] = [magic |-> MAGIC] /\ header[2] = [version |-> FORMAT_VERSION]
      /\ header[3] = [length |-> Len(p)] /\ header[4] = [hash |-> p]
  BY DEF WriteHeader
<1>. HIDE DEF header, H
<1>5. /\ f \in Seq(H \cup Range(p)) /\ Len(f) = Len(header) + Len(p)
      /\ \A i \in 1 .. Len(header) : f[i] = header[i]
      /\ \A i \in 1 .. Len(p) : f[Len(header) + i] = p[i]
  <2>1. header \in Seq(H) /\ p \in Seq(Range(p))
    BY <1>2, <1>4
  <2>. QED  BY ONLY <2>1, <1>3, Places
<1>6. f \in Seq(Range(f)) /\ DOMAIN f = 1 .. Len(f) /\ Len(f) = Len(p) + 4
  BY <1>2, <1>4, <1>5, SeqOfRange, LenProperties
<1>7. SubSeq(f, 5, Len(f)) = p
  <2>1. /\ SubSeq(f, 5, Len(f)) \in Seq(Range(f))
        /\ Len(SubSeq(f, 5, Len(f))) = Len(p)
        /\ \A i \in 1 .. Len(p) : SubSeq(f, 5, Len(f))[i] = p[i]
    BY <1>2, <1>4, <1>5, <1>6
  <2>2. DOMAIN SubSeq(f, 5, Len(f)) = 1 .. Len(p) /\ DOMAIN p = 1 .. Len(p)
    BY <2>1, <1>2, LenProperties
  <2>3. SubSeq(f, 5, Len(f)) = [i \in 1 .. Len(p) |-> SubSeq(f, 5, Len(f))[i]]
        /\ p = [i \in 1 .. Len(p) |-> p[i]]
    BY <2>1, <2>2, <1>2, LenProperties
  <2>. QED  BY <2>1, <2>3
<1>. QED  BY <1>2, <1>4, <1>5, <1>6, <1>7 DEF p, f

-----------------------------------------------------------------------------
(* decode() *)

\* what decode makes of an intact payload
Unpacked(payload) ==
  LET read == DecodePayload(payload)
  IN  IF read = {} THEN Err("Decode") ELSE SerializedToRuleset(CHOOSE ser \in read : TRUE)

LEMMA MinOf ==
  ASSUME NEW a \in Nat, NEW b \in Nat
  PROVE  Min({a, b}) \in {a, b} /\ Min({a, b}) <= a /\ Min({a, b}) <= b
<1>1. \E x \in {a, b} : \A y \in {a, b} : x <= y
  <2>1. CASE a <= b
    BY <2>1
  <2>2. CASE b <= a
    BY <2>2
  <2>. QED  BY <2>1, <2>2
<1>2. Min({a, b}) \in {a, b} /\ \A y \in {a, b} : Min({a, b}) <= y
  BY <1>1 DEF Min
<1>. QED  BY <1>2

LEMMA DecodeWhole ==
  ASSUME NEW call, NEW X, call.ruleset.rules \in Seq(X)
  PROVE  Decode(Saved(call)) = Unpacked(PayloadFor(call))
<1>. DEFINE f == Saved(call)
            p == PayloadFor(call)
<1>1. /\ Len(p) \in Nat /\ Len(f) = Len(p) + 4
      /\ f[1] = [magic |-> MAGIC] /\ f[2] = [version |-> FORMAT_VERSION]
      /\ f[3] = [length |-> Len(p)] /\ f[4] = [hash |-> p]
      /\ SubSeq(f, 5, Len(f)) = p
  BY FilePlaces
<1>. HIDE DEF f, p
<1>2. PayloadLength(f) = Len(p)
  BY <1>1 DEF PayloadLength, Is
<1>3. PayloadOf(f) = p
  <2>0. Len(f) \in Nat /\ 4 + PayloadLength(f) = Len(f)
    BY <1>1, <1>2
  <2>1. Min({Len(f), 4 + PayloadLength(f)}) = Len(f)
    <3>1. Min({Len(f), 4 + PayloadLength(f)}) \in {Len(f), 4 + PayloadLength(f)}
      BY ONLY <2>0, MinOf
    <3>. QED  BY <2>0, <3>1
  <2>2. PayloadOf(f) = SubSeq(f, 4 + 1, Min({Len(f), 4 + PayloadLength(f)}))
    BY DEF PayloadOf, HEADER_SIZE
  <2>3. 4 + 1 = 5
    OBVIOUS
  <2>4. PayloadOf(f) = SubSeq(f, 5, Len(f))
    BY <2>1, <2>2, <2>3, Zenon
  <2>. QED  BY <2>4, <1>1
<1>4. Complete(f) /\ Intact(f) /\ ~(Len(f) < HEADER_SIZE)
  BY <1>1, <1>2, <1>3 DEF Complete, Intact, HEADER_SIZE
<1>5. Decode(f) = Unpacked(p)
  BY <1>1, <1>3, <1>4 DEF Decode, Unpacked
<1>. QED  BY <1>5 DEF f, p

LEMMA DecodePart ==
  ASSUME NEW call, NEW X, call.ruleset.rules \in Seq(X), NEW S, NEW b \in Seq(S),
         Len(b) < Len(Saved(call)), \A i \in 1 .. Len(b) : b[i] = Saved(call)[i]
  PROVE  Decode(b) = Err("LengthMismatch")
<1>. DEFINE f == Saved(call)
            p == PayloadFor(call)
<1>1. /\ Len(p) \in Nat /\ Len(f) = Len(p) + 4
      /\ f[1] = [magic |-> MAGIC] /\ f[2] = [version |-> FORMAT_VERSION]
      /\ f[3] = [length |-> Len(p)]
  BY FilePlaces
<1>2. Len(b) \in Nat
  BY LenProperties
<1>. HIDE DEF f, p
<1>3. CASE Len(b) < HEADER_SIZE
  BY <1>3 DEF Decode
<1>4. CASE ~(Len(b) < HEADER_SIZE)
  <2>1. 1 \in 1 .. Len(b) /\ 2 \in 1 .. Len(b) /\ 3 \in 1 .. Len(b)
    BY <1>2, <1>4 DEF HEADER_SIZE
  <2>2. b[1] = f[1] /\ b[2] = f[2] /\ b[3] = f[3]
    BY <2>1 DEF f
  <2>3. PayloadLength(b) = Len(p)
    BY <2>2, <1>1 DEF PayloadLength, Is
  <2>4. ~Complete(b)
    BY <2>3, <1>1, <1>2 DEF Complete, HEADER_SIZE, f
  <2>. QED  BY <2>2, <2>4, <1>1, <1>4 DEF Decode
<1>. QED  BY <1>3, <1>4

\* what is accepted is what the hash in the header is of
LEMMA DecodeAccepted ==
  ASSUME NEW b, Is(Decode(b), "ok")
  PROVE  /\ ~(Len(b) < HEADER_SIZE)
         /\ \E payload : /\ b[4] = [hash |-> payload]
                         /\ Decode(b) = Unpacked(payload)
<1>1. \A e : ~Is(Err(e), "ok")
  BY DEF Is, Err
<1>2. ~(Len(b) < HEADER_SIZE)
  BY <1>1 DEF Decode
<1>3. b[1] = [magic |-> MAGIC]
  BY <1>1, <1>2 DEF Decode
<1>4. b[2] = [version |-> FORMAT_VERSION]
  BY <1>1, <1>2, <1>3 DEF Decode
<1>5. Complete(b)
  BY <1>1, <1>2, <1>3, <1>4 DEF Decode
<1>6. Intact(b)
  BY <1>1, <1>2, <1>3, <1>4, <1>5 DEF Decode
<1>7. Decode(b) = Unpacked(PayloadOf(b))
  BY <1>2, <1>3, <1>4, <1>5, <1>6 DEF Decode, Unpacked
<1>. QED  BY <1>2, <1>6, <1>7 DEF Intact

-----------------------------------------------------------------------------
(* The field registry *)

\* n different numbers in 1..n, in order, are 1, 2, ... n
LEMMA InOrderIsIdentity ==
  ASSUME NEW n \in Nat, NEW f \in [1 .. n -> 1 .. n],
         \A i, j \in 1 .. n : i # j => f[i] # f[j],
         \A i, j \in 1 .. n : i <= j => f[i] <= f[j]
  PROVE  \A i \in 1 .. n : f[i] = i
<1>1. f \in Surjection(1 .. n, 1 .. n)
  <2>1. IsFiniteSet(1 .. n)
    <3>1. 1 \in Int /\ n \in Int
      OBVIOUS
    <3>. QED  BY <3>1, FS_Interval
  <2>2. f \in Injection(1 .. n, 1 .. n)
    BY DEF Injection, IsInjective
  <2>. QED  BY <2>1, <2>2, FS_Injection
<1>. SUFFICES ASSUME {i \in 1 .. n : f[i] # i} # {} PROVE FALSE
  OBVIOUS
<1>2. PICK i \in {k \in 1 .. n : f[k] # k} : \A k \in 1 .. n : f[k] # k => i <= k
  <2>1. {k \in 1 .. n : f[k] # k} \in SUBSET Nat
    OBVIOUS
  <2>. QED  BY <2>1, LeastOf
<1>3. f[i] > i
  <2>1. ASSUME f[i] < i PROVE FALSE
    <3>1. f[i] \in 1 .. n /\ f[f[i]] = f[i]
      BY <1>2, <2>1
    <3>. QED  BY <3>1, <2>1, <1>2
  <2>. QED  BY <2>1, <1>2
<1>4. PICK j \in 1 .. n : f[j] = i
  BY <1>1, <1>2 DEF Surjection
<1>5. j > i
  BY SMTT(30), <1>2, <1>4
<1>. QED  BY SMTT(30), <1>2, <1>3, <1>4, <1>5

LEMMA FieldIndexPlaces ==
  ASSUME NEW registry, FieldsDense(registry)
  PROVE  LET s == FieldIndex(registry)
         IN  /\ s \in Seq(Range(s)) /\ DOMAIN s = 1 .. registry.len
             /\ \A i \in 1 .. registry.len :
                  /\ s[i].path \in DOMAIN registry.paths
                  /\ registry.paths[s[i].path] = i
                  /\ s[i].index = i
<1>. DEFINE n == registry.len
            slot == registry.paths
            pairs == {[path |-> p, index |-> slot[p]] : p \in DOMAIN slot}
            Sorted(s) == \A i, j \in DOMAIN s : i <= j => s[i].index <= s[j].index
            at(i) == CHOOSE p \in DOMAIN slot : slot[p] = i
            h == [i \in 1 .. n |-> [path |-> at(i), index |-> i]]
<1>1. /\ n \in Nat
      /\ slot \in [DOMAIN slot -> 1 .. n]
      /\ \A p, q \in DOMAIN slot : slot[p] = slot[q] => p = q
      /\ \A i \in 1 .. n : \E p \in DOMAIN slot : slot[p] = i
  BY DEF FieldsDense, Bijection, Injection, Surjection, IsInjective
<1>. HIDE DEF n, slot
<1>2. \A i \in 1 .. n : at(i) \in DOMAIN slot /\ slot[at(i)] = i
  BY <1>1
<1>. HIDE DEF at
<1>3. /\ \A i \in 1 .. n : h[i] \in pairs
      /\ \A x \in pairs : \E i \in 1 .. n : h[i] = x
      /\ \A i, j \in 1 .. n : h[i] = h[j] => i = j
      /\ DOMAIN h = 1 .. n
      /\ \A i \in 1 .. n : h[i].index = i
  <2>1. ASSUME NEW i \in 1 .. n PROVE h[i] \in pairs
    BY <1>2
  <2>2. ASSUME NEW p \in DOMAIN slot
        PROVE  \E i \in 1 .. n : h[i] = [path |-> p, index |-> slot[p]]
    <3>1. slot[p] \in 1 .. n /\ at(slot[p]) = p
      BY <1>1, <1>2
    <3>. QED  BY <3>1
  <2>3. \A i \in 1 .. n : h[i].index = i
    OBVIOUS
  <2>4. \A x \in pairs : \E i \in 1 .. n : h[i] = x
    <3>. SUFFICES ASSUME NEW x \in pairs PROVE \E i \in 1 .. n : h[i] = x
      OBVIOUS
    <3>1. PICK p \in DOMAIN slot : x = [path |-> p, index |-> slot[p]]
      OBVIOUS
    <3>. HIDE DEF h
    <3>. QED  BY <3>1, <2>2
  <2>5. \A i, j \in 1 .. n : h[i] = h[j] => i = j
    <3>. HIDE DEF h
    <3>. QED  BY <2>3
  <2>6. DOMAIN h = 1 .. n
    OBVIOUS
  <2>. HIDE DEF h, pairs
  <2>. QED  BY <2>1, <2>3, <2>4, <2>5, <2>6
<1>4. Cardinality(pairs) = n
  <2>1. h \in Surjection(1 .. n, pairs) /\ h \in Injection(1 .. n, pairs)
    <3>. HIDE DEF pairs, h
    <3>1. h \in [1 .. n -> pairs]
      <4>1. h = [i \in 1 .. n |-> h[i]]
        BY DEF h
      <4>. QED  BY <4>1, <1>3
    <3>. QED  BY <3>1, <1>3 DEF Surjection, Injection, IsInjective
  <2>2. IsFiniteSet(1 .. n) /\ Cardinality(1 .. n) = n
    <3>1. 1 \in Int /\ n \in Int
      BY <1>1
    <3>2. IsFiniteSet(1 .. n) /\ Cardinality(1 .. n) = IF 1 > n THEN 0 ELSE n - 1 + 1
      BY <3>1, FS_Interval
    <3>. QED  BY <3>2, <1>1
  <2>. HIDE DEF pairs, h
  <2>3. Cardinality(pairs) = Cardinality(1 .. n)
    BY <2>1, <2>2, FS_Surjection
  <2>. QED  BY <2>2, <2>3
<1>5. h \in SetToSeqs(pairs) /\ Sorted(h)
  <2>1. h \in [1 .. n -> pairs]
    <3>. HIDE DEF pairs
    <3>. QED  BY <1>3
  <2>2. Sorted(h)
    <3>. HIDE DEF pairs, h
    <3>. QED  BY <1>3
  <2>. HIDE DEF pairs, h
  <2>. QED  BY <2>1, <2>2, <1>3, <1>4 DEF SetToSeqs
<1>. DEFINE s == FieldIndex(registry)
<1>6. s \in SetToSeqs(pairs) /\ Sorted(s)
  <2>1. s = CHOOSE seq \in SetToSeqs(pairs) : Sorted(seq)
    BY DEF FieldIndex, slot
  <2>. HIDE DEF pairs, h, s, Sorted
  <2>. QED  BY <2>1, <1>5
<1>. HIDE DEF s
<1>7. s \in [1 .. n -> pairs] /\ \A i, j \in 1 .. n : i # j => s[i] # s[j]
  <2>. HIDE DEF pairs
  <2>. QED  BY <1>4, <1>6 DEF SetToSeqs
<1>8. \A i \in 1 .. n : /\ s[i].path \in DOMAIN slot /\ s[i].index = slot[s[i].path]
                        /\ s[i].index \in 1 .. n
                        /\ s[i] = [path |-> s[i].path, index |-> s[i].index]
  <2>. SUFFICES ASSUME NEW i \in 1 .. n
                PROVE  /\ s[i].path \in DOMAIN slot /\ s[i].index = slot[s[i].path]
                       /\ s[i].index \in 1 .. n
                       /\ s[i] = [path |-> s[i].path, index |-> s[i].index]
    OBVIOUS
  <2>1. PICK p \in DOMAIN slot : s[i] = [path |-> p, index |-> slot[p]]
    BY <1>7
  <2>. QED  BY <2>1, <1>1
<1>. DEFINE f == [i \in 1 .. n |-> s[i].index]
<1>9. \A i \in 1 .. n : f[i] = i
  <2>1. f \in [1 .. n -> 1 .. n]
    BY <1>8
  <2>2. \A i, j \in 1 .. n : i # j => f[i] # f[j]
    BY <1>1, <1>7, <1>8
  <2>3. \A i, j \in 1 .. n : i <= j => f[i] <= f[j]
    BY <1>6, <1>7
  <2>. HIDE DEF f
  <2>. QED  BY <1>1, <2>1, <2>2, <2>3, InOrderIsIdentity
<1>10. s \in Seq(Range(s)) /\ DOMAIN s = 1 .. n
  <2>. HIDE DEF pairs
  <2>1. s \in Seq(pairs)
    BY <1>1, <1>7, FunctionSeq
  <2>. QED  BY <2>1, <1>7, SeqOfRange
<1>11. \A i \in 1 .. n : s[i].index = i /\ s[i].path \in DOMAIN slot /\ slot[s[i].path] = i
  BY <1>8, <1>9
<1>. QED  BY <1>10, <1>11 DEF s, n, slot

LEMMA MaxOf ==
  ASSUME NEW T, NEW m \in T, m \in Int, \A x \in T : x \in Int /\ x <= m
  PROVE  Max(T) = m
<1>1. Max(T) \in T /\ \A x \in T : Max(T) >= x
  <2>1. \A x \in T : m >= x
    OBVIOUS
  <2>. QED  BY <2>1 DEF Max
<1>2. Max(T) \in Int /\ Max(T) <= m /\ Max(T) >= m
  BY <1>1
<1>. QED  BY <1>2

\* from_pairs makes the registry again
LEMMA RegistryComesBack ==
  ASSUME NEW registry, FieldsDense(registry)
  PROVE  /\ Len(FieldIndex(registry)) = registry.len
         /\ FromPairs(FieldIndex(registry)) = [paths |-> registry.paths, len |-> registry.len]
<1>. DEFINE s == FieldIndex(registry)
            n == registry.len
            slot == registry.paths
            places(p) == {i \in DOMAIN s : s[i].path = p}
<1>1. /\ n \in Nat
      /\ slot \in [DOMAIN slot -> 1 .. n]
      /\ \A p, q \in DOMAIN slot : slot[p] = slot[q] => p = q
  BY DEF FieldsDense, Bijection, Injection, IsInjective
<1>2. /\ s \in Seq(Range(s)) /\ DOMAIN s = 1 .. n
      /\ \A i \in 1 .. n : s[i].path \in DOMAIN slot /\ slot[s[i].path] = i /\ s[i].index = i
  BY FieldIndexPlaces
<1>. HIDE DEF s, n, slot
<1>3. Len(s) = n
  BY <1>1, <1>2, FunctionSeq, LenProperties
<1>4. ASSUME NEW p \in DOMAIN slot
      PROVE  p \in {s[i].path : i \in DOMAIN s} /\ s[Max(places(p))].index = slot[p]
  <2>1. slot[p] \in DOMAIN s /\ s[slot[p]].path = p
    BY <1>1, <1>2
  <2>2. places(p) = {slot[p]}
    BY <2>1, <1>2
  <2>3. Max(places(p)) = slot[p]
    <3>1. slot[p] \in Int
      BY <1>1
    <3>. HIDE DEF places
    <3>. QED  BY <2>2, <3>1, MaxOf
  <2>. QED  BY <2>1, <2>3, <1>2
<1>5. {s[i].path : i \in DOMAIN s} = DOMAIN slot
  <2>1. \A p \in DOMAIN slot : p \in {s[i].path : i \in DOMAIN s}
    BY <1>4
  <2>2. \A i \in DOMAIN s : s[i].path \in DOMAIN slot
    BY <1>2
  <2>. QED  BY <2>1, <2>2
<1>6. [p \in {s[i].path : i \in DOMAIN s} |-> s[Max(places(p))].index] = slot
  <2>1. [p \in DOMAIN slot |-> s[Max(places(p))].index] = [p \in DOMAIN slot |-> slot[p]]
    <3>. HIDE DEF places
    <3>. QED  BY <1>4
  <2>. QED  BY <2>1, <1>1, <1>5
<1>7. Max({0} \cup {s[i].index : i \in DOMAIN s}) = n
  <2>1. {0} \cup {s[i].index : i \in DOMAIN s} = 0 .. n
    BY <1>1, <1>2
  <2>2. Max(0 .. n) = n
    <3>1. n \in 0 .. n /\ n \in Int /\ \A x \in 0 .. n : x \in Int /\ x <= n
      BY <1>1
    <3>. QED  BY <3>1, MaxOf
  <2>. QED  BY <2>1, <2>2
<1>8. FromPairs(s) = [paths |-> slot, len |-> n]
  BY <1>6, <1>7 DEF FromPairs
<1>. QED  BY <1>3, <1>8 DEF s, n, slot

-----------------------------------------------------------------------------
(* A rule set that is saved *)

\* what the compiler promises of it
LEMMA CallFacts ==
  ASSUME NEW call \in Calls
  PROVE  LET rs == call.ruleset
             n  == Len(rs.rules)
             m  == Len(rs.terminals)
         IN  /\ rs.rules \in Seq(C!CompiledRule) /\ n \in Nat /\ DOMAIN rs.rules = 1 .. n
             /\ rs.terminals \in Seq(C!Terminal) /\ m \in Nat /\ DOMAIN rs.terminals = 1 .. m
             /\ \A i \in 1 .. n : /\ rs.rules[i].index = i
                                  /\ rs.rules[i].condition \in CompiledCondition
                                  /\ Referenced(rs.rules[i].condition) \subseteq 1 .. i - 1
             /\ \A k \in 1 .. m : /\ rs.terminals[k].priority \in Nat
                                  /\ rs.terminal_indices[k] \in 1 .. n
             /\ \A j, k \in 1 .. m : j <= k => rs.terminals[j].priority <= rs.terminals[k].priority
             /\ FieldsDense(rs.field_registry)
             /\ FieldsRegistered(rs)
<1>. DEFINE rs == call.ruleset
            n  == Len(rs.rules)
            m  == Len(rs.terminals)
<1>1. /\ rs.rules \in Seq(C!CompiledRule)
      /\ rs.terminals \in Seq(C!Terminal)
      /\ C!IndexedInOrder(rs) /\ C!TerminalsResolved(rs) /\ C!PrioritiesAscend(rs)
      /\ FieldsDense(rs.field_registry)
      /\ FieldsRegistered(rs)
  BY CallsSaveCompiled
<1>. HIDE DEF rs
<1>2. /\ n \in Nat /\ DOMAIN rs.rules = 1 .. n
      /\ m \in Nat /\ DOMAIN rs.terminals = 1 .. m
  BY <1>1, LenProperties
<1>3. ASSUME NEW i \in 1 .. n
      PROVE  /\ rs.rules[i].index = i
             /\ rs.rules[i].condition \in CompiledCondition
             /\ Referenced(rs.rules[i].condition) \subseteq 1 .. i - 1
  <2>1. rs.rules[i] \in C!CompiledRule
    BY <1>1, ElementOfSeq
  <2>. QED  BY <2>1, <1>1, <1>2 DEF C!CompiledRule, C!IndexedInOrder
<1>4. ASSUME NEW k \in 1 .. m
      PROVE  rs.terminals[k].priority \in Nat /\ rs.terminal_indices[k] \in 1 .. n
  <2>1. rs.terminals[k] \in C!Terminal
    BY <1>1, ElementOfSeq
  <2>. QED  BY <2>1, <1>1, <1>2 DEF C!Terminal, C!TerminalsResolved
<1>5. \A j, k \in 1 .. m : j <= k => rs.terminals[j].priority <= rs.terminals[k].priority
  BY <1>1, <1>2 DEF C!PrioritiesAscend
<1>. QED  BY <1>1, <1>2, <1>3, <1>4, <1>5 DEF rs

LEMMA SavedPlaces ==
  ASSUME NEW call \in Calls
  PROVE  LET rs  == call.ruleset
             ser == RulesetToSerialized(rs, call.source)
             n   == Len(rs.rules)
             m   == Len(rs.terminals)
         IN  /\ Len(ser.rules) = n /\ DOMAIN ser.rules = 1 .. n
             /\ Len(ser.terminals) = m /\ DOMAIN ser.terminals = 1 .. m
             /\ Len(ser.rule_names) = n
             /\ \E X : ser.rules \in Seq(X)
<1>. DEFINE rs  == call.ruleset
            ser == RulesetToSerialized(rs, call.source)
            n   == Len(rs.rules)
            m   == Len(rs.terminals)
            R   == {[index |-> rs.rules[i].index, condition |-> Flatten(rs.rules[i].condition)] :
                      i \in 1 .. n}
            T   == {[ rule_index |-> rs.terminal_indices[k], name |-> rs.terminals[k].rule_name,
                      priority |-> rs.terminals[k].priority ] : k \in 1 .. m}
            N   == {[name |-> rs.rules[i].name, index |-> rs.rules[i].index] : i \in 1 .. n}
<1>1. n \in Nat /\ m \in Nat /\ DOMAIN rs.rules = 1 .. n /\ DOMAIN rs.terminals = 1 .. m
  BY CallFacts
<1>2. ser.rules \in [1 .. n -> R]
  BY <1>1 DEF RulesetToSerialized
<1>3. ser.terminals \in [1 .. m -> T]
  BY <1>1 DEF RulesetToSerialized
<1>4. ser.rule_names \in [1 .. n -> N]
  BY <1>1 DEF RulesetToSerialized
<1>. HIDE DEF n, m, ser, R, T, N
<1>5. /\ ser.rules \in Seq(R) /\ Len(ser.rules) = n /\ DOMAIN ser.rules = 1 .. n
      /\ Len(ser.terminals) = m /\ DOMAIN ser.terminals = 1 .. m
      /\ Len(ser.rule_names) = n
  BY <1>1, <1>2, <1>3, <1>4, FunctionSeq
<1>6. \E X : ser.rules \in Seq(X)
  BY <1>5
<1>. QED  BY <1>5, <1>6 DEF n, m, ser

LEMMA SavedIsValid ==
  ASSUME NEW call \in Calls
  PROVE  Validate(RulesetToSerialized(call.ruleset, call.source))
<1>. DEFINE rs  == call.ruleset
            ser == RulesetToSerialized(rs, call.source)
            n   == Len(rs.rules)
            m   == Len(rs.terminals)
<1>1. /\ n \in Nat /\ DOMAIN rs.rules = 1 .. n
      /\ m \in Nat /\ DOMAIN rs.terminals = 1 .. m
      /\ \A i \in 1 .. n : /\ rs.rules[i].index = i
                           /\ rs.rules[i].condition \in CompiledCondition
                           /\ Referenced(rs.rules[i].condition) \subseteq 1 .. i - 1
      /\ \A k \in 1 .. m : /\ rs.terminals[k].priority \in Nat
                           /\ rs.terminal_indices[k] \in 1 .. n
      /\ \A j, k \in 1 .. m : j <= k => rs.terminals[j].priority <= rs.terminals[k].priority
      /\ FieldsDense(rs.field_registry)
      /\ FieldsRegistered(rs)
  BY CallFacts
<1>2. /\ Len(ser.rules) = n /\ DOMAIN ser.rules = 1 .. n
      /\ Len(ser.terminals) = m /\ DOMAIN ser.terminals = 1 .. m
      /\ Len(ser.rule_names) = n
  BY SavedPlaces
<1>3. /\ ser.metadata.rule_count = n
      /\ ser.metadata.terminal_count = m
      /\ ser.metadata.field_count = rs.field_registry.len
      /\ ser.field_index = FieldIndex(rs.field_registry)
  BY DEF RulesetToSerialized
<1>4. \A i \in 1 .. n : ser.rules[i].condition = Flatten(rs.rules[i].condition)
                        /\ ser.rules[i].index = i
  BY <1>1 DEF RulesetToSerialized
<1>5. \A k \in 1 .. m : /\ ser.terminals[k].priority = rs.terminals[k].priority
                        /\ ser.terminals[k].rule_index = rs.terminal_indices[k]
  BY <1>1 DEF RulesetToSerialized
<1>6. Len(ser.field_index) = rs.field_registry.len
  BY <1>1, <1>3, RegistryComesBack
<1>. HIDE DEF n, m, ser, rs
<1>7. ASSUME NEW i \in 1 .. n
      PROVE  ValidateExpr(ser.rules[i].condition, Len(ser.field_index), n, ser.rules[i].index)
  <2>. DEFINE s == Flatten(rs.rules[i].condition)
  <2>1. /\ ChainsNotEmpty(s)
        /\ ReferencesIn(s) \subseteq 1 .. i - 1
    BY <1>1, ConditionsComeBack
  <2>2. \A x \in Nodes(s) : SlotsOf(x) \subseteq 1 .. rs.field_registry.len
    BY <1>1 DEF FieldsRegistered
  <2>3. ASSUME NEW x \in Nodes(s), x.op = "RuleRef" PROVE x.index <= n /\ x.index < i
    <3>1. x.index \in 1 .. i - 1
      BY <2>1, <2>3 DEF ReferencesIn
    <3>. QED  BY <3>1, <1>1
  <2>. HIDE DEF s
  <2>4. ValidateExpr(s, rs.field_registry.len, n, i)
    BY <2>1, <2>2, <2>3 DEF ValidateExpr, ChainsNotEmpty
  <2>. QED  BY <2>4, <1>4, <1>6 DEF s
<1>8. \A k \in 1 .. m : ser.terminals[k].rule_index <= n
  BY <1>1, <1>5
<1>9. SortedByPriority(ser.terminals)
  <2>. SUFFICES ASSUME NEW k \in 2 .. m
                PROVE  ser.terminals[k - 1].priority <= ser.terminals[k].priority
    BY <1>2 DEF SortedByPriority
  <2>1. k - 1 \in 1 .. m /\ k \in 1 .. m /\ k - 1 <= k
    BY <1>1
  <2>. QED  BY <2>1, <1>1, <1>5
<1>10. Validate(ser)
  BY <1>2, <1>3, <1>6, <1>7, <1>8, <1>9 DEF Validate
<1>. QED  BY <1>10 DEF ser, rs

\* a rule set once it has been saved and loaded
Reloaded(rs) ==
  [ rules |->
      [i \in DOMAIN rs.rules |->
         [ name |-> rs.rules[i].name, index |-> rs.rules[i].index,
           condition |-> Unflatten(Flatten(rs.rules[i].condition)) ]],
    terminals |->
      [k \in DOMAIN rs.terminals |->
         [rule_name |-> rs.terminals[k].rule_name, priority |-> rs.terminals[k].priority]],
    terminal_indices |-> [k \in DOMAIN rs.terminals |-> rs.terminal_indices[k]],
    field_registry |-> [paths |-> rs.field_registry.paths, len |-> rs.field_registry.len] ]

LEMMA SavedComesBack ==
  ASSUME NEW call \in Calls
  PROVE  Decode(Saved(call)) = Ok(Reloaded(call.ruleset))
<1>. DEFINE rs  == call.ruleset
            ser == RulesetToSerialized(rs, call.source)
<1>1. DecodePayload(EncodePayload(ser)) = {ser}
  <2>1. PICK X : ser.rules \in Seq(X)
    BY SavedPlaces
  <2>2. ser = [ metadata |-> ser.metadata, rules |-> ser.rules, terminals |-> ser.terminals,
                field_index |-> ser.field_index, rule_names |-> ser.rule_names ]
    BY DEF RulesetToSerialized
  <2>. HIDE DEF ser
  <2>. QED  BY <2>1, <2>2, PayloadComesBack
<1>2. Decode(Saved(call)) = SerializedToRuleset(ser)
  <2>1. Decode(Saved(call)) = Unpacked(EncodePayload(ser))
    BY CallFacts, DecodeWhole DEF PayloadFor
  <2>. HIDE DEF ser
  <2>. QED  BY <2>1, <1>1 DEF Unpacked
<1>3. Validate(ser)
  BY SavedIsValid
<1>4. FromPairs(ser.field_index) = [paths |-> rs.field_registry.paths, len |-> rs.field_registry.len]
  <2>1. ser.field_index = FieldIndex(rs.field_registry)
    BY DEF RulesetToSerialized
  <2>. HIDE DEF ser
  <2>. QED  BY <2>1, CallFacts, RegistryComesBack
<1>5. [i \in DOMAIN ser.rules |->
         [ name |-> ser.rule_names[i].name, index |-> ser.rules[i].index,
           condition |-> Unflatten(ser.rules[i].condition) ]] = Reloaded(rs).rules
  BY DEF RulesetToSerialized, Reloaded
<1>6. [k \in DOMAIN ser.terminals |->
         [rule_name |-> ser.terminals[k].name, priority |-> ser.terminals[k].priority]] =
        Reloaded(rs).terminals
  BY DEF RulesetToSerialized, Reloaded
<1>7. [k \in DOMAIN ser.terminals |-> ser.terminals[k].rule_index] = Reloaded(rs).terminal_indices
  BY DEF RulesetToSerialized, Reloaded
<1>8. SerializedToRuleset(ser) =
        Ok([ rules |-> Reloaded(rs).rules, terminals |-> Reloaded(rs).terminals,
             terminal_indices |-> Reloaded(rs).terminal_indices,
             field_registry |-> [ paths |-> rs.field_registry.paths,
                                  len |-> rs.field_registry.len ] ])
  <2>. HIDE DEF ser, rs
  <2>. QED  BY <1>3, <1>4, <1>5, <1>6, <1>7 DEF SerializedToRuleset
<1>. QED  BY <1>2, <1>8 DEF Reloaded

\* No query and no evaluation tells that it has been in a file.
LEMMA ReloadedIsAlike ==
  ASSUME NEW call \in Calls
  PROVE  Alike(Reloaded(call.ruleset), call.ruleset)
<1>. DEFINE rs  == call.ruleset
            new == Reloaded(rs)
            n   == Len(rs.rules)
            m   == Len(rs.terminals)
<1>1. /\ n \in Nat /\ DOMAIN rs.rules = 1 .. n
      /\ m \in Nat /\ DOMAIN rs.terminals = 1 .. m
      /\ \A i \in 1 .. n : rs.rules[i].condition \in CompiledCondition
  BY CallFacts
<1>2. /\ DOMAIN new.rules = 1 .. n /\ DOMAIN new.terminals = 1 .. m
      /\ \A i \in 1 .. n :
           /\ new.rules[i].name = rs.rules[i].name
           /\ new.rules[i].condition = Unflatten(Flatten(rs.rules[i].condition))
      /\ \A k \in 1 .. m :
           /\ new.terminals[k].rule_name = rs.terminals[k].rule_name
           /\ new.terminals[k].priority = rs.terminals[k].priority
      /\ new.field_registry.paths = rs.field_registry.paths
      /\ new.field_registry.len = rs.field_registry.len
  BY <1>1 DEF Reloaded
<1>. HIDE DEF new, n, m, rs
<1>3. ExecutionOrder(new) = ExecutionOrder(rs)
  BY <1>1, <1>2 DEF ExecutionOrder
<1>4. TerminalOrder(new) = TerminalOrder(rs)
  BY <1>1, <1>2 DEF TerminalOrder
<1>5. ASSUME NEW name \in Name PROVE DependenciesOf(new, name) = DependenciesOf(rs, name)
  <2>1. \A i \in 1 .. n : Refs(new.rules[i].condition) = Refs(rs.rules[i].condition)
    BY <1>1, <1>2, ConditionsComeBack
  <2>2. \A i \in 1 .. n : \A k \in DOMAIN Refs(rs.rules[i].condition) :
          Refs(rs.rules[i].condition)[k] \in 1 .. n
    <3>. TAKE i \in 1 .. n
    <3>1. Referenced(rs.rules[i].condition) \subseteq 1 .. i - 1
      BY CallFacts DEF n, rs
    <3>2. 1 .. i - 1 \subseteq 1 .. n
      BY <1>1
    <3>. QED  BY <3>1, <3>2 DEF Referenced, Range
  <2>. DEFINE Names(set, i) == [k \in DOMAIN Refs(set.rules[i].condition) |->
                                  set.rules[Refs(set.rules[i].condition)[k]].name]
              First(set) == {j \in DOMAIN set.rules :
                               /\ set.rules[j].name = name
                               /\ \A k \in 1 .. j - 1 : set.rules[k].name # name}
  <2>3. \A i \in 1 .. n : Names(new, i) = Names(rs, i)
    BY <2>1, <2>2, <1>2
  <2>4. First(new) = First(rs) /\ First(rs) \subseteq 1 .. n
    BY SMTT(30), <1>1, <1>2
  <2>5. DependenciesOf(new, name) = {Names(new, i) : i \in First(new)}
    BY DEF DependenciesOf
  <2>6. DependenciesOf(rs, name) = {Names(rs, i) : i \in First(rs)}
    BY DEF DependenciesOf
  <2>. HIDE DEF Names, First
  <2>. QED  BY <2>3, <2>4, <2>5, <2>6
<1>6. ASSUME NEW ctx \in Contexts PROVE Evaluate(new, ctx) = Evaluate(rs, ctx)
  <2>1. FlattenContext(new, ctx) = FlattenContext(rs, ctx)
    BY <1>2 DEF FlattenContext
  <2>2. \A truth \in [1 .. n -> BOOLEAN] : \A i \in 1 .. n :
          Holds(new.rules[i].condition, FlattenContext(rs, ctx), truth) =
            Holds(rs.rules[i].condition, FlattenContext(rs, ctx), truth)
    BY <1>1, <1>2, MeaningComesBack DEF rs
  <2>3. \A truth \in [1 .. n -> BOOLEAN] :
          C!Consistent(truth, new, FlattenContext(new, ctx)) <=>
            C!Consistent(truth, rs, FlattenContext(rs, ctx))
    BY <2>1, <2>2, <1>1, <1>2 DEF C!Consistent
  <2>4. Results(new, ctx) = Results(rs, ctx)
    BY <2>3, <1>1, <1>2 DEF Results
  <2>5. \A truth : \A k \in 1 .. m :
          C!Reached(k, new, truth) <=> C!Reached(k, rs, truth)
    BY <1>1, <1>2 DEF C!Reached
  <2>6. \A truth : \A k \in 1 .. m : C!Wins(k, new, truth) <=> C!Wins(k, rs, truth)
    BY <2>5, <1>1, <1>2 DEF C!Wins
  <2>7. \A truth : C!Verdict(new, truth) = C!Verdict(rs, truth)
    BY <2>6, <1>1, <1>2 DEF C!Verdict
  <2>. QED  BY <2>4, <2>7 DEF Evaluate
<1>7. Alike(new, rs)
  BY <1>3, <1>4, <1>5, <1>6 DEF Alike
<1>. QED  BY <1>7 DEF new, rs

\* Saved again, it makes the same bytes as before, but for the digest.
LEMMA ReloadedSavesAlike ==
  ASSUME NEW call \in Calls, NEW source
  PROVE  RulesetToSerialized(Reloaded(call.ruleset), source) =
           RulesetToSerialized(call.ruleset, source)
<1>. DEFINE rs  == call.ruleset
            new == Reloaded(rs)
            n   == Len(rs.rules)
            m   == Len(rs.terminals)
<1>1. /\ n \in Nat /\ DOMAIN rs.rules = 1 .. n
      /\ m \in Nat /\ DOMAIN rs.terminals = 1 .. m
      /\ \A i \in 1 .. n : rs.rules[i].condition \in CompiledCondition
  BY CallFacts
<1>2. /\ DOMAIN new.rules = 1 .. n /\ DOMAIN new.terminals = 1 .. m
      /\ \A i \in 1 .. n :
           /\ new.rules[i].name = rs.rules[i].name
           /\ new.rules[i].index = rs.rules[i].index
           /\ new.rules[i].condition = Unflatten(Flatten(rs.rules[i].condition))
      /\ \A k \in 1 .. m :
           /\ new.terminals[k].rule_name = rs.terminals[k].rule_name
           /\ new.terminals[k].priority = rs.terminals[k].priority
           /\ new.terminal_indices[k] = rs.terminal_indices[k]
      /\ new.field_registry.paths = rs.field_registry.paths
      /\ new.field_registry.len = rs.field_registry.len
  BY <1>1 DEF Reloaded
<1>3. Len(new.rules) = n /\ Len(new.terminals) = m
  <2>. DEFINE R == {new.rules[i] : i \in 1 .. n}
              T == {new.terminals[k] : k \in 1 .. m}
  <2>1. new.rules = [i \in 1 .. n |-> new.rules[i]] /\ new.terminals = [k \in 1 .. m |-> new.terminals[k]]
    BY <1>1 DEF Reloaded
  <2>. HIDE DEF new, n, m
  <2>2. new.rules \in [1 .. n -> R] /\ new.terminals \in [1 .. m -> T]
    BY <2>1
  <2>. HIDE DEF R, T
  <2>. QED  BY <2>2, <1>1, FunctionSeq
<1>. HIDE DEF new, n, m, rs
<1>4. \A i \in 1 .. n : Flatten(new.rules[i].condition) = Flatten(rs.rules[i].condition)
  BY <1>1, <1>2, ConditionsComeBack
<1>5. FieldIndex(new.field_registry) = FieldIndex(rs.field_registry)
  BY <1>2 DEF FieldIndex
<1>6. [i \in DOMAIN new.rules |->
         [index |-> new.rules[i].index, condition |-> Flatten(new.rules[i].condition)]] =
      [i \in DOMAIN rs.rules |->
         [index |-> rs.rules[i].index, condition |-> Flatten(rs.rules[i].condition)]]
  BY <1>1, <1>2, <1>4
<1>7. [k \in DOMAIN new.terminals |->
         [ rule_index |-> new.terminal_indices[k], name |-> new.terminals[k].rule_name,
           priority |-> new.terminals[k].priority ]] =
      [k \in DOMAIN rs.terminals |->
         [ rule_index |-> rs.terminal_indices[k], name |-> rs.terminals[k].rule_name,
           priority |-> rs.terminals[k].priority ]]
  BY <1>1, <1>2
<1>8. [i \in DOMAIN new.rules |-> [name |-> new.rules[i].name, index |-> new.rules[i].index]] =
      [i \in DOMAIN rs.rules |-> [name |-> rs.rules[i].name, index |-> rs.rules[i].index]]
  BY <1>1, <1>2
<1>9. RulesetToSerialized(new, source) = RulesetToSerialized(rs, source)
  BY <1>2, <1>3, <1>5, <1>6, <1>7, <1>8 DEF RulesetToSerialized, n, m
<1>. QED  BY <1>9 DEF new, rs

LEMMA DigestTells ==
  ASSUME NEW call \in Calls, NEW source
  PROVE  Encode(Reloaded(call.ruleset), source) = Saved(call) <=> source = call.source
<1>. DEFINE again == [ruleset |-> call.ruleset, source |-> source]
<1>1. Encode(Reloaded(call.ruleset), source) = Saved(again)
  BY ReloadedSavesAlike DEF Encode, Saved
<1>2. source = call.source => Saved(again) = Saved(call)
  BY DEF Saved
<1>3. ASSUME Saved(again) = Saved(call) PROVE source = call.source
  <2>1. Saved(again)[4] = [hash |-> PayloadFor(again)]
    <3>1. again.ruleset.rules \in Seq(C!CompiledRule)
      BY CallFacts
    <3>. QED  BY <3>1, FilePlaces
  <2>2. Saved(call)[4] = [hash |-> PayloadFor(call)]
    BY CallFacts, FilePlaces
  <2>3. PayloadFor(again) = PayloadFor(call)
    BY <1>3, <2>1, <2>2
  <2>4. PayloadFor(call)[1] =
          [metadata |-> RulesetToSerialized(call.ruleset, call.source).metadata]
    <3>1. PICK X : RulesetToSerialized(call.ruleset, call.source).rules \in Seq(X)
      BY SavedPlaces
    <3>. QED  BY <3>1, PayloadPlaces DEF PayloadFor
  <2>5. PayloadFor(again)[1] =
          [metadata |-> RulesetToSerialized(call.ruleset, source).metadata]
    <3>1. PICK X : RulesetToSerialized(call.ruleset, source).rules \in Seq(X)
      <4>1. RulesetToSerialized(call.ruleset, source).rules =
              RulesetToSerialized(call.ruleset, call.source).rules
        BY DEF RulesetToSerialized
      <4>. QED  BY <4>1, SavedPlaces
    <3>. QED  BY <3>1, PayloadPlaces DEF PayloadFor
  <2>6. RulesetToSerialized(call.ruleset, source).metadata =
          RulesetToSerialized(call.ruleset, call.source).metadata
    BY <2>3, <2>4, <2>5
  <2>7. Digest(source) = Digest(call.source)
    BY <2>6 DEF RulesetToSerialized
  <2>. QED  BY <2>7 DEF Digest
<1>. QED  BY <1>1, <1>2, <1>3

-----------------------------------------------------------------------------
(* validate() *)

\* Whatever is in the payload: what passes is in order.
LEMMA ValidIsOrdered ==
  ASSUME NEW payload, \A ser \in DecodePayload(payload) : Typed(ser),
         Is(Unpacked(payload), "ok")
  PROVE  /\ Ordered(Unpacked(payload).ok)
         /\ DOMAIN Unpacked(payload).ok.rules \subseteq Nat \ {0}
<1>1. \A e : ~Is(Err(e), "ok")
  BY DEF Is, Err
<1>2. PICK ser \in DecodePayload(payload) : Unpacked(payload) = SerializedToRuleset(ser)
  BY <1>1 DEF Unpacked
<1>3. Validate(ser)
  BY <1>1, <1>2 DEF SerializedToRuleset
<1>. DEFINE n  == Len(ser.rules)
            m  == Len(ser.terminals)
            rs == Unpacked(payload).ok
<1>4. /\ ser.rules \in Seq([index : Nat \ {0}, condition : Serialized])
      /\ ser.terminals \in Seq([rule_index : Nat \ {0}, name : Name, priority : Nat])
  BY <1>2 DEF Typed
<1>5. n \in Nat /\ DOMAIN ser.rules = 1 .. n /\ m \in Nat /\ DOMAIN ser.terminals = 1 .. m
  BY <1>4, LenProperties
<1>6. /\ DOMAIN rs.rules = 1 .. n
      /\ \A i \in 1 .. n : /\ rs.rules[i].index = ser.rules[i].index
                           /\ rs.rules[i].condition = Unflatten(ser.rules[i].condition)
      /\ rs.terminals = [k \in 1 .. m |-> [ rule_name |-> ser.terminals[k].name,
                                           priority |-> ser.terminals[k].priority ]]
      /\ rs.terminal_indices = [k \in 1 .. m |-> ser.terminals[k].rule_index]
  <2>. DEFINE made ==
                [ rules |->
                    [i \in DOMAIN ser.rules |->
                       [ name |-> ser.rule_names[i].name, index |-> ser.rules[i].index,
                         condition |-> Unflatten(ser.rules[i].condition) ]],
                  terminals |->
                    [k \in DOMAIN ser.terminals |->
                       [ rule_name |-> ser.terminals[k].name,
                         priority |-> ser.terminals[k].priority ]],
                  terminal_indices |-> [k \in DOMAIN ser.terminals |-> ser.terminals[k].rule_index],
                  field_registry |-> FromPairs(ser.field_index) ]
  <2>1. Unpacked(payload) = Ok(made)
    BY <1>2, <1>3, Zenon DEF SerializedToRuleset
  <2>2. rs = made
    <3>. HIDE DEF made
    <3>1. Ok(made).ok = made
      BY DEF Ok
    <3>. QED  BY <2>1, <3>1
  <2>3. /\ made.rules = [i \in 1 .. n |->
                           [ name |-> ser.rule_names[i].name, index |-> ser.rules[i].index,
                             condition |-> Unflatten(ser.rules[i].condition) ]]
        /\ made.terminals = [k \in 1 .. m |-> [ rule_name |-> ser.terminals[k].name,
                                                priority |-> ser.terminals[k].priority ]]
        /\ made.terminal_indices = [k \in 1 .. m |-> ser.terminals[k].rule_index]
    BY <1>5
  <2>. HIDE DEF made, n, m, rs
  <2>. QED  BY <2>2, <2>3
<1>7. \A k \in 1 .. m : ser.terminals[k].priority \in Nat
                        /\ ser.terminals[k].rule_index \in Nat \ {0}
  <2>. SUFFICES ASSUME NEW k \in 1 .. m
                PROVE  ser.terminals[k].priority \in Nat /\ ser.terminals[k].rule_index \in Nat \ {0}
    OBVIOUS
  <2>1. ser.terminals[k] \in [rule_index : Nat \ {0}, name : Name, priority : Nat]
    <3>1. ser.terminals \in Seq([rule_index : Nat \ {0}, name : Name, priority : Nat])
          /\ k \in 1 .. Len(ser.terminals)
      BY <1>4
    <3>. QED  BY ONLY <3>1, ElementOfSeq
  <2>. DEFINE terminal == ser.terminals[k]
  <2>. HIDE DEF terminal
  <2>2. terminal \in [rule_index : Nat \ {0}, name : Name, priority : Nat]
    BY <2>1 DEF terminal
  <2>3. terminal.priority \in Nat /\ terminal.rule_index \in Nat \ {0}
    BY <2>2
  <2>. QED  BY <2>3 DEF terminal
<1>. HIDE DEF n, m, rs
<1>8. \A i \in DOMAIN rs.rules :
        Referenced(rs.rules[i].condition) \subseteq {j \in DOMAIN rs.rules : j < rs.rules[i].index}
  <2>. SUFFICES ASSUME NEW i \in 1 .. n
                PROVE  Referenced(rs.rules[i].condition) \subseteq
                         {j \in 1 .. n : j < rs.rules[i].index}
    BY <1>6
  <2>. DEFINE s   == ser.rules[i].condition
              idx == ser.rules[i].index
  <2>1. s \in Serialized /\ idx \in Nat \ {0}
    <3>. DEFINE rule == ser.rules[i]
    <3>1. rule \in [index : Nat \ {0}, condition : Serialized]
      <4>1. ser.rules \in Seq([index : Nat \ {0}, condition : Serialized])
            /\ i \in 1 .. Len(ser.rules)
        BY <1>4 DEF n
      <4>. QED  BY ONLY <4>1, ElementOfSeq
    <3>. HIDE DEF rule
    <3>2. rule.condition \in Serialized /\ rule.index \in Nat \ {0}
      BY <3>1
    <3>. QED  BY <3>2 DEF rule
  <2>2. ValidateExpr(s, Len(ser.field_index), n, idx)
    BY <1>3, <1>5 DEF Validate, n
  <2>6. rs.rules[i].index = idx /\ rs.rules[i].condition = Unflatten(s)
    BY <1>6
  <2>. HIDE DEF s, idx
  <2>3. ChainsNotEmpty(s)
    BY <2>2 DEF ValidateExpr, ChainsNotEmpty
  <2>4. \A x \in ReferencesIn(s) : x \in Nat \ {0} /\ x <= n /\ x < idx
    BY <2>1, <2>2, ReferencesSeen DEF ValidateExpr, ReferencesIn
  <2>5. Referenced(Unflatten(s)) \subseteq {j \in 1 .. n : j < idx}
    BY <2>1, <2>3, <2>4, <1>5, ReferencesSeen
  <2>. QED  BY <2>5, <2>6
<1>9. Len(rs.terminals) = m /\ DOMAIN rs.terminals = 1 .. m /\ Len(rs.terminal_indices) = m
  <2>. DEFINE T == {[ rule_name |-> ser.terminals[k].name,
                      priority |-> ser.terminals[k].priority ] : k \in 1 .. m}
  <2>1. rs.terminals \in [1 .. m -> T]
    BY <1>6
  <2>2. rs.terminal_indices \in [1 .. m -> Nat]
    BY <1>6, <1>7
  <2>. HIDE DEF T
  <2>3. m \in Nat
    BY <1>5
  <2>4. Len(rs.terminals) = m /\ DOMAIN rs.terminals = 1 .. m
    BY ONLY <2>1, <2>3, FunctionSeq
  <2>5. Len(rs.terminal_indices) = m
    BY ONLY <2>2, <2>3, FunctionSeq
  <2>. QED  BY <2>4, <2>5
<1>10. \A k \in 1 .. m : rs.terminal_indices[k] \in DOMAIN rs.rules
  <2>. SUFFICES ASSUME NEW k \in 1 .. m
                PROVE  rs.terminal_indices[k] \in DOMAIN rs.rules
    OBVIOUS
  <2>1. DOMAIN rs.rules = 1 .. n /\ rs.terminal_indices[k] = ser.terminals[k].rule_index
    BY <1>6
  <2>2. ser.terminals[k].rule_index \in Nat \ {0} /\ n \in Nat
    BY <1>5, <1>7
  <2>3. ser.terminals[k].rule_index <= n
    BY <1>3, <1>5 DEF Validate, n
  <2>. QED  BY ONLY <2>1, <2>2, <2>3
<1>11. C!PrioritiesAscend(rs)
  <2>. DEFINE pri(k) == ser.terminals[k].priority
  <2>1. \A k \in 2 .. m : pri(k - 1) <= pri(k)
    BY <1>3 DEF Validate, SortedByPriority, m
  <2>2. \A k \in 1 .. m : pri(k) \in Nat /\ rs.terminals[k].priority = pri(k)
    BY <1>6, <1>7
  <2>. HIDE DEF pri
  <2>3. ASSUME NEW j \in 1 .. m PROVE \A k \in 1 .. m : j <= k => pri(j) <= pri(k)
    <3>. DEFINE Bad == {k \in 1 .. m : j <= k /\ ~(pri(j) <= pri(k))}
    <3>. SUFFICES ASSUME Bad # {} PROVE FALSE
      OBVIOUS
    <3>1. PICK k \in Bad : \A x \in Bad : k <= x
      <4>1. Bad \in SUBSET Nat
        OBVIOUS
      <4>. QED  BY <4>1, LeastOf
    <3>2. j < k
      BY <3>1, <2>2
    <3>3. k - 1 \in 1 .. m /\ j <= k - 1 /\ k \in 2 .. m /\ ~(k <= k - 1)
      BY <3>1, <3>2, <1>5
    <3>4. pri(j) <= pri(k - 1)
      BY <3>1, <3>3
    <3>. QED  BY <3>1, <3>3, <3>4, <2>1, <2>2
  <2>. QED  BY <2>2, <2>3, <1>9 DEF C!PrioritiesAscend
<1>12. Ordered(rs)
  BY <1>8, <1>9, <1>10, <1>11 DEF Ordered
<1>13. DOMAIN rs.rules \subseteq Nat \ {0}
  BY <1>5, <1>6
<1>. QED  BY <1>12, <1>13 DEF rs

LEMMA SavedIsTyped ==
  ASSUME NEW call \in Calls
  PROVE  \A ser \in DecodePayload(PayloadFor(call)) : Typed(ser)
<1>. DEFINE rs  == call.ruleset
            ser == RulesetToSerialized(rs, call.source)
            n   == Len(rs.rules)
            m   == Len(rs.terminals)
<1>1. /\ n \in Nat /\ DOMAIN rs.rules = 1 .. n
      /\ m \in Nat /\ DOMAIN rs.terminals = 1 .. m
      /\ \A i \in 1 .. n : /\ rs.rules[i].index = i
                           /\ rs.rules[i].condition \in CompiledCondition
      /\ \A k \in 1 .. m : /\ rs.terminals[k].priority \in Nat
                           /\ rs.terminal_indices[k] \in 1 .. n
      /\ rs.terminals \in Seq(C!Terminal)
  BY CallFacts
<1>2. \A k \in 1 .. m : rs.terminals[k].rule_name \in Name
  <2>. SUFFICES ASSUME NEW k \in 1 .. m PROVE rs.terminals[k].rule_name \in Name
    OBVIOUS
  <2>. DEFINE terminal == rs.terminals[k]
  <2>1. terminal \in C!Terminal
    <3>1. rs.terminals \in Seq(C!Terminal) /\ k \in 1 .. Len(rs.terminals)
      BY <1>1
    <3>. QED  BY ONLY <3>1, ElementOfSeq
  <2>. HIDE DEF terminal
  <2>2. terminal.rule_name \in Name
    BY <2>1 DEF C!Terminal
  <2>. QED  BY <2>2 DEF terminal
<1>3. ser.rules \in [1 .. n -> [index : Nat \ {0}, condition : Serialized]]
  BY <1>1, ConditionsComeBack DEF RulesetToSerialized
<1>4. ser.terminals \in [1 .. m -> [rule_index : Nat \ {0}, name : Name, priority : Nat]]
  BY <1>1, <1>2 DEF RulesetToSerialized
<1>5. DecodePayload(PayloadFor(call)) = {ser}
  <2>1. PICK X : ser.rules \in Seq(X)
    BY SavedPlaces
  <2>2. ser = [ metadata |-> ser.metadata, rules |-> ser.rules, terminals |-> ser.terminals,
                field_index |-> ser.field_index, rule_names |-> ser.rule_names ]
    BY DEF RulesetToSerialized
  <2>3. PayloadFor(call) = EncodePayload(ser)
    BY DEF PayloadFor
  <2>. HIDE DEF ser
  <2>. QED  BY <2>1, <2>2, <2>3, PayloadComesBack
<1>. HIDE DEF ser, n, m
<1>6. Typed(ser)
  BY <1>1, <1>3, <1>4, FunctionSeq DEF Typed
<1>. QED  BY <1>5, <1>6

-----------------------------------------------------------------------------
(* System calls *)

LEMMA AmountsFit ==
  ASSUME NEW at \in Nat, NEW length \in Nat, NEW n \in Amounts(at, length)
  PROVE  n \in Nat \ {0} /\ at + n <= length
<1>1. PICK m \in Cuts \cup {length} : at < m /\ m <= length /\ n = m - at
  BY DEF Amounts
<1>2. m \in Nat
  BY <1>1, CutsAreOffsets
<1>. QED  BY <1>1, <1>2

\* the file after a write of the n bytes from offset `at' on
LEMMA WritePlaces ==
  ASSUME NEW S, Zero \in S, NEW f \in Seq(S), NEW bytes \in Seq(S),
         NEW at \in Nat, NEW n \in Nat \ {0}, at + n <= Len(bytes)
  PROVE  LET g == Overlay(f, at, SubSeq(bytes, at + 1, at + n))
         IN  /\ g \in Seq(S) /\ Len(g) \in Nat
             /\ Len(g) = IF Len(f) <= at + n THEN at + n ELSE Len(f)
             /\ \A i \in 1 .. Len(g) :
                  g[i] = IF i \in at + 1 .. at + n THEN bytes[i]
                         ELSE IF i <= Len(f) THEN f[i] ELSE Zero
<1>. DEFINE part == SubSeq(bytes, at + 1, at + n)
            g == Overlay(f, at, part)
            top == IF Len(f) <= at + n THEN at + n ELSE Len(f)
<1>1. Len(f) \in Nat /\ Len(bytes) \in Nat /\ top \in Nat
  BY LenProperties
<1>2. Len(part) = n /\ \A i \in 1 .. n : part[i] = bytes[at + i]
  BY <1>1
<1>. HIDE DEF part
<1>3. Max({Len(f), at + Len(part)}) = top
  <2>1. CASE Len(f) <= at + n
    <3>1. at + n \in {Len(f), at + n} /\ at + n \in Int
          /\ \A x \in {Len(f), at + n} : x \in Int /\ x <= at + n
      BY <1>1, <2>1
    <3>2. Max({Len(f), at + n}) = at + n
      BY ONLY <3>1, MaxOf
    <3>. QED  BY <2>1, <3>2, <1>2
  <2>2. CASE ~(Len(f) <= at + n)
    <3>1. Len(f) \in {Len(f), at + n} /\ Len(f) \in Int
          /\ \A x \in {Len(f), at + n} : x \in Int /\ x <= Len(f)
      BY <1>1, <2>2
    <3>2. Max({Len(f), at + n}) = Len(f)
      BY ONLY <3>1, MaxOf
    <3>. QED  BY <2>2, <3>2, <1>2
  <2>. QED  BY <2>1, <2>2
<1>. HIDE DEF top
<1>4. \A i \in 1 .. top :
        g[i] = IF i \in at + 1 .. at + n THEN bytes[i]
               ELSE IF i <= Len(f) THEN f[i] ELSE Zero
  <2>. SUFFICES ASSUME NEW i \in 1 .. top
                PROVE  g[i] = IF i \in at + 1 .. at + n THEN bytes[i]
                              ELSE IF i <= Len(f) THEN f[i] ELSE Zero
    OBVIOUS
  <2>1. g[i] = IF i \in at + 1 .. at + n THEN part[i - at]
               ELSE IF i <= Len(f) THEN f[i] ELSE Zero
    BY <1>2, <1>3 DEF Overlay
  <2>2. i \in at + 1 .. at + n => i - at \in 1 .. n /\ at + (i - at) = i
    BY <1>1
  <2>. QED  BY <2>1, <2>2, <1>2
<1>5. g \in [1 .. top -> S]
  <2>1. g = [i \in 1 .. top |-> g[i]]
    BY <1>3 DEF Overlay
  <2>2. ASSUME NEW i \in 1 .. top PROVE g[i] \in S
    <3>1. CASE i \in at + 1 .. at + n
      <4>1. i \in 1 .. Len(bytes)
        BY <3>1, <1>1
      <4>2. bytes[i] \in S
        BY <4>1, ElementOfSeq
      <4>. QED  BY <3>1, <4>2, <1>4
    <3>2. CASE i \notin at + 1 .. at + n /\ i <= Len(f)
      <4>1. i \in 1 .. Len(f)
        BY <3>2, <1>1
      <4>2. f[i] \in S
        BY <4>1, ElementOfSeq
      <4>. QED  BY <3>2, <4>2, <1>4
    <3>3. CASE i \notin at + 1 .. at + n /\ ~(i <= Len(f))
      BY <3>3, <1>4
    <3>. QED  BY <3>1, <3>2, <3>3
  <2>. HIDE DEF g
  <2>. QED  BY <2>1, <2>2
<1>. HIDE DEF g
<1>6. g \in Seq(S) /\ Len(g) = top
  BY <1>1, <1>5, FunctionSeq
<1>. QED  BY <1>1, <1>4, <1>6 DEF g, top, part

\* the bytes read after a read of n bytes more
LEMMA ReadPlaces ==
  ASSUME NEW S, NEW f \in Seq(S), NEW bytes \in Seq(S),
         NEW n \in Nat \ {0}, Len(bytes) + n <= Len(f)
  PROVE  LET g == bytes \o SubSeq(f, Len(bytes) + 1, Len(bytes) + n)
         IN  /\ g \in Seq(S) /\ Len(bytes) \in Nat /\ Len(g) = Len(bytes) + n
             /\ \A i \in 1 .. Len(bytes) : g[i] = bytes[i]
             /\ \A i \in Len(bytes) + 1 .. Len(bytes) + n : g[i] = f[i]
<1>. DEFINE at == Len(bytes)
            part == SubSeq(f, at + 1, at + n)
            g == bytes \o part
<1>1. at \in Nat /\ Len(f) \in Nat
  BY LenProperties
<1>2. part \in Seq(S) /\ Len(part) = n /\ \A i \in 1 .. n : part[i] = f[at + i]
  BY <1>1
<1>. HIDE DEF part
<1>3. /\ g \in Seq(S \cup S) /\ Len(g) = at + Len(part)
      /\ \A i \in 1 .. at : g[i] = bytes[i]
      /\ \A i \in 1 .. Len(part) : g[at + i] = part[i]
  <2>1. part \in Seq(S) /\ bytes \in Seq(S)
    BY <1>2
  <2>. QED  BY ONLY <2>1, Places
<1>4. S \cup S = S
  OBVIOUS
<1>5. ASSUME NEW i \in at + 1 .. at + n PROVE g[i] = f[i]
  <2>1. i - at \in 1 .. n /\ at + (i - at) = i
    BY <1>1
  <2>. HIDE DEF g, at
  <2>. QED  BY <2>1, <1>2, <1>3
<1>. HIDE DEF g
<1>. QED  BY <1>1, <1>2, <1>3, <1>4, <1>5 DEF g, part
-----------------------------------------------------------------------------
(* The invariant *)

Cell ==
  {Zero} \cup (UNION {Range(Saved(call)) : call \in Calls}) \cup (UNION {Range(f) : f \in Delivered})

Bytes == Seq(Cell)

TypeOK ==
  /\ file \in Bytes \cup {Absent}
  /\ writer \in [Writer -> [bytes : Bytes, at : Nat]]
  /\ reader \in [Reader -> [reading : BOOLEAN, bytes : Bytes]]
  /\ DOMAIN loaded = Reader
  /\ saves \in Seq(Calls)
  /\ overlapped \in BOOLEAN

\* Who writes has a save to write, and some of it left.
WritersWriteSaves ==
  \A w \in Writing :
    /\ writer[w].at < Len(writer[w].bytes)
    /\ \E j \in DOMAIN saves : writer[w].bytes = Saved(saves[j])

\* There is a file from the first save on, and for whoever opened it.
FileIsThere ==
  saves # <<>> \/ (\E r \in Reader : reader[r].reading) => file \in Bytes

\* Until then it is what was found, and so is what was read of it.
FoundUntouched ==
  saves = <<>> =>
    /\ file \in Delivered \cup {Absent}
    /\ \A r \in Reader : reader[r].reading =>
         /\ file \in Delivered
         /\ Len(reader[r].bytes) <= Len(file)
         /\ \A i \in 1 .. Len(reader[r].bytes) : reader[r].bytes[i] = file[i]

\* Without an overlap it is the first part of the last save, as long as the one
\* writer has come, all of it once the save is settled.
Undisturbed ==
  saves # <<>> /\ ~overlapped =>
    LET call == saves[Len(saves)]
    IN  /\ Len(file) <= Len(Saved(call))
        /\ \A i \in 1 .. Len(file) : file[i] = Saved(call)[i]
        /\ \A w \in Writing : writer[w].bytes = Saved(call) /\ writer[w].at = Len(file)
        /\ \A w, v \in Writing : w = v
        /\ settled # {} => settled = {call} /\ Writing = {} /\ Len(file) = Len(Saved(call))

SettledLater == saves = <<>> \/ overlapped => settled = {}

\* The hash in the header is of a save,
HashOfSave(bytes) ==
  bytes[4] = Zero \/ \E j \in DOMAIN saves : bytes[4] = [hash |-> PayloadFor(saves[j])]

\* or the header is of a file that was found.
HeaderFound(bytes) ==
  \E f \in Delivered : 4 <= Len(f) /\ \A i \in 1 .. 4 : bytes[i] = f[i]

HashesKnown ==
  /\ saves # <<>> /\ 4 <= Len(file) => HashOfSave(file)
  /\ \A r \in Reader :
       4 <= Len(reader[r].bytes) => HashOfSave(reader[r].bytes) \/ HeaderFound(reader[r].bytes)

\* What was accepted is what a known hash is of.
LoadedKnown ==
  \A r \in Reader : Is(loaded[r], "ok") =>
    \/ \E j \in DOMAIN saves : loaded[r] = Unpacked(PayloadFor(saves[j]))
    \/ \E f \in Delivered :
         /\ \E payload \in Announced(f) : loaded[r] = Unpacked(payload)
         /\ Decode(f) \notin {Err("LengthMismatch"), Err("ChecksumMismatch")} => loaded[r] = Decode(f)

IInv ==
  /\ TypeOK /\ WritersWriteSaves /\ FileIsThere /\ FoundUntouched
  /\ Undisturbed /\ SettledLater /\ HashesKnown /\ LoadedKnown

LEMMA SavedFacts ==
  ASSUME NEW call \in Calls
  PROVE  /\ Saved(call) \in Bytes /\ Len(Saved(call)) \in Nat /\ Len(Saved(call)) >= 9
         /\ Saved(call)[4] = [hash |-> PayloadFor(call)]
         /\ [bytes |-> Saved(call), at |-> 0] # Idle
<1>. DEFINE f == Saved(call)
            p == PayloadFor(call)
<1>1. /\ Len(p) \in Nat /\ Len(p) >= 5 /\ f \in Seq(Range(f)) /\ Len(f) = Len(p) + 4
      /\ f[4] = [hash |-> p]
  BY CallFacts, FilePlaces
<1>. HIDE DEF p
<1>2. Range(f) \subseteq Cell
  BY DEF Cell
<1>. HIDE DEF f
<1>3. f \in Bytes
  BY <1>1, <1>2, SeqMonotonic DEF Bytes
<1>4. Len(<<>>) = 0 /\ Idle.bytes = <<>>
  BY DEF Idle
<1>5. [bytes |-> f, at |-> 0] # Idle
  <2>1. [bytes |-> f, at |-> 0].bytes = f
    OBVIOUS
  <2>2. f # <<>>
    BY <1>1, <1>4
  <2>. QED  BY <2>1, <2>2, <1>4
<1>. QED  BY <1>1, <1>3, <1>5 DEF f, p

LEMMA DeliveredFacts ==
  ASSUME NEW f \in Delivered
  PROVE  f \in Bytes
<1>1. f \in Seq(Range(f)) /\ Range(f) \subseteq Cell
  BY DeliveredTyped DEF Cell
<1>. QED  BY <1>1, SeqMonotonic DEF Bytes

LEMMA SavesGrow ==
  ASSUME NEW call \in Calls, saves \in Seq(Calls), saves' = Append(saves, call)
  PROVE  /\ saves' \in Seq(Calls) /\ saves' # <<>> /\ saves'[Len(saves')] = call
         /\ Len(saves') \in DOMAIN saves'
         /\ \A j \in DOMAIN saves : j \in DOMAIN saves' /\ saves'[j] = saves[j]
<1>1. Len(saves) \in Nat /\ DOMAIN saves = 1 .. Len(saves)
  BY LenProperties
<1>2. saves' \in Seq(Calls) /\ Len(saves') = Len(saves) + 1 /\ saves'[Len(saves) + 1] = call
      /\ \A j \in 1 .. Len(saves) : saves'[j] = saves[j]
  BY AppendProperties
<1>3. DOMAIN saves' = 1 .. Len(saves')
  BY <1>2, LenProperties
<1>4. saves' # <<>>
  BY <1>1, <1>2
<1>. QED  BY <1>1, <1>2, <1>3, <1>4

LEMMA InitInv == Init => IInv
<1>. SUFFICES ASSUME Init PROVE IInv
  OBVIOUS
<1>. USE DEF Init
<1>1. Writing = {}
  BY DEF Writing
<1>2. <<>> \in Bytes /\ Len(<<>>) = 0 /\ <<>> \in Seq(Calls)
  BY DEF Bytes
<1>3. file \in Bytes \cup {Absent}
  BY DeliveredFacts
<1>4. TypeOK
  BY <1>2, <1>3 DEF TypeOK, Idle, NotReading
<1>5. WritersWriteSaves
  BY <1>1 DEF WritersWriteSaves
<1>6. FileIsThere /\ FoundUntouched
  BY <1>2 DEF FileIsThere, FoundUntouched, NotReading
<1>7. Undisturbed /\ SettledLater
  BY DEF Undisturbed, SettledLater
<1>8. HashesKnown
  BY <1>2 DEF HashesKnown, NotReading
<1>9. LoadedKnown
  BY DEF LoadedKnown, NoCall, Is
<1>. QED  BY <1>4, <1>5, <1>6, <1>7, <1>8, <1>9 DEF IInv

LEMMA ToBinaryFileKeeps ==
  ASSUME IInv, NEW w \in Writer, NEW call \in Calls, ToBinaryFile(w, call)
  PROVE  IInv'
<1>1. /\ writer[w] = Idle
      /\ writer' = [writer EXCEPT ![w] = [bytes |-> Saved(call), at |-> 0]]
      /\ file' = <<>>
      /\ saves' = Append(saves, call)
      /\ overlapped' = (Writing # {})
      /\ settled' = {}
      /\ reader' = reader /\ loaded' = loaded
  BY DEF ToBinaryFile, Saved
<1>2. TypeOK
  BY DEF IInv
<1>3. /\ saves' \in Seq(Calls) /\ saves' # <<>> /\ saves'[Len(saves')] = call
      /\ Len(saves') \in DOMAIN saves'
      /\ \A j \in DOMAIN saves : j \in DOMAIN saves' /\ saves'[j] = saves[j]
  BY <1>1, <1>2, SavesGrow DEF TypeOK
<1>4. <<>> \in Bytes /\ Len(<<>>) = 0
  BY DEF Bytes
<1>5. /\ Saved(call) \in Bytes /\ Len(Saved(call)) \in Nat /\ 0 < Len(Saved(call))
      /\ [bytes |-> Saved(call), at |-> 0] # Idle
  <2>1. /\ Saved(call) \in Bytes /\ Len(Saved(call)) \in Nat /\ Len(Saved(call)) >= 9
        /\ [bytes |-> Saved(call), at |-> 0] # Idle
    BY SavedFacts
  <2>. QED  BY <2>1
<1>6. /\ writer'[w] = [bytes |-> Saved(call), at |-> 0]
      /\ \A v \in Writer : v # w => writer'[v] = writer[v]
      /\ Writing' = Writing \cup {w}
  BY <1>1, <1>2, <1>5 DEF TypeOK, Writing
<1>7. TypeOK'
  BY <1>1, <1>2, <1>3, <1>4, <1>5 DEF TypeOK
<1>8. WritersWriteSaves'
  <2>. SUFFICES ASSUME NEW v \in Writing'
                PROVE  /\ writer'[v].at < Len(writer'[v].bytes)
                       /\ \E j \in DOMAIN saves' : writer'[v].bytes = Saved(saves'[j])
    BY DEF WritersWriteSaves
  <2>1. CASE v = w
    BY <2>1, <1>3, <1>5, <1>6
  <2>2. CASE v # w
    <3>1. v \in Writing /\ writer'[v] = writer[v]
      BY <2>2, <1>6 DEF Writing
    <3>2. /\ writer[v].at < Len(writer[v].bytes)
          /\ \E j \in DOMAIN saves : writer[v].bytes = Saved(saves[j])
      BY <3>1 DEF IInv, WritersWriteSaves
    <3>. QED  BY <3>1, <3>2, <1>3
  <2>. QED  BY <2>1, <2>2
<1>9. FileIsThere' /\ FoundUntouched' /\ SettledLater'
  BY <1>1, <1>3, <1>4 DEF FileIsThere, FoundUntouched, SettledLater
<1>10. Undisturbed'
  <2>. SUFFICES ASSUME ~overlapped'
                PROVE  /\ Len(file') <= Len(Saved(call))
                       /\ \A i \in 1 .. Len(file') : file'[i] = Saved(call)[i]
                       /\ \A v \in Writing' : writer'[v].bytes = Saved(call) /\ writer'[v].at = Len(file')
                       /\ \A v, x \in Writing' : v = x
                       /\ settled' = {}
    BY <1>3 DEF Undisturbed
  <2>1. Writing' = {w}
    BY <1>1, <1>6
  <2>. QED  BY <2>1, <1>1, <1>4, <1>5, <1>6
<1>11. HashesKnown'
  <2>1. \A bytes : HashOfSave(bytes) => HashOfSave(bytes)'
    BY <1>3 DEF HashOfSave
  <2>2. ~(4 <= Len(file'))
    BY <1>1, <1>4
  <2>. QED  BY <2>1, <2>2, <1>1 DEF IInv, HashesKnown, HashOfSave, HeaderFound
<1>12. LoadedKnown'
  BY <1>1, <1>3 DEF IInv, LoadedKnown
<1>. QED  BY <1>7, <1>8, <1>9, <1>10, <1>11, <1>12 DEF IInv

LEMMA WriteSomeKeeps ==
  ASSUME IInv, NEW w \in Writer, WriteSome(w)
  PROVE  IInv'
<1>. DEFINE bytes == writer[w].bytes
            at    == writer[w].at
<1>1. PICK n \in Amounts(at, Len(bytes)) :
        /\ file' = Overlay(file, at, SubSeq(bytes, at + 1, at + n))
        /\ IF at + n = Len(bytes)
             THEN /\ writer' = [writer EXCEPT ![w] = Idle]
                  /\ settled' = IF overlapped THEN {} ELSE {saves[Len(saves)]}
             ELSE /\ writer' = [writer EXCEPT ![w].at = @ + n]
                  /\ settled' = settled
  BY DEF WriteSome
<1>2. /\ w \in Writing
      /\ reader' = reader /\ loaded' = loaded /\ saves' = saves /\ overlapped' = overlapped
  BY DEF WriteSome, Writing
<1>3. TypeOK
  BY DEF IInv
<1>4. PICK j \in DOMAIN saves : at < Len(bytes) /\ bytes = Saved(saves[j])
  BY <1>2 DEF IInv, WritersWriteSaves
<1>5. /\ bytes \in Bytes /\ at \in Nat /\ Len(bytes) \in Nat
      /\ writer[w] = [bytes |-> bytes, at |-> at]
  <2>1. writer[w] \in [bytes : Bytes, at : Nat]
    BY <1>3 DEF TypeOK
  <2>2. bytes \in Bytes /\ at \in Nat /\ writer[w] = [bytes |-> bytes, at |-> at]
    BY <2>1
  <2>. QED  BY <2>2, LenProperties DEF Bytes
<1>6. saves[j] \in Calls /\ saves # <<>>
  <2>1. saves \in Seq(Calls) /\ j \in 1 .. Len(saves)
    BY <1>3, LenProperties DEF TypeOK
  <2>. QED  BY <2>1, ElementOfSeq
<1>7. file \in Bytes /\ Len(file) \in Nat
  <2>1. file \in Bytes
    BY <1>6 DEF IInv, FileIsThere
  <2>. QED  BY <2>1, LenProperties DEF Bytes
<1>. HIDE DEF bytes, at
<1>8. n \in Nat \ {0} /\ at + n <= Len(bytes)
  BY <1>1, <1>5, AmountsFit
<1>9. /\ file' \in Bytes /\ Len(file') \in Nat
      /\ Len(file') = IF Len(file) <= at + n THEN at + n ELSE Len(file)
      /\ \A i \in 1 .. Len(file') :
           file'[i] = IF i \in at + 1 .. at + n THEN bytes[i]
                      ELSE IF i <= Len(file) THEN file[i] ELSE Zero
  <2>1. Zero \in Cell /\ file \in Seq(Cell) /\ bytes \in Seq(Cell) /\ at \in Nat
        /\ n \in Nat \ {0} /\ at + n <= Len(bytes)
    BY <1>5, <1>7, <1>8 DEF Cell, Bytes
  <2>. QED  BY ONLY <2>1, <1>1, WritePlaces DEF Bytes
<1>10. /\ at + n = Len(bytes) =>
            /\ writer' = [writer EXCEPT ![w] = Idle]
            /\ Writing' = Writing \ {w}
            /\ settled' = IF overlapped THEN {} ELSE {saves[Len(saves)]}
       /\ at + n # Len(bytes) =>
            /\ writer' = [writer EXCEPT ![w] = [bytes |-> bytes, at |-> at + n]]
            /\ Writing' = Writing
            /\ settled' = settled
  <2>1. ASSUME at + n = Len(bytes) PROVE Writing' = Writing \ {w}
    BY <2>1, <1>1, <1>3 DEF TypeOK, Writing
  <2>2. ASSUME at + n # Len(bytes)
        PROVE  /\ writer' = [writer EXCEPT ![w] = [bytes |-> bytes, at |-> at + n]]
               /\ Writing' = Writing
    <3>1. writer' = [writer EXCEPT ![w] = [bytes |-> bytes, at |-> at + n]]
      BY <2>2, <1>1, <1>3, <1>5 DEF TypeOK, at
    <3>2. [bytes |-> bytes, at |-> at + n] # Idle
      <4>1. [bytes |-> bytes, at |-> at + n].at # Idle.at
        BY <1>5, <1>8 DEF Idle
      <4>. QED  BY <4>1
    <3>. QED  BY <3>1, <3>2, <1>2, <1>3 DEF TypeOK, Writing
  <2>. QED  BY <2>1, <2>2, <1>1
<1>11. TypeOK'
  <2>1. Idle \in [bytes : Bytes, at : Nat]
    BY DEF Idle, Bytes
  <2>2. writer' \in [Writer -> [bytes : Bytes, at : Nat]]
    <3>1. [bytes |-> bytes, at |-> at + n] \in [bytes : Bytes, at : Nat]
      BY <1>5, <1>8
    <3>2. PICK x \in [bytes : Bytes, at : Nat] : writer' = [writer EXCEPT ![w] = x]
      BY <3>1, <2>1, <1>10
    <3>. QED  BY <3>2, <1>3 DEF TypeOK
  <2>. QED  BY <2>2, <1>2, <1>3, <1>9 DEF TypeOK
<1>12. WritersWriteSaves'
  <2>. SUFFICES ASSUME NEW v \in Writing'
                PROVE  /\ writer'[v].at < Len(writer'[v].bytes)
                       /\ \E k \in DOMAIN saves' : writer'[v].bytes = Saved(saves'[k])
    BY DEF WritersWriteSaves
  <2>1. v \in Writing
    BY <1>10
  <2>2. CASE v = w
    <3>1. writer'[w] = [bytes |-> bytes, at |-> at + n] /\ at + n < Len(bytes)
      BY <2>2, <1>3, <1>5, <1>8, <1>10 DEF TypeOK
    <3>. QED  BY <3>1, <2>2, <1>2, <1>4
  <2>3. CASE v # w
    <3>1. writer'[v] = writer[v]
      BY <2>1, <2>3, <1>3, <1>10 DEF TypeOK, Writing
    <3>. QED  BY <3>1, <2>1, <1>2 DEF IInv, WritersWriteSaves
  <2>. QED  BY <2>2, <2>3
<1>13. FileIsThere' /\ FoundUntouched'
  BY <1>2, <1>6, <1>9 DEF FileIsThere, FoundUntouched
<1>14. SettledLater'
  BY <1>2, <1>6, <1>10 DEF IInv, SettledLater
<1>15. Undisturbed'
  <2>. SUFFICES ASSUME ~overlapped PROVE Undisturbed'
    BY <1>2 DEF Undisturbed
  <2>. DEFINE call == saves[Len(saves)]
  <2>1. /\ \A i \in 1 .. Len(file) : file[i] = Saved(call)[i]
        /\ bytes = Saved(call) /\ at = Len(file)
        /\ \A v \in Writing : v = w
        /\ settled = {}
    BY <1>2, <1>6 DEF IInv, Undisturbed, bytes, at
  <2>. HIDE DEF call
  <2>2. Len(file') = at + n
    BY <2>1, <1>5, <1>8, <1>9
  <2>3. ASSUME NEW i \in 1 .. Len(file') PROVE file'[i] = Saved(call)[i]
    <3>1. i \notin at + 1 .. at + n => i \in 1 .. Len(file) /\ i <= Len(file)
      BY <2>1, <2>2, <1>5, <1>8
    <3>. QED  BY <3>1, <2>1, <1>9
  <2>4. CASE at + n = Len(bytes)
    <3>1. Writing' = {} /\ settled' = {call}
      BY <2>1, <2>4, <1>2, <1>10 DEF call
    <3>. QED  BY <3>1, <2>1, <2>2, <2>3, <2>4, <1>2, <1>9 DEF Undisturbed, call
  <2>5. CASE at + n # Len(bytes)
    <3>1. Writing' = Writing /\ settled' = {}
      BY <2>1, <2>5, <1>10
    <3>2. ASSUME NEW v \in Writing'
          PROVE  v = w /\ writer'[v].bytes = Saved(call) /\ writer'[v].at = Len(file')
      <4>1. v = w
        BY <3>1, <2>1
      <4>2. writer'[w] = [bytes |-> bytes, at |-> at + n]
        BY <2>5, <1>3, <1>10 DEF TypeOK
      <4>. QED  BY <4>1, <4>2, <2>1, <2>2
    <3>3. Len(file') <= Len(Saved(call))
      BY <2>1, <2>2, <1>8
    <3>4. \A v, x \in Writing' : v = x
      BY <3>2
    <3>. QED  BY <3>1, <3>2, <3>3, <3>4, <2>3, <1>2 DEF Undisturbed, call
  <2>. QED  BY <2>4, <2>5
<1>16. HashesKnown'
  <2>1. ASSUME 4 <= Len(file') PROVE HashOfSave(file)'
    <3>1. bytes[4] = [hash |-> PayloadFor(saves[j])]
      BY <1>4, <1>6, SavedFacts
    <3>2. \/ file'[4] = bytes[4]
          \/ 4 <= Len(file) /\ file'[4] = file[4]
          \/ file'[4] = Zero
      BY <2>1, <1>9
    <3>3. 4 <= Len(file) => HashOfSave(file)
      BY <1>6 DEF IInv, HashesKnown
    <3>. QED  BY <3>1, <3>2, <3>3, <1>2 DEF HashOfSave
  <2>2. \A r \in Reader :
          4 <= Len(reader[r].bytes) => HashOfSave(reader[r].bytes) \/ HeaderFound(reader[r].bytes)
    BY DEF IInv, HashesKnown
  <2>. QED  BY <2>1, <2>2, <1>2 DEF HashesKnown, HashOfSave, HeaderFound
<1>17. LoadedKnown'
  BY <1>2 DEF IInv, LoadedKnown
<1>. QED  BY <1>11, <1>12, <1>13, <1>14, <1>15, <1>16, <1>17 DEF IInv

LEMMA StopKeeps ==
  ASSUME IInv, NEW w \in Writer, Stop(w)
  PROVE  IInv'
<1>1. /\ w \in Writing
      /\ writer' = [writer EXCEPT ![w] = Idle]
      /\ file' = file /\ reader' = reader /\ loaded' = loaded /\ saves' = saves
      /\ overlapped' = overlapped /\ settled' = settled
  BY DEF Stop, Writing
<1>2. TypeOK
  BY DEF IInv
<1>3. Writing' = Writing \ {w} /\ \A v \in Writing' : writer'[v] = writer[v]
  BY <1>1, <1>2 DEF TypeOK, Writing
<1>4. TypeOK'
  <2>1. Idle \in [bytes : Bytes, at : Nat]
    BY DEF Idle, Bytes
  <2>. QED  BY <2>1, <1>1, <1>2 DEF TypeOK
<1>5. WritersWriteSaves'
  BY <1>1, <1>3 DEF IInv, WritersWriteSaves
<1>6. FileIsThere' /\ FoundUntouched' /\ SettledLater'
  BY <1>1 DEF IInv, FileIsThere, FoundUntouched, SettledLater
<1>7. Undisturbed'
  BY <1>1, <1>3 DEF IInv, Undisturbed
<1>8. HashesKnown' /\ LoadedKnown'
  BY <1>1 DEF IInv, HashesKnown, HashOfSave, HeaderFound, LoadedKnown
<1>. QED  BY <1>4, <1>5, <1>6, <1>7, <1>8 DEF IInv

\* What neither a file nor a writer has changed in, but for what was read.
LEMMA OnlyReadingKeeps ==
  ASSUME IInv, UNCHANGED <<file, writer, saves, overlapped, settled>>
  PROVE  WritersWriteSaves' /\ Undisturbed' /\ SettledLater'
<1>1. Writing' = Writing
  BY DEF Writing
<1>. QED  BY <1>1 DEF IInv, WritersWriteSaves, Undisturbed, SettledLater

LEMMA KnownStays ==
  ASSUME IInv, UNCHANGED <<file, saves>>,
         \A q \in Reader :
           4 <= Len(reader'[q].bytes) => HashOfSave(reader'[q].bytes) \/ HeaderFound(reader'[q].bytes)
  PROVE  HashesKnown'
<1>1. (saves # <<>> /\ 4 <= Len(file) => HashOfSave(file))'
  BY DEF IInv, HashesKnown, HashOfSave
<1>2. ASSUME NEW q \in Reader, 4 <= Len(reader'[q].bytes)
      PROVE  (HashOfSave(reader[q].bytes) \/ HeaderFound(reader[q].bytes))'
  <2>. DEFINE bytes == reader'[q].bytes
  <2>1. HashOfSave(bytes) \/ HeaderFound(bytes)
    BY <1>2
  <2>2. CASE HashOfSave(bytes)
    BY <2>2 DEF HashOfSave
  <2>3. CASE HeaderFound(bytes)
    BY <2>3 DEF HeaderFound
  <2>. QED  BY <2>1, <2>2, <2>3
<1>. QED  BY <1>1, <1>2 DEF HashesKnown

LEMMA OpenFailsKeeps ==
  ASSUME IInv, NEW r \in Reader, OpenFails(r)
  PROVE  IInv'
<1>1. /\ UNCHANGED <<file, writer, reader, saves, overlapped, settled>>
      /\ loaded' = [loaded EXCEPT ![r] = Err("Io")]
  BY DEF OpenFails
<1>2. TypeOK /\ TypeOK'
  BY <1>1 DEF IInv, TypeOK
<1>3. FileIsThere' /\ FoundUntouched' /\ HashesKnown'
  BY <1>1 DEF IInv, FileIsThere, FoundUntouched, HashesKnown, HashOfSave, HeaderFound
<1>4. LoadedKnown'
  <2>1. ~Is(Err("Io"), "ok")
    BY DEF Is, Err
  <2>2. \A q \in Reader : loaded'[q] = IF q = r THEN Err("Io") ELSE loaded[q]
    BY <1>1, <1>2 DEF TypeOK
  <2>. QED  BY <2>1, <2>2, <1>1 DEF IInv, LoadedKnown
<1>. QED  BY <1>1, <1>2, <1>3, <1>4, OnlyReadingKeeps DEF IInv

LEMMA FromBinaryFileKeeps ==
  ASSUME IInv, NEW r \in Reader, FromBinaryFile(r)
  PROVE  IInv'
<1>1. /\ UNCHANGED <<file, writer, saves, overlapped, settled>> /\ loaded' = loaded
      /\ reader' = [reader EXCEPT ![r] = [reading |-> TRUE, bytes |-> <<>>]]
      /\ file # Absent
  BY DEF FromBinaryFile
<1>2. TypeOK
  BY DEF IInv
<1>3. <<>> \in Bytes /\ Len(<<>>) = 0
  BY DEF Bytes
<1>4. TypeOK'
  <2>1. [reading |-> TRUE, bytes |-> <<>>] \in [reading : BOOLEAN, bytes : Bytes]
    BY <1>3
  <2>. QED  BY <2>1, <1>1, <1>2 DEF TypeOK
<1>5. /\ reader'[r] = [reading |-> TRUE, bytes |-> <<>>]
      /\ \A q \in Reader : q # r => reader'[q] = reader[q]
  BY <1>1, <1>2 DEF TypeOK
<1>6. FileIsThere'
  BY <1>1, <1>2 DEF TypeOK, FileIsThere
<1>7. FoundUntouched'
  <2>. SUFFICES ASSUME saves = <<>>, NEW q \in Reader, reader'[q].reading
                PROVE  /\ file \in Delivered
                       /\ Len(reader'[q].bytes) <= Len(file)
                       /\ \A i \in 1 .. Len(reader'[q].bytes) : reader'[q].bytes[i] = file[i]
    BY <1>1 DEF IInv, FoundUntouched
  <2>1. file \in Delivered
    BY <1>1 DEF IInv, FoundUntouched
  <2>2. CASE q = r
    <3>1. reader'[q].bytes = <<>> /\ Len(file) \in Nat
      BY <2>1, <2>2, <1>5, DeliveredFacts, LenProperties DEF Bytes
    <3>. QED  BY <2>1, <3>1, <1>3
  <2>3. CASE q # r
    BY <2>3, <1>5 DEF IInv, FoundUntouched
  <2>. QED  BY <2>2, <2>3
<1>8. HashesKnown'
  <2>. SUFFICES ASSUME NEW q \in Reader, 4 <= Len(reader'[q].bytes)
                PROVE  HashOfSave(reader'[q].bytes) \/ HeaderFound(reader'[q].bytes)
    BY <1>1, KnownStays
  <2>1. q # r /\ reader'[q] = reader[q]
    BY <1>3, <1>5
  <2>. QED  BY <2>1 DEF IInv, HashesKnown
<1>9. LoadedKnown'
  BY <1>1 DEF IInv, LoadedKnown
<1>. QED  BY <1>1, <1>4, <1>6, <1>7, <1>8, <1>9, OnlyReadingKeeps DEF IInv

LEMMA ReadSomeKeeps ==
  ASSUME IInv, NEW r \in Reader, ReadSome(r)
  PROVE  IInv'
<1>. DEFINE bytes == reader[r].bytes
            more == reader'[r].bytes
<1>1. PICK n \in Amounts(Len(bytes), Len(file)) :
        reader' = [reader EXCEPT ![r].bytes = @ \o SubSeq(file, Len(bytes) + 1, Len(bytes) + n)]
  BY DEF ReadSome
<1>2. UNCHANGED <<file, writer, saves, overlapped, settled>> /\ loaded' = loaded /\ reader[r].reading
  BY DEF ReadSome
<1>3. TypeOK
  BY DEF IInv
<1>4. bytes \in Bytes /\ Len(bytes) \in Nat
  BY <1>3, LenProperties DEF TypeOK, Bytes
<1>5. file \in Bytes /\ Len(file) \in Nat
  BY <1>2, LenProperties DEF IInv, FileIsThere, Bytes
<1>6. n \in Nat \ {0} /\ Len(bytes) + n <= Len(file)
  BY <1>1, <1>4, <1>5, AmountsFit
<1>7. /\ reader'[r] = [reader[r] EXCEPT !.bytes =
                         bytes \o SubSeq(file, Len(bytes) + 1, Len(bytes) + n)]
      /\ \A q \in Reader : q # r => reader'[q] = reader[q]
      /\ reader' \in [Reader -> {reader'[q] : q \in Reader}]
  BY <1>1, <1>3 DEF TypeOK
<1>8. more = bytes \o SubSeq(file, Len(bytes) + 1, Len(bytes) + n)
      /\ reader'[r] = [reading |-> TRUE, bytes |-> more]
  <2>1. reader[r] \in [reading : BOOLEAN, bytes : Bytes]
    BY <1>3 DEF TypeOK
  <2>. QED  BY <2>1, <1>2, <1>7
<1>. HIDE DEF bytes, more
<1>9. /\ more \in Bytes /\ Len(more) = Len(bytes) + n
      /\ \A i \in 1 .. Len(bytes) : more[i] = bytes[i]
      /\ \A i \in Len(bytes) + 1 .. Len(bytes) + n : more[i] = file[i]
  <2>1. file \in Seq(Cell) /\ bytes \in Seq(Cell) /\ n \in Nat \ {0} /\ Len(bytes) + n <= Len(file)
    BY <1>4, <1>5, <1>6 DEF Bytes
  <2>. QED  BY ONLY <2>1, <1>8, ReadPlaces DEF Bytes
<1>10. TypeOK'
  <2>1. reader'[r] \in [reading : BOOLEAN, bytes : Bytes]
    BY <1>8, <1>9
  <2>2. reader' \in [Reader -> [reading : BOOLEAN, bytes : Bytes]]
    BY <2>1, <1>3, <1>7 DEF TypeOK
  <2>. QED  BY <2>2, <1>2, <1>3 DEF TypeOK
<1>11. FileIsThere'
  BY <1>2, <1>5 DEF FileIsThere
<1>12. FoundUntouched'
  <2>. SUFFICES ASSUME saves = <<>>, NEW q \in Reader, reader'[q].reading
                PROVE  /\ file \in Delivered
                       /\ Len(reader'[q].bytes) <= Len(file)
                       /\ \A i \in 1 .. Len(reader'[q].bytes) : reader'[q].bytes[i] = file[i]
    BY <1>2 DEF IInv, FoundUntouched
  <2>1. CASE q = r
    <3>1. file \in Delivered /\ \A i \in 1 .. Len(bytes) : bytes[i] = file[i]
      BY <1>2 DEF IInv, FoundUntouched, bytes
    <3>2. \A i \in 1 .. Len(more) : i \in 1 .. Len(bytes) \/ i \in Len(bytes) + 1 .. Len(bytes) + n
      BY <1>4, <1>6, <1>9
    <3>. QED  BY <2>1, <3>1, <3>2, <1>6, <1>9 DEF more
  <2>2. CASE q # r
    BY <2>2, <1>7 DEF IInv, FoundUntouched
  <2>. QED  BY <2>1, <2>2
<1>13. HashesKnown'
  <2>1. ASSUME 4 <= Len(more) PROVE HashOfSave(more) \/ HeaderFound(more)
    <3>1. CASE 4 <= Len(bytes)
      <4>1. HashOfSave(bytes) \/ HeaderFound(bytes)
        BY <3>1 DEF IInv, HashesKnown, bytes
      <4>2. \A i \in 1 .. 4 : more[i] = bytes[i]
        BY <3>1, <1>4, <1>9
      <4>. QED  BY <4>1, <4>2 DEF HashOfSave, HeaderFound
    <3>2. CASE ~(4 <= Len(bytes)) /\ saves # <<>>
      <4>1. more[4] = file[4] /\ 4 <= Len(file)
        BY <2>1, <3>2, <1>4, <1>5, <1>6, <1>9
      <4>. QED  BY <3>2, <4>1 DEF IInv, HashesKnown, HashOfSave
    <3>3. CASE ~(4 <= Len(bytes)) /\ saves = <<>>
      <4>1. file \in Delivered /\ \A i \in 1 .. Len(bytes) : bytes[i] = file[i]
        BY <3>3, <1>2 DEF IInv, FoundUntouched, bytes
      <4>2. \A i \in 1 .. 4 : i \in 1 .. Len(bytes) \/ i \in Len(bytes) + 1 .. Len(bytes) + n
        BY <2>1, <1>4, <1>6, <1>9
      <4>3. 4 <= Len(file) /\ \A i \in 1 .. 4 : more[i] = file[i]
        BY <2>1, <4>1, <4>2, <1>4, <1>5, <1>6, <1>9
      <4>. QED  BY <4>1, <4>3 DEF HeaderFound
    <3>. QED  BY <3>1, <3>2, <3>3
  <2>2. \A q \in Reader : q # r => reader'[q].bytes = reader[q].bytes
    BY <1>7
  <2>3. ASSUME NEW q \in Reader, 4 <= Len(reader'[q].bytes)
        PROVE  HashOfSave(reader'[q].bytes) \/ HeaderFound(reader'[q].bytes)
    <3>1. CASE q = r
      BY <2>1, <2>3, <3>1 DEF more
    <3>2. CASE q # r
      BY <2>2, <2>3, <3>2 DEF IInv, HashesKnown
    <3>. QED  BY <3>1, <3>2
  <2>. QED  BY <2>3, <1>2, KnownStays
<1>14. LoadedKnown'
  BY <1>2 DEF IInv, LoadedKnown
<1>. QED  BY <1>2, <1>10, <1>11, <1>12, <1>13, <1>14, OnlyReadingKeeps DEF IInv

\* Two files with one header make one rule set, if they make any.
LEMMA HeaderDecides ==
  ASSUME NEW b, Is(Decode(b), "ok"), NEW f \in Delivered, 4 <= Len(f),
         \A i \in 1 .. 4 : b[i] = f[i]
  PROVE  \E payload \in Announced(f) :
           /\ Decode(b) = Unpacked(payload)
           /\ Decode(f) \notin {Err("LengthMismatch"), Err("ChecksumMismatch")} => Decode(b) = Decode(f)
<1>1. PICK payload : b[4] = [hash |-> payload] /\ Decode(b) = Unpacked(payload)
  BY DecodeAccepted
<1>2. 4 \in DOMAIN f /\ Len(f) \in Nat
  BY DeliveredFacts, LenProperties DEF Bytes
<1>3. f[1] = b[1] /\ f[2] = b[2] /\ f[4] = b[4]
  BY <1>2
<1>4. payload \in Announced(f)
  <2>1. Is(f[4], "hash") /\ f[4].hash = payload
    BY <1>1, <1>3 DEF Is
  <2>. QED  BY <2>1, <1>2 DEF Announced, HEADER_SIZE
<1>5. ASSUME Decode(f) \notin {Err("LengthMismatch"), Err("ChecksumMismatch")}
      PROVE  Decode(f) = Unpacked(payload)
  <2>1. \A e : ~Is(Err(e), "ok")
    BY DEF Is, Err
  <2>2. ~(Len(b) < HEADER_SIZE)
    BY <2>1 DEF Decode
  <2>3. b[1] = [magic |-> MAGIC]
    BY <2>1, <2>2 DEF Decode
  <2>4. b[2] = [version |-> FORMAT_VERSION]
    BY <2>1, <2>2, <2>3 DEF Decode
  <2>5. f[1] = [magic |-> MAGIC] /\ f[2] = [version |-> FORMAT_VERSION] /\ ~(Len(f) < HEADER_SIZE)
    BY <2>3, <2>4, <1>2, <1>3 DEF HEADER_SIZE
  <2>6. Complete(f)
    BY <2>5, <1>5 DEF Decode
  <2>7. Intact(f)
    BY <2>5, <2>6, <1>5 DEF Decode
  <2>8. Decode(f) = Unpacked(PayloadOf(f))
    BY <2>5, <2>6, <2>7 DEF Decode, Unpacked
  <2>9. [hash |-> PayloadOf(f)] = [hash |-> payload]
    BY <2>7, <1>1, <1>3 DEF Intact
  <2>10. PayloadOf(f) = payload
    <3>1. [hash |-> PayloadOf(f)].hash = [hash |-> payload].hash
      BY <2>9
    <3>. QED  BY <3>1
  <2>. QED  BY <2>8, <2>10
<1>. QED  BY <1>1, <1>4, <1>5

LEMMA ReadEndKeeps ==
  ASSUME IInv, NEW r \in Reader, ReadEnd(r)
  PROVE  IInv'
<1>. DEFINE bytes == reader[r].bytes
<1>1. /\ UNCHANGED <<file, writer, saves, overlapped, settled>>
      /\ loaded' = [loaded EXCEPT ![r] = Decode(bytes)]
      /\ reader' = [reader EXCEPT ![r] = NotReading]
  BY DEF ReadEnd
<1>2. TypeOK
  BY DEF IInv
<1>3. <<>> \in Bytes /\ Len(<<>>) = 0 /\ NotReading.bytes = <<>> /\ ~NotReading.reading
  BY DEF Bytes, NotReading
<1>4. TypeOK'
  <2>1. NotReading \in [reading : BOOLEAN, bytes : Bytes]
    BY <1>3 DEF NotReading
  <2>. QED  BY <2>1, <1>1, <1>2 DEF TypeOK
<1>5. /\ reader'[r] = NotReading
      /\ \A q \in Reader : q # r => reader'[q] = reader[q]
      /\ \A q \in Reader : loaded'[q] = IF q = r THEN Decode(bytes) ELSE loaded[q]
  BY <1>1, <1>2 DEF TypeOK
<1>. HIDE DEF bytes
<1>6. FileIsThere' /\ FoundUntouched'
  <2>1. \A q \in Reader : reader'[q].reading => reader[q].reading /\ reader'[q] = reader[q]
    BY <1>3, <1>5
  <2>. QED  BY <2>1, <1>1 DEF IInv, FileIsThere, FoundUntouched
<1>7. HashesKnown'
  <2>1. ASSUME NEW q \in Reader, 4 <= Len(reader'[q].bytes)
        PROVE  HashOfSave(reader'[q].bytes) \/ HeaderFound(reader'[q].bytes)
    <3>1. q # r /\ reader'[q] = reader[q]
      BY <2>1, <1>3, <1>5
    <3>. QED  BY <2>1, <3>1 DEF IInv, HashesKnown
  <2>. QED  BY <2>1, <1>1, KnownStays
<1>8. LoadedKnown'
  <2>1. ASSUME Is(Decode(bytes), "ok")
        PROVE  \/ \E j \in DOMAIN saves : Decode(bytes) = Unpacked(PayloadFor(saves[j]))
               \/ \E f \in Delivered :
                    /\ \E payload \in Announced(f) : Decode(bytes) = Unpacked(payload)
                    /\ Decode(f) \notin {Err("LengthMismatch"), Err("ChecksumMismatch")} =>
                         Decode(bytes) = Decode(f)
    <3>1. PICK payload : /\ ~(Len(bytes) < HEADER_SIZE)
                         /\ bytes[4] = [hash |-> payload] /\ Decode(bytes) = Unpacked(payload)
      BY <2>1, DecodeAccepted
    <3>2. 4 <= Len(bytes)
      <4>1. Len(bytes) \in Nat
        BY <1>2, LenProperties DEF TypeOK, Bytes, bytes
      <4>. QED  BY <3>1, <4>1 DEF HEADER_SIZE
    <3>3. HashOfSave(bytes) \/ HeaderFound(bytes)
      BY <3>2 DEF IInv, HashesKnown, bytes
    <3>4. CASE HashOfSave(bytes)
      <4>1. bytes[4] # Zero
        BY <3>1 DEF Zero
      <4>2. PICK j \in DOMAIN saves : [hash |-> payload] = [hash |-> PayloadFor(saves[j])]
        BY <3>1, <3>4, <4>1 DEF HashOfSave
      <4>3. [hash |-> payload].hash = [hash |-> PayloadFor(saves[j])].hash
        BY <4>2
      <4>4. payload = PayloadFor(saves[j])
        BY <4>3
      <4>. QED  BY <3>1, <4>4
    <3>5. CASE HeaderFound(bytes)
      <4>1. PICK f \in Delivered : 4 <= Len(f) /\ \A i \in 1 .. 4 : bytes[i] = f[i]
        BY <3>5 DEF HeaderFound
      <4>. QED  BY <4>1, <2>1, HeaderDecides
    <3>. QED  BY <3>3, <3>4, <3>5
  <2>. QED  BY <2>1, <1>1, <1>5 DEF IInv, LoadedKnown
<1>. QED  BY <1>1, <1>4, <1>6, <1>7, <1>8, OnlyReadingKeeps DEF IInv

-----------------------------------------------------------------------------
(* Theorems *)

\* The invariant: whatever the writers and readers have done, and wherever they
\* were cut short (types/ruleset.rs:237-288).
THEOREM Invariance == Spec => []IInv
<1>1. IInv /\ [Next]_vars => IInv'
  <2>. SUFFICES ASSUME IInv, [Next]_vars PROVE IInv'
    OBVIOUS
  <2>1. ASSUME NEW w \in Writer, NEW call \in Calls, ToBinaryFile(w, call) PROVE IInv'
    BY <2>1, ToBinaryFileKeeps
  <2>2. ASSUME NEW w \in Writer, WriteSome(w) PROVE IInv'
    BY <2>2, WriteSomeKeeps
  <2>3. ASSUME NEW w \in Writer, Stop(w) PROVE IInv'
    BY <2>3, StopKeeps
  <2>4. ASSUME NEW r \in Reader, OpenFails(r) PROVE IInv'
    BY <2>4, OpenFailsKeeps
  <2>5. ASSUME NEW r \in Reader, FromBinaryFile(r) PROVE IInv'
    BY <2>5, FromBinaryFileKeeps
  <2>6. ASSUME NEW r \in Reader, ReadSome(r) PROVE IInv'
    BY <2>6, ReadSomeKeeps
  <2>7. ASSUME NEW r \in Reader, ReadEnd(r) PROVE IInv'
    BY <2>7, ReadEndKeeps
  <2>8. CASE UNCHANGED vars
    <3>1. UNCHANGED <<file, writer, saves, overlapped, settled>> /\ reader' = reader /\ loaded' = loaded
      BY <2>8 DEF vars
    <3>2. TypeOK' /\ FileIsThere' /\ LoadedKnown'
      BY <3>1 DEF IInv, TypeOK, FileIsThere, LoadedKnown
    <3>3. FoundUntouched' /\ HashesKnown'
      BY <3>1 DEF IInv, FoundUntouched, HashesKnown, HashOfSave, HeaderFound
    <3>. QED  BY <3>1, <3>2, <3>3, OnlyReadingKeeps DEF IInv
  <2>. QED  BY <2>1, <2>2, <2>3, <2>4, <2>5, <2>6, <2>7, <2>8 DEF Next
<1>. QED  BY InitInv, <1>1, PTL DEF Spec

LEMMA LastSave ==
  ASSUME IInv, saves # <<>>
  PROVE  /\ saves[Len(saves)] \in Calls
         /\ file \in Bytes /\ Len(file) \in Nat
         /\ ~overlapped /\ Len(file) = Len(Saved(saves[Len(saves)])) =>
              file = Saved(saves[Len(saves)])
<1>. DEFINE call == saves[Len(saves)]
<1>1. call \in Calls
  <2>1. saves \in Seq(Calls) /\ Len(saves) \in Nat
    BY LenProperties DEF IInv, TypeOK
  <2>2. Len(saves) \in 1 .. Len(saves)
    BY <2>1
  <2>. QED  BY <2>1, <2>2, ElementOfSeq
<1>2. file \in Bytes /\ Len(file) \in Nat
  BY LenProperties DEF IInv, FileIsThere, Bytes
<1>3. ASSUME ~overlapped, Len(file) = Len(Saved(call)) PROVE file = Saved(call)
  <2>1. \A i \in 1 .. Len(file) : file[i] = Saved(call)[i]
    BY <1>3 DEF IInv, Undisturbed
  <2>2. Saved(call) \in Bytes
    BY <1>1, SavedFacts
  <2>. HIDE DEF call
  <2>. QED  BY <2>1, <2>2, <1>2, <1>3, SeqEqual DEF Bytes
<1>. QED  BY <1>1, <1>2, <1>3

\* A save that was cut short looks short, wherever it was cut: without an overlap
\* the file is never taken for corrupt or somebody else's (serial.rs:757-763,
\* 807-813).
THEOREM CrashLooksShortAlways == Spec => []CrashLooksShort
<1>1. IInv => CrashLooksShort
  <2>. SUFFICES ASSUME IInv, saves # <<>>, ~overlapped
                PROVE  Is(Decode(file), "ok") \/ Decode(file) = Err("LengthMismatch")
    BY DEF CrashLooksShort
  <2>. DEFINE call == saves[Len(saves)]
  <2>1. /\ call \in Calls /\ file \in Bytes /\ Len(file) \in Nat
        /\ Len(file) <= Len(Saved(call))
        /\ \A i \in 1 .. Len(file) : file[i] = Saved(call)[i]
    BY LastSave DEF IInv, Undisturbed
  <2>2. CASE Len(file) = Len(Saved(call))
    <3>1. Decode(file) = Ok(Reloaded(call.ruleset))
      BY <2>1, <2>2, LastSave, SavedComesBack
    <3>. QED  BY <3>1 DEF Ok, Is
  <2>3. CASE Len(file) # Len(Saved(call))
    <3>. HIDE DEF call
    <3>1. Len(Saved(call)) \in Nat
      BY <2>1, SavedFacts
    <3>2. Len(file) < Len(Saved(call))
      BY <3>1, <2>1, <2>3
    <3>3. call.ruleset.rules \in Seq(C!CompiledRule) /\ file \in Seq(Cell)
      BY <2>1, CallFacts DEF Bytes
    <3>. QED  BY <3>2, <3>3, <2>1, DecodePart
  <2>. QED  BY <2>2, <2>3
<1>. QED  BY <1>1, Invariance, PTL

LEMMA SettledIsSaved ==
  ASSUME IInv, NEW s \in settled
  PROVE  s \in Calls /\ file = Saved(s) /\ Decode(file) = Ok(Reloaded(s.ruleset))
<1>1. saves # <<>> /\ ~overlapped
  BY DEF IInv, SettledLater
<1>2. s = saves[Len(saves)] /\ Len(file) = Len(Saved(s))
  BY <1>1 DEF IInv, Undisturbed
<1>3. s \in Calls /\ file = Saved(s)
  BY <1>1, <1>2, LastSave
<1>. QED  BY <1>3, SavedComesBack

\* A save that was completed undisturbed can be read back, and what is read is
\* the rule set that was saved, in all it answers (types/ruleset.rs:268-276).
THEOREM SettledFileLoadsAlways == Spec => []SettledFileLoads
<1>1. IInv => SettledFileLoads
  <2>. SUFFICES ASSUME IInv, NEW s \in settled
                PROVE  Is(Decode(file), "ok") /\ Alike(Decode(file).ok, s.ruleset)
    BY DEF SettledFileLoads
  <2>1. s \in Calls /\ Decode(file) = Ok(Reloaded(s.ruleset))
    BY SettledIsSaved
  <2>2. Is(Decode(file), "ok") /\ Decode(file).ok = Reloaded(s.ruleset)
    BY <2>1 DEF Ok, Is
  <2>. QED  BY <2>1, <2>2, ReloadedIsAlike
<1>. QED  BY <1>1, Invariance, PTL

\* Saving again what was loaded makes the bytes of the file if, and only if, the
\* source given is the one they were made from (types/ruleset.rs:237-239).
THEOREM DigestTellsStalenessAlways == Spec => []DigestTellsStaleness
<1>1. IInv => DigestTellsStaleness
  <2>. SUFFICES ASSUME IInv, NEW s \in settled, NEW source \in Texts
                PROVE  Encode(Decode(file).ok, source) = file <=> source = s.source
    BY DEF DigestTellsStaleness
  <2>1. s \in Calls /\ file = Saved(s) /\ Decode(file) = Ok(Reloaded(s.ruleset))
    BY SettledIsSaved
  <2>2. Decode(file).ok = Reloaded(s.ruleset)
    BY <2>1 DEF Ok
  <2>. QED  BY <2>1, <2>2, DigestTells
<1>. QED  BY <1>1, Invariance, PTL

LEMMA SavesAreCalls ==
  ASSUME IInv, NEW j \in DOMAIN saves
  PROVE  /\ saves[j] \in Calls
         /\ Unpacked(PayloadFor(saves[j])) = Ok(Reloaded(saves[j].ruleset))
<1>1. saves[j] \in Calls
  <2>1. saves \in Seq(Calls)
    BY DEF IInv, TypeOK
  <2>2. j \in 1 .. Len(saves)
    BY <2>1, LenProperties
  <2>. QED  BY <2>1, <2>2, ElementOfSeq
<1>2. Unpacked(PayloadFor(saves[j])) = Decode(Saved(saves[j]))
  BY <1>1, CallFacts, DecodeWhole
<1>. QED  BY <1>1, <1>2, SavedComesBack

LEMMA LoadedIsOrdered ==
  ASSUME IInv, NEW r \in Reader, Is(loaded[r], "ok")
  PROVE  Ordered(loaded[r].ok) /\ DOMAIN loaded[r].ok.rules \subseteq Nat \ {0}
<1>1. CASE \E j \in DOMAIN saves : loaded[r] = Unpacked(PayloadFor(saves[j]))
  <2>1. PICK j \in DOMAIN saves : loaded[r] = Unpacked(PayloadFor(saves[j]))
    BY <1>1
  <2>2. \A ser \in DecodePayload(PayloadFor(saves[j])) : Typed(ser)
    BY SavesAreCalls, SavedIsTyped
  <2>3. Is(Unpacked(PayloadFor(saves[j])), "ok")
    BY <2>1
  <2>. QED  BY <2>1, <2>2, <2>3, ValidIsOrdered
<1>2. CASE \E f \in Delivered : \E payload \in Announced(f) : loaded[r] = Unpacked(payload)
  <2>. PICK f \in Delivered : \E payload \in Announced(f) : loaded[r] = Unpacked(payload)
    BY <1>2
  <2>1. PICK payload \in Announced(f) : loaded[r] = Unpacked(payload)
    OBVIOUS
  <2>2. \A ser \in DecodePayload(payload) : Typed(ser)
    BY DeliveredTyped
  <2>3. Is(Unpacked(payload), "ok")
    BY <2>1
  <2>. QED  BY <2>1, <2>2, <2>3, ValidIsOrdered
<1>. QED  BY <1>1, <1>2 DEF IInv, LoadedKnown

\* Whoever wrote the file, and however many at a time, a rule set that was
\* accepted is in order (serial.rs:554-613).
THEOREM AcceptedIsOrderedAlways == Spec => []AcceptedIsOrdered
<1>1. IInv => AcceptedIsOrdered
  BY LoadedIsOrdered DEF AcceptedIsOrdered
<1>. QED  BY <1>1, Invariance, PTL

\* The rule sets loaded that are numbered by position can be evaluated.
NumberedIsUsable ==
  \A r \in Reader :
    Is(loaded[r], "ok") /\ NumberedByPosition(loaded[r].ok) => Usable(loaded[r].ok)

\* The numbers of the rules are all that validate() leaves open of what an
\* evaluation takes for granted (serial.rs:554-613, evaluate.rs:62 and 89).
THEOREM NumberedIsUsableAlways == Spec => []NumberedIsUsable
<1>1. ASSUME NEW rs, Ordered(rs), NumberedByPosition(rs), DOMAIN rs.rules \subseteq Nat \ {0}
      PROVE  Usable(rs)
  <2>1. \A i \in DOMAIN rs.rules : Referenced(rs.rules[i].condition) \subseteq 1 .. i - 1
    BY <1>1 DEF Ordered, NumberedByPosition
  <2>. QED  BY <2>1, <1>1 DEF Ordered, NumberedByPosition, Usable, C!IndexedInOrder
<1>2. IInv => NumberedIsUsable
  BY <1>1, LoadedIsOrdered DEF NumberedIsUsable
<1>. QED  BY <1>2, Invariance, PTL

LEMMA LoadedIsAlike ==
  ASSUME IInv, NEW r \in Reader, NEW j \in DOMAIN saves,
         loaded[r] = Unpacked(PayloadFor(saves[j]))
  PROVE  Alike(loaded[r].ok, saves[j].ruleset)
<1>1. saves[j] \in Calls /\ loaded[r] = Ok(Reloaded(saves[j].ruleset))
  BY SavesAreCalls
<1>2. loaded[r].ok = Reloaded(saves[j].ruleset)
  BY <1>1 DEF Ok
<1>. QED  BY <1>1, <1>2, ReloadedIsAlike

\* A rule set that is loaded is one that was saved, or one whose hash is in the
\* header of a file that was found.
LoadedVouchedFor ==
  \A r \in Reader : Is(loaded[r], "ok") =>
    \/ \E i \in DOMAIN saves : Alike(loaded[r].ok, saves[i].ruleset)
    \/ \E f \in Delivered : \E payload \in Announced(f) : loaded[r] = Unpacked(payload)

\* Never a mixture of two saves or half of one, with any files in the place
\* (types/ruleset.rs:284-288, serial.rs:797-827).
THEOREM LoadedVouchedForAlways == Spec => []LoadedVouchedFor
<1>1. IInv => LoadedVouchedFor
  BY LoadedIsAlike DEF IInv, LoadedKnown, LoadedVouchedFor
<1>. QED  BY <1>1, Invariance, PTL

\* no file is found that has a header and not the payload it announces
FoundUndamaged ==
  \A f \in Delivered : Announced(f) # {} =>
    Decode(f) \notin {Err("LengthMismatch"), Err("ChecksumMismatch")}

\* If so, what is loaded is one that was saved or the whole of a file that was
\* found (types/ruleset.rs:284-288).
THEOREM LoadedMeansSavedAlways ==
  ASSUME FoundUndamaged
  PROVE  Spec => []LoadedMeansSaved
<1>1. IInv => LoadedMeansSaved
  <2>. SUFFICES ASSUME IInv, NEW r \in Reader, Is(loaded[r], "ok")
                PROVE  \/ \E i \in DOMAIN saves : Alike(loaded[r].ok, saves[i].ruleset)
                       \/ \E f \in Delivered : loaded[r] = Decode(f)
    BY DEF LoadedMeansSaved
  <2>1. CASE \E j \in DOMAIN saves : loaded[r] = Unpacked(PayloadFor(saves[j]))
    BY <2>1, LoadedIsAlike
  <2>2. ASSUME NEW f \in Delivered, \E payload \in Announced(f) : loaded[r] = Unpacked(payload),
               Decode(f) \notin {Err("LengthMismatch"), Err("ChecksumMismatch")} =>
                 loaded[r] = Decode(f)
        PROVE  loaded[r] = Decode(f)
    BY <2>2, FoundUndamaged DEF FoundUndamaged
  <2>. QED  BY <2>1, <2>2 DEF IInv, LoadedKnown
<1>. QED  BY <1>1, Invariance, PTL
=============================================================================
