-------------------------------- MODULE Values --------------------------------
(***************************************************************************)
(* Value (types/value.rs): the dynamically typed values a rule compares,   *)
(* and their partial order.  A value is a record with one field, named for *)
(* its variant.  A float counts halves, so that it can fall between two    *)
(* integers; NaN is a variant of its own.  A string is a sequence of       *)
(* bytes.  Equality goes down into lists and is a parameter.               *)
(***************************************************************************)
EXTENDS Like, Variants

CONSTANTS
  Mantissa,        \* bits of precision of a float (53 for an f64)
  Limit,           \* a bound of the integers (2^63 for an i64)
  Equals(_, _)     \* derived PartialEq

ASSUME FloatsAreBounded == Mantissa \in Nat \ {0, 1} /\ Limit \in Nat

Int_(i)   == [int |-> i]
Half(h)   == [float |-> h]      \* the float h/2
NaN       == [nan |-> TRUE]
Bool(b)   == [bool |-> b]
String(s) == [string |-> s]
List(vs)  == [list |-> vs]

-----------------------------------------------------------------------------
(* Orderings: Some(Less), Some(Equal), Some(Greater) or None. *)

Less    == "Less"
Equal   == "Equal"
Greater == "Greater"
None    == "None"

CmpInt(a, b) == IF a < b THEN Less ELSE IF a = b THEN Equal ELSE Greater

\* false < true
CmpBool(a, b) == IF a = b THEN Equal ELSE IF b THEN Less ELSE Greater

\* lexicographic, by bytes
CmpString(a, b) ==
  LET Common == {i \in 1 .. Len(a) : i <= Len(b)}
      Differ == {i \in Common : a[i] # b[i]}
  IN  IF Differ = {} THEN CmpInt(Len(a), Len(b))
      ELSE LET i == CHOOSE j \in Differ : \A k \in Differ : j <= k
           IN  CmpInt(a[i], b[i])

\* n is made up of so many bits, and zeros behind them
OfBits(n, bits) ==
  n = 0 \/ \E zeros \in 0 .. Limit : -2^(zeros + bits) < n /\ n < 2^(zeros + bits)
                                        /\ n % 2^zeros = 0

\* `i as f64`, in halves: the nearest float, of two the one with an even mantissa
AsFloat(i) ==
  LET Floats(d) == {x \in {i - d, i + d} : OfBits(x, Mantissa)}
      gap       == CHOOSE d \in 0 .. Limit : Floats(d) # {} /\ \A c \in 0 .. d - 1 : Floats(c) = {}
      even      == {x \in Floats(gap) : OfBits(x, Mantissa - 1)}
  IN  2 * CHOOSE x \in Floats(gap) : x \in even \/ even = {}

\* Faulty: the operands of the last mixed comparison are in the wrong order.
X_PartialCmpValue_Crossed(a, b) ==
  CASE Is(a, "int")    /\ Is(b, "int")    -> CmpInt(a.int, b.int)
    [] Is(a, "float")  /\ Is(b, "float")  -> CmpInt(a.float, b.float)
    [] Is(a, "int")    /\ Is(b, "float")  -> CmpInt(AsFloat(a.int), b.float)
    [] Is(a, "float")  /\ Is(b, "int")    -> CmpInt(AsFloat(b.int), a.float)
    [] Is(a, "bool")   /\ Is(b, "bool")   -> CmpBool(a.bool, b.bool)
    [] Is(a, "string") /\ Is(b, "string") -> CmpString(a.string, b.string)
    [] OTHER -> None

PartialCmpValue(a, b) ==
  CASE Is(a, "int")    /\ Is(b, "int")    -> CmpInt(a.int, b.int)
    [] Is(a, "float")  /\ Is(b, "float")  -> CmpInt(a.float, b.float)
    [] Is(a, "int")    /\ Is(b, "float")  -> CmpInt(AsFloat(a.int), b.float)
    [] Is(a, "float")  /\ Is(b, "int")    -> CmpInt(a.float, AsFloat(b.int))
    [] Is(a, "bool")   /\ Is(b, "bool")   -> CmpBool(a.bool, b.bool)
    [] Is(a, "string") /\ Is(b, "string") -> CmpString(a.string, b.string)
    [] OTHER -> None  \* other pairs of types, and NaN against anything

CompareOps == {"Eq", "Neq", "Gt", "Gte", "Lt", "Lte"}

Holding(op, ord) ==
  CASE op = "Eq"  -> ord = Equal
    [] op = "Neq" -> ord # Equal
    [] op = "Gt"  -> ord = Greater
    [] op = "Gte" -> ord # Less
    [] op = "Lt"  -> ord = Less
    [] op = "Lte" -> ord # Greater

\* Value::compare, as the set of its results: {} for None, {b} for Some(b)
Compare(a, op, b) ==
  IF Is(a, "list") /\ Is(b, "list")
    THEN CASE op = "Eq"  -> {Equals(a, b)}
           [] op = "Neq" -> {~Equals(a, b)}
           [] OTHER      -> {}
    ELSE LET ord == PartialCmpValue(a, b)
         IN  IF ord = None THEN {} ELSE {Holding(op, ord)}

\* `.compare(..) == Some(true)` and `.compare(..).unwrap_or(false)`
CompareHolds(a, op, b) == TRUE \in Compare(a, op, b)

\* like_match
LikeMatch(v, p) == Matches(v, p)
=============================================================================
