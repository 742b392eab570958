------------------------------ MODULE BinaryCache ------------------------------
(***************************************************************************)
(* The cache file (types/ruleset.rs): to_binary_file writes a compiled     *)
(* rule set in place, from_binary_file reads one back, and nothing keeps   *)
(* writers and readers apart.  std::fs::write truncates the file and then  *)
(* writes at its own offset, as much at a time as the system takes;        *)
(* std::fs::read reads up to the end it finds, as much at a time as the    *)
(* system gives.  A writer may stop at any point: its process dies, or a   *)
(* write fails and is reported to its caller.                              *)
(***************************************************************************)
EXTENDS Serial, RuleSets

CONSTANTS
  Serialized, \* the conditions files may hold
  Sources,    \* texts a rule set may have been compiled from
  Calls,      \* the rule sets a program saves, with the source it gives or none
  Cuts,       \* bound: the offsets at which a system call may end early
  Delivered,  \* whole files that other programs have left in the place
  Writer, Reader,
  Absent,     \* there is no file
  MaxSaves    \* bound: calls of to_binary_file

ASSUME CutsAreOffsets == Cuts \subseteq Nat

NoCall == [none |-> TRUE]

\* Option<&str>, as the set of the texts given: one or none
Texts == {{}} \cup {{s} : s \in Sources}

(* What is taken for granted of the conditions: all that depends on how the  *)
(* recursive functions of serial.rs go through a condition.                  *)

ChainsNotEmpty(s) == \A n \in Nodes(s) : n.op \in {"And", "Or"} => n.children # <<>>

ReferencesIn(s) == {n.index : n \in {m \in Nodes(s) : m.op = "RuleRef"}}

\* The n-ary form has no other references, and its way back and forth again
\* changes nothing.
ASSUME ConditionsComeBack ==
  \A c \in CompiledCondition :
    /\ Flatten(c) \in Serialized
    /\ ChainsNotEmpty(Flatten(c))
    /\ ReferencesIn(Flatten(c)) \subseteq Referenced(c)
    /\ Refs(Unflatten(Flatten(c))) = Refs(c)
    /\ Flatten(Unflatten(Flatten(c))) = Flatten(c)

\* Indices are unsigned, and one that is evaluated was seen by validate_expr.
ASSUME ReferencesSeen ==
  \A s \in Serialized :
    /\ ReferencesIn(s) \subseteq Nat \ {0}
    /\ ChainsNotEmpty(s) => Referenced(Unflatten(s)) \subseteq ReferencesIn(s)

\* && and || are associative.
ASSUME MeaningComesBack ==
  \A call \in Calls, ctx \in Contexts :
    \A truth \in [DOMAIN call.ruleset.rules -> BOOLEAN] :
      \A i \in DOMAIN call.ruleset.rules :
        LET condition == call.ruleset.rules[i].condition
            fields    == FlattenContext(call.ruleset, ctx)
        IN  Holds(Unflatten(Flatten(condition)), fields, truth) = Holds(condition, fields, truth)

(* The rule sets saved are those compile() returns; their fields have the    *)
(* indices 1..len, each its own.                                             *)
FieldsDense(registry) ==
  /\ registry.len \in Nat
  /\ registry.paths \in Bijection(DOMAIN registry.paths, 1 .. registry.len)

FieldsRegistered(rs) ==
  \A i \in DOMAIN rs.rules : \A n \in Nodes(Flatten(rs.rules[i].condition)) :
    SlotsOf(n) \subseteq 1 .. rs.field_registry.len

ASSUME CallsSaveCompiled ==
  \A call \in Calls :
    LET rs == call.ruleset
    IN  /\ rs.rules \in Seq(C!CompiledRule)
        /\ rs.terminals \in Seq(C!Terminal)
        /\ rs.terminal_indices \in Seq(Nat)
        /\ C!IndexedInOrder(rs) /\ C!TerminalsResolved(rs) /\ C!PrioritiesAscend(rs)
        /\ FieldsDense(rs.field_registry)
        /\ FieldsRegistered(rs)

(* Of the files of other programs, no more than that what bincode reads has  *)
(* the types of serial.rs: indices are unsigned.                             *)
Typed(ser) ==
  /\ ser.rules \in Seq([index : Nat \ {0}, condition : Serialized])
  /\ ser.terminals \in Seq([rule_index : Nat \ {0}, name : Name, priority : Nat])

\* the payload the header of a file vouches for: one or none
Announced(f) ==
  {f[i].hash : i \in {k \in DOMAIN f : k = HEADER_SIZE /\ Is(f[k], "hash")}}

ASSUME DeliveredTyped ==
  \A f \in Delivered :
    /\ f \in Seq(Range(f))
    /\ \A payload \in Announced(f) : \A ser \in DecodePayload(payload) : Typed(ser)

VARIABLES
  file,    \* the bytes, or Absent
  writer,  \* the bytes each writer is to write and how many it has written
  reader,  \* whether each reader is reading, and what it has read
  loaded,  \* the result of each reader's last call, NoCall before the first
  (* observed, for the properties only *)
  saves,      \* the calls of to_binary_file so far
  overlapped, \* another writer was at work since the file was last empty
  settled     \* the save the file holds if it was completed and undisturbed: one or none

vars == <<file, writer, reader, loaded, saves, overlapped, settled>>

Idle       == [bytes |-> <<>>, at |-> 0]
NotReading == [reading |-> FALSE, bytes |-> <<>>]

Writing == {w \in Writer : writer[w] # Idle}

Init ==
  /\ file \in {Absent} \cup Delivered
  /\ writer = [w \in Writer |-> Idle]
  /\ reader = [r \in Reader |-> NotReading]
  /\ loaded = [r \in Reader |-> NoCall]
  /\ saves = <<>>
  /\ overlapped = FALSE
  /\ settled = {}

-----------------------------------------------------------------------------
\* to_bytes, and File::create
ToBinaryFile(w, call) ==
  /\ writer[w] = Idle
  /\ Len(saves) < MaxSaves
  /\ writer' = [writer EXCEPT ![w] = [bytes |-> Encode(call.ruleset, call.source), at |-> 0]]
  /\ file' = <<>>
  /\ saves' = Append(saves, call)
  /\ overlapped' = (Writing # {})
  /\ settled' = {}
  /\ UNCHANGED <<reader, loaded>>

\* how much of a sequence a system call moves that starts at an offset
Amounts(at, length) == {k - at : k \in {m \in Cuts \cup {length} : at < m /\ m <= length}}

\* A write beyond the end leaves zeros before it.
Zero == [zero |-> 0]

Overlay(f, at, part) ==
  [i \in 1 .. Max({Len(f), at + Len(part)}) |->
     IF i \in at + 1 .. at + Len(part) THEN part[i - at]
     ELSE IF i <= Len(f) THEN f[i] ELSE Zero]

\* one write(2) of write_all; with the last of them the call returns Ok
WriteSome(w) ==
  /\ writer[w] # Idle
  /\ LET bytes == writer[w].bytes
         at    == writer[w].at
     IN  \E n \in Amounts(at, Len(bytes)) :
           /\ file' = Overlay(file, at, SubSeq(bytes, at + 1, at + n))
           /\ IF at + n = Len(bytes)
                THEN /\ writer' = [writer EXCEPT ![w] = Idle]
                     /\ settled' = IF overlapped THEN {} ELSE {saves[Len(saves)]}
                ELSE /\ writer' = [writer EXCEPT ![w].at = @ + n]
                     /\ UNCHANGED settled
  /\ UNCHANGED <<reader, loaded, saves, overlapped>>

\* the process dies, or a write fails and to_binary_file returns the error
Stop(w) ==
  /\ writer[w] # Idle
  /\ writer' = [writer EXCEPT ![w] = Idle]
  /\ UNCHANGED <<file, reader, loaded, saves, overlapped, settled>>

\* Nothing to open: the call returns an I/O error.
OpenFails(r) ==
  /\ ~reader[r].reading
  /\ file = Absent
  /\ loaded' = [loaded EXCEPT ![r] = Err("Io")]
  /\ UNCHANGED <<file, writer, reader, saves, overlapped, settled>>

FromBinaryFile(r) ==
  /\ ~reader[r].reading
  /\ file # Absent
  /\ reader' = [reader EXCEPT ![r] = [reading |-> TRUE, bytes |-> <<>>]]
  /\ UNCHANGED <<file, writer, loaded, saves, overlapped, settled>>

ReadSome(r) ==
  /\ reader[r].reading
  /\ LET at == Len(reader[r].bytes)
     IN  \E n \in Amounts(at, Len(file)) :
           reader' = [reader EXCEPT ![r].bytes = @ \o SubSeq(file, at + 1, at + n)]
  /\ UNCHANGED <<file, writer, loaded, saves, overlapped, settled>>

\* the end of the file: from_bytes
ReadEnd(r) ==
  /\ reader[r].reading
  /\ Len(reader[r].bytes) >= Len(file)
  /\ loaded' = [loaded EXCEPT ![r] = Decode(reader[r].bytes)]
  /\ reader' = [reader EXCEPT ![r] = NotReading]
  /\ UNCHANGED <<file, writer, saves, overlapped, settled>>

Next ==
  \/ \E w \in Writer :
       \/ \E call \in Calls : ToBinaryFile(w, call)
       \/ WriteSome(w)
       \/ Stop(w)
  \/ \E r \in Reader : OpenFails(r) \/ FromBinaryFile(r) \/ ReadSome(r) \/ ReadEnd(r)

Spec == Init /\ [][Next]_vars

-----------------------------------------------------------------------------
\* A rule set that from_binary_file returns is one that was saved, in everything
\* it answers, or the whole of a file that was delivered: never a mixture of two
\* saves, half of one, or a save that changed its meaning on the way through the
\* n-ary form (types/ruleset.rs:284-288, serial.rs:797-827).
LoadedMeansSaved ==
  \A r \in Reader : Is(loaded[r], "ok") =>
    \/ \E f \in Delivered : loaded[r] = Decode(f)
    \/ \E i \in DOMAIN saves : Alike(loaded[r].ok, saves[i].ruleset)

\* A save that was completed and that no other writer ran into can be read back:
\* nothing to_binary_file writes is refused by from_binary_file
\* (types/ruleset.rs:268-276, serial.rs:554-613).
SettledFileLoads ==
  \A s \in settled : Is(Decode(file), "ok") /\ Alike(Decode(file).ok, s.ruleset)

\* The digest of the source is gone once a file is decoded (serial.rs:513-548).
\* A caller can still tell whether the source has changed: saving again what was
\* loaded gives the bytes of the file if, and only if, it is given the source
\* they were made from (types/ruleset.rs:237-239).
DigestTellsStaleness ==
  \A s \in settled, source \in Texts :
    Is(Decode(file), "ok") =>
      (Encode(Decode(file).ok, source) = file <=> source = s.source)

\* A save that was cut short, by a crash or an error, looks short: as long as
\* writers do not overlap, the file is never taken for corrupt or for somebody
\* else's (serial.rs:757-763, 807-813).
CrashLooksShort ==
  saves # <<>> /\ ~overlapped =>
    Is(Decode(file), "ok") \/ Decode(file) = Err("LengthMismatch")

\* Whoever wrote the file, a rule set that passed validation is in order: rules
\* refer to rules there are, which come before the number they carry, terminals
\* to rules there are, in the order of their priorities (serial.rs:554-613).
AcceptedIsOrdered ==
  \A r \in Reader : Is(loaded[r], "ok") => Ordered(loaded[r].ok)

\* "The `index` field is the rule's position in topological (dependency) order"
\* (types/rule.rs:20), in the rule sets that are loaded as in those compiled; the
\* evaluator writes its results there (evaluate.rs:62 and 89).  Expected to fail:
\* validate() does not compare the two, and of a file numbered otherwise, a
\* result is never written or lies beyond the last.
AcceptedIsNumbered ==
  \A r \in Reader : Is(loaded[r], "ok") => NumberedByPosition(loaded[r].ok)
=============================================================================
