------------------------------ MODULE Redaction ------------------------------
(***************************************************************************)
(* What common/log writes of a value with secrets in it: doLog has every   *)
(* field of the log record filtered by common/utils/desensitization, which *)
(* works on a copy.  An application logs a value any number of times.      *)
(*                                                                         *)
(* A value is what it is on top and its fields.  A field has a kind, a     *)
(* name and a text or, if it is composed, fields of its own; those of a    *)
(* slice are all its elements' fields.  A text is a sequence of ASCII      *)
(* characters, "x" being any but "*".                                      *)
(***************************************************************************)
EXTENDS Naturals, Sequences, FiniteSets

CONSTANT Lengths  \* of texts

ASSUME RedactionAssumption == Lengths \subseteq Nat

VARIABLES value, logged, original \* the last one is a ghost

logVars == <<value, logged, original>>

Password == {"password", "Password"}
Phone == {"phone", "Phone"}
Secret == Password \cup Phone

Plain == { [i \in 1..n |-> "x"] : n \in Lengths }

\* "pointer" is one to a string, "strings" a slice of them; "uint" stands for
\* all kinds that DeepCopyV2 does not list, "private" is a struct whose fields
\* are not exported, such as time.Time.
Leaves ==
    [kind : {"string", "pointer", "strings"}, name : {"Password", "Phone", "Note"},
     text : Plain, of : {{}}]
    \cup [kind : {"uint", "private", "nil"}, name : {"Note"}, text : {<<"x">>}, of : {{}}]

Composed ==
    [kind : {"struct", "structPointer", "slice", "map", "interface"}, name : {"Note"},
     text : {<<>>}, of : {{}} \cup {{l} : l \in Leaves}]

\* A message generated by protoc has no embedded structs, and no private data.
Values ==
    { v \in [top : {"proto", "struct", "list"},
             fields : {{c} : c \in Composed} \cup {{l, k} : l, k \in Leaves}] :
        v.top = "proto" => \A f \in v.fields :
            f.kind \notin {"struct", "private"} /\ \A g \in f.of : g.kind # "private" }
    \cup [top : {"string"}, fields : {{l} : l \in {k \in Leaves : k.kind = "string"}}]

RedactionInit ==
    /\ value \in Values
    /\ original = value
    /\ logged = [how |-> "nothing", fields |-> {}]

-----------------------------------------------------------------------------
\* Too much is shown at the end.
BugMaskPhone(text) ==
    [i \in DOMAIN text |-> IF i \in 4..(Len(text) - 3) THEN "*" ELSE text[i]]

MaskPhone(text) ==
    LET pre == IF Len(text) >= 10 THEN 3 ELSE 2
    IN [i \in DOMAIN text |-> IF i \in (pre + 1)..(Len(text) - 2) THEN "*" ELSE text[i]]

dsRules(name, text) ==
    CASE name \in Password -> [i \in DOMAIN text |-> "*"]
      [] name \in Phone -> MaskPhone(text)
      [] OTHER -> text

\* What reflection refuses: the element of a nil pointer, a struct in the
\* place of a pointer to it, Field(i) of a slice, and a copy as reflect.Value.
RefusesItself(f) ==
    \/ f.kind \in {"nil", "strings", "structPointer"}
    \/ f.kind \in {"slice", "map"} /\ f.of # {}

Refuses(f) == RefusesItself(f) \/ (f.kind \in {"struct", "interface"} /\ \E g \in f.of : RefusesItself(g))

\* What DeepCopyV2 leaves zero: the kinds that it does not list, and what
\* cannot be set.
Zeroed == {"uint", "private"}

\* Strings behind pointers are not copied but shared.
Copied(f, of) ==
    CASE f.kind \in Zeroed -> [f EXCEPT !.text = <<>>]
      [] f.kind \in {"struct", "interface"} -> [f EXCEPT !.of = of]
      [] OTHER -> f

\* The recursion of the code has two levels, as the values have.
DeepCopyV2(fields) == { Copied(f, {Copied(g, {}) : g \in f.of}) : f \in fields }

\* A field that is not settable is left alone, with all there is in it.
Transformed(f, settable, of) ==
    IF ~(settable \/ f.kind \in {"pointer", "structPointer"}) THEN f
    ELSE CASE f.kind \in {"string", "pointer"} -> [f EXCEPT !.text = dsRules(f.name, @)]
           [] f.kind \in {"struct", "structPointer", "slice"} -> [f EXCEPT !.of = of]
           [] OTHER -> f

findAndTransform(fields, settable) ==
    { Transformed(f, settable, {Transformed(g, TRUE, {}) : g \in f.of}) : f \in fields }

\* The copy of a message is a pointer, that of another struct is not, and its
\* fields are not settable.
desensitization(v) ==
    CASE v.top = "list" -> v.fields
      [] v.top = "proto" -> findAndTransform(v.fields, TRUE)
      [] v.top = "struct" -> findAndTransform(DeepCopyV2(v.fields), FALSE)

FilterField(v) ==
    IF v.top = "string" THEN { [f EXCEPT !.text = dsRules(f.name, @)] : f \in v.fields }
                        ELSE desensitization(v)

\* Messages are not copied.
BugShared(v) == { [f EXCEPT !.text = dsRules(f.name, @)] : f \in v.fields }

\* What the application's value becomes: it shares strings with the copy.
Shared(v) ==
    { IF v.top = "struct" /\ f.kind = "pointer" THEN [f EXCEPT !.text = dsRules(f.name, @)] ELSE f
        : f \in v.fields }

Panics(v) == v.top = "struct" /\ \E f \in v.fields : Refuses(f)

doLog ==
    /\ IF Panics(value)
       THEN logged' = [how |-> "panic", fields |-> {}] /\ UNCHANGED value
       ELSE /\ logged' = [how |-> "written", fields |-> FilterField(value)]
            /\ value' = [value EXCEPT !.fields = Shared(value)]
    /\ UNCHANGED original

RedactionSpec == RedactionInit /\ [][doLog]_logVars

-----------------------------------------------------------------------------
Visible(f) == Cardinality({i \in DOMAIN f.text : f.text[i] # "*"})

Hidden(f) ==
    Visible(f) <= (CASE f.name \in Password -> 0
                     [] f.name \in Phone -> IF Len(f.text) >= 10 THEN 5 ELSE 4
                     [] OTHER -> Len(f.text))

Strings(fields) == {f \in fields : f.kind \in {"string", "pointer"}}

\* No password, and no more of a phone number than MaskPhone's comment allows,
\* is written of the single strings of a message and of the messages in it,
\* unless these are behind an interface, which is a oneof, or in a map; a
\* repeated string is written as it is, whatever its name.  Of another struct,
\* only what is behind a pointer is hidden.
Redacted ==
    \A f \in logged.fields :
        /\ value.top \in {"proto", "string"} /\ f.kind \in {"string", "pointer"} => Hidden(f)
        /\ value.top = "proto" /\ f.kind \in {"structPointer", "slice"} =>
            \A g \in Strings(f.of) : Hidden(g)
        /\ value.top = "struct" /\ f.kind = "pointer" => Hidden(f)

Erase(f) == IF f.name \in Secret THEN [f EXCEPT !.text = <<>>] ELSE f
Public(fields) == { [Erase(f) EXCEPT !.of = {Erase(g) : g \in f.of}] : f \in fields }

HasZeroed(fields) == \E f \in fields : f.kind \in Zeroed \/ \E g \in f.of : g.kind \in Zeroed

\* Logging leaves the application's value as it was, but for a secret behind a
\* pointer in a struct.  What is written is the value but for its secrets,
\* unless it is a struct that has something in it of a kind that DeepCopyV2
\* does not list, or private fields: these come out zero.
Harmless ==
    /\ \/ value = original
       \/ value.top = "struct" /\ \E f \in original.fields : f.kind = "pointer" /\ f.name \in Secret
    /\ logged.how = "written" /\ (value.top = "struct" => ~HasZeroed(original.fields)) =>
        Public(logged.fields) = Public(original.fields)

=============================================================================
