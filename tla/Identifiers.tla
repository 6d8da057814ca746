----------------------------- MODULE Identifiers -----------------------------
(***************************************************************************)
(* Universal labels, UUIDs and UMIDs, the texts that they are written as   *)
(* and read from, and the labels that are known by name (Label, and the    *)
(* symbol space of their names).                                           *)
(*                                                                         *)
(* A UUID object keeps a universal label with its halves exchanged, and a  *)
(* UL object a UUID so.  Which of the two a text shows is said by its URN  *)
(* or its brackets, and each reader exchanges the halves for what is not   *)
(* its own.                                                                *)
(*                                                                         *)
(* A text has a form, the bytes in the order it shows them, and the name   *)
(* of a label that stands before them or instead of them.                  *)
(***************************************************************************)
EXTENDS Integers, Sequences, FiniteSetsExt, SequencesExt

CONSTANTS
    Identities,     \* universal labels, and UUIDs as a UL object keeps them
    Basic,          \* the first sixteen bytes of a UMID
    LabelDefs,      \* labels of dictionaries: name, value and the bytes that do not count
    MaxLabels       \* no more labels are inserted

VARIABLES
    class,          \* of the object that holds the identifier: "UL", "UUID" or "UMID"
    ident,          \* its bytes
    text,           \* what has been written last
    truth,          \* the identity it is to have, as a UL object keeps it
    labels,         \* the labels that have been inserted
    symbols,        \* the identifiers of their names
    labelFormat     \* LabelFormatOption

vars == <<class, ident, text, truth, labels, symbols, labelFormat>>

NoName == "none"

NoText == [form |-> "none", bytes |-> << >>, label |-> NoName]

SMPTE == <<6, 14, 43, 52>>

Swap(bytes) == SubSeq(bytes, 9, 16) \o SubSeq(bytes, 1, 8)

\* A UUID object that keeps a universal label as it is.
Unswapped(bytes) == bytes[9] < 128 /\ SubSeq(bytes, 1, 4) = SMPTE

-----------------------------------------------------------------------------
\* Labels.

\* The names of labels with mask are in a multimap; the others only once.
Exact(value) == {l \in Range(labels) : l.mask = {} /\ l.value = value}

Masked(value) == {l \in Range(labels) : l.mask # {} /\ \A i \in 1..16 : i \in l.mask \/ l.value[i] = value[i]}

\* Label::Find: the label itself, or one with the least mask.
Find(value) ==
    IF Exact(value) # {} THEN Exact(value)
    ELSE {l \in Masked(value) : \A m \in Masked(value) : Cardinality(l.mask) <= Cardinality(m.mask)}

TextOnly(l) == labelFormat = "Text" \/ (labelFormat = "TextHexMask" /\ l.mask = {})

\* Label::Find by name, and is the value one of the label's?
Named(name) == CHOOSE l \in Range(labels) : l.name = name

LabelMatches(name, value) == \A i \in 1..16 : i \in Named(name).mask \/ Named(name).value[i] = value[i]

\* Label and identifier as the label format says.
WithLabel(found, plain) ==
    IF found = {} \/ labelFormat = "Hex" THEN {plain}
    ELSE {IF TextOnly(l) THEN [NoText EXCEPT !.label = l.name] ELSE [plain EXCEPT !.label = l.name] : l \in found}

-----------------------------------------------------------------------------
\* Writing.

Text(form, bytes) == [form |-> form, bytes |-> bytes, label |-> NoName]

Formats == {"Braced", "Hex", "URN", "x-ul", "Dotted", "0x", "OID", "AAF"}

UMIDFormats == {"Braced", "URN"}

Unsupported == {"0x", "OID", "AAF"}

Plain(format, bytes) == Text(IF format = "Hex" THEN "hex" ELSE "dotted", bytes)

URNOf(format) == IF format = "URN" THEN "urn:smpte:ul" ELSE "urn:x-ul"

\* UL::FormatString: the first byte tells in brackets, the ninth in a URN.
ULText(bytes, format) ==
    CASE format \in {"Braced"} \cup Unsupported -> IF bytes[1] < 128 THEN Text("[]", bytes) ELSE Text("{}", Swap(bytes))
      [] format \in {"URN", "x-ul"} -> IF bytes[9] < 128 THEN Text(URNOf(format), bytes) ELSE Text("urn:uuid", Swap(bytes))
      [] OTHER -> Plain(format, bytes)

\* UUID::FormatString.
UUIDText(bytes, format) ==
    CASE format \in {"Braced"} \cup Unsupported ->
            IF bytes[9] >= 128 \/ Unswapped(bytes) THEN Text("{}", bytes) ELSE Text("[]", Swap(bytes))
      [] format \in {"URN", "x-ul"} ->
            IF bytes[9] >= 128 THEN Text("urn:uuid", bytes)
            ELSE Text(URNOf(format), IF Unswapped(bytes) THEN bytes ELSE Swap(bytes))
      [] OTHER -> Plain(format, bytes)

\* UMID::FormatString: the brackets are those of the material number.
UMIDText(bytes, format) ==
    LET basic == SubSeq(bytes, 1, 16)
        material == SubSeq(bytes, 17, 32)
    IN IF format = "URN" THEN Text("urn:smpte:umid", bytes)
       ELSE IF material[9] < 128 THEN Text("[]", basic \o Swap(material)) ELSE Text("{}", bytes)

\* Only universal labels that a UUID object keeps as they are have a label there.
Texts(format) ==
    CASE class = "UL" -> WithLabel(Find(ident), ULText(ident, format))
      [] class = "UUID" -> WithLabel(IF Unswapped(ident) THEN Find(ident) ELSE {}, UUIDText(ident, format))
      [] class = "UMID" -> {UMIDText(ident, format)}

-----------------------------------------------------------------------------
\* Reading.

\* A byte takes two digits at most: a number of three is two bytes.
Decimal(n) == IF n < 100 THEN <<n>> ELSE <<n \div 10, n % 10>>

Scanned(t) == IF t.form = "urn:oid" THEN FlattenSeq([i \in DOMAIN t.bytes |-> Decimal(t.bytes[i])]) ELSE t.bytes

\* Sixteen bytes, with zeros for what is not there.
Padded(bytes) == [i \in 1..16 |-> IF i <= Len(bytes) THEN bytes[i] ELSE 0]

\* The universal label of an OID below 1.3.52 has four bytes for these three.
FromOID(bytes) == IF SubSeq(bytes, 1, 3) = <<1, 3, 52>> THEN SMPTE \o SubSeq(bytes, 4, 15) ELSE bytes

URNsOfUL == {"urn:smpte:ul", "urn:x-ul", "urn:x-ul:groups"}

\* For comparison: the URN is not looked at.
ReadUUIDBrackets(t) == IF t.form = "[]" THEN Swap(Padded(Scanned(t))) ELSE Padded(Scanned(t))

\* MDTraits_UUID::SetString.
ReadUUID(t) ==
    LET bytes == Padded(Scanned(t))
        oid == FromOID(bytes)
    IN IF t.form = "urn:oid" THEN IF oid = bytes THEN bytes ELSE Swap(oid)
       ELSE IF t.form \in URNsOfUL \cup {"[]"} THEN Swap(bytes) ELSE bytes

\* StringToUL.
StringToUL(t) ==
    LET bytes == Padded(Scanned(t)) IN
    IF t.form = "urn:oid" THEN FromOID(bytes) ELSE IF t.form \in {"urn:uuid", "{}"} THEN Swap(bytes) ELSE bytes

\* MDTraits_Label::SetString: the first word may be the name of a label.
ReadLabel(t) == IF t.label # NoName THEN symbols[t.label] ELSE StringToUL(t)

\* UL, UUID and UMID::SetString, and MDTraits_UMID::SetString: only the brackets count.
ReadBrackets(t, foreign) ==
    IF Len(t.bytes) = 16 THEN IF t.form = foreign THEN Swap(t.bytes) ELSE t.bytes
    ELSE SubSeq(t.bytes, 1, 16) \o IF t.form = "[]" THEN Swap(SubSeq(t.bytes, 17, 32)) ELSE SubSeq(t.bytes, 17, 32)

Foreign(c) == IF c = "UL" THEN "{}" ELSE "[]"

IsSMPTEKey(bytes) == bytes[1] = 6 /\ bytes[2] \in {10, 14}

\* Bytes with the top bit are the upper bits of the next one.
Unfolded(bytes) ==
    LET Step(s, byte) ==
            LET n == (128 * s.upper + (byte % 128)) % 256 IN
            IF byte >= 128 THEN [s EXCEPT !.upper = n] ELSE [out |-> Append(s.out, n), upper |-> 0]
        end == FoldLeft(Step, [out |-> << >>, upper |-> 0], bytes)
    IN Append(end.out, end.upper)

\* The constructor of UL from a text: of a SMPTE key the second half is unfolded,
\* with 0x0a four bytes of it; what it does not recognise is the null identifier.
NewUL(t) ==
    LET bytes == IF t.form = "{}" THEN Swap(Padded(t.bytes)) ELSE Padded(t.bytes)
        count == IF bytes[2] = 10 THEN 4 ELSE 8
    IN IF t.form \notin {"[]", "{}", "urn:x-ul:groups", "dotted", "urn:uuid"} \/ t.label # NoName THEN Padded(<< >>)
       ELSE IF IsSMPTEKey(bytes) /\ t.form # "urn:uuid"
            THEN Padded(SubSeq(bytes, 1, 8) \o SubSeq(Unfolded(SubSeq(bytes, 9, 8 + count)), 1, count))
       ELSE bytes

\* UL::Matches looks neither at the version nor at the coding of a group, if it
\* is a universal label; otherwise it looks at the first twice.
Matches(a, b) ==
    /\ \A i \in 1..16 \ {6, 8} : a[i] = b[i]
    /\ a[6] = b[6] \/ (a[5] = 2 /\ a[1] = 6)

-----------------------------------------------------------------------------
\* An identifier as each class keeps it.
Kept(c, id) == CASE c = "UL" -> id [] c = "UUID" -> Swap(id) [] c = "UMID" -> Basic \o Swap(id)

Become(c, bytes) == class' = c /\ ident' = bytes

Init ==
    /\ class \in {"UL", "UUID", "UMID"} /\ truth \in Identities /\ ident = Kept(class, truth)
    /\ text = NoText /\ labels = << >> /\ symbols = << >> /\ labelFormat = "Text"

Write(format) ==
    /\ class = "UMID" => format \in UMIDFormats
    /\ class = "UUID" /\ Unswapped(ident) => format \in {"Braced", "Hex"} /\ (Find(ident) = {} \/ labelFormat = "Hex")
    /\ text' \in Texts(format)
    /\ UNCHANGED <<class, ident, truth, labels, symbols, labelFormat>>

\* UL and UUID are assigned to each other.
Convert ==
    /\ class \in {"UL", "UUID"} /\ Become(IF class = "UL" THEN "UUID" ELSE "UL", Swap(ident))
    /\ text' = NoText /\ UNCHANGED <<truth, labels, symbols, labelFormat>>

\* What only the bytes of the writer's class show needs a reader of it.
Shown(t, c) == t.form \notin {"none", "hex", "dotted"} \/ (t.form \in {"hex", "dotted"} /\ class = c)

Settle(c, bytes) == Become(c, bytes) /\ text' = NoText /\ UNCHANGED <<truth, labels, symbols, labelFormat>>

\* The traits of UUID properties.
AsUUID == Len(text.bytes) <= 16 /\ text.label = NoName /\ Shown(text, "UUID") /\ Settle("UUID", ReadUUID(text))

\* The traits of label properties: a name stands for the value of its label,
\* and for what the label does not count.
AsLabel ==
    /\ Len(text.bytes) <= 16 /\ (Shown(text, "UL") \/ text.label # NoName)
    /\ Become("UL", ReadLabel(text)) /\ text' = NoText
    /\ \/ text.label = NoName /\ truth' = truth
       \/ \E l \in Range(labels) :
             l.name = text.label /\ truth' = [i \in 1..16 |-> IF i \in l.mask THEN l.value[i] ELSE truth[i]]
    /\ UNCHANGED <<labels, symbols, labelFormat>>

\* Names have other letters than hexadecimal digits, and are rejected.
FromString == Len(text.bytes) <= 16 /\ text.label = NoName /\ Shown(text, "UL") /\ Settle("UL", StringToUL(text))

\* SetString of the classes takes the letters of a URN for digits, but for UMIDs.
AsClass(c) ==
    /\ text.label = NoName /\ Shown(text, c) /\ (c = "UMID" <=> Len(text.bytes) = 32)
    /\ text.form \in {"[]", "{}", "hex", "dotted"} \/ c = "UMID"
    /\ Settle(c, ReadBrackets(text, Foreign(c)))

\* No bytes with a top bit in the second half of a SMPTE key; a UUID in brackets.
Construct ==
    /\ Len(text.bytes) = 16 /\ text.label = NoName /\ Shown(text, "UL")
    /\ text.form \in {"[]", "{}", "urn:x-ul:groups", "dotted"}
    /\ IsSMPTEKey(truth) => truth[2] = 14 /\ \A i \in 9..16 : truth[i] < 128
    /\ Settle("UL", NewUL(text))

\* Someone writes an OID below 1.3.52, or a URN in the groups of the brackets.
Given(id) ==
    /\ \/ SubSeq(id, 1, 4) = SMPTE /\ (\A i \in 5..16 : id[i] < 100)
          /\ text' = Text("urn:oid", <<1, 3, 52>> \o SubSeq(id, 5, 16))
       \/ text' = Text("urn:x-ul:groups", id)
    /\ truth' = id /\ Become("UL", id) /\ UNCHANGED <<labels, symbols, labelFormat>>

\* Label::Insert, and the name of what was inserted, unless there is one already.
InsertLabel(def) ==
    /\ Len(labels) < MaxLabels
    /\ IF def.mask = {} /\ Exact(def.value) # {} THEN UNCHANGED <<labels, symbols>>
       ELSE /\ labels' = Append(labels, def)
            /\ symbols' = [n \in DOMAIN symbols \cup {def.name} |-> IF n \in DOMAIN symbols THEN symbols[n] ELSE def.value]
    /\ UNCHANGED <<class, ident, text, truth, labelFormat>>

SetLabelFormat(format) == labelFormat' = format /\ text' = NoText /\ UNCHANGED <<class, ident, truth, labels, symbols>>

Next ==
    \/ \E format \in Formats : Write(format)
    \/ Convert \/ AsUUID \/ AsLabel \/ FromString \/ Construct
    \/ \E c \in {"UL", "UUID", "UMID"} : AsClass(c)
    \/ \E id \in Identities : Given(id)
    \/ \E def \in LabelDefs : InsertLabel(def)
    \/ \E format \in {"Text", "Hex", "TextHex", "TextHexMask"} : SetLabelFormat(format)

Spec == Init /\ [][Next]_vars

-----------------------------------------------------------------------------
\* Universal labels that are the same but for version or coding, or differ.
Variants(id) ==
    {id, [id EXCEPT ![8] = 9], [id EXCEPT ![6] = 83], [id EXCEPT ![5] = 2], [id EXCEPT ![5] = 2, ![6] = 83], [id EXCEPT ![9] = 14]}

\* All that a version and the coding of a group do not change.
Meaning(id) == [i \in 1..16 \ IF id[5] = 2 THEN {6, 8} ELSE {8} |-> id[i]]

\* An identifier remains what it is, through any chain of texts, readers and classes; a
\* label's name stands for nothing but what the label matches; and universal labels that
\* mean the same match.
IdentityTrue ==
    /\ ident = Kept(class, truth)
    /\ text.label # NoName => LabelMatches(text.label, truth)
    /\ class = "UL" /\ truth[1] = 6 =>
          \A a \in Variants(ident), b \in Variants(truth) : Matches(a, b) <=> Meaning(a) = Meaning(b)

=============================================================================
