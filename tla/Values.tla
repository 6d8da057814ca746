------------------------------- MODULE Values -------------------------------
(***************************************************************************)
(* The values of metadata (MDObject and its traits): what a set or a pack  *)
(* holds, what it says when it is written, and what another program that   *)
(* reads it makes of that.                                                 *)
(*                                                                         *)
(* A value has a type: an integer of so many bytes, raw bytes, an array or *)
(* batch of items of a base type, or a compound of parts.  Integers and    *)
(* raw values are bytes, the others have items.  A scene is the class of   *)
(* the object: a set or a pack, how it writes keys and lengths, and its    *)
(* properties with tag and type.                                           *)
(*                                                                         *)
(* A byte has four bits here, so that eight of them fit an integer of TLC; *)
(* the top bit is the sign, the mark of a long length and of a key that    *)
(* goes on, as it is in a byte of eight.                                   *)
(***************************************************************************)
EXTENDS Integers, Sequences, FiniteSetsExt, SequencesExt

CONSTANTS
    Scenes,     \* classes of objects
    Numbers,    \* numbers that are set
    Lists,      \* lists of numbers that are set
    Strings,    \* bytes that are set
    MaxItems,   \* no more items are added to an array
    Foreign     \* what other programs wrote: the class, the bytes and what they say

VARIABLES
    scene,      \* the class of the object
    object,     \* its properties, in the order they were added, and Modified
    said,       \* what has been set last, by tag
    whole,      \* was all that had been written read back
    changed     \* has a property but GenerationUID been set since the object was read, or
                \* any been added or removed

vars == <<scene, object, said, whole, changed>>

\* Keys and lengths have this many bytes, or are BER, or there are none.
BER == 0

None == -1

-----------------------------------------------------------------------------
\* Bytes, types and new values.

Digits(n, size) == [i \in 1..size |-> (n \div 16 ^ (size - i)) % 16]

Number(bytes, signed) ==
    FoldLeft(LAMBDA n, byte : 16 * n + byte, IF signed /\ bytes # << >> /\ bytes[1] >= 8 THEN -1 ELSE 0, bytes)

From(bytes, i) == SubSeq(bytes, i + 1, Len(bytes))

Upto(bytes, n) == SubSeq(bytes, 1, Min({n, Len(bytes)}))

\* MDObject::Init: integers and raw values of fixed size are zero, arrays of
\* fixed size have all items, compounds all parts.
RECURSIVE New(_)
New(type) ==
    [type |-> type,
     data |-> IF type.kind \in {"int", "raw"} THEN [i \in 1..type.size |-> 0] ELSE << >>,
     items |-> CASE type.kind = "array" -> [i \in 1..type.size |-> New(type.base)]
                 [] type.kind = "compound" -> [i \in DOMAIN type.parts |-> New(type.parts[i])]
                 [] OTHER -> << >>]

\* Zero when a part is of variable size; an array counts its items, not their bytes.
RECURSIVE EffectiveSize(_)
EffectiveSize(type) ==
    IF type.kind # "compound" THEN type.size
    ELSE LET sizes == [i \in DOMAIN type.parts |-> EffectiveSize(type.parts[i])] IN
         IF 0 \in Range(sizes) THEN 0 ELSE FoldLeft(LAMBDA n, size : n + size, 0, sizes)

\* Arrays of fixed size keep their size.
Resize(value, n) ==
    LET count == IF value.type.size > 0 THEN value.type.size ELSE n IN
    [value EXCEPT !.items = [i \in 1..count |-> IF i <= Len(@) THEN @[i] ELSE New(value.type.base)]]

-----------------------------------------------------------------------------
\* Reading and writing values.

Read0(value) == [value |-> value, used |-> 0]

\* For comparison: as if all integers had no sign.
ReadIntUnsigned(value, bytes) ==
    LET type == value.type
        n == Max({k \in {0, 1, 2, 4, 8} : k <= type.size /\ k <= Len(bytes)})
    IN [value |-> [value EXCEPT !.data = [i \in 1..type.size |-> IF i <= type.size - n THEN 0 ELSE bytes[i - type.size + n]]],
        used |-> n]

\* The largest integer there is that fits, extended to the size of the type.
ReadInt(value, bytes) ==
    LET type == value.type
        n == Max({k \in {0, 1, 2, 4, 8} : k <= type.size /\ k <= Len(bytes)})
        fill == IF type.signed /\ n > 0 /\ bytes[1] >= 8 THEN 15 ELSE 0
        before == type.size - n
    IN [value |-> [value EXCEPT !.data = [i \in 1..type.size |-> IF i <= before THEN fill ELSE bytes[i - before]]], used |-> n]

\* MakeSize gives values of fixed size their own: they are cut or get zeros.
ReadRaw(value, bytes) ==
    LET size == IF value.type.size > 0 THEN value.type.size ELSE Len(bytes) IN
    [value |-> [value EXCEPT !.data = [i \in 1..size |-> IF i <= Len(bytes) THEN bytes[i] ELSE 0]],
     used |-> Min({size, Len(bytes)})]

RECURSIVE Read(_, _)

\* The parts that the bytes do not reach stay what they were.
ReadParts(value, bytes) ==
    LET Part(read, i) ==
            LET one == Read(value.items[i], From(bytes, read.used)) IN
            IF read.used = Len(bytes) THEN read
            ELSE [value |-> [read.value EXCEPT !.items[i] = one.value], used |-> read.used + one.used]
    IN FoldLeft(Part, Read0(value), [i \in DOMAIN value.items |-> i])

\* An array of fixed size takes no more items than that.
ReadCounted(value, count, size, bytes) ==
    LET Item(read, i) ==
            LET one == Read(New(value.type.base), Upto(From(bytes, read.used), size)) IN
            [value |-> [read.value EXCEPT !.items = Append(@, one.value)], used |-> read.used + one.used]
        items == IF value.type.size > 0 THEN Min({count, value.type.size}) ELSE count
    IN FoldLeft(Item, Read0(value), [i \in 1..items |-> i])

\* An array goes on until an item takes nothing or nothing is left; there is
\* always a first item.
ReadOpen(value, size, bytes) ==
    LET Item(read, i) ==
            LET one == Read(New(value.type.base), From(bytes, read.used)) IN
            IF read.last THEN read
            ELSE [value |-> [read.value EXCEPT !.items = Append(@, one.value)],
                  used |-> read.used + one.used,
                  last |-> one.used \in {0, Len(bytes) - read.used} \/ i = size]
    IN FoldLeft(Item, [value |-> value, used |-> 0, last |-> FALSE], [i \in 1..(Len(bytes) + 1) |-> i])

\* Eight bytes before the items of a batch: how many, and the size of each.
ReadArray(value, bytes) ==
    LET empty == [value EXCEPT !.items = << >>]
        claimed == Number(Upto(bytes, 4), FALSE)
        size == Number(SubSeq(bytes, 5, 8), FALSE)
        left == Len(bytes) - 8
        count == IF claimed * size > left THEN left \div size ELSE claimed
        read == IF value.type.batch THEN ReadCounted(empty, count, size, From(bytes, 8))
                ELSE ReadOpen(empty, value.type.size, bytes)
    IN IF value.type.batch /\ Len(bytes) < 8 THEN Read0(empty)
       ELSE [value |-> Resize(read.value, Len(read.value.items)), used |-> read.used + IF value.type.batch THEN 8 ELSE 0]

\* ReadValue of the traits of the type.
Read(value, bytes) ==
    CASE value.type.kind = "int" -> ReadInt(value, bytes)
      [] value.type.kind = "raw" -> ReadRaw(value, bytes)
      [] value.type.kind = "compound" -> ReadParts(value, bytes)
      [] value.type.kind = "array" -> ReadArray(value, bytes)

IsBatch(value) == value.type.kind = "array" /\ value.type.batch

\* WriteObject: the header of a batch has the size of the item written last.
RECURSIVE Written(_)
Written(value) ==
    LET items == [i \in DOMAIN value.items |-> Written(value.items[i])]
        size == IF items = << >> THEN 0 ELSE Len(Last(items))
    IN (IF IsBatch(value) THEN Digits(Len(items), 4) \o Digits(size, 4) ELSE << >>) \o value.data \o FlattenSeq(items)

\* PutData: the size of its type, or the average when that is variable.
RECURSIVE PutData(_)
PutData(value) ==
    LET items == FlattenSeq([i \in DOMAIN value.items |-> PutData(value.items[i])])
        fixed == EffectiveSize(value.type.base)
        size == IF fixed = 0 /\ value.items # << >> THEN Len(items) \div Len(value.items) ELSE fixed
    IN (IF IsBatch(value) THEN Digits(Len(value.items), 4) \o Digits(size, 4) ELSE << >>) \o value.data \o items

-----------------------------------------------------------------------------
\* Reading and writing sets and packs.

\* EncodeOID: seven bits of eight, here three of four, the top bit in all but the last.
OID(tag) == IF tag < 8 THEN <<tag>> ELSE <<8 + tag \div 8, tag % 8>>

WriteKey(tag) ==
    CASE scene.kind = "pack" -> << >>
      [] scene.key = BER -> OID(tag)
      [] OTHER -> Digits(tag, scene.key)

ReadKey(bytes) ==
    LET last == {i \in DOMAIN bytes : bytes[i] < 8}
        n == IF scene.key # BER THEN scene.key ELSE IF last = {} THEN Len(bytes) + 1 ELSE Min(last)
        tag == IF scene.key # BER THEN Number(Upto(bytes, n), FALSE)
               ELSE FoldLeft(LAMBDA k, byte : 8 * k + (byte % 8), 0, Upto(bytes, n))
    IN IF n > Len(bytes) THEN [used |-> 0, tag |-> 0] ELSE [used |-> n, tag |-> tag]

\* Lengths that do not fit are the most that does; MakeBER takes four bytes.
WriteLength(length) ==
    CASE scene.len = None -> << >>
      [] scene.len = BER -> <<8 + 3>> \o Digits(length, 3)
      [] OTHER -> Digits(Min({length, 16 ^ scene.len - 1}), scene.len)

\* Without enough bytes for it the length is zero and takes none.
ReadLength(bytes) ==
    LET first == IF bytes = << >> THEN 0 ELSE bytes[1]
        long == scene.len = BER /\ first >= 8
        n == IF long THEN 1 + first - 8 ELSE IF scene.len = BER THEN 1 ELSE scene.len
    IN IF n > Len(bytes) THEN [used |-> 0, length |-> 0]
       ELSE [used |-> n, length |-> Number(IF long THEN SubSeq(bytes, 2, n) ELSE Upto(bytes, n), FALSE)]

Child(o, tag) == SelectInSeq(o.children, LAMBDA c : c.tag = tag)

Has(o, tag) == Child(o, tag) # 0

TypeOf(s, tag) == (CHOOSE p \in Range(s.properties) : p.tag = tag).type

Declared(s) == {p.tag : p \in Range(s.properties)}

Property(tag, value) == [tag |-> tag, value |-> value, modified |-> TRUE]

\* A pack is built with all its properties.
NewObject(s) ==
    [children |-> IF s.kind = "pack" THEN [i \in DOMAIN s.properties |-> Property(s.properties[i].tag, New(s.properties[i].type))]
                  ELSE << >>,
     modified |-> TRUE]

WriteProperty(property) ==
    LET bytes == Written(property.value) IN WriteKey(property.tag) \o WriteLength(Len(bytes)) \o bytes

\* A set is written in its own order, a pack in that of its class.
InOrder(o) ==
    IF scene.kind = "set" THEN o.children ELSE [i \in DOMAIN scene.properties |-> o.children[Child(o, scene.properties[i].tag)]]

WriteObject(o) == FlattenSeq([i \in DOMAIN o.children |-> WriteProperty(InOrder(o)[i])])

ReadOver(property, bytes) == [property EXCEPT !.value = Read(@, bytes).value, !.modified = FALSE]

\* Tags that are not known are kept as raw values when they have two bytes.
TypeRead(tag) == IF tag \in Declared(scene) THEN TypeOf(scene, tag) ELSE [kind |-> "raw", size |-> 0]

\* Properties of length zero are not added.
WithProperty(o, tag, length, value) ==
    IF length > 0 /\ (tag \in Declared(scene) \/ scene.key = 2)
    THEN [o EXCEPT !.children = Append(@, ReadOver(Property(tag, New(TypeRead(tag))), value))]
    ELSE o

RECURSIVE ReadSet(_, _, _)

\* What is left of a value is skipped.
ReadNext(o, used, tag, length, bytes) ==
    LET end == Min({length.used + length.length, Len(bytes)})
    IN ReadSet(WithProperty(o, tag, length.length, SubSeq(bytes, length.used + 1, end)), used + end, From(bytes, end))

ReadTagged(o, used, key, bytes) ==
    IF key.used = 0 THEN [object |-> o, used |-> used]
    ELSE ReadNext(o, used + key.used, key.tag, ReadLength(From(bytes, key.used)), From(bytes, key.used))

\* The properties of a set from these bytes on; used have been read already.
ReadSet(o, used, bytes) ==
    IF bytes = << >> THEN [object |-> o, used |-> used] ELSE ReadTagged(o, used, ReadKey(bytes), bytes)

\* The array before the last four bytes of a random index is all but these.
ValueLength(type, length, bytes) ==
    IF scene.len = None /\ type.kind = "array" /\ ~type.batch THEN Max({0, Len(bytes) - 4}) ELSE length

RECURSIVE ReadPack(_, _, _, _)

\* In a variable pack the next length is looked for where the value ended.
TakeItem(o, i, used, read, bytes) ==
    LET taken == [o EXCEPT !.children[i] = [@ EXCEPT !.value = read.value, !.modified = FALSE]]
    IN IF read.used >= Len(bytes) THEN [object |-> taken, used |-> used + read.used]
       ELSE ReadPack(taken, i + 1, used + read.used, From(bytes, read.used))

ReadItem(o, i, used, length, bytes) ==
    TakeItem(o, i, used,
             IF scene.len # None /\ length = 0 THEN Read0(o.children[i].value)
             ELSE Read(o.children[i].value, Upto(bytes, ValueLength(o.children[i].value.type, length, bytes))),
             bytes)

ReadMeasured(o, i, used, length, bytes) ==
    ReadItem(o, i, used + length.used, length.length, From(bytes, length.used))

\* The items of a pack from the i-th on; used bytes have been read already.
ReadPack(o, i, used, bytes) ==
    IF i > Len(o.children) THEN [object |-> o, used |-> used]
    ELSE ReadMeasured(o, i, used, IF scene.len = None THEN [used |-> 0, length |-> Len(bytes)] ELSE ReadLength(bytes), bytes)

\* ReadValue of an object that has just been made.
ReadObject(bytes) ==
    LET new == NewObject(scene)
        read == IF scene.kind = "set" THEN ReadSet(new, 0, bytes)
                ELSE IF bytes = << >> THEN [object |-> new, used |-> 0] ELSE ReadPack(new, 1, 0, bytes)
    IN [read EXCEPT !.object.modified = FALSE]

\* Sub-items, the items of arrays and the parts of compounds, are never asked.
IsModified(o) == o.modified \/ \E i \in DOMAIN o.children : o.children[i].modified

-----------------------------------------------------------------------------
\* Setting values.

\* The integer traits store what of the number fits; array traits set all items.
RECURSIVE SetInt(_, _)
SetInt(value, n) ==
    IF value.type.kind = "int" THEN [value EXCEPT !.data = Digits(n, value.type.size)]
    ELSE [value EXCEPT !.items = [i \in DOMAIN @ |-> SetInt(@[i], n)]]

GetInt(value) == Number(value.data, value.type.signed)

\* GetString and SetString again: UInt8 prints hexadecimal digits, and SetString reads decimal ones.
ThroughString(value) == LET n == GetInt(value) IN IF value.type.size = 1 /\ ~value.type.signed /\ n > 9 THEN 0 ELSE n

\* Each item takes its string, and more items are added for more strings.
SetStrings(value, numbers) ==
    LET longer == Resize(value, Max({Len(value.items), Len(numbers)})) IN
    [longer EXCEPT !.items = [i \in DOMAIN @ |-> IF i <= Len(numbers) THEN SetInt(@[i], numbers[i]) ELSE @[i]]]

\* operator=: bits where there are some, and strings otherwise.
RECURSIVE Assign(_, _)
Assign(to, from) ==
    IF from.data # << >> \/ to.data # << >> THEN [to EXCEPT !.data = from.data]
    ELSE LET longer == IF to.type.kind = "array" THEN Resize(to, Max({Len(to.items), Len(from.items)})) ELSE to
             Text(item, old) == IF item.type.kind = "int" THEN SetInt(old, ThroughString(item)) ELSE Assign(old, item)
         IN [longer EXCEPT !.items = [i \in DOMAIN @ |-> IF i <= Len(from.items) THEN Text(from.items[i], @[i]) ELSE @[i]]]

\* MakeCopy: parts are assigned, items added to those of a new array; then all is assigned.
RECURSIVE MakeCopy(_)
MakeCopy(value) ==
    LET new == New(value.type)
        filled == CASE value.type.kind = "compound" -> [new EXCEPT !.items = [i \in DOMAIN @ |-> Assign(@[i], value.items[i])]]
                    [] value.type.kind = "array" -> [new EXCEPT !.items = @ \o [i \in DOMAIN value.items |-> MakeCopy(value.items[i])]]
                    [] OTHER -> new
    IN Assign(filled, value)

CopyObject(o) == [o EXCEPT !.children = [i \in DOMAIN @ |-> Property(@[i].tag, MakeCopy(@[i].value))], !.modified = TRUE]

\* AddChild finds the property or adds it.
AddChild(o, tag) ==
    [o EXCEPT !.modified = TRUE,
              !.children = IF Has(o, tag) THEN @ ELSE Append(@, Property(tag, New(TypeOf(scene, tag))))]

RemoveChild(o, tag) == [o EXCEPT !.children = SelectSeq(@, LAMBDA c : c.tag # tag), !.modified = TRUE]

\* The setters by name add the property when there is none.
Named(o, tag) == IF Has(o, tag) THEN o ELSE AddChild(o, tag)

\* The property of the tag gets a value, and is modified or not.
Mark(o, tag, value, modified) == [o EXCEPT !.children[Child(o, tag)] = [@ EXCEPT !.value = value, !.modified = modified]]

\* It is modified when marks says so, and when it was.
Update(o, tag, value, marks) == Mark(o, tag, value, marks \/ o.children[Child(o, tag)].modified)

ValueOf(o, tag) == o.children[Child(o, tag)].value

-----------------------------------------------------------------------------
\* What values say: a number as <<n>>, raw bytes, or what the items say.  A
\* property that is not there says nothing, << >>.

RECURSIVE Says(_)
Says(value) ==
    CASE value.type.kind = "int" -> <<GetInt(value)>>
      [] value.type.kind = "raw" -> value.data
      [] OTHER -> [i \in DOMAIN value.items |-> Says(value.items[i])]

RECURSIVE Zero(_)
Zero(type) ==
    CASE type.kind = "int" -> <<0>>
      [] type.kind = "raw" -> [i \in 1..type.size |-> 0]
      [] type.kind = "array" -> [i \in 1..type.size |-> Zero(type.base)]
      [] type.kind = "compound" -> [i \in DOMAIN type.parts |-> Zero(type.parts[i])]

Tags(s) == Declared(s) \cup IF s.kind = "set" THEN {s.unknown} ELSE {}

SaidBy(o) == [tag \in Tags(scene) |-> IF Has(o, tag) THEN Says(ValueOf(o, tag)) ELSE << >>]

\* What is said of a property once it is there.
Before(tag) == IF said[tag] = << >> THEN Zero(TypeOf(scene, tag)) ELSE said[tag]

Say(tag, what) == said' = [said EXCEPT ![tag] = what]

IsInt(type) == type.kind = "int"

Fits(type, n) ==
    IF type.signed THEN n \in -(8 * 16 ^ (type.size - 1))..(8 * 16 ^ (type.size - 1) - 1) ELSE n \in 0..(16 ^ type.size - 1)

IntOf(type) == IF type.kind = "array" THEN type.base ELSE type

Takes(type, n) == IsInt(IntOf(type)) /\ Fits(IntOf(type), n)

Init ==
    /\ scene \in Scenes
    /\ \E o \in {NewObject(scene)} : object = o
    /\ said = [tag \in Tags(scene) |-> IF scene.kind = "pack" THEN Zero(TypeOf(scene, tag)) ELSE << >>]
    /\ whole = TRUE
    /\ changed = TRUE

\* The object is changed to one that has been computed.
Becomes(o) == /\ \E new \in {o} : object' = new
              /\ UNCHANGED <<scene, whole>>

Add(tag) ==
    /\ ~Has(object, tag)
    /\ Becomes(AddChild(object, tag)) /\ Say(tag, Before(tag)) /\ changed' = TRUE

\* GenerationUID is for SetGenerationUID to set, which is not a change.
Set(tag) == changed' = (changed \/ "generation" \notin DOMAIN scene \/ tag # scene.generation)

\* SetInt of a property; an array that is not empty gets it in all items.
SetNumber(tag, n) ==
    /\ Takes(TypeOf(scene, tag), n)
    /\ LET o == Named(object, tag) IN Becomes(Update(o, tag, SetInt(ValueOf(o, tag), n), TRUE))
    /\ Say(tag, IF IsInt(TypeOf(scene, tag)) THEN <<n>> ELSE [i \in DOMAIN Before(tag) |-> <<n>>])
    /\ Set(tag)

\* AddChild without a type adds an item, which SetInt sets.
AddItem(tag, n) ==
    LET type == TypeOf(scene, tag) IN
    /\ Has(object, tag) /\ type.kind = "array" /\ type.size = 0 /\ Len(said[tag]) < MaxItems
    /\ IsInt(type.base) => Fits(type.base, n)
    /\ LET value == ValueOf(object, tag)
           item == IF IsInt(type.base) THEN SetInt(New(type.base), n) ELSE New(type.base)
       IN Becomes(Update(object, tag, [value EXCEPT !.items = Append(@, item)], TRUE))
    /\ Say(tag, Append(said[tag], IF IsInt(type.base) THEN <<n>> ELSE Zero(type.base)))
    /\ Set(tag)

\* SetString of an array.  Items without a string stay.
SetList(tag, numbers) ==
    LET type == TypeOf(scene, tag) IN
    /\ Has(object, tag) /\ type.kind = "array" /\ \A i \in DOMAIN numbers : Takes(type, numbers[i])
    /\ type.size > 0 => Len(numbers) <= type.size
    /\ Becomes(Update(object, tag, SetStrings(ValueOf(object, tag), numbers), TRUE))
    /\ Say(tag, [i \in DOMAIN numbers |-> <<numbers[i]>>] \o From(said[tag], Len(numbers)))
    /\ Set(tag)

\* The property is not marked modified.
ResizeArray(tag, n) ==
    LET type == TypeOf(scene, tag) IN
    /\ Has(object, tag) /\ type.kind = "array" /\ type.size = 0
    /\ Becomes(Update(object, tag, Resize(ValueOf(object, tag), n), FALSE))
    /\ Say(tag, [i \in 1..n |-> IF i <= Len(said[tag]) THEN said[tag][i] ELSE Zero(type.base)])
    /\ UNCHANGED changed

\* SetInt of a part of a compound, or of the last item when that is a compound.
SetPart(tag, i, n) ==
    LET type == TypeOf(scene, tag) IN
    /\ Has(object, tag)
    /\ \/ /\ type.kind = "compound" /\ i \in DOMAIN type.parts /\ Takes(type.parts[i], n)
          /\ LET value == ValueOf(object, tag) IN
             Becomes(Update(object, tag, [value EXCEPT !.items[i] = SetInt(@, n)], FALSE))
          /\ Say(tag, [said[tag] EXCEPT ![i] = <<n>>])
       \/ /\ type.kind = "array" /\ type.base.kind = "compound" /\ said[tag] # << >>
          /\ i \in DOMAIN type.base.parts /\ Takes(type.base.parts[i], n)
          /\ LET value == ValueOf(object, tag) IN
             Becomes(Update(object, tag, [value EXCEPT !.items[Len(value.items)].items[i] = SetInt(@, n)], FALSE))
          /\ Say(tag, [said[tag] EXCEPT ![Len(said[tag])][i] = <<n>>])
    /\ UNCHANGED changed

\* SetValue: ReadValue and the property is modified.  Of three bytes an integer
\* of four would take two.
SetValue(tag, bytes) ==
    LET type == TypeOf(scene, tag)
        size == IF type.size = 0 THEN Len(bytes) ELSE type.size
    IN
    /\ (IsInt(type) /\ (Len(bytes) \in {1, 2} \/ Len(bytes) >= type.size)) \/ type.kind = "raw"
    /\ LET o == Named(object, tag) IN Becomes(Update(o, tag, Read(ValueOf(o, tag), bytes).value, TRUE))
    /\ Say(tag, IF IsInt(type) THEN <<Number(Upto(bytes, type.size), type.signed)>>
                ELSE Upto(bytes, size) \o [i \in 1..Max({0, size - Len(bytes)}) |-> 0])
    /\ Set(tag)

\* SetValue from the property of another object, one with the same value.  An
\* array without items would get one.
SetSame(tag) ==
    /\ Has(object, tag) /\ said[tag] # << >>
    /\ Becomes(Update(object, tag, Read(New(TypeOf(scene, tag)), PutData(ValueOf(object, tag))).value, TRUE))
    /\ UNCHANGED said /\ Set(tag)

\* A pack keeps its properties.
Drop(tag) ==
    /\ scene.kind = "set" /\ Has(object, tag)
    /\ Becomes(RemoveChild(object, tag)) /\ Say(tag, << >>) /\ changed' = TRUE

\* SetGenerationUID, iff the object is modified: ReadValue takes the mark of
\* the property away, also one it has from being set before.
Generate ==
    /\ "generation" \in DOMAIN scene /\ IsModified(object)
    /\ LET o == Named(object, scene.generation) IN
       Becomes(Mark(o, scene.generation, Read(ValueOf(o, scene.generation), <<6, 6>>).value, FALSE))
    /\ Say(scene.generation, <<6, 6>>)
    /\ UNCHANGED changed

\* Arrays without items and those of fixed size do not survive a copy, nor
\* does a UInt8 that has digits beyond 9.
RECURSIVE Copyable(_)
Copyable(value) ==
    /\ value.type.kind = "array" => value.type.size = 0 /\ value.items # << >>
    /\ value.type.kind = "int" => ThroughString(value) = GetInt(value)
    /\ \A i \in DOMAIN value.items : Copyable(value.items[i])

Copy ==
    /\ \A i \in DOMAIN object.children : Copyable(object.children[i].value)
    /\ Becomes(CopyObject(object)) /\ UNCHANGED said /\ changed' = TRUE

\* The object is written, and another one of its class reads it.  An array
\* without items in a pack without lengths would get one.
Reread ==
    /\ scene.len = None => << >> \notin Range(said)
    /\ \E bytes \in {WriteObject(object)} : \E read \in {ReadObject(bytes)} :
          /\ object' = read.object /\ whole' = (read.used = Len(bytes)) /\ changed' = FALSE
          /\ UNCHANGED <<scene, said>>

\* Where the i-th property written ends.
EndOf(o, i) == FoldLeft(LAMBDA n, p : n + Len(WriteProperty(p)), 0, Upto(InOrder(o), i))

\* Only the first n bytes of it are there: the properties before stay, those
\* behind are not there, and the one that is cut says what of it can be read.
RereadCut ==
    /\ scene.len # None
    /\ \E bytes \in {WriteObject(object)} : \E ends \in {[i \in 0..Len(object.children) |-> EndOf(object, i)]} :
       \E n \in 1..(Len(bytes) - 1) : \E read \in {ReadObject(Upto(bytes, n))} :
          LET Place(tag) == SelectInSeq(InOrder(object), LAMBDA p : p.tag = tag)
              now == SaidBy(read.object)
          IN /\ object' = read.object
             /\ said' = [tag \in Tags(scene) |->
                            IF Place(tag) # 0 /\ ends[Place(tag)] <= n THEN said[tag]
                            ELSE IF Place(tag) # 0 /\ ends[Place(tag) - 1] < n THEN now[tag]
                            ELSE IF scene.kind = "pack" THEN Zero(TypeOf(scene, tag)) ELSE << >>]
    /\ whole' = TRUE /\ changed' = FALSE /\ UNCHANGED scene

\* What another program wrote.
ReadForeign(file) ==
    /\ file.scene = scene
    /\ \E read \in {ReadObject(file.bytes)} : object' = read.object
    /\ said' = [tag \in Tags(scene) |-> IF tag \in DOMAIN file.says THEN file.says[tag]
                                         ELSE IF scene.kind = "pack" THEN Zero(TypeOf(scene, tag)) ELSE << >>]
    /\ whole' = TRUE /\ changed' = FALSE /\ UNCHANGED scene

Next ==
    \/ \E tag \in Declared(scene) :
          \/ Add(tag) \/ Drop(tag) \/ SetSame(tag)
          \/ \E n \in Numbers : SetNumber(tag, n) \/ AddItem(tag, n) \/ \E i \in 1..3 : SetPart(tag, i, n)
          \/ \E numbers \in Lists : SetList(tag, numbers)
          \/ \E n \in 0..MaxItems : ResizeArray(tag, n)
          \/ \E bytes \in Strings : SetValue(tag, bytes)
    \/ Generate \/ Copy \/ Reread \/ RereadCut
    \/ \E file \in Foreign : ReadForeign(file)

Spec == Init /\ [][Next]_vars

-----------------------------------------------------------------------------
\* Each property says what was set last, also when the object has been written and read,
\* or copied; nothing that was written is left unread, and what is behind or unknown
\* changes nothing else.
ValuesTrue == SaidBy(object) = said /\ whole

\* A property that was set (but GenerationUID), added or removed since the object was read
\* makes it modified, also after GenerationUID was renewed.
ModifiedTrue == changed => IsModified(object)

=============================================================================
