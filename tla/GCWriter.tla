------------------------------ MODULE GCWriter ------------------------------
(***************************************************************************)
(* Writing content packages of the generic container: GCWriter of          *)
(* mxflib/essence.cpp, with MakeBER of helper.cpp and FillerSize of        *)
(* mxffile.cpp.                                                            *)
(*                                                                         *)
(* A content package is collected in a queue, a map from 32-bit write      *)
(* orders to items, and written by Flush in that order, item by item.  Of  *)
(* an item the model keeps its stream, key, and where the parts of its     *)
(* value end; of the file, how long it is.  `done' is what the last Flush  *)
(* or WriteRaw did, `given' the items handed over since the Flush before,  *)
(* `others' the bytes other parties wrote.                                 *)
(***************************************************************************)
EXTENDS Integers, SequencesExt

CONSTANTS
    Scenes,         \* the uses of a writer, see below
    PerPackage      \* how many items of a stream are put in a package

VARIABLES
    scene,      \* what the writer, its file and its index manager are used for
    setup,      \* StreamBase; of the file: IsBlockAligned, FeatureAlignAllStreams;
                \* of the index manager: ValueRelativeIndexing
    writer,     \* KAGSize, ForceFillerBER4, StreamOffset, IndexEditUnit, NextWriteOrder
    streams,    \* StreamTable
    used,       \* keys of WriteOrderMap
    queue,      \* WriteQueue, as a set of items with their write orders
    tell,       \* length of the file, which is where it is written
    call,       \* the Flush in progress, with its locals and what it has done
    given, others, done

vars == <<scene, setup, writer, streams, used, queue, tell, call, given, others, done>>

(***************************************************************************)
(* A scene: the calls that are made in a behaviour and their arguments.    *)
(***************************************************************************)
Setups == scene.setups          \* [base, blocked, alignAll, relative] of a writer and its file
Kags == scene.kags              \* <<KAG size, force 4-byte filler lengths>> for SetKAG
Elements == scene.elements      \* what streams are added: see AddStream
Orders == scene.orders          \* <<write order, type>> for SetWriteOrder, -1 for automatic
Relatives == scene.relatives    \* <<type, position>> for SetRelativeWriteOrder
Indexes == scene.indexes        \* [clip, filler] for AddStreamIndex
Items == scene.items            \* [kind, said, ends, units, fast]: what is handed over, see WellRead
Raws == scene.raws              \* sizes of the values of raw KLVs
Packs == scene.packs            \* bytes others write to the file between flushes
Units == scene.units            \* edit units for SetIndexEditUnit
Asked == scene.asked            \* whether track numbers are asked for
Garbage == scene.garbage        \* values an uninitialised byte may have
MaxStreams == scene.maxStreams  \* bounds
MaxOrders == scene.maxOrders
MaxUnits == scene.maxUnits
MaxTell == scene.maxTell

Byte == 0..255

\* Types are 4 to 7 and 20 to 24 in practice; they, counts and numbers are
\* bytes, and a write order has 7 bits for the type.
AnyElement ==
    [by : {"system"}, cp : BOOLEAN, scheme : Byte, element : Byte, sub : Byte]
    \cup [by : {"type", "key", "plain"}, type : 0..127, len : Nat]
    \cup [by : {"name"}, element : Byte,
          name : {"CPPicture", "Picture", "CPSound", "Sound", "CPData", "Data", "Compound"}]

\* Each read of a value, of which the last ends[i] bytes are known after read
\* i, is of the edit unit units[i]; a read that gives nothing asks to try again
\* later.  A source gives as much as it said, unless it is not asked before.
Fast(x) == x.kind = "source" /\ x.fast

WellRead(x) ==
    /\ DOMAIN x.units = DOMAIN x.ends
    /\ \A i, j \in DOMAIN x.units : i <= j => x.units[i] <= x.units[j]
    /\ Fast(x) \/ x.said = (IF x.ends = <<>> THEN 0 ELSE x.ends[Len(x.ends)])

ASSUME GCWriterAssumption ==
    \A x \in Scenes :
        /\ \A s \in x.setups : s.base \in {0, 1} /\ {s.blocked, s.alignAll, s.relative} \subseteq BOOLEAN
        /\ \A k \in x.kags : k[1] \in Nat /\ k[2] \in BOOLEAN
        /\ x.elements \subseteq AnyElement
        /\ \A o \in x.orders : o[1] \in Nat \cup {-1} /\ o[2] \in 0..127 \cup {-1}
        /\ \A r \in x.relatives : r[1] \in 1..127 /\ r[2] \in Int
        /\ \A i \in x.indexes : i.clip \in BOOLEAN /\ i.filler \in BOOLEAN
        /\ x.items \subseteq [kind : {"data", "klv", "source"}, said : Nat, ends : Seq(Nat), units : Seq(Nat), fast : BOOLEAN]
        /\ \A i \in x.items : WellRead(i)
        /\ x.raws \subseteq Nat /\ x.packs \subseteq Nat /\ x.units \subseteq Nat /\ x.asked \in BOOLEAN
        /\ x.garbage \subseteq Byte /\ {x.maxStreams, x.maxOrders} \subseteq Nat /\ x.maxStreams < 255 /\ x.maxOrders < 65536

\* The types of system items and essence elements, for CP and for GC.
KnownTypes == (4..7) \cup (20..24)

\* GC types sort with their content package counterparts.
Mapped(type) == IF type \in 20..24 THEN type - 16 ELSE type

\* Types, counts and numbers that fit the bits they have; the types of system
\* items are theirs, and keys of their own are GC.
ElementFits(e) ==
    /\ e.by = "system" => e.scheme < 128 /\ e.element < 128 /\ e.sub < 128
    /\ e.by \in {"type", "key"} => e.type \in KnownTypes \ {4, 20}
    /\ e.by = "plain" => e.type \in 20..24

OrderFits(o) == o[1] < 65536 /\ o[2] \in KnownTypes \cup {-1}

\* What is set before a type is set before a CP one, what is set behind one
\* behind a GC one.
RelativeFits(r) ==
    /\ r[2] > -65536 /\ r[2] < 65536
    /\ IF r[2] < 0 THEN r[1] \in 4..7 ELSE r[1] \in 20..24

\* No two types have something set between them from both sides.
NotBetween(relatives) == \A q, r \in relatives : q[2] < 0 /\ r[2] >= 0 => Mapped(q[1]) # Mapped(r[1]) + 1

\* Scenes in which write orders say what they are documented to say.  Each
\* order has room for 32 streams.
Conventional(x) ==
    /\ \A e \in x.elements : ElementFits(e)
    /\ \A o \in x.orders : OrderFits(o)
    /\ \A r \in x.relatives : RelativeFits(r)
    /\ NotBetween(x.relatives)
    /\ x.maxStreams <= 128 /\ x.maxOrders <= 32

Nothing == [op |-> "none"]

TypeOK ==
    /\ writer \in [kag : Nat, ber4 : BOOLEAN, offset : Nat, unit : Nat, next : Nat]
    /\ \A id \in DOMAIN streams :
          /\ streams[id].type \in Byte /\ streams[id].count \in Byte /\ streams[id].number \in Byte
          /\ streams[id].order \in Nat /\ streams[id].told \in Seq(Nat)
    /\ \A b, c \in queue : b.order = c.order => b = c
    /\ DOMAIN given = DOMAIN streams
    /\ tell \in Nat /\ others \in Nat
-----------------------------------------------------------------------------
(***************************************************************************)
(* Sizes                                                                   *)
(***************************************************************************)
\* Bytes MakeBER takes for a length below 2^32: the size asked for, at most 9,
\* unless the length does not fit; 0 asks for the best of 4 and 8.
BERSize(length, size) ==
    LET fits == CASE size = 0 -> FALSE
                  [] size = 1 -> length < 128
                  [] size = 2 -> length < 256
                  [] size = 3 -> length < 65536
                  [] size = 4 -> length < 16777216
                  [] OTHER -> TRUE
    IN IF fits THEN (IF size > 9 THEN 9 ELSE size) ELSE IF length < 16777216 THEN 4 ELSE 8

\* Bytes of a filler from a position to the next multiple of the KAG: 0 when
\* there already, and several KAGs when the least filler needs them.
FillerSize(at, w) ==
    LET fill == w.kag - (at % w.kag)
        least == IF w.ber4 THEN 20 ELSE 17
    IN IF at % w.kag = 0 THEN 0
       ELSE CHOOSE f \in {fill + n * w.kag : n \in 0..20} :
              f >= least /\ (f = fill \/ f - w.kag < least)

\* What Align adds at a position, if the writer aligns at all.
Filler(at) == IF writer.kag > 1 /\ ~setup.blocked THEN FillerSize(at, writer) ELSE 0

\* The size of a value, and where its part i starts.
SizeOf(ends) == IF ends = <<>> THEN 0 ELSE ends[Len(ends)]

PartAt(ends, i) == IF i = 1 THEN 0 ELSE ends[i - 1]

\* Type that a write order sorts under; 4 is never aligned.
TypeIn(order) == (order \div 33554432) % 256

\* Does an item start on the KAG?
Aligns(type, last) == writer.kag > 1 /\ type # 4 /\ (type # last \/ setup.alignAll)
-----------------------------------------------------------------------------
(***************************************************************************)
(* Streams and write orders                                                *)
(***************************************************************************)
IsCP(type) == type \in 4..7

GCBit(type) == IF IsCP(type) THEN 0 ELSE 8388608

\* The order a stream has by default: type, GC, 1 0, count, number.
DefaultOrder(type, count, number) ==
    Mapped(type) * 33554432 + GCBit(type) + 4194304 + count * 16384 + number

\* The documented place of a stream: its type, CP before GC, then what is set
\* before the type, low orders, default orders, high orders, and what is set
\* behind the type, each by its order.  Smaller ranks come first.
Rank(type, class, order) ==
    ((Mapped(type) * 2 + (IF IsCP(type) THEN 0 ELSE 1)) * 5 + class) * 131072 + 65536 + order

OfType(type) == {id \in DOMAIN streams : streams[id].type = type}

NewStream(type, count, element, number) ==
    [type |-> type, count |-> count, element |-> element, number |-> number, system |-> FALSE,
     fixed |-> FALSE, plain |-> FALSE, len |-> 0, order |-> DefaultOrder(type, count, number),
     rank |-> Rank(type, 2, 0), index |-> FALSE, clip |-> FALSE, filler |-> FALSE, told |-> <<>>]

\* The default orders enter WriteOrderMap whether they are taken or not.
Add(stream) ==
    /\ Len(streams) < MaxStreams /\ Cardinality(used) < MaxOrders
    /\ streams' = Append(streams, stream)
    /\ used' = used \cup {stream.order}
    /\ given' = Append(given, 0)
    /\ done' = Nothing
    /\ UNCHANGED <<setup, writer, queue, tell, others>>

\* AddSystemElement: the order is made from scheme, element and sub ID; no
\* caller defines the same element twice.
AddSystemElement(e) ==
    /\ e.by = "system"
    /\ \A id \in DOMAIN streams : ~streams[id].system \/ streams[id].count # e.scheme
    /\ LET type == IF e.cp THEN 4 ELSE 20
       IN Add([NewStream(type, e.scheme, e.element, e.sub) EXCEPT
                  !.system = TRUE, !.order = DefaultOrder(type, e.scheme, e.element * 128 + e.sub)])

\* AddEssenceElement with a type, and with a key that holds the type: the
\* count is that of the type so far.
AddEssenceElement(e) ==
    LET count == Cardinality(OfType(e.type)) + 1
    IN /\ e.by \in {"type", "key"}
       /\ Add([NewStream(e.type, count, 0, count + setup.base - 1) EXCEPT !.len = e.len])

\* AddEssenceElement with a key that is used as it is: count, element and
\* number, and whether the count is fixed, are never initialised.
PlainStream(e, count, number, fixed) ==
    [NewStream(e.type, count, 0, number) EXCEPT
        !.plain = TRUE, !.fixed = fixed, !.len = e.len, !.rank = -1,
        !.order = e.type * 33554432 + 12582912 + count * 16384 + number]

AddPlainElement(e) ==
    /\ e.by = "plain"
    /\ \E count, number \in Garbage, fixed \in BOOLEAN : Add(PlainStream(e, count, number, fixed))

\* The type behind AddPictureElement(ElementType) and its likes: those for
\* sound call the one for pictures.
NamedType(name) ==
    CASE name = "CPPicture" -> 5 [] name = "Picture" -> 21
      [] name = "CPSound" -> 5 [] name = "Sound" -> 21
      [] name = "CPData" -> 7 [] name = "Data" -> 23
      [] name = "Compound" -> 24

AddNamedElement(e) ==
    /\ e.by = "name"
    /\ LET type == NamedType(e.name)
           count == Cardinality(OfType(type)) + 1
       IN Add(NewStream(type, count, e.element, count + setup.base - 1))

AddStream == \E e \in Elements :
    AddSystemElement(e) \/ AddEssenceElement(e) \/ AddPlainElement(e) \/ AddNamedElement(e)

AddStreamIndex(id) ==
    /\ \E i \in Indexes : streams' = [streams EXCEPT ![id].index = TRUE, ![id].clip = i.clip, ![id].filler = i.filler]
    /\ done' = Nothing
    /\ UNCHANGED <<setup, writer, used, queue, tell, given, others>>

\* The next free order, upwards or downwards.
Free(order, step) ==
    order + step * (CHOOSE n \in 0..Cardinality(used) :
                      /\ order + step * n \notin used
                      /\ \A m \in 0..(n - 1) : order + step * m \in used)

ManualOrderLow(type, order) == Mapped(type) * 33554432 + GCBit(type) + (order % 65536) * 32

\* A manual order is below the default ones of its type, or with bit 15 above.
ManualOrder(type, order) ==
    Mapped(type) * 33554432 + GCBit(type) + (order % 65536) * 32
    + (IF (order \div 32768) % 2 = 1 THEN 6291456 ELSE 0)

\* An order before the type is one behind the type before it.
RelativeOrder(type, position) ==
    (IF position >= 0 THEN Mapped(type) ELSE Mapped(type) - 1) * 33554432 + 29360128
    + (65535 - (position % 65536)) * 32

\* The old order of the stream stays in WriteOrderMap.
SetOrder(id, order, rank) ==
    /\ streams' = [streams EXCEPT ![id].order = order, ![id].rank = rank]
    /\ used' = used \cup {order}
    /\ done' = Nothing
    /\ UNCHANGED <<setup, queue, tell, given, others>>

SetWriteOrder(id) ==
    \E o \in Orders :
       LET order == IF o[1] = -1 THEN writer.next ELSE o[1]
           type == IF o[2] = -1 THEN streams[id].type ELSE o[2]
           class == IF order < 32768 THEN 1 ELSE 3
       IN /\ Cardinality(used) < MaxOrders
          /\ writer' = [writer EXCEPT !.next = IF o[1] = -1 THEN @ + 1 ELSE @]
          /\ SetOrder(id, Free(ManualOrder(type, order), 1), Rank(type, class, order))

\* The bit for GC types is added to the order the stream had, which is then
\* replaced; the order computed has the bit for every type.
SetRelativeWriteOrder(id) ==
    \E r \in Relatives :
       LET step == IF r[2] >= 0 THEN 1 ELSE -1
           class == IF r[2] >= 0 THEN 4 ELSE 0
       IN /\ Cardinality(used) < MaxOrders
          /\ SetOrder(id, Free(RelativeOrder(r[1], r[2]), step), Rank(r[1], class, -r[2]))
          /\ UNCHANGED writer

SetKAG ==
    /\ \E k \in Kags : writer' = [writer EXCEPT !.kag = k[1], !.ber4 = k[2]]
    /\ done' = Nothing
    /\ UNCHANGED <<setup, streams, used, queue, tell, given, others>>

\* The edit unit may be set before each content package.
SetIndexEditUnit ==
    /\ \E u \in Units : writer' = [writer EXCEPT !.unit = u]
    /\ done' = Nothing
    /\ UNCHANGED <<setup, streams, used, queue, tell, given, others>>
-----------------------------------------------------------------------------
(***************************************************************************)
(* Filling a content package                                               *)
(***************************************************************************)
FixForKeyAlways(s) ==
    IF s.plain THEN s
    ELSE [s EXCEPT !.count = Cardinality(OfType(s.type)), !.number = Cardinality(OfType(s.type)) + setup.base - 1,
                   !.fixed = TRUE]

\* The first key fixes the count of the elements of the type, and with it
\* takes the count for the number of the element.
FixForKey(s) ==
    IF s.plain \/ s.fixed THEN s
    ELSE [s EXCEPT !.count = Cardinality(OfType(s.type)), !.number = Cardinality(OfType(s.type)) + setup.base - 1,
                   !.fixed = TRUE]

\* A reported track number fixes the count alone.
FixForTrackNumber(s) ==
    IF s.fixed THEN s ELSE [s EXCEPT !.count = Cardinality(OfType(s.type)), !.fixed = TRUE]

TrackNumber(s) == <<s.type, s.count, s.element, s.number>>

\* For essence: "unusual results are likely if called with the ID of a system item".
GetTrackNumber(id) ==
    LET s == FixForTrackNumber(streams[id])
    IN /\ Asked /\ ~streams[id].system
       /\ streams' = [streams EXCEPT ![id] = [s EXCEPT !.told = TrackNumber(s)]]
       /\ done' = Nothing
       /\ UNCHANGED <<setup, writer, used, queue, tell, given, others>>

\* The item for WriteQueue: header is what precedes the value in its buffer.
Block(id, s, item) ==
    [order |-> s.order, rank |-> s.rank, stream |-> id, kind |-> item.kind, said |-> item.said, ends |-> item.ends,
     units |-> item.units, fast |-> item.fast,
     key |-> IF s.plain THEN <<id>> ELSE TrackNumber(s), len |-> s.len, index |-> s.index, clip |-> s.index /\ s.clip, filler |-> s.index /\ s.filler]

\* map::insert: an item with an order that is taken is dropped.
Insert(block) == IF \E b \in queue : b.order = block.order THEN queue ELSE queue \cup {block}

\* AddSystemData and the three AddEssenceData.
AddData(id, item) ==
    LET s == IF streams[id].system THEN streams[id] ELSE FixForKey(streams[id])
    IN /\ given[id] < PerPackage
       /\ streams[id].system => item.kind = "data"
       /\ streams' = [streams EXCEPT ![id] = s]
       /\ queue' = Insert(Block(id, s, item))
       /\ given' = [given EXCEPT ![id] = @ + 1]
       /\ done' = Nothing
       /\ UNCHANGED <<setup, writer, used, tell, others>>
-----------------------------------------------------------------------------
(***************************************************************************)
(* Writing                                                                 *)
(***************************************************************************)
\* The type of the item that comes before b, 255 if b is the first.
TypeBefore(b) ==
    LET before == {c \in queue : c.order < b.order}
    IN IF before = {} THEN 255 ELSE TypeIn(Max({c.order : c \in before}))

\* How many items of the queue are preceded by a filler.
Alignments == Cardinality({b \in queue : Aligns(TypeIn(b.order), TypeBefore(b))})

\* Key, length of the best size and value, by the size that the source says.
BestSize(b) == 16 + BERSize(b.said, 0) + b.said

\* CalcWriteSize: every filler is computed for where the file is now, and
\* every length is taken to have its best size.
CalcWriteSizeBuffered ==
    SumFunction([b \in queue |-> IF b.kind = "data" THEN BestSize(b) ELSE 16]) + (Alignments + 1) * Filler(tell)

CalcWriteSize ==
    IF \E b \in queue : Fast(b) THEN -1
    ELSE SumFunction([b \in queue |-> BestSize(b)]) + (Alignments + 1) * Filler(tell)

\* Before the value of a fast clip the length field gets the largest number
\* that 4 bytes, or 8, can hold.
FastLength(len) == IF len = 4 THEN 4 ELSE IF len >= 9 THEN 9 ELSE 8

\* The bytes of the length field that is written before the value.
LengthSize(b) ==
    IF b.kind # "source" THEN BERSize(b.said, 0)
    ELSE IF b.fast THEN FastLength(b.len) ELSE BERSize(b.said, b.len)

\* The filler before an item, and the file as it is behind it.
FillBefore(b) == IF Aligns(TypeIn(b.order), call.last) THEN Filler(tell) ELSE 0

Behind(b) == FillBefore(b) + 16 + LengthSize(b) + SizeOf(b.ends)

\* What has been written of a value when the source has no more.
Measured(b) == (tell + Behind(b)) - (tell + FillBefore(b) + 16 + LengthSize(b))

\* The length that is told in the end, and the bytes that it takes: that of a
\* fast clip is written once more, over the first one.
Told(b) == IF Fast(b) THEN Measured(b) ELSE b.said

FieldSize(b) == IF Fast(b) THEN BERSize(Measured(b), LengthSize(b)) ELSE LengthSize(b)

\* Mutant: nobody looks whether the length fits.
OutgrownUnnoticed(b) == FALSE

\* Then it may not fit: the file is broken and an error is reported.
Outgrown(b) == FieldSize(b) # LengthSize(b)

\* Read i of a value starts an edit unit, and gives something.
NewUnit(units, i) == i = 1 \/ units[i] # units[i - 1]

Answered(ends, i) == ends[i] # PartAt(ends, i)

\* The offsets an index manager is offered: the filler before the item, the
\* key of a frame, the edit units of a clip.  A unit whose first read gives
\* nothing is noted as seen all the same, and not offered later.
OffersAlways(b, at, value, kl) ==
    (IF Aligns(TypeIn(b.order), call.last) /\ b.filler
       THEN {[sub |-> -1, unit |-> writer.unit, offset |-> writer.offset]} ELSE {})
    \cup (IF b.index THEN {[sub |-> b.stream, unit |-> writer.unit, offset |-> at]} ELSE {})

Offers(b, at, value, kl) ==
    (IF Aligns(TypeIn(b.order), call.last) /\ b.filler
       THEN {[sub |-> -1, unit |-> writer.unit, offset |-> writer.offset]} ELSE {})
    \cup (IF b.index /\ ~b.clip THEN {[sub |-> b.stream, unit |-> writer.unit, offset |-> at]} ELSE {})
    \cup (IF b.clip /\ b.kind = "source"
            THEN {[sub |-> b.stream, unit |-> b.units[i], offset |-> value + PartAt(b.ends, i) - kl] :
                     i \in {j \in DOMAIN b.ends : NewUnit(b.units, j) /\ Answered(b.ends, j)}}
          ELSE {})

\* Flush, which StartNewCP is.
Flush ==
    /\ call = Nothing /\ tell < MaxTell /\ writer.unit < MaxUnits
    /\ call' = [op |-> "flush", from |-> writer.offset, start |-> tell, predicted |-> CalcWriteSize,
                last |-> 255, kl |-> writer.offset, klvs |-> <<>>, offers |-> {}, error |-> FALSE]
    /\ done' = Nothing
    /\ UNCHANGED <<setup, writer, streams, used, queue, tell, given, others>>

\* A turn of its loop, for the first item of the queue: filler, key, length
\* and value.  KLSize starts as the stream offset of the Flush and is turned,
\* for a clip with value relative indexing, into the distance from there to
\* the value.
FlushItem(b) ==
    LET type == TypeIn(b.order)
        at == writer.offset + FillBefore(b)
        value == at + 16 + LengthSize(b)
        kl == IF b.kind # "source" THEN call.kl
              ELSE IF b.clip /\ setup.relative THEN value - call.kl ELSE 0
    IN /\ call # Nothing
       /\ \A c \in queue : b.order <= c.order
       /\ call' = [call EXCEPT !.last = type, !.kl = kl, !.error = @ \/ Outgrown(b),
                    !.klvs = Append(@, [stream |-> b.stream, rank |-> b.rank, key |-> b.key, type |-> type,
                                        starts |-> type # call.last, at |-> at, tell |-> tell + FillBefore(b),
                                        value |-> value, told |-> Told(b), field |-> FieldSize(b), ends |-> b.ends,
                                        units |-> b.units, index |-> b.index, clip |-> b.clip, filler |-> b.filler,
                                        kind |-> b.kind]),
                    !.offers = @ \cup Offers(b, at, value, kl)]
       /\ queue' = queue \ {b}
       /\ tell' = tell + Behind(b)
       /\ writer' = [writer EXCEPT !.offset = @ + Behind(b)]
       /\ UNCHANGED <<setup, streams, used, given, others, done>>

\* The file is aligned again for the partition that may follow.
FlushEnds ==
    /\ call # Nothing /\ queue = {}
    /\ tell' = tell + Filler(tell)
    /\ writer' = [writer EXCEPT !.offset = @ + Filler(tell), !.unit = @ + 1]
    /\ done' = [op |-> "flush", from |-> call.from, predicted |-> call.predicted, written |-> tell' - call.start,
                unit |-> writer.unit, kag |-> writer.kag, klvs |-> call.klvs, offers |-> call.offers,
                error |-> call.error, given |-> given]
    /\ call' = Nothing
    /\ given' = [id \in DOMAIN given |-> 0]
    /\ UNCHANGED <<setup, streams, used, queue, others>>

CalcRawSize(size) == 2 * Filler(tell) + 20 + size

\* WriteRaw: filler, the KLV with a 4-byte length, filler.
WriteRaw(size) ==
    LET fill == Filler(tell)
        end == tell + fill + 20 + size
    IN /\ tell < MaxTell
       /\ tell' = end + Filler(end)
       /\ writer' = [writer EXCEPT !.offset = @ + (tell' - tell)]
       /\ done' = [op |-> "raw", predicted |-> CalcRawSize(size), written |-> tell' - tell, kag |-> writer.kag,
                   klvs |-> <<>>]
       /\ UNCHANGED <<setup, streams, used, queue, given, others>>

\* Between two flushes the owner of the file writes partition packs,
\* metadata and index tables.
OtherWrite(n) ==
    /\ tell < MaxTell
    /\ tell' = tell + n
    /\ others' = others + n
    /\ done' = Nothing
    /\ UNCHANGED <<setup, writer, streams, used, queue, given>>

Init ==
    /\ scene \in Scenes
    /\ setup \in Setups
    /\ writer = [kag |-> 1, ber4 |-> FALSE, offset |-> 0, unit |-> 0, next |-> 0]
    /\ streams = <<>> /\ used = {} /\ queue = {} /\ given = <<>>
    /\ tell = 0 /\ call = Nothing /\ others = 0 /\ done = Nothing

\* A call of the caller.
Call ==
    \/ AddStream
    \/ \E id \in DOMAIN streams :
          \/ AddStreamIndex(id)
          \/ SetWriteOrder(id)
          \/ SetRelativeWriteOrder(id)
          \/ GetTrackNumber(id)
          \/ \E item \in Items : AddData(id, item)
    \/ SetKAG
    \/ SetIndexEditUnit
    \/ \E size \in Raws : WriteRaw(size)
    \/ \E n \in Packs : OtherWrite(n)

Step ==
    \/ call = Nothing /\ Call /\ UNCHANGED call
    \/ Flush \/ FlushEnds
    \/ \E b \in queue : FlushItem(b)

Next == Step /\ UNCHANGED scene

Spec == Init /\ [][Next]_vars
-----------------------------------------------------------------------------
(***************************************************************************)
(* Properties                                                              *)
(***************************************************************************)
Flushed == done.op = "flush"

\* Everything that was handed over for a content package is in it, once:
\* no item loses its place in the queue to another one.  (The write order of
\* a stream with a key of its own is made from bytes that nobody set.)
AllWritten ==
    Flushed => \A id \in DOMAIN done.given : ~streams[id].plain =>
        Cardinality({i \in DOMAIN done.klvs : done.klvs[i].stream = id}) = done.given[id]

\* The elements of a package are grouped by type, CP before GC, and within a
\* type as documented: low orders, streams without, high orders; what is set
\* before or behind a type is there, the farther from 0 the closer.
WrittenInOrder ==
    Flushed => \A i, j \in DOMAIN done.klvs :
        (i < j /\ done.klvs[i].rank # -1 /\ done.klvs[j].rank # -1) => done.klvs[i].rank <= done.klvs[j].rank

\* A flush writes the package that was put together, each item once and in
\* the documented order, whenever streams were added and orders set.
PackageTrue == AllWritten /\ WrittenInOrder

\* The key a stream's items are written with holds the track number that was
\* reported for the stream, whatever streams were added since.
TrackNumberKept ==
    Flushed => \A i \in DOMAIN done.klvs :
        LET k == done.klvs[i]
            s == streams[k.stream]
        IN ~s.plain /\ s.told # <<>> => k.key = s.told

\* What the fillers of a package can amount to, one before each item and one
\* behind the last, and by what its lengths can be out.
MostFiller == IF done.kag > 1 /\ ~setup.blocked THEN done.kag + 19 ELSE 0

AllFillers == (Len(done.klvs) + 1) * MostFiller

AllLengths == 5 * Cardinality({i \in DOMAIN done.klvs : streams[done.klvs[i].stream].len # 0})

\* What CalcWriteSize and CalcRawSize said is what is then written; it is out
\* by no more than the fillers, on a file with a KAG, and the lengths that are
\* asked to have a certain size.  BodyWriter decides by them whether a
\* partition is full.
Predicted ==
    (done.op # "none" /\ done.predicted # -1)
      => /\ done.written <= done.predicted + AllFillers + AllLengths
         /\ done.predicted <= done.written + AllFillers + AllLengths

\* On a file with a KAG each type but the system items starts on it, and the
\* package ends on it.
KagKept ==
    (Flushed /\ done.kag > 1 /\ ~setup.blocked)
      => /\ tell % done.kag = 0
         /\ \A i \in DOMAIN done.klvs :
               (done.klvs[i].type # 4 /\ (done.klvs[i].starts \/ setup.alignAll)) => done.klvs[i].tell % done.kag = 0

\* Where the filler before item i of the last package starts.
FillerAt(i) == IF i = 1 THEN done.from ELSE done.klvs[i - 1].value + SizeOf(done.klvs[i - 1].ends)

\* The reads that start an edit unit of a clip, and are answered at once.
Starts(k) == {i \in DOMAIN k.ends : Answered(k.ends, i) /\ \A j \in DOMAIN k.ends : j < i => k.units[j] # k.units[i]}

\* What an index must be told of the last package: of each frame where its
\* key is, of each edit unit of a clip where it starts (or that less the size
\* of key and length, when indexing relative to values), and of the fillers.
Expected ==
    UNION {LET k == done.klvs[i] IN
             (IF k.index /\ ~k.clip THEN {[sub |-> k.stream, unit |-> done.unit, offset |-> k.at]} ELSE {})
             \cup (IF k.clip /\ k.kind = "source"
                     THEN {[sub |-> k.stream, unit |-> k.units[u],
                            offset |-> (IF setup.relative THEN k.at ELSE k.value) + PartAt(k.ends, u)] : u \in Starts(k)}
                   ELSE {})
             \cup (IF k.filler /\ done.kag > 1 /\ k.type # 4 /\ (k.starts \/ setup.alignAll)
                     THEN {[sub |-> -1, unit |-> done.unit, offset |-> FillerAt(i)]} ELSE {})
           : i \in DOMAIN done.klvs}

\* StreamOffset is the place in the essence container: all this writer wrote
\* and nothing that others wrote in between.
OffsetTrue == writer.offset = tell - others

\* KLSize becomes the size of key and length only if the clip starts the flush.
Displaced(klvs, from) ==
    setup.relative /\ \E i \in DOMAIN klvs : klvs[i].clip /\ klvs[i].kind = "source" /\ klvs[i].at # from

\* Flush offers the index manager exactly what it must be told, when indexing
\* relative to values in a package that starts with its only clip.
IndexTrue == OffsetTrue /\ (Flushed /\ ~Displaced(done.klvs, done.from) => done.offers = Expected)

\* The length written for each item is the size of its value, and the value is
\* right behind it, also where the length was not known when the value was
\* begun and was written over, unless an error was reported.
LengthsTrue ==
    (Flushed /\ ~done.error) => \A i \in DOMAIN done.klvs :
        LET k == done.klvs[i] IN k.told = SizeOf(k.ends) /\ k.value = k.at + 16 + k.field

\* What is in the file can be read: it is where the KAG says and as long as
\* its lengths say.
WellFormed == TypeOK /\ KagKept /\ LengthsTrue
=============================================================================
