--------------------------- MODULE GCWriter_proofs ---------------------------
(***************************************************************************)
(* Proofs about GCWriter for any streams, items, sizes and KAGs.           *)
(*                                                                         *)
(* IInv says of the state between calls (Outside) that it has its types,   *)
(* that every stream whose items have keys or whose track number was told  *)
(* has its count fixed, and that StreamOffset is the file less what others *)
(* wrote; of a Flush in progress (CallTrue) and of the last one (DoneTrue) *)
(* that the items written have keys, places and lengths as they should and *)
(* that what was offered to an index is what is due of them, item by item. *)
(*                                                                         *)
(* PackageInv says of write orders (OrdersTrue) that every stream has one  *)
(* that no other has, in the place its rank stands for, of items           *)
(* (ItemsTrue) that what was handed over is queued or written once, and of *)
(* a Flush in progress that what was written precedes what is queued.      *)
(*                                                                         *)
(* SizeInv says of a Flush in progress (SoFarTrue) that what was written   *)
(* and what CalcWriteSize counts for the rest of the queue is what was     *)
(* predicted, but for a filler and a length for each item written: the     *)
(* sum over the queue is taken apart item by item (OneSize, OneAligned).   *)
(*                                                                         *)
(* 1. Sizes.                   5. The other calls keep Outside.            *)
(* 2. Write orders.            6. Flush keeps IInv.                        *)
(* 3. Streams.                 7. The properties.                          *)
(* 4. The calls that add and   8. Where write orders are: the package is   *)
(*    change streams keep         complete and in the documented order.    *)
(*    Outside.                 9. What is predicted is what is written.    *)
(***************************************************************************)
EXTENDS GCWriter, FiniteSetTheorems, SequenceTheorems, WellFoundedInduction, TLAPS

\* The types of the variables and of the records they hold.
AnyWriter == [kag : Nat, ber4 : BOOLEAN, offset : Nat, unit : Nat, next : Nat]

AnyStream ==
    [type : Byte, count : Byte, element : Byte, number : Byte, system : BOOLEAN, fixed : BOOLEAN,
     plain : BOOLEAN, len : Nat, order : Nat, rank : Int, index : BOOLEAN, clip : BOOLEAN, filler : BOOLEAN,
     told : Seq(Nat)]

AnyKind == {"data", "klv", "source"}

AnyBlock ==
    {b \in [order : Nat, rank : Int, stream : Nat, kind : AnyKind, said : Nat, ends : Seq(Nat), units : Seq(Nat),
            fast : BOOLEAN, key : Seq(Nat), len : Nat, index : BOOLEAN, clip : BOOLEAN, filler : BOOLEAN] : WellRead(b)}

\* The reads of a value are of edit units in their order.
Reads(units, ends) ==
    /\ DOMAIN units = DOMAIN ends
    /\ \A i, j \in DOMAIN units : i <= j => units[i] <= units[j]

AnyKlv ==
    {k \in [stream : Nat, rank : Int, key : Seq(Nat), type : Nat, starts : BOOLEAN, at : Nat, tell : Nat, value : Nat,
            told : Nat, field : Nat, ends : Seq(Nat), units : Seq(Nat), index : BOOLEAN, clip : BOOLEAN,
            filler : BOOLEAN, kind : AnyKind] : Reads(k.units, k.ends)}

SceneTyped == scene \in Scenes /\ setup \in Setups

StreamsTyped ==
    /\ streams \in Seq(AnyStream) /\ Len(streams) <= MaxStreams
    /\ IsFiniteSet(used) /\ Cardinality(used) <= MaxOrders
    /\ given \in Seq(Nat) /\ Len(given) = Len(streams)

QueueTyped == queue \subseteq AnyBlock /\ \A b, c \in queue : b.order = c.order => b = c

FileTyped == writer \in AnyWriter /\ tell \in Nat /\ others \in Nat

\* A track number that was told is that of the stream, and stays: its count is fixed.
ToldTrue(s) == ~s.plain /\ s.told # << >> => s.fixed /\ s.told = TrackNumber(s)

\* The streams have the key that an item was given, and keep it.
KeyTrue(stream, key) ==
    /\ stream \in DOMAIN streams
    /\ ~streams[stream].plain
         => (streams[stream].fixed \/ streams[stream].system) /\ key = TrackNumber(streams[stream])

KeysTrue ==
    /\ \A id \in DOMAIN streams : ToldTrue(streams[id])
    /\ \A b \in queue : KeyTrue(b.stream, b.key)

\* What was written in a Flush has the keys of its streams, starts on the KAG
\* where it has to and has the lengths of its values.
Placed(k, kag) ==
    (kag > 1 /\ ~setup.blocked /\ k.type # 4 /\ (k.starts \/ setup.alignAll)) => k.tell % kag = 0

KlvsTrue(klvs, kag) ==
    /\ klvs \in Seq(AnyKlv)
    /\ \A i \in DOMAIN klvs :
          KeyTrue(klvs[i].stream, klvs[i].key) /\ Placed(klvs[i], kag) /\ klvs[i].told = SizeOf(klvs[i].ends)

\* The length fields take what is between keys and values, unless an error was reported.
FieldsTrue(klvs, error) == ~error => \A i \in DOMAIN klvs : klvs[i].value = klvs[i].at + 16 + klvs[i].field

\* Where in the stream the items end, and what an index must be told of one.
EndOf(klvs, from, i) == IF i = 0 THEN from ELSE klvs[i].value + SizeOf(klvs[i].ends)

OffersOf(k, filler, unit, kag) ==
    (IF k.index /\ ~k.clip THEN {[sub |-> k.stream, unit |-> unit, offset |-> k.at]} ELSE {})
    \cup (IF k.clip /\ k.kind = "source"
            THEN {[sub |-> k.stream, unit |-> k.units[u],
                   offset |-> (IF setup.relative THEN k.at ELSE k.value) + PartAt(k.ends, u)] : u \in Starts(k)}
          ELSE {})
    \cup (IF k.filler /\ kag > 1 /\ k.type # 4 /\ (k.starts \/ setup.alignAll)
            THEN {[sub |-> -1, unit |-> unit, offset |-> filler]} ELSE {})

OffersUpTo(klvs, from, unit, kag, n) ==
    UNION {OffersOf(klvs[i], EndOf(klvs, from, i - 1), unit, kag) : i \in 1 .. n}

\* The record of a Flush in progress.
Flushing(from, start, predicted, last, kl, klvs, offers, error) ==
    [op |-> "flush", from |-> from, start |-> start, predicted |-> predicted, last |-> last, kl |-> kl,
     klvs |-> klvs, offers |-> offers, error |-> error]

CallTrue ==
    call # Nothing
      => /\ call = Flushing(call.from, call.start, call.predicted, call.last, call.kl, call.klvs, call.offers, call.error)
         /\ call.from \in Nat /\ call.kl \in Int
         /\ KlvsTrue(call.klvs, writer.kag) /\ FieldsTrue(call.klvs, call.error)
         /\ writer.offset = EndOf(call.klvs, call.from, Len(call.klvs))
         /\ writer.offset >= call.from /\ (writer.offset = call.from => call.kl = call.from)
         /\ ~Displaced(call.klvs, call.from) => call.offers = OffersUpTo(call.klvs, call.from, writer.unit, writer.kag, Len(call.klvs))
         /\ done = Nothing

DoneTrue ==
    Flushed
      => /\ KlvsTrue(done.klvs, done.kag) /\ FieldsTrue(done.klvs, done.error)
         /\ done.kag > 1 /\ ~setup.blocked => tell % done.kag = 0
         /\ ~Displaced(done.klvs, done.from) => done.offers = OffersUpTo(done.klvs, done.from, done.unit, done.kag, Len(done.klvs))

Typed == SceneTyped /\ StreamsTyped /\ QueueTyped /\ FileTyped

IInv == Typed /\ KeysTrue /\ CallTrue /\ DoneTrue /\ OffsetTrue

-----------------------------------------------------------------------------
(***************************************************************************)
(* 1. Sizes.                                                               *)
(***************************************************************************)
\* What precedes the next multiple of K.
LEMMA NextMultiple ==
    ASSUME NEW K \in Nat \ {0}, NEW at \in Nat, NEW n \in Nat
    PROVE  (at + ((K - (at % K)) + n * K)) % K = 0
<1> DEFINE q == at \div K
           r == at % K
           m == at + ((K - r) + n * K)
           p == m \div K
           s == m % K
<1>1. q \in Nat /\ r \in 0 .. K - 1 /\ q * K + r = at
  OBVIOUS
<1>2. m \in Nat /\ m = (q + 1 + n) * K
  <2> HIDE DEF q, r
  <2> QED BY <1>1
<1>3. p \in Nat /\ s \in 0 .. K - 1 /\ p * K + s = m
  <2>1. m \in Nat
    BY <1>2
  <2> HIDE DEF m
  <2> QED BY <2>1 DEF p, s
<1> HIDE DEF q, r, m, p, s
<1>4. s = 0
  <2> DEFINE a == q + 1 + n
  <2>1. a \in Nat /\ a * K = p * K + s
    BY <1>1, <1>2, <1>3
  <2> HIDE DEF a
  <2>2. a = p
    BY <2>1, <1>3
  <2> QED BY <2>1, <2>2, <1>3
<1> QED BY <1>1, <1>4 DEF r, s, m

\* The filler that FillerSize chooses is there, and ends on the KAG.
LEMMA FillerEnds ==
    ASSUME NEW at \in Nat, NEW w \in AnyWriter, w.kag > 1
    PROVE  /\ FillerSize(at, w) \in Nat
           /\ (at + FillerSize(at, w)) % w.kag = 0
           /\ FillerSize(at, w) <= w.kag + 19
<1> DEFINE K == w.kag
           least == IF w.ber4 THEN 20 ELSE 17
           fill == K - (at % K)
           Good(f) == f >= least /\ (f = fill \/ f - K < least)
           F == {fill + n * K : n \in 0 .. 20}
<1>1. K \in Nat /\ K > 1 /\ least \in {17, 20}
  BY DEF AnyWriter
<1>2. fill \in 1 .. K
  <2>1. at % K \in 0 .. K - 1
    BY <1>1
  <2> HIDE DEF K
  <2> QED BY <2>1, <1>1
<1>3. \A n \in Nat : fill + n * K \in Nat /\ (at + (fill + n * K)) % K = 0
  <2> HIDE DEF K
  <2> TAKE n \in Nat
  <2>1. K \in Nat \ {0}
    BY <1>1
  <2>2. (at + (fill + n * K)) % K = 0
    BY <2>1, NextMultiple, Zenon
  <2> HIDE DEF fill
  <2> QED BY <2>2, <1>1, <1>2
<1>4. \E f \in F : Good(f)
  <2>1. \E n \in 0 .. 20 : Good(fill + n * K)
    <3> HIDE DEF K, fill, least
    <3>1. \/ fill + 0 * K >= least
          \/ fill + 1 * K >= least /\ fill + 0 * K < least
          \/ fill + 2 * K >= least /\ fill + 1 * K < least
          \/ fill + 3 * K >= least /\ fill + 2 * K < least
          \/ fill + 4 * K >= least /\ fill + 3 * K < least
          \/ fill + 5 * K >= least /\ fill + 4 * K < least
          \/ fill + 6 * K >= least /\ fill + 5 * K < least
          \/ fill + 7 * K >= least /\ fill + 6 * K < least
          \/ fill + 8 * K >= least /\ fill + 7 * K < least
          \/ fill + 9 * K >= least /\ fill + 8 * K < least
          \/ fill + 10 * K >= least /\ fill + 9 * K < least
      BY <1>1, <1>2
    <3>2. \A m \in 0 .. 19 : fill + (m + 1) * K = fill + m * K + K
      BY <1>1, <1>2
    <3>3. ASSUME NEW m \in 0 .. 9, fill + (m + 1) * K >= least, fill + m * K < least
          PROVE  \E n \in 0 .. 20 : Good(fill + n * K)
      <4>1. Good(fill + (m + 1) * K)
        BY <3>2, <3>3, <1>1, <1>2
      <4> QED BY <4>1
    <3>4. CASE fill + 0 * K >= least
      <4>1. Good(fill + 0 * K)
        BY <3>4, <1>1, <1>2
      <4> QED BY <4>1
    <3>5. CASE \E m \in 0 .. 9 : fill + (m + 1) * K >= least /\ fill + m * K < least
      BY <3>5, <3>3
    <3>6. (\E m \in 0 .. 9 : fill + (m + 1) * K >= least /\ fill + m * K < least) \/ fill + 0 * K >= least
      BY <3>1
    <3> QED BY <3>4, <3>5, <3>6
  <2> HIDE DEF K, fill, least, Good
  <2> QED BY <2>1
<1> DEFINE f == CHOOSE x \in F : Good(x)
<1>5. f \in F /\ Good(f)
  <2> HIDE DEF F, Good
  <2> QED BY <1>4
<1>6. f \in Nat /\ (at + f) % K = 0 /\ f <= K + 19
  <2>1. PICK n \in 0 .. 20 : f = fill + n * K
    BY <1>5
  <2> HIDE DEF f, fill, K, least
  <2>2. f \in Nat /\ (at + f) % K = 0
    BY <2>1, <1>3
  <2> QED BY <2>2, <1>1, <1>2, <1>5
<1>7. FillerSize(at, w) = IF at % K = 0 THEN 0 ELSE f
  BY DEF FillerSize
<1> HIDE DEF f, fill, K, least, Good, F
<1>8. CASE at % K = 0
  <2>1. FillerSize(at, w) = 0 /\ at + 0 = at
    BY <1>7, <1>8
  <2> QED BY <2>1, <1>1, <1>8 DEF K
<1>9. CASE at % K # 0
  BY <1>6, <1>7, <1>9 DEF K
<1> QED BY <1>8, <1>9

\* Filler is a size, and what aligns ends on the KAG.
LEMMA FillerSound ==
    ASSUME NEW at \in Nat, writer \in AnyWriter
    PROVE  /\ Filler(at) \in Nat
           /\ (writer.kag > 1 /\ ~setup.blocked) => (at + Filler(at)) % writer.kag = 0
           /\ Filler(at) <= IF writer.kag > 1 /\ ~setup.blocked THEN writer.kag + 19 ELSE 0
<1>1. CASE writer.kag > 1 /\ ~setup.blocked
  <2>1. /\ FillerSize(at, writer) \in Nat /\ (at + FillerSize(at, writer)) % writer.kag = 0
        /\ FillerSize(at, writer) <= writer.kag + 19
    BY <1>1, FillerEnds
  <2>2. Filler(at) = FillerSize(at, writer)
    BY <1>1 DEF Filler
  <2> QED BY <1>1, <2>1, <2>2
<1>2. CASE ~(writer.kag > 1 /\ ~setup.blocked)
  <2>1. Filler(at) = 0
    BY <1>2 DEF Filler
  <2> QED BY <2>1, <1>2
<1> QED BY <1>1, <1>2

\* Sizes, and what precedes an edit unit, are natural numbers.
LEMMA SizeType ==
    ASSUME NEW ends \in Seq(Nat)
    PROVE  SizeOf(ends) \in Nat /\ \A u \in DOMAIN ends : PartAt(ends, u) \in Nat
<1>1. SizeOf(ends) \in Nat
  BY DEF SizeOf
<1>2. ASSUME NEW u \in DOMAIN ends
      PROVE  PartAt(ends, u) \in Nat
  <2>1. u \in 1 .. Len(ends)
    OBVIOUS
  <2> QED BY <2>1 DEF PartAt
<1> QED BY <1>1, <1>2

\* The size of a length field is a natural number.
LEMMA LengthType ==
    ASSUME NEW b \in AnyBlock
    PROVE  LengthSize(b) \in Nat
<1>1. \A length, size \in Nat : BERSize(length, size) \in Nat
  BY DEF BERSize
<1>2. b.said \in Nat /\ b.len \in Nat
  BY DEF AnyBlock
<1>3. FastLength(b.len) \in Nat
  BY <1>2 DEF FastLength
<1> QED BY <1>1, <1>2, <1>3 DEF LengthSize

\* And so is what an item takes in the file, filler included.
LEMMA BehindType ==
    ASSUME Typed, NEW b \in AnyBlock
    PROVE  /\ FillBefore(b) \in Nat /\ Behind(b) \in Nat
           /\ Behind(b) = FillBefore(b) + 16 + LengthSize(b) + SizeOf(b.ends)
<1>1. FillBefore(b) \in Nat
  <2>1. Filler(tell) \in Nat
    BY FillerSound DEF Typed, FileTyped
  <2> QED BY <2>1 DEF FillBefore
<1>2. SizeOf(b.ends) \in Nat
  BY SizeType DEF AnyBlock
<1> QED BY <1>1, <1>2, LengthType DEF Behind

\* The length that is told is that of the value, and its field has a size; it
\* is the size it was given room for, unless that is reported.
LEMMA ToldType ==
    ASSUME Typed, NEW b \in AnyBlock
    PROVE  /\ Told(b) = SizeOf(b.ends) /\ SizeOf(b.ends) \in Nat
           /\ FieldSize(b) \in Nat
           /\ ~Outgrown(b) => FieldSize(b) = LengthSize(b)
<1>1. /\ FillBefore(b) \in Nat /\ LengthSize(b) \in Nat /\ SizeOf(b.ends) \in Nat /\ tell \in Nat
      /\ Behind(b) = FillBefore(b) + 16 + LengthSize(b) + SizeOf(b.ends)
  BY BehindType, LengthType, SizeType DEF AnyBlock, Typed, FileTyped
<1>2. Measured(b) = SizeOf(b.ends)
  BY <1>1 DEF Measured
<1>3. ~Fast(b) => b.said = SizeOf(b.ends)
  BY DEF AnyBlock, WellRead, SizeOf
<1>4. BERSize(Measured(b), LengthSize(b)) \in Nat
  <2>1. \A length, size \in Nat : BERSize(length, size) \in Nat
    BY DEF BERSize
  <2> QED BY <2>1, <1>1, <1>2
<1> QED BY <1>1, <1>2, <1>3, <1>4 DEF Told, FieldSize, Outgrown

-----------------------------------------------------------------------------
(***************************************************************************)
(* 2. Write orders.                                                        *)
(***************************************************************************)
\* A set of natural numbers has a least one.
LEMMA Least ==
    ASSUME NEW S \in SUBSET Nat, S # {}
    PROVE  \E m \in S : \A k \in S : m <= k
<1> DEFINE R == OpToRel(<, Nat)
<1>1. IsWellFoundedOn(R, Nat)
  BY NatLessThanWellFounded
<1>2. \A x, y \in Nat : <<x, y>> \in R <=> x < y
  BY DEF OpToRel
<1> HIDE DEF R
<1>3. PICK m \in S : \A k \in S : ~(<<k, m>> \in R)
  BY <1>1, WFMin
<1>4. m \in Nat /\ \A k \in S : k \in Nat
  OBVIOUS
<1>5. \A k \in S : ~(k < m)
  BY <1>2, <1>3, <1>4
<1> QED BY <1>4, <1>5

\* Among as many orders as are used and one more, one is free.
LEMMA SomeFree ==
    ASSUME NEW U, IsFiniteSet(U), NEW order \in Int, NEW step \in {-1, 1}
    PROVE  \E n \in 0 .. Cardinality(U) :
              order + step * n \notin U /\ \A m \in 0 .. (n - 1) : order + step * m \in U
<1> DEFINE C == Cardinality(U)
           S == {n \in 0 .. C : order + step * n \notin U}
<1>1. C \in Nat
  BY FS_CardinalityType
<1>2. S # {}
  <2> DEFINE f == [n \in 0 .. C |-> order + step * n]
  <2>1. SUFFICES ASSUME S = {}
                 PROVE  FALSE
    OBVIOUS
  <2>2. f \in [0 .. C -> U]
    BY <2>1
  <2>3. IsFiniteSet(0 .. C) /\ Cardinality(0 .. C) = C + 1
    <3>1. 0 \in Int /\ C \in Int
      BY <1>1
    <3> QED BY <1>1, <3>1, FS_Interval
  <2>4. Cardinality(U) < Cardinality(0 .. C)
    BY <1>1, <2>3
  <2>5. PICK x \in 0 .. C, y \in 0 .. C : x # y /\ f[x] = f[y]
    <3> DEFINE T == 0 .. C
    <3>1. f \in [T -> U] /\ IsFiniteSet(T) /\ IsFiniteSet(U) /\ Cardinality(U) < Cardinality(T)
      BY <2>2, <2>3, <2>4
    <3>2. SUFFICES \E x, y \in T : x # y /\ f[x] = f[y]
      OBVIOUS
    <3> HIDE DEF f, C, T
    <3> QED BY <3>1, FS_PigeonHole
  <2>6. f[x] = order + step * x /\ f[y] = order + step * y
    OBVIOUS
  <2>7. x \in Int /\ y \in Int /\ order + step * x = order + step * y
    BY <2>5, <2>6, <1>1
  <2> QED BY <2>5, <2>7
<1>3. S \in SUBSET Nat
  BY <1>1
<1>4. PICK n \in S : \A k \in S : n <= k
  <2> HIDE DEF S
  <2> QED BY <1>2, <1>3, Least
<1>5. ASSUME NEW m \in 0 .. (n - 1)
      PROVE  order + step * m \in U
  <2>1. m \in 0 .. C /\ ~(n <= m)
    BY <1>1, <1>4
  <2>2. m \notin S
    <3> HIDE DEF S
    <3> QED BY <2>1, <1>4
  <2> QED BY <2>1, <2>2
<1> QED BY <1>1, <1>4, <1>5

\* The order that Free chooses.
LEMMA FreeType ==
    ASSUME StreamsTyped, NEW order \in Int, NEW step \in {-1, 1}
    PROVE  \E n \in 0 .. Cardinality(used) : Free(order, step) = order + step * n
<1> DEFINE n == CHOOSE x \in 0 .. Cardinality(used) :
                   order + step * x \notin used /\ \A m \in 0 .. (x - 1) : order + step * m \in used
<1>1. \E x \in 0 .. Cardinality(used) :
         order + step * x \notin used /\ \A m \in 0 .. (x - 1) : order + step * m \in used
  BY SomeFree DEF StreamsTyped
<1>2. n \in 0 .. Cardinality(used)
  BY <1>1
<1>3. Free(order, step) = order + step * n
  BY DEF Free
<1> QED BY <1>2, <1>3

-----------------------------------------------------------------------------
(***************************************************************************)
(* 3. Streams.                                                             *)
(***************************************************************************)
\* The bounds of a scene.
LEMMA BoundsType ==
    ASSUME SceneTyped
    PROVE  /\ MaxStreams \in Nat /\ MaxStreams < 255
           /\ MaxOrders \in Nat /\ MaxOrders < 65536
BY GCWriterAssumption DEF SceneTyped, MaxStreams, MaxOrders

\* One order more is used.
LEMMA OrderUsed ==
    ASSUME SceneTyped, StreamsTyped, Cardinality(used) < MaxOrders, NEW order
    PROVE  IsFiniteSet(used \cup {order}) /\ Cardinality(used \cup {order}) <= MaxOrders
<1>1. IsFiniteSet(used) /\ Cardinality(used) \in Nat
  BY FS_CardinalityType DEF StreamsTyped
<1>2. /\ IsFiniteSet(used \cup {order})
      /\ Cardinality(used \cup {order}) = IF order \in used THEN Cardinality(used) ELSE Cardinality(used) + 1
  BY <1>1, FS_AddElement
<1>3. MaxOrders \in Int /\ Cardinality(used) < MaxOrders
  BY BoundsType
<1>4. CASE order \in used
  BY <1>1, <1>2, <1>3, <1>4
<1>5. CASE order \notin used
  BY <1>1, <1>2, <1>3, <1>5
<1> QED BY <1>4, <1>5

\* The streams of a type are no more than there are streams.
LEMMA CountType ==
    ASSUME SceneTyped, StreamsTyped, NEW type
    PROVE  /\ Cardinality(OfType(type)) \in 0 .. Len(streams)
           /\ \A id \in DOMAIN streams : streams[id].type = type => Cardinality(OfType(type)) > 0
<1> DEFINE n == Len(streams)
<1>1. n \in Nat /\ DOMAIN streams = 1 .. n
  BY DEF StreamsTyped
<1>2. IsFiniteSet(1 .. n) /\ Cardinality(1 .. n) = n
  <2>1. 1 \in Int /\ n \in Int
    BY <1>1
  <2> HIDE DEF n
  <2> QED BY <1>1, <2>1, FS_Interval
<1>3. OfType(type) \in SUBSET (1 .. n)
  BY <1>1 DEF OfType
<1>4. IsFiniteSet(OfType(type)) /\ Cardinality(OfType(type)) <= n
  <2> HIDE DEF n
  <2> QED BY <1>2, <1>3, FS_Subset
<1>5. Cardinality(OfType(type)) \in Nat
  BY <1>4, FS_CardinalityType
<1>6. ASSUME NEW id \in DOMAIN streams, streams[id].type = type
      PROVE  Cardinality(OfType(type)) > 0
  <2>1. id \in OfType(type)
    BY <1>6 DEF OfType
  <2>2. Cardinality(OfType(type)) # 0
    BY <2>1, <1>4, FS_EmptySet
  <2> QED BY <2>2, <1>5
<1> QED BY <1>1, <1>4, <1>5, <1>6

\* The type that a type sorts under, and the bit for GC.
LEMMA OrderType ==
    ASSUME NEW type \in Nat
    PROVE  /\ Mapped(type) \in Nat /\ GCBit(type) \in Nat
           /\ type > 0 => Mapped(type) > 0
<1>1. Mapped(type) \in Nat /\ (type > 0 => Mapped(type) > 0)
  BY SMT DEF Mapped
<1>2. GCBit(type) \in Nat
  BY SMT DEF GCBit
<1> QED BY <1>1, <1>2

\* A new stream.
LEMMA NewStreamType ==
    ASSUME NEW type \in 0 .. 127, NEW count \in Byte, NEW element \in Byte, NEW number \in Byte
    PROVE  /\ NewStream(type, count, element, number) \in AnyStream
           /\ NewStream(type, count, element, number).told = << >>
<1>1. Mapped(type) \in Nat /\ GCBit(type) \in Nat
  BY OrderType
<1>2. DefaultOrder(type, count, number) \in Nat
  BY <1>1, SMT DEF DefaultOrder, Byte
<1>3. Rank(type, 2, 0) \in Int
  BY <1>1, SMT DEF Rank
<1>4. << >> \in Seq(Nat) /\ 0 \in Nat
  OBVIOUS
<1>5. type \in Byte
  BY DEF Byte
<1> QED BY <1>2, <1>3, <1>4, <1>5 DEF NewStream, AnyStream

\* A stream more.
LEMMA AddKeeps ==
    ASSUME SceneTyped, StreamsTyped, QueueTyped, KeysTrue, NEW stream \in AnyStream, stream.told = << >>,
           Add(stream), UNCHANGED scene
    PROVE  StreamsTyped' /\ KeysTrue'
<1>1. /\ Len(streams) < MaxStreams /\ Cardinality(used) < MaxOrders
      /\ streams' = Append(streams, stream) /\ used' = used \cup {stream.order} /\ given' = Append(given, 0)
      /\ queue' = queue
  BY DEF Add
<1>2. MaxStreams' = MaxStreams /\ MaxOrders' = MaxOrders
  BY DEF MaxStreams, MaxOrders
<1>3. /\ streams' \in Seq(AnyStream) /\ Len(streams') = Len(streams) + 1
      /\ DOMAIN streams' = 1 .. Len(streams) + 1
      /\ \A id \in DOMAIN streams : streams'[id] = streams[id]
      /\ streams'[Len(streams) + 1] = stream
      /\ DOMAIN streams = 1 .. Len(streams) /\ Len(streams) \in Nat
  BY <1>1 DEF StreamsTyped
<1>4. Len(streams') <= MaxStreams'
  <2>1. MaxStreams \in Int
    BY BoundsType
  <2> QED BY <2>1, <1>1, <1>2, <1>3
<1>5. IsFiniteSet(used') /\ Cardinality(used') <= MaxOrders'
  BY <1>1, <1>2, OrderUsed
<1>6. given' \in Seq(Nat) /\ Len(given') = Len(given) + 1
  BY <1>1 DEF StreamsTyped
<1>7. StreamsTyped'
  BY <1>3, <1>4, <1>5, <1>6 DEF StreamsTyped
<1>8. ASSUME NEW id \in DOMAIN streams'
      PROVE  ToldTrue(streams'[id])
  <2>1. CASE id \in DOMAIN streams
    BY <2>1, <1>3 DEF KeysTrue
  <2>2. CASE id = Len(streams) + 1
    BY <2>2, <1>3 DEF ToldTrue
  <2> QED BY <2>1, <2>2, <1>3
<1>9. ASSUME NEW b \in queue
      PROVE  KeyTrue(b.stream, b.key)'
  <2>1. KeyTrue(b.stream, b.key)
    BY DEF KeysTrue
  <2>2. b.stream \in DOMAIN streams' /\ streams'[b.stream] = streams[b.stream]
    BY <2>1, <1>3 DEF KeyTrue
  <2> QED BY <2>1, <2>2 DEF KeyTrue
<1> QED BY <1>1, <1>7, <1>8, <1>9 DEF KeysTrue

\* A stream as it may become: with the key that it was given items with.
Becomes(s, t) ==
    /\ t.plain = s.plain /\ t.system = s.system /\ ToldTrue(t)
    /\ (~s.plain /\ (s.fixed \/ s.system)) => (t.fixed \/ t.system) /\ TrackNumber(t) = TrackNumber(s)

\* One stream changes.
LEMMA ReplaceKeeps ==
    ASSUME StreamsTyped, KeysTrue, NEW id \in DOMAIN streams, NEW t \in AnyStream, Becomes(streams[id], t),
           streams' = [streams EXCEPT ![id] = t]
    PROVE  /\ streams' \in Seq(AnyStream) /\ Len(streams') = Len(streams) /\ DOMAIN streams' = DOMAIN streams
           /\ streams'[id] = t
           /\ \A i \in DOMAIN streams' : ToldTrue(streams'[i])
           /\ \A b \in queue : KeyTrue(b.stream, b.key)'
<1>1. /\ streams' \in Seq(AnyStream) /\ Len(streams') = Len(streams) /\ DOMAIN streams' = DOMAIN streams
      /\ streams'[id] = t /\ \A i \in DOMAIN streams : i # id => streams'[i] = streams[i]
  BY DEF StreamsTyped
<1>2. ASSUME NEW i \in DOMAIN streams'
      PROVE  ToldTrue(streams'[i])
  <2>1. CASE i = id
    BY <2>1, <1>1 DEF Becomes
  <2>2. CASE i # id
    BY <2>2, <1>1 DEF KeysTrue
  <2> QED BY <2>1, <2>2
<1>3. ASSUME NEW b \in queue
      PROVE  KeyTrue(b.stream, b.key)'
  <2>1. KeyTrue(b.stream, b.key)
    BY DEF KeysTrue
  <2>2. CASE b.stream = id
    <3>1. (t.plain = streams[id].plain)
          /\ (~t.plain => (t.fixed \/ t.system) /\ TrackNumber(t) = TrackNumber(streams[id]))
      BY <2>1, <2>2 DEF Becomes, KeyTrue
    <3> QED BY <3>1, <2>1, <2>2, <1>1 DEF KeyTrue
  <2>3. CASE b.stream # id
    <3>1. b.stream \in DOMAIN streams /\ streams'[b.stream] = streams[b.stream]
      BY <2>1, <2>3, <1>1 DEF KeyTrue
    <3> QED BY <3>1, <2>1, <1>1 DEF KeyTrue
  <2> QED BY <2>2, <2>3
<1> QED BY <1>1, <1>2, <1>3

\* What holds whether a Flush is in progress or not.
Outside == Typed /\ KeysTrue /\ OffsetTrue

-----------------------------------------------------------------------------
(***************************************************************************)
(* 4. The calls that add and change streams keep Outside.                  *)
(***************************************************************************)
\* Add keeps Outside, whatever the stream.
LEMMA AddOutside ==
    ASSUME Outside, NEW stream \in AnyStream, stream.told = << >>, Add(stream), UNCHANGED scene
    PROVE  Outside' /\ done' = Nothing
<1>1. SceneTyped /\ StreamsTyped /\ QueueTyped /\ FileTyped /\ KeysTrue /\ OffsetTrue
  BY DEF Outside, Typed
<1>2. UNCHANGED <<scene, setup, writer, queue, tell, others>> /\ done' = Nothing
  BY DEF Add
<1>3. StreamsTyped' /\ KeysTrue'
  BY <1>1, AddKeeps
<1>4. SceneTyped' /\ QueueTyped' /\ FileTyped' /\ OffsetTrue'
  BY <1>1, <1>2 DEF SceneTyped, Setups, QueueTyped, FileTyped, OffsetTrue
<1> QED BY <1>2, <1>3, <1>4 DEF Outside, Typed

\* What an element of a scene is, by how it is added.
LEMMA ElementType ==
    ASSUME SceneTyped, NEW e \in Elements
    PROVE  /\ e.by = "system" => e.scheme \in Byte /\ e.element \in Byte /\ e.sub \in Byte
           /\ e.by \in {"type", "key", "plain"} => e.type \in 0 .. 127 /\ e.len \in Nat
           /\ e.by = "name"
                => /\ e.element \in Byte
                   /\ e.name \in {"CPPicture", "Picture", "CPSound", "Sound", "CPData", "Data", "Compound"}
<1>1. scene.elements \subseteq AnyElement
  BY GCWriterAssumption DEF SceneTyped
<1>2. e \in AnyElement
  BY <1>1 DEF Elements
<1> QED BY <1>2 DEF AnyElement

\* The count and the number of one more element of a type, and those that are fixed.
LEMMA NumberType ==
    ASSUME SceneTyped, StreamsTyped, NEW type
    PROVE  LET n == Cardinality(OfType(type)) IN
           /\ Len(streams) < MaxStreams => n + 1 \in Byte /\ n + 1 + setup.base - 1 \in Byte
           /\ \A id \in DOMAIN streams :
                 streams[id].type = type => n \in Byte /\ n + setup.base - 1 \in Byte
<1> DEFINE n == Cardinality(OfType(type))
<1>1. setup.base \in {0, 1}
  <2>1. \A x \in Scenes : \A y \in x.setups : y.base \in {0, 1}
    BY GCWriterAssumption
  <2> QED BY <2>1 DEF SceneTyped, Setups
<1>2. n \in 0 .. Len(streams) /\ \A id \in DOMAIN streams : streams[id].type = type => n > 0
  BY CountType
<1>3. Len(streams) \in Nat /\ Len(streams) <= MaxStreams /\ MaxStreams \in Nat /\ MaxStreams < 255
  BY BoundsType DEF StreamsTyped
<1> HIDE DEF n
<1>4. \A i \in Int : (0 <= i /\ i < 256) => i \in Byte
  BY DEF Byte
<1>5. Len(streams) < MaxStreams => n + 1 \in Byte /\ n + 1 + setup.base - 1 \in Byte
  <2>1. SUFFICES ASSUME Len(streams) < MaxStreams
                 PROVE  n + 1 \in Byte /\ n + 1 + setup.base - 1 \in Byte
    OBVIOUS
  <2>2. n \in Nat /\ n < 254
    BY <2>1, <1>2, <1>3
  <2> QED BY <2>2, <1>1, <1>4
<1>6. n > 0 => n \in Byte /\ n + setup.base - 1 \in Byte
  <2>1. n \in Nat /\ n < 255
    BY <1>2, <1>3
  <2> QED BY <2>1, <1>1, <1>4
<1> QED BY <1>2, <1>5, <1>6 DEF n

\* A stream with a key of its own, whose bytes nobody set.
LEMMA PlainType ==
    ASSUME NEW e, e.type \in 0 .. 127, e.len \in Nat, NEW count \in Byte, NEW number \in Byte, NEW fixed \in BOOLEAN
    PROVE  PlainStream(e, count, number, fixed) \in AnyStream /\ PlainStream(e, count, number, fixed).told = << >>
<1> DEFINE s == NewStream(e.type, count, 0, number)
           order == e.type * 33554432 + 12582912 + count * 16384 + number
<1>1. s \in AnyStream /\ s.told = << >>
  <2>1. PICK zero \in Byte : zero = 0
    BY DEF Byte
  <2> QED BY <2>1, NewStreamType
<1>2. order \in Nat
  BY SMT DEF Byte
<1>3. PlainStream(e, count, number, fixed)
        = [s EXCEPT !.plain = TRUE, !.fixed = fixed, !.len = e.len, !.rank = -1, !.order = order]
  BY SMT DEF PlainStream
<1>4. PICK rank \in Int : rank = -1
  OBVIOUS
<1> HIDE DEF s, order
<1> QED BY <1>1, <1>2, <1>3, <1>4 DEF AnyStream

\* So does each way to add a stream, as each makes one of AnyStream.
LEMMA AddStreamOutside ==
    ASSUME Outside, AddStream, UNCHANGED scene
    PROVE  Outside' /\ done' = Nothing
<1>1. SceneTyped /\ StreamsTyped
  BY DEF Outside, Typed
<1>2. PICK e \in Elements : AddSystemElement(e) \/ AddEssenceElement(e) \/ AddPlainElement(e) \/ AddNamedElement(e)
  BY DEF AddStream
<1>3. CASE AddSystemElement(e)
  <2> DEFINE type == IF e.cp THEN 4 ELSE 20
             s == NewStream(type, e.scheme, e.element, e.sub)
             order == DefaultOrder(type, e.scheme, e.element * 128 + e.sub)
             t == [s EXCEPT !.system = TRUE, !.order = order]
  <2>1. e.scheme \in Byte /\ e.element \in Byte /\ e.sub \in Byte
    BY <1>1, <1>3, ElementType DEF AddSystemElement
  <2>2. Add(t)
    BY <1>3 DEF AddSystemElement
  <2>3. type \in {4, 20} /\ type \in 0 .. 127
    OBVIOUS
  <2>4. order \in Nat
    <3> HIDE DEF type
    <3>1. Mapped(type) \in Nat /\ GCBit(type) \in Nat
      BY <2>3, OrderType
    <3> DEFINE sub == e.element * 128 + e.sub
    <3>2. e.element \in Nat /\ e.scheme \in Nat /\ e.sub \in Nat
      BY <2>1 DEF Byte
    <3>3. sub \in Nat
      BY <3>2
    <3> HIDE DEF sub
    <3>4. DefaultOrder(type, e.scheme, sub) \in Nat
      BY <3>1, <3>2, <3>3, SMT DEF DefaultOrder
    <3> QED BY <3>4 DEF sub
  <2>5. s \in AnyStream /\ s.told = << >>
    <3> HIDE DEF type
    <3> QED BY <2>1, <2>3, NewStreamType
  <2>6. t \in AnyStream /\ t.told = << >>
    <3> HIDE DEF s, order
    <3> QED BY <2>4, <2>5 DEF AnyStream
  <2> HIDE DEF t
  <2> QED BY <2>2, <2>6, AddOutside
<1>4. CASE AddEssenceElement(e)
  <2> DEFINE n == Cardinality(OfType(e.type))
             s == NewStream(e.type, n + 1, 0, n + 1 + setup.base - 1)
             t == [s EXCEPT !.len = e.len]
  <2>1. e.type \in 0 .. 127 /\ e.len \in Nat
    BY <1>1, <1>4, ElementType DEF AddEssenceElement
  <2>2. Add(t)
    BY <1>4 DEF AddEssenceElement
  <2>3. n + 1 \in Byte /\ n + 1 + setup.base - 1 \in Byte
    <3>1. Len(streams) < MaxStreams
      BY <2>2 DEF Add
    <3> QED BY <1>1, <3>1, NumberType
  <2>4. s \in AnyStream /\ s.told = << >>
    <3> HIDE DEF n
    <3>1. PICK zero \in Byte : zero = 0
      BY DEF Byte
    <3> QED BY <2>1, <2>3, <3>1, NewStreamType
  <2>5. t \in AnyStream /\ t.told = << >>
    <3> HIDE DEF s
    <3> QED BY <2>1, <2>4 DEF AnyStream
  <2> HIDE DEF t
  <2> QED BY <2>2, <2>5, AddOutside
<1>5. CASE AddPlainElement(e)
  <2>1. e.type \in 0 .. 127 /\ e.len \in Nat
    BY <1>1, <1>5, ElementType DEF AddPlainElement
  <2>2. PICK count \in Garbage, number \in Garbage, fixed \in BOOLEAN : Add(PlainStream(e, count, number, fixed))
    BY <1>5 DEF AddPlainElement
  <2>3. count \in Byte /\ number \in Byte
    <3>1. \A x \in Scenes : x.garbage \subseteq Byte
      BY GCWriterAssumption
    <3> QED BY <1>1, <3>1 DEF Garbage, SceneTyped
  <2>4. PlainStream(e, count, number, fixed) \in AnyStream /\ PlainStream(e, count, number, fixed).told = << >>
    BY <2>1, <2>3, PlainType
  <2> QED BY <2>2, <2>4, AddOutside
<1>6. CASE AddNamedElement(e)
  <2> DEFINE type == NamedType(e.name)
             n == Cardinality(OfType(type))
             s == NewStream(type, n + 1, e.element, n + 1 + setup.base - 1)
  <2>1. /\ e.element \in Byte
        /\ e.name \in {"CPPicture", "Picture", "CPSound", "Sound", "CPData", "Data", "Compound"}
    BY <1>1, <1>6, ElementType DEF AddNamedElement
  <2>2. Add(s)
    BY <1>6 DEF AddNamedElement
  <2>3. n + 1 \in Byte /\ n + 1 + setup.base - 1 \in Byte
    <3>1. Len(streams) < MaxStreams
      BY <2>2 DEF Add
    <3> HIDE DEF type
    <3> QED BY <1>1, <3>1, NumberType
  <2>4. type \in 0 .. 127
    BY <2>1 DEF NamedType
  <2>5. s \in AnyStream /\ s.told = << >>
    <3> HIDE DEF n, type
    <3> QED BY <2>1, <2>3, <2>4, NewStreamType
  <2> HIDE DEF s
  <2> QED BY <2>2, <2>5, AddOutside
<1> QED BY <1>2, <1>3, <1>4, <1>5, <1>6

-----------------------------------------------------------------------------
(***************************************************************************)
(* 5. The other calls keep Outside.                                        *)
(***************************************************************************)
\* One stream changes, and perhaps the orders that are used and what is set
\* of the writer.
LEMMA ReplaceOutside ==
    ASSUME Outside, NEW id \in DOMAIN streams, NEW t \in AnyStream, Becomes(streams[id], t),
           streams' = [streams EXCEPT ![id] = t],
           IsFiniteSet(used'), Cardinality(used') <= MaxOrders,
           writer' \in AnyWriter, writer'.offset = writer.offset,
           UNCHANGED <<scene, setup, queue, tell, given, others>>
    PROVE  Outside'
<1>1. SceneTyped /\ StreamsTyped /\ QueueTyped /\ FileTyped /\ KeysTrue /\ OffsetTrue
  BY DEF Outside, Typed
<1>2. /\ streams' \in Seq(AnyStream) /\ Len(streams') = Len(streams)
      /\ \A i \in DOMAIN streams' : ToldTrue(streams'[i])
      /\ \A b \in queue : KeyTrue(b.stream, b.key)'
  BY <1>1, ReplaceKeeps
<1>3. MaxStreams' = MaxStreams /\ MaxOrders' = MaxOrders
  BY DEF MaxStreams, MaxOrders
<1>4. StreamsTyped'
  BY <1>1, <1>2, <1>3 DEF StreamsTyped
<1>5. KeysTrue'
  BY <1>2 DEF KeysTrue
<1>6. SceneTyped' /\ QueueTyped' /\ FileTyped' /\ OffsetTrue'
  BY <1>1 DEF SceneTyped, Setups, QueueTyped, FileTyped, OffsetTrue
<1> QED BY <1>4, <1>5, <1>6 DEF Outside, Typed

\* What does not change what a stream's items are written with.
LEMMA SameKey ==
    ASSUME NEW s \in AnyStream, NEW t \in AnyStream, ToldTrue(s), t.type = s.type, t.count = s.count, t.element = s.element,
           t.number = s.number, t.plain = s.plain, t.system = s.system, t.fixed = s.fixed, t.told = s.told
    PROVE  Becomes(s, t)
<1>1. TrackNumber(t) = TrackNumber(s)
  BY DEF TrackNumber
<1> QED BY <1>1 DEF Becomes, ToldTrue

\* A stream of the table is of AnyStream.
LEMMA StreamThere ==
    ASSUME Outside, NEW id \in DOMAIN streams
    PROVE  streams[id] \in AnyStream /\ ToldTrue(streams[id])
BY DEF Outside, Typed, StreamsTyped, KeysTrue

\* The stream when an index is added for it.
WithIndex(s, i) == [s EXCEPT !.index = TRUE, !.clip = i.clip, !.filler = i.filler]

\* Index entries do not concern keys or orders.
LEMMA AddStreamIndexOutside ==
    ASSUME Outside, NEW id \in DOMAIN streams, AddStreamIndex(id), UNCHANGED scene
    PROVE  Outside' /\ done' = Nothing
<1>1. PICK i \in Indexes : streams' = [streams EXCEPT ![id].index = TRUE, ![id].clip = i.clip, ![id].filler = i.filler]
  BY DEF AddStreamIndex
<1>2. i.clip \in BOOLEAN /\ i.filler \in BOOLEAN
  <2>1. \A x \in Scenes : \A j \in x.indexes : j.clip \in BOOLEAN /\ j.filler \in BOOLEAN
    BY GCWriterAssumption
  <2> QED BY <2>1 DEF Outside, Typed, SceneTyped, Indexes
<1> DEFINE s == streams[id]
           t == WithIndex(s, i)
<1>3. s \in AnyStream /\ ToldTrue(s)
  BY StreamThere
<1>4. streams' = [streams EXCEPT ![id] = t]
  BY <1>1, <1>3 DEF WithIndex
<1>5. t \in AnyStream /\ Becomes(s, t)
  <2>1. /\ t \in AnyStream /\ t.type = s.type /\ t.count = s.count /\ t.element = s.element /\ t.number = s.number
        /\ t.plain = s.plain /\ t.system = s.system /\ t.fixed = s.fixed /\ t.told = s.told
    <3> HIDE DEF s
    <3> QED BY <1>2, <1>3 DEF AnyStream, WithIndex
  <2> HIDE DEF s, t
  <2> QED BY <2>1, <1>3, SameKey
<1>6. /\ UNCHANGED <<scene, setup, writer, used, queue, tell, given, others>> /\ done' = Nothing
  BY DEF AddStreamIndex
<1>7. IsFiniteSet(used') /\ Cardinality(used') <= MaxOrders /\ writer' \in AnyWriter /\ writer'.offset = writer.offset
  BY <1>6 DEF Outside, Typed, StreamsTyped, FileTyped
<1> HIDE DEF t
<1> QED BY <1>4, <1>5, <1>6, <1>7, ReplaceOutside

\* The stream with another write order.
WithOrder(s, order, rank) == [s EXCEPT !.order = order, !.rank = rank]

\* A stream with another order keeps its key.
LEMMA SetOrderOutside ==
    ASSUME Outside, NEW id \in DOMAIN streams, NEW order \in Nat, NEW rank \in Int, SetOrder(id, order, rank),
           Cardinality(used) < MaxOrders, writer' \in AnyWriter, writer'.offset = writer.offset, UNCHANGED scene
    PROVE  Outside' /\ done' = Nothing
<1> DEFINE s == streams[id]
           t == WithOrder(s, order, rank)
<1>1. s \in AnyStream /\ ToldTrue(s)
  BY StreamThere
<1>2. /\ streams' = [streams EXCEPT ![id].order = order, ![id].rank = rank]
      /\ used' = used \cup {order} /\ done' = Nothing
      /\ UNCHANGED <<setup, queue, tell, given, others>>
  BY DEF SetOrder
<1>3. streams' = [streams EXCEPT ![id] = t]
  BY <1>1, <1>2 DEF WithOrder
<1>4. t \in AnyStream /\ Becomes(s, t)
  <2>1. /\ t \in AnyStream /\ t.type = s.type /\ t.count = s.count /\ t.element = s.element /\ t.number = s.number
        /\ t.plain = s.plain /\ t.system = s.system /\ t.fixed = s.fixed /\ t.told = s.told
    <3> HIDE DEF s
    <3> QED BY <1>1 DEF AnyStream, WithOrder
  <2> HIDE DEF s, t
  <2> QED BY <2>1, <1>1, SameKey
<1>5. IsFiniteSet(used') /\ Cardinality(used') <= MaxOrders
  <2>1. SceneTyped /\ StreamsTyped
    BY DEF Outside, Typed
  <2> QED BY <1>2, <2>1, OrderUsed
<1> HIDE DEF t
<1> QED BY <1>2, <1>3, <1>4, <1>5, ReplaceOutside

\* Orders and ranks are numbers.
LEMMA ManualType ==
    ASSUME NEW type \in Nat, NEW order \in Nat
    PROVE  ManualOrder(type, order) \in Nat
<1>1. Mapped(type) \in Nat /\ GCBit(type) \in Nat
  BY OrderType
<1>2. order % 65536 \in Nat
  BY SMT
<1> QED BY <1>1, <1>2, SMT DEF ManualOrder

\* An order relative to a type is a number, also before the first type.
LEMMA RelativeType ==
    ASSUME NEW type \in Nat \ {0}, NEW position \in Int
    PROVE  /\ RelativeOrder(type, position) \in Int
           /\ \A n \in Nat : n < 65536 => RelativeOrder(type, position) - n \in Nat
<1>1. Mapped(type) \in Nat /\ Mapped(type) > 0
  BY OrderType
<1> DEFINE p == position % 65536
<1>2. p \in Nat /\ p <= 65535
  BY SMT
<1> HIDE DEF p
<1>3. (IF position >= 0 THEN Mapped(type) ELSE Mapped(type) - 1) \in Nat
  BY <1>1
<1> DEFINE m == IF position >= 0 THEN Mapped(type) ELSE Mapped(type) - 1
<1>4. RelativeOrder(type, position) = m * 33554432 + 29360128 + (65535 - p) * 32
  BY SMT DEF RelativeOrder, p
<1>5. m \in Nat
  BY <1>3
<1> HIDE DEF m
<1> QED BY <1>2, <1>4, <1>5, SMT

\* A rank is a number.
LEMMA RankType ==
    ASSUME NEW type \in Nat, NEW class \in Nat, NEW order \in Int
    PROVE  Rank(type, class, order) \in Int
<1>1. Mapped(type) \in Nat
  BY OrderType
<1> QED BY <1>1, SMT DEF Rank

\* SetWriteOrder, which finds a free order from a natural number on.
LEMMA SetWriteOrderOutside ==
    ASSUME Outside, NEW id \in DOMAIN streams, SetWriteOrder(id), UNCHANGED scene
    PROVE  Outside' /\ done' = Nothing
<1> DEFINE Order(o) == IF o[1] = -1 THEN writer.next ELSE o[1]
           Type(o) == IF o[2] = -1 THEN streams[id].type ELSE o[2]
           Class(n) == IF n < 32768 THEN 1 ELSE 3
<1>1. SceneTyped /\ StreamsTyped /\ writer \in AnyWriter
  BY DEF Outside, Typed, FileTyped
<1>2. Cardinality(used) < MaxOrders
  BY SMT DEF SetWriteOrder
<1>3. PICK o \in Orders :
         /\ writer' = [writer EXCEPT !.next = IF o[1] = -1 THEN @ + 1 ELSE @]
         /\ SetOrder(id, Free(ManualOrder(Type(o), Order(o)), 1), Rank(Type(o), Class(Order(o)), Order(o)))
  BY SMT DEF SetWriteOrder
<1>4. o[1] \in Nat \cup {-1} /\ o[2] \in 0 .. 127 \cup {-1}
  <2>1. \A x \in Scenes : \A y \in x.orders : y[1] \in Nat \cup {-1} /\ y[2] \in 0 .. 127 \cup {-1}
    BY GCWriterAssumption
  <2> QED BY <1>1, <2>1 DEF SceneTyped, Orders
<1>5. Order(o) \in Nat
  BY <1>1, <1>4 DEF AnyWriter
<1>6. Type(o) \in Nat
  <2>1. streams[id].type \in Nat
    <3>1. streams[id] \in AnyStream
      BY StreamThere
    <3>2. streams[id].type \in Byte
      BY <3>1 DEF AnyStream
    <3> QED BY <3>2 DEF Byte
  <2> QED BY <2>1, <1>4
<1>7. Class(Order(o)) \in Nat
  BY SMT
<1> DEFINE type == Type(o)
           number == Order(o)
           order == Free(ManualOrder(type, number), 1)
           rank == Rank(type, Class(number), number)
<1>8. order \in Nat /\ rank \in Int
  <2>1. ManualOrder(type, number) \in Nat /\ rank \in Int
    <3> DEFINE class == Class(number)
    <3>1. type \in Nat /\ number \in Nat /\ number \in Int /\ class \in Nat
      BY <1>5, <1>6, <1>7
    <3> HIDE DEF type, number, class
    <3>2. ManualOrder(type, number) \in Nat
      BY <3>1, ManualType
    <3>3. Rank(type, class, number) \in Int
      BY <3>1, RankType
    <3> QED BY <3>2, <3>3 DEF class
  <2>2. PICK one \in {-1, 1} : one = 1
    OBVIOUS
  <2>3. PICK n \in 0 .. Cardinality(used) : order = ManualOrder(type, number) + one * n
    <3> HIDE DEF type, number
    <3>1. ManualOrder(type, number) \in Int
      BY <2>1
    <3> QED BY <1>1, <2>2, <3>1, FreeType
  <2>4. Cardinality(used) \in Nat
    BY <1>1, FS_CardinalityType DEF StreamsTyped
  <2> HIDE DEF type, number, order
  <2>5. n \in Nat
    BY <2>4
  <2> QED BY <2>1, <2>2, <2>3, <2>5
<1>9. writer' \in AnyWriter /\ writer'.offset = writer.offset
  BY <1>1, <1>3 DEF AnyWriter
<1>10. SetOrder(id, order, rank)
  BY <1>3
<1> HIDE DEF order, rank
<1> QED BY <1>2, <1>8, <1>9, <1>10, SetOrderOutside

\* SetRelativeWriteOrder, which may go down to find one and finds it above 0.
LEMMA SetRelativeWriteOrderOutside ==
    ASSUME Outside, NEW id \in DOMAIN streams, SetRelativeWriteOrder(id), UNCHANGED scene
    PROVE  Outside' /\ done' = Nothing
<1> DEFINE Step1(r) == IF r[2] >= 0 THEN 1 ELSE -1
           Class(r) == IF r[2] >= 0 THEN 4 ELSE 0
<1>1. SceneTyped /\ StreamsTyped /\ writer \in AnyWriter
  BY DEF Outside, Typed, FileTyped
<1>2. Cardinality(used) < MaxOrders
  BY DEF SetRelativeWriteOrder
<1>3. PICK r \in Relatives :
         /\ SetOrder(id, Free(RelativeOrder(r[1], r[2]), Step1(r)), Rank(r[1], Class(r), -r[2]))
         /\ UNCHANGED writer
  BY DEF SetRelativeWriteOrder
<1>4. r[1] \in 1 .. 127 /\ r[2] \in Int
  <2>1. \A x \in Scenes : \A y \in x.relatives : y[1] \in 1 .. 127 /\ y[2] \in Int
    BY GCWriterAssumption
  <2> QED BY <1>1, <2>1 DEF SceneTyped, Relatives
<1> DEFINE type == r[1]
           position == r[2]
           step == Step1(r)
           class == Class(r)
           relative == RelativeOrder(type, position)
           order == Free(relative, step)
           rank == Rank(type, class, -position)
<1>5. type \in Nat \ {0} /\ position \in Int /\ -position \in Int /\ step \in {-1, 1} /\ class \in Nat
  BY <1>4
<1>6. order \in Nat /\ rank \in Int
  <2> HIDE DEF type, position, step, class
  <2>1. Cardinality(used) \in Nat /\ Cardinality(used) < 65536
    <3>1. Cardinality(used) \in Nat
      BY <1>1, FS_CardinalityType DEF StreamsTyped
    <3>2. MaxOrders \in Nat /\ MaxOrders < 65536
      BY <1>1, BoundsType
    <3> QED BY <3>1, <3>2, <1>2, SMT
  <2>2. \A n \in 0 .. Cardinality(used) : n \in Nat /\ n < 65536
    BY <2>1, SMT
  <2>3. relative \in Int
    BY <1>5, RelativeType
  <2>4. PICK n \in 0 .. Cardinality(used) : order = relative + step * n
    <3> HIDE DEF relative
    <3> QED BY <1>1, <1>5, <2>3, FreeType
  <2>5. n \in Nat /\ n < 65536
    BY <2>2
  <2>6. relative - n \in Nat
    BY <1>5, <2>5, RelativeType
  <2>7. order \in Nat
    <3> HIDE DEF relative, order
    <3>1. CASE step = 1
      BY <3>1, <2>3, <2>4, <2>5, <2>6
    <3>2. CASE step = -1
      BY <3>2, <2>3, <2>4, <2>5, <2>6
    <3> QED BY <3>1, <3>2, <1>5
  <2>8. rank \in Int
    <3>1. type \in Nat
      BY <1>5
    <3> QED BY <1>5, <3>1, RankType
  <2> QED BY <2>7, <2>8
<1>7. writer' \in AnyWriter /\ writer'.offset = writer.offset
  BY <1>1, <1>3
<1>8. SetOrder(id, order, rank)
  BY <1>3
<1> HIDE DEF order, rank
<1> QED BY <1>2, <1>6, <1>7, <1>8, SetOrderOutside

\* A track number is made of bytes.
LEMMA TrackNumberType ==
    ASSUME NEW s \in AnyStream
    PROVE  TrackNumber(s) \in Seq(Nat)
<1>1. s.type \in Byte /\ s.count \in Byte /\ s.element \in Byte /\ s.number \in Byte
  BY DEF AnyStream
<1>2. \A n \in Byte : n \in Nat
  BY DEF Byte
<1>3. s.type \in Nat /\ s.count \in Nat /\ s.element \in Nat /\ s.number \in Nat
  BY <1>1, <1>2
<1> QED BY <1>3 DEF TrackNumber

\* The stream when its count is fixed, and when its track number is told.
WithCount(s, count) == [s EXCEPT !.count = count, !.fixed = TRUE]

WithNumbers(s, count, number) == [s EXCEPT !.count = count, !.number = number, !.fixed = TRUE]

WithTold(s, told) == [s EXCEPT !.told = told]

\* What the three ways to fix a count change, and what not.
LEMMA WithCountIs ==
    ASSUME NEW s \in AnyStream, NEW count \in Byte
    PROVE  LET t == WithCount(s, count) IN
           /\ t \in AnyStream /\ t.plain = s.plain /\ t.system = s.system /\ t.fixed = TRUE
BY DEF WithCount, AnyStream

\* The count and the number.
LEMMA WithNumbersIs ==
    ASSUME NEW s \in AnyStream, NEW count \in Byte, NEW number \in Byte
    PROVE  LET t == WithNumbers(s, count, number) IN
           /\ t \in AnyStream /\ t.plain = s.plain /\ t.system = s.system /\ t.fixed = TRUE /\ t.told = s.told
BY DEF WithNumbers, AnyStream

\* The track number that was told.
LEMMA WithToldIs ==
    ASSUME NEW s \in AnyStream, NEW told \in Seq(Nat)
    PROVE  LET t == WithTold(s, told) IN
           /\ t \in AnyStream /\ t.plain = s.plain /\ t.system = s.system /\ t.fixed = s.fixed /\ t.told = told
           /\ TrackNumber(t) = TrackNumber(s)
BY DEF WithTold, AnyStream, TrackNumber

\* The count and number of the elements of a type fit.
LEMMA FixedNumbers ==
    ASSUME Outside, NEW id \in DOMAIN streams
    PROVE  LET n == Cardinality(OfType(streams[id].type)) IN n \in Byte /\ n + setup.base - 1 \in Byte
<1>1. SceneTyped /\ StreamsTyped
  BY DEF Outside, Typed
<1> QED BY <1>1, NumberType

\* The track number told is that of the stream, whose count is fixed.
LEMMA GetTrackNumberOutside ==
    ASSUME Outside, NEW id \in DOMAIN streams, GetTrackNumber(id), UNCHANGED scene
    PROVE  Outside' /\ done' = Nothing
<1> DEFINE s == streams[id]
           f == FixForTrackNumber(s)
           t == WithTold(f, TrackNumber(f))
           n == Cardinality(OfType(s.type))
<1>1. s \in AnyStream /\ ToldTrue(s)
  BY StreamThere
<1>2. /\ ~s.system /\ streams' = [streams EXCEPT ![id] = t] /\ done' = Nothing
      /\ UNCHANGED <<setup, writer, used, queue, tell, given, others>>
  BY DEF GetTrackNumber, WithTold
<1>3. f = IF s.fixed THEN s ELSE WithCount(s, n)
  BY DEF FixForTrackNumber, WithCount
<1>4. n \in Byte
  BY FixedNumbers
<1> HIDE DEF s, f, n
<1>5. f \in AnyStream /\ f.plain = s.plain /\ f.system = s.system /\ f.fixed
  <2>1. CASE s.fixed
    BY <2>1, <1>1, <1>3
  <2>2. CASE ~s.fixed
    BY <2>2, <1>1, <1>3, <1>4, WithCountIs
  <2> QED BY <2>1, <2>2
<1>6. TrackNumber(f) \in Seq(Nat)
  BY <1>5, TrackNumberType
<1>7. /\ t \in AnyStream /\ t.plain = s.plain /\ t.system = s.system /\ t.fixed
      /\ t.told = TrackNumber(f) /\ TrackNumber(t) = TrackNumber(f)
  BY <1>5, <1>6, WithToldIs
<1>8. s.fixed => TrackNumber(f) = TrackNumber(s)
  BY <1>3
<1> HIDE DEF t
<1>9. Becomes(s, t)
  BY <1>2, <1>7, <1>8 DEF Becomes, ToldTrue
<1>10. IsFiniteSet(used') /\ Cardinality(used') <= MaxOrders /\ writer' \in AnyWriter /\ writer'.offset = writer.offset
  BY <1>2 DEF Outside, Typed, StreamsTyped, FileTyped
<1> USE DEF s
<1> QED BY <1>2, <1>7, <1>9, <1>10, ReplaceOutside

\* The item that is queued for a stream.
LEMMA BlockType ==
    ASSUME NEW id \in Nat, NEW s \in AnyStream, NEW item, item.kind \in AnyKind, item.said \in Nat,
           item.ends \in Seq(Nat), item.units \in Seq(Nat), item.fast \in BOOLEAN, WellRead(item)
    PROVE  /\ Block(id, s, item) \in AnyBlock
           /\ Block(id, s, item).stream = id
           /\ Block(id, s, item).order = s.order
           /\ ~s.plain => Block(id, s, item).key = TrackNumber(s)
<1> DEFINE key == IF s.plain THEN <<id>> ELSE TrackNumber(s)
<1>1. key \in Seq(Nat)
  <2>1. TrackNumber(s) \in Seq(Nat)
    BY TrackNumberType
  <2>2. <<id>> \in Seq(Nat)
    OBVIOUS
  <2> QED BY <2>1, <2>2
<1>2. /\ s.order \in Nat /\ s.rank \in Int /\ s.len \in Nat /\ s.index \in BOOLEAN /\ s.clip \in BOOLEAN
      /\ s.filler \in BOOLEAN
  BY DEF AnyStream
<1>3. (s.index /\ s.clip) \in BOOLEAN /\ (s.index /\ s.filler) \in BOOLEAN
  BY <1>2
<1>4. Block(id, s, item)
        = [order |-> s.order, rank |-> s.rank, stream |-> id, kind |-> item.kind, said |-> item.said, ends |-> item.ends,
           units |-> item.units, fast |-> item.fast, key |-> key, len |-> s.len, index |-> s.index, clip |-> s.index /\ s.clip,
           filler |-> s.index /\ s.filler]
  BY DEF Block
<1> HIDE DEF key
<1>5. Block(id, s, item) \in AnyBlock
  <2>1. WellRead(Block(id, s, item))
    BY <1>4 DEF WellRead, Fast
  <2> QED BY <1>1, <1>2, <1>3, <1>4, <2>1 DEF AnyBlock
<1>6. /\ Block(id, s, item).stream = id /\ Block(id, s, item).order = s.order
      /\ Block(id, s, item).key = key
  BY <1>4
<1> QED BY <1>5, <1>6 DEF key

\* An item gets the key of its stream, which is fixed then; an item whose order
\* is taken is dropped.
LEMMA AddDataOutside ==
    ASSUME Outside, NEW id \in DOMAIN streams, NEW item \in Items, AddData(id, item), UNCHANGED scene
    PROVE  Outside' /\ done' = Nothing
<1> DEFINE s == streams[id]
           n == Cardinality(OfType(s.type))
           t == IF s.system THEN s ELSE FixForKey(s)
           b == Block(id, t, item)
<1>1. s \in AnyStream /\ ToldTrue(s)
  BY StreamThere
<1>2. /\ streams' = [streams EXCEPT ![id] = t] /\ queue' = Insert(b) /\ given' = [given EXCEPT ![id] = @ + 1]
      /\ done' = Nothing /\ UNCHANGED <<setup, writer, used, tell, others>>
  BY DEF AddData
<1>3. n \in Byte /\ n + setup.base - 1 \in Byte
  BY FixedNumbers
<1>4. t = IF s.system \/ s.plain \/ s.fixed THEN s ELSE WithNumbers(s, n, n + setup.base - 1)
  BY DEF FixForKey, WithNumbers
<1>5. /\ item.kind \in AnyKind /\ item.said \in Nat /\ item.ends \in Seq(Nat) /\ item.units \in Seq(Nat)
      /\ item.fast \in BOOLEAN /\ WellRead(item)
  <2>1. /\ scene.items \subseteq [kind : {"data", "klv", "source"}, said : Nat, ends : Seq(Nat), units : Seq(Nat), fast : BOOLEAN]
        /\ \A i \in scene.items : WellRead(i)
    BY GCWriterAssumption DEF Outside, Typed, SceneTyped
  <2>2. /\ item \in [kind : {"data", "klv", "source"}, said : Nat, ends : Seq(Nat), units : Seq(Nat), fast : BOOLEAN]
        /\ WellRead(item)
    BY <2>1 DEF Items
  <2> QED BY <2>2 DEF AnyKind
<1>6. /\ SceneTyped /\ StreamsTyped /\ QueueTyped /\ FileTyped /\ KeysTrue /\ OffsetTrue
      /\ id \in Nat
  BY DEF Outside, Typed, StreamsTyped
<1> HIDE DEF s, n
<1>7. /\ t \in AnyStream /\ t.plain = s.plain /\ t.system = s.system
      /\ ~t.plain => t.fixed \/ t.system
      /\ Becomes(s, t)
  <2>1. CASE s.system \/ s.plain \/ s.fixed
    <3>1. t = s
      BY <2>1, <1>4
    <3> HIDE DEF t
    <3> QED BY <2>1, <3>1, <1>1 DEF Becomes
  <2>2. CASE ~(s.system \/ s.plain \/ s.fixed)
    <3>1. t \in AnyStream /\ t.plain = s.plain /\ t.system = s.system /\ t.fixed /\ t.told = s.told
      <4> DEFINE m == n + setup.base - 1
      <4>1. t = WithNumbers(s, n, m) /\ m \in Byte
        BY <2>2, <1>3, <1>4
      <4> HIDE DEF t, m
      <4> QED BY <4>1, <1>1, <1>3, WithNumbersIs
    <3> HIDE DEF t
    <3>2. s.told = << >> \/ s.plain
      BY <2>2, <1>1 DEF ToldTrue
    <3> QED BY <2>2, <3>1, <3>2 DEF Becomes, ToldTrue
  <2> QED BY <2>1, <2>2
<1> HIDE DEF t
<1>8. b \in AnyBlock /\ b.stream = id /\ (~t.plain => b.key = TrackNumber(t))
  BY <1>5, <1>6, <1>7, BlockType
<1> HIDE DEF b
<1>9. /\ streams' \in Seq(AnyStream) /\ Len(streams') = Len(streams) /\ DOMAIN streams' = DOMAIN streams
      /\ streams'[id] = t
      /\ \A i \in DOMAIN streams' : ToldTrue(streams'[i])
      /\ \A c \in queue : KeyTrue(c.stream, c.key)'
  <2> USE DEF s
  <2> QED BY <1>2, <1>6, <1>7, ReplaceKeeps
<1>10. QueueTyped' /\ \A c \in queue' : c \in queue \/ c = b
  BY <1>2, <1>6, <1>8 DEF QueueTyped, Insert
<1>11. KeysTrue'
  <2>1. PICK c : c = b
    OBVIOUS
  <2>2. c.stream = id /\ (~t.plain => c.key = TrackNumber(t))
    BY <1>8, <2>1
  <2>3. KeyTrue(c.stream, c.key)'
    BY <1>7, <1>9, <2>2 DEF KeyTrue
  <2>4. \A d \in queue' : KeyTrue(d.stream, d.key)'
    BY <1>9, <1>10, <2>1, <2>3
  <2> QED BY <1>9, <2>4 DEF KeysTrue
<1>12. StreamsTyped'
  <2>1. given' \in Seq(Nat) /\ Len(given') = Len(given)
    <3>1. given \in Seq(Nat) /\ DOMAIN given = DOMAIN streams
      BY <1>6 DEF StreamsTyped
    <3>2. given[id] + 1 \in Nat
      BY <3>1
    <3> QED BY <1>2, <3>1, <3>2
  <2>2. MaxStreams' = MaxStreams /\ MaxOrders' = MaxOrders
    BY DEF MaxStreams, MaxOrders
  <2> QED BY <1>2, <1>6, <1>9, <2>1, <2>2 DEF StreamsTyped
<1>13. SceneTyped' /\ FileTyped' /\ OffsetTrue'
  BY <1>2, <1>6 DEF SceneTyped, Setups, FileTyped, OffsetTrue
<1> QED BY <1>2, <1>10, <1>11, <1>12, <1>13 DEF Outside, Typed

\* Only the file or what is set of the writer changes.
LEMMA FileOutside ==
    ASSUME Outside, writer' \in AnyWriter, tell' \in Nat, others' \in Nat, writer'.offset = tell' - others',
           UNCHANGED <<scene, setup, streams, used, queue, given>>
    PROVE  Outside'
<1>1. SceneTyped /\ StreamsTyped /\ QueueTyped /\ KeysTrue
  BY DEF Outside, Typed
<1>2. SceneTyped' /\ QueueTyped' /\ FileTyped' /\ OffsetTrue'
  BY <1>1 DEF SceneTyped, Setups, QueueTyped, FileTyped, OffsetTrue
<1>3. StreamsTyped'
  BY <1>1 DEF StreamsTyped, MaxStreams, MaxOrders
<1>4. KeysTrue'
  <2>1. \A b \in queue : KeyTrue(b.stream, b.key)'
    BY <1>1 DEF KeysTrue, KeyTrue
  <2> QED BY <1>1, <2>1 DEF KeysTrue
<1> QED BY <1>1, <1>2, <1>3, <1>4 DEF Outside, Typed

\* The types of what is given to the file.
LEMMA FileHere ==
    ASSUME Outside
    PROVE  /\ SceneTyped /\ writer \in AnyWriter /\ tell \in Nat /\ others \in Nat
           /\ writer.kag \in Nat /\ writer.offset \in Nat /\ writer.unit \in Nat /\ writer.offset = tell - others
<1>1. SceneTyped /\ writer \in AnyWriter /\ tell \in Nat /\ others \in Nat /\ writer.offset = tell - others
  BY DEF Outside, Typed, FileTyped, OffsetTrue
<1> QED BY <1>1 DEF AnyWriter

\* The KAG of the file.
LEMMA SetKAGOutside ==
    ASSUME Outside, SetKAG, UNCHANGED scene
    PROVE  Outside' /\ done' = Nothing
<1>1. PICK k \in Kags : writer' = [writer EXCEPT !.kag = k[1], !.ber4 = k[2]]
  BY DEF SetKAG
<1>2. k[1] \in Nat /\ k[2] \in BOOLEAN
  <2>1. \A x \in Scenes : \A y \in x.kags : y[1] \in Nat /\ y[2] \in BOOLEAN
    BY GCWriterAssumption
  <2> QED BY <2>1, FileHere DEF SceneTyped, Kags
<1>3. writer \in AnyWriter
  BY FileHere
<1>4. writer' \in AnyWriter /\ writer'.offset = writer.offset
  BY <1>1, <1>2, <1>3 DEF AnyWriter
<1>5. done' = Nothing /\ UNCHANGED <<scene, setup, streams, used, queue, tell, given, others>>
  BY DEF SetKAG
<1> QED BY <1>4, <1>5, FileHere, FileOutside

\* The edit unit of the next package.
LEMMA SetIndexEditUnitOutside ==
    ASSUME Outside, SetIndexEditUnit, UNCHANGED scene
    PROVE  Outside' /\ done' = Nothing
<1>1. PICK u \in Units : writer' = [writer EXCEPT !.unit = u]
  BY DEF SetIndexEditUnit
<1>2. u \in Nat
  <2>1. \A x \in Scenes : x.units \subseteq Nat
    BY GCWriterAssumption
  <2> QED BY <2>1, FileHere DEF SceneTyped, Units
<1>3. writer \in AnyWriter
  BY FileHere
<1>4. writer' \in AnyWriter /\ writer'.offset = writer.offset
  BY <1>1, <1>2, <1>3 DEF AnyWriter
<1>5. done' = Nothing /\ UNCHANGED <<scene, setup, streams, used, queue, tell, given, others>>
  BY DEF SetIndexEditUnit
<1> QED BY <1>4, <1>5, FileHere, FileOutside

\* The writer when it has written n bytes.
Moved(w, n) == [w EXCEPT !.offset = @ + n]

\* It is elsewhere and otherwise the same.
LEMMA MovedIs ==
    ASSUME NEW w \in AnyWriter, NEW n \in Nat
    PROVE  LET m == Moved(w, n) IN
           /\ m \in AnyWriter /\ m.offset = w.offset + n /\ m.kag = w.kag /\ m.unit = w.unit /\ m.ber4 = w.ber4
BY DEF AnyWriter, Moved

\* A raw KLV moves StreamOffset as far as the file.
LEMMA WriteRawOutside ==
    ASSUME Outside, NEW size \in Raws, WriteRaw(size), UNCHANGED scene
    PROVE  Outside' /\ done'.op = "raw"
<1> DEFINE fill == Filler(tell)
           end == tell + fill + 20 + size
           n == tell' - tell
<1>1. size \in Nat
  <2>1. \A x \in Scenes : x.raws \subseteq Nat
    BY GCWriterAssumption
  <2> QED BY <2>1, FileHere DEF SceneTyped, Raws
<1>2. /\ tell' = end + Filler(end) /\ writer' = Moved(writer, n)
      /\ done'.op = "raw" /\ UNCHANGED <<setup, streams, used, queue, given, others>>
  BY DEF WriteRaw, Moved
<1>3. writer \in AnyWriter /\ tell \in Nat /\ others \in Nat /\ writer.offset = tell - others
  BY FileHere
<1>4. fill \in Nat
  BY <1>3, FillerSound
<1>5. end \in Nat /\ end >= tell
  <2> HIDE DEF fill
  <2> QED BY <1>1, <1>3, <1>4
<1>6. tell' \in Nat /\ n \in Nat
  <2> HIDE DEF end
  <2>1. Filler(end) \in Nat
    BY <1>3, <1>5, FillerSound
  <2> QED BY <1>2, <1>3, <1>5, <2>1
<1>7. writer' \in AnyWriter /\ writer'.offset = writer.offset + n
  <2> HIDE DEF n
  <2> QED BY <1>2, <1>3, <1>6, MovedIs
<1>8. writer'.offset = tell' - others'
  BY <1>2, <1>3, <1>6, <1>7
<1> QED BY <1>2, <1>3, <1>6, <1>7, <1>8, FileOutside

\* What others write does not move StreamOffset.
LEMMA OtherWriteOutside ==
    ASSUME Outside, NEW n \in Packs, OtherWrite(n), UNCHANGED scene
    PROVE  Outside' /\ done' = Nothing
<1>1. n \in Nat
  <2>1. \A x \in Scenes : x.packs \subseteq Nat
    BY GCWriterAssumption
  <2> QED BY <2>1, FileHere DEF SceneTyped, Packs
<1>2. /\ tell' = tell + n /\ others' = others + n /\ done' = Nothing
      /\ UNCHANGED <<setup, writer, streams, used, queue, given>>
  BY DEF OtherWrite
<1>3. writer \in AnyWriter /\ tell \in Nat /\ others \in Nat /\ writer.offset = tell - others
  BY FileHere
<1>4. tell' \in Nat /\ others' \in Nat /\ writer'.offset = tell' - others'
  BY <1>1, <1>2, <1>3
<1> QED BY <1>2, <1>3, <1>4, FileOutside

\* No call changes the package that a Flush wrote, or leaves it behind as the last.
LEMMA CallOutside ==
    ASSUME Outside, Call, UNCHANGED scene
    PROVE  Outside' /\ ~Flushed'
<1>1. done' = Nothing => ~Flushed'
  BY DEF Nothing, Flushed
<1>2. CASE AddStream
  BY <1>1, <1>2, AddStreamOutside
<1>3. CASE \E id \in DOMAIN streams : AddStreamIndex(id)
  BY <1>1, <1>3, AddStreamIndexOutside
<1>4. CASE \E id \in DOMAIN streams : SetWriteOrder(id)
  BY <1>1, <1>4, SetWriteOrderOutside
<1>5. CASE \E id \in DOMAIN streams : SetRelativeWriteOrder(id)
  BY <1>1, <1>5, SetRelativeWriteOrderOutside
<1>6. CASE \E id \in DOMAIN streams : GetTrackNumber(id)
  BY <1>1, <1>6, GetTrackNumberOutside
<1>7. CASE \E id \in DOMAIN streams : \E item \in Items : AddData(id, item)
  BY <1>1, <1>7, AddDataOutside
<1>8. CASE SetKAG
  BY <1>1, <1>8, SetKAGOutside
<1>9. CASE SetIndexEditUnit
  BY <1>1, <1>9, SetIndexEditUnitOutside
<1>10. CASE \E size \in Raws : WriteRaw(size)
  <2>1. Outside' /\ done'.op = "raw"
    BY <1>10, WriteRawOutside
  <2> QED BY <2>1 DEF Flushed
<1>11. CASE \E n \in Packs : OtherWrite(n)
  BY <1>1, <1>11, OtherWriteOutside
<1> QED BY <1>2, <1>3, <1>4, <1>5, <1>6, <1>7, <1>8, <1>9, <1>10, <1>11 DEF Call

-----------------------------------------------------------------------------
(***************************************************************************)
(* 6. Flush keeps IInv.                                                    *)
(***************************************************************************)
\* The call begins with nothing written and nothing offered.
LEMMA FlushKeeps ==
    ASSUME IInv, Flush, UNCHANGED scene
    PROVE  IInv'
<1>1. Outside
  BY DEF IInv, Outside
<1>2. /\ call' = Flushing(writer.offset, tell, CalcWriteSize, 255, writer.offset, << >>, {}, FALSE)
      /\ done' = Nothing /\ UNCHANGED <<setup, writer, streams, used, queue, tell, given, others>>
  BY DEF Flush, Flushing
<1>3. Outside'
  BY <1>1, <1>2, FileHere, FileOutside
<1>4. DoneTrue'
  BY <1>2 DEF DoneTrue, Flushed, Nothing
<1> DEFINE c == Flushing(writer.offset, tell, CalcWriteSize, 255, writer.offset, << >>, {}, FALSE)
<1>5. /\ c.from = writer.offset /\ c.start = tell /\ c.predicted = CalcWriteSize /\ c.last = 255
      /\ c.kl = writer.offset /\ c.klvs = << >> /\ c.offers = {} /\ c.error = FALSE
  BY SMT DEF Flushing
<1>6. c = Flushing(c.from, c.start, c.predicted, c.last, c.kl, c.klvs, c.offers, c.error)
  BY <1>5
<1>7. writer.offset \in Nat /\ writer.offset \in Int
  BY <1>1, FileHere
<1> HIDE DEF c
<1>8. /\ call'.from = writer.offset /\ call'.kl = writer.offset /\ call'.klvs = << >> /\ call'.offers = {}
      /\ call' = Flushing(call'.from, call'.start, call'.predicted, call'.last, call'.kl, call'.klvs, call'.offers, call'.error)
  BY <1>2, <1>5, <1>6 DEF c
<1>9. Len(<< >>) = 0 /\ << >> \in Seq(AnyKlv) /\ DOMAIN << >> = {}
  OBVIOUS
<1>10. KlvsTrue(call.klvs, writer.kag)'
  BY <1>8, <1>9 DEF KlvsTrue
<1>11. (writer.offset = EndOf(call.klvs, call.from, Len(call.klvs)))'
  BY <1>2, <1>8, <1>9 DEF EndOf
<1>12. (call.offers = OffersUpTo(call.klvs, call.from, writer.unit, writer.kag, Len(call.klvs)))'
  BY <1>8, <1>9 DEF OffersUpTo
<1>13. /\ call'.from \in Nat /\ call'.kl \in Int
       /\ writer'.offset >= call'.from /\ (writer'.offset = call'.from => call'.kl = call'.from)
       /\ FieldsTrue(call.klvs, call.error)'
  <2>1. writer'.offset = writer.offset
    BY <1>2
  <2>2. call'.from \in Nat /\ call'.kl \in Int
    BY <1>7, <1>8
  <2>3. writer'.offset >= call'.from /\ call'.kl = call'.from
    BY <1>7, <1>8, <2>1
  <2>4. DOMAIN call'.klvs = {}
    BY <1>8, <1>9
  <2> QED BY <2>2, <2>3, <2>4 DEF FieldsTrue
<1>14. done' = Nothing
  BY <1>2
<1>15. CallTrue'
  BY <1>8, <1>10, <1>11, <1>12, <1>13, <1>14 DEF CallTrue
<1> QED BY <1>3, <1>4, <1>15 DEF IInv, Outside

\* A KLV that was written: what a turn of the loop notes of it.
Klv(b, at, where, value, type, starts) ==
    [stream |-> b.stream, rank |-> b.rank, key |-> b.key, type |-> type, starts |-> starts, at |-> at, tell |-> where,
     value |-> value, told |-> Told(b), field |-> FieldSize(b), ends |-> b.ends, units |-> b.units, index |-> b.index,
     clip |-> b.clip, filler |-> b.filler, kind |-> b.kind]

KlvOf(k, b, at, where, value) ==
    /\ k \in AnyKlv
    /\ k.stream = b.stream /\ k.key = b.key /\ k.value = value /\ k.told = SizeOf(k.ends) /\ k.ends = b.ends
    /\ k.at = at /\ k.field = FieldSize(b) /\ k.clip = b.clip /\ k.kind = b.kind

\* It is of AnyKlv and has what its item has.
LEMMA KlvIs ==
    ASSUME Typed, NEW b \in AnyBlock, NEW at \in Nat, NEW where \in Nat, NEW value \in Nat, NEW type \in Nat,
           NEW starts \in BOOLEAN
    PROVE  KlvOf(Klv(b, at, where, value, type, starts), b, at, where, value)
<1>1. Told(b) = SizeOf(b.ends) /\ SizeOf(b.ends) \in Nat /\ FieldSize(b) \in Nat
  BY ToldType
<1>2. Reads(b.units, b.ends)
  BY DEF AnyBlock, WellRead, Reads
<1> QED BY <1>1, <1>2 DEF Klv, AnyBlock, AnyKlv, KlvOf

\* The reads that start an edit unit are those of another unit than the read before.
LEMMA StartsAre ==
    ASSUME NEW k, k.units \in Seq(Nat), Reads(k.units, k.ends)
    PROVE  Starts(k) = {j \in DOMAIN k.ends : NewUnit(k.units, j) /\ Answered(k.ends, j)}
<1> DEFINE u == k.units
           n == Len(u)
<1>1. n \in Nat /\ DOMAIN u = 1 .. n /\ DOMAIN k.ends = 1 .. n /\ \A i \in 1 .. n : u[i] \in Nat
  BY DEF Reads
<1>2. \A i, j \in 1 .. n : i <= j => u[i] <= u[j]
  BY <1>1 DEF Reads
<1> HIDE DEF u, n
<1>3. ASSUME NEW i \in 1 .. n
      PROVE  NewUnit(u, i) <=> \A j \in 1 .. n : j < i => u[j] # u[i]
  <2>1. CASE i = 1
    BY <1>1, <2>1 DEF NewUnit
  <2>2. CASE i # 1
    <3>1. i - 1 \in 1 .. n /\ i - 1 < i
      BY <1>1, <2>2
    <3>2. u[i] # u[i - 1] => u[i - 1] < u[i]
      BY <1>1, <1>2, <3>1
    <3>3. \A j \in 1 .. n : j < i => u[j] <= u[i - 1]
      BY <1>1, <1>2, <3>1
    <3>4. ASSUME u[i] # u[i - 1], NEW j \in 1 .. n, j < i
          PROVE  u[j] # u[i]
      BY <1>1, <3>1, <3>2, <3>3, <3>4
    <3>5. NewUnit(u, i) <=> u[i] # u[i - 1]
      BY <2>2 DEF NewUnit
    <3> QED BY <3>1, <3>4, <3>5
  <2> QED BY <2>1, <2>2
<1>4. Starts(k) = {i \in 1 .. n : Answered(k.ends, i) /\ \A j \in 1 .. n : j < i => u[j] # u[i]}
  BY <1>1 DEF Starts, u
<1> QED BY <1>1, <1>3, <1>4 DEF u

\* The offers of one item more.
LEMMA OffersNext ==
    ASSUME NEW klvs \in Seq(AnyKlv), NEW k \in AnyKlv, NEW from, NEW unit, NEW kag, NEW n, n = Len(klvs)
    PROVE  /\ OffersUpTo(Append(klvs, k), from, unit, kag, n + 1)
                = OffersUpTo(klvs, from, unit, kag, n) \cup OffersOf(k, EndOf(klvs, from, n), unit, kag)
           /\ EndOf(Append(klvs, k), from, n + 1) = k.value + SizeOf(k.ends)
<1> DEFINE more == Append(klvs, k)
           G(i) == OffersOf(more[i], EndOf(more, from, i - 1), unit, kag)
           H(i) == OffersOf(klvs[i], EndOf(klvs, from, i - 1), unit, kag)
<1>1. n \in Nat /\ more[n + 1] = k /\ \A i \in 1 .. n : more[i] = klvs[i]
  OBVIOUS
<1> HIDE DEF more
<1>2. \A i \in 0 .. n : EndOf(more, from, i) = EndOf(klvs, from, i)
  BY <1>1 DEF EndOf
<1>3. ASSUME NEW i \in 1 .. n
      PROVE  G(i) = H(i)
  <2>1. i - 1 \in 0 .. n /\ more[i] = klvs[i]
    BY <1>1
  <2>2. EndOf(more, from, i - 1) = EndOf(klvs, from, i - 1)
    BY <1>2, <2>1
  <2> QED BY <2>1, <2>2
<1>4. G(n + 1) = OffersOf(k, EndOf(klvs, from, n), unit, kag)
  <2>1. (n + 1) - 1 = n /\ n \in 0 .. n
    BY <1>1
  <2>2. EndOf(more, from, n) = EndOf(klvs, from, n)
    BY <1>2, <2>1
  <2> QED BY <1>1, <2>1, <2>2
<1>5. 1 .. (n + 1) = (1 .. n) \cup {n + 1}
  BY <1>1
<1> HIDE DEF G, H
<1>6. UNION {G(i) : i \in 1 .. (n + 1)} = (UNION {H(i) : i \in 1 .. n}) \cup G(n + 1)
  <2> DEFINE A == {G(i) : i \in 1 .. (n + 1)}
             B == {H(i) : i \in 1 .. n}
             C == G(n + 1)
  <2>1. A = B \cup {C}
    BY <1>3, <1>5
  <2> HIDE DEF A, B, C
  <2>2. UNION A = (UNION B) \cup C
    BY <2>1
  <2> QED BY <2>2 DEF A, B, C
<1>7. OffersUpTo(more, from, unit, kag, n + 1) = UNION {G(i) : i \in 1 .. (n + 1)}
  BY DEF OffersUpTo, G
<1>8. OffersUpTo(klvs, from, unit, kag, n) = UNION {H(i) : i \in 1 .. n}
  BY DEF OffersUpTo, H
<1>9. EndOf(more, from, n + 1) = k.value + SizeOf(k.ends)
  BY <1>1 DEF EndOf
<1> QED BY <1>4, <1>6, <1>7, <1>8, <1>9 DEF more

\* What precedes the value of an item, and its offers, when offsets are not relative.
KLSizeOf(b, value) ==
    IF b.kind # "source" THEN call.kl ELSE IF b.clip /\ setup.relative THEN value - call.kl ELSE 0

\* A turn offers of an item what is due, if KLSize is what precedes its value.
LEMMA OffersSame ==
    ASSUME NEW b \in AnyBlock, NEW at \in Nat, NEW where, NEW value \in Nat,
           (setup.relative /\ b.clip /\ b.kind = "source") => call.kl = at
    PROVE  Offers(b, at, value, KLSizeOf(b, value))
             = OffersOf(Klv(b, at, where, value, TypeIn(b.order), TypeIn(b.order) # call.last),
                        writer.offset, writer.unit, writer.kag)
<1> DEFINE type == TypeIn(b.order)
           starts == type # call.last
           k == Klv(b, at, where, value, type, starts)
           kl == KLSizeOf(b, value)
           F == {[sub |-> -1, unit |-> writer.unit, offset |-> writer.offset]}
           S == {[sub |-> b.stream, unit |-> writer.unit, offset |-> at]}
           R == {j \in DOMAIN b.ends : NewUnit(b.units, j) /\ Answered(b.ends, j)}
           C == {[sub |-> b.stream, unit |-> b.units[u], offset |-> value + PartAt(b.ends, u) - kl] : u \in R}
           D == {[sub |-> b.stream, unit |-> b.units[u],
                  offset |-> (IF setup.relative THEN at ELSE value) + PartAt(b.ends, u)] : u \in R}
<1>1. /\ k.stream = b.stream /\ k.type = type /\ k.starts = starts /\ k.at = at /\ k.value = value /\ k.ends = b.ends
      /\ k.index = b.index /\ k.clip = b.clip /\ k.filler = b.filler /\ k.kind = b.kind /\ k.units = b.units
  <2> HIDE DEF type, starts
  <2> QED BY DEF Klv
<1>2. Aligns(type, call.last) <=> writer.kag > 1 /\ type # 4 /\ (starts \/ setup.alignAll)
  <2> HIDE DEF type
  <2> QED BY DEF Aligns
<1>3. b.kind = "source" /\ b.clip => C = D
  <2> SUFFICES ASSUME b.kind = "source", b.clip
               PROVE  C = D
    OBVIOUS
  <2>1. kl = IF setup.relative THEN value - at ELSE 0
    BY DEF KLSizeOf
  <2>2. \A u \in R : PartAt(b.ends, u) \in Nat
    <3>1. \A u \in DOMAIN b.ends : PartAt(b.ends, u) \in Nat
      BY SizeType DEF AnyBlock
    <3> QED BY <3>1
  <2>3. \A u \in R : value + PartAt(b.ends, u) - kl = (IF setup.relative THEN at ELSE value) + PartAt(b.ends, u)
    <3> HIDE DEF kl, R
    <3>1. CASE setup.relative
      BY <2>1, <2>2, <3>1
    <3>2. CASE ~setup.relative
      BY <2>1, <2>2, <3>2
    <3> QED BY <3>1, <3>2
  <2> HIDE DEF kl, R
  <2> QED BY <2>3
<1>4. Offers(b, at, value, kl)
        = (IF Aligns(type, call.last) /\ b.filler THEN F ELSE {})
          \cup (IF b.index /\ ~b.clip THEN S ELSE {})
          \cup (IF b.clip /\ b.kind = "source" THEN C ELSE {})
  <2> HIDE DEF kl
  <2> QED BY DEF Offers
<1>5. OffersOf(k, writer.offset, writer.unit, writer.kag)
        = (IF b.index /\ ~b.clip THEN S ELSE {})
          \cup (IF b.clip /\ b.kind = "source" THEN D ELSE {})
          \cup (IF b.filler /\ writer.kag > 1 /\ type # 4 /\ (starts \/ setup.alignAll) THEN F ELSE {})
  <2>1. Reads(b.units, b.ends) /\ b.units \in Seq(Nat)
    BY DEF AnyBlock, WellRead, Reads
  <2> HIDE DEF k, type, starts
  <2>2. Starts(k) = R
    BY <1>1, <2>1, StartsAre
  <2> HIDE DEF R
  <2> QED BY <1>1, <2>2 DEF OffersOf
<1>6. Offers(b, at, value, kl) = OffersOf(k, writer.offset, writer.unit, writer.kag)
  <2> HIDE DEF F, S, C, D, k, kl, type, starts
  <2>1. CASE b.kind = "source" /\ b.clip
    BY <1>2, <1>3, <1>4, <1>5, <2>1
  <2>2. CASE ~(b.kind = "source" /\ b.clip)
    BY <1>2, <1>4, <1>5, <2>2
  <2> QED BY <2>1, <2>2
<1> QED BY <1>6

\* The items that were written keep what they have while no stream changes.
LEMMA KlvsStay ==
    ASSUME NEW klvs, NEW kag, KlvsTrue(klvs, kag), UNCHANGED <<streams, setup>>
    PROVE  KlvsTrue(klvs, kag)'
BY DEF KlvsTrue, KeyTrue, Placed

\* And one more that has it.
LEMMA KlvsMore ==
    ASSUME NEW klvs, NEW kag, KlvsTrue(klvs, kag), NEW k \in AnyKlv, KeyTrue(k.stream, k.key), Placed(k, kag),
           k.told = SizeOf(k.ends)
    PROVE  KlvsTrue(Append(klvs, k), kag)
<1> DEFINE more == Append(klvs, k)
           n == Len(klvs)
<1>1. klvs \in Seq(AnyKlv)
  BY DEF KlvsTrue
<1>2. /\ more \in Seq(AnyKlv) /\ DOMAIN more = 1 .. (n + 1) /\ more[n + 1] = k
      /\ \A i \in 1 .. n : i \in DOMAIN klvs /\ more[i] = klvs[i]
      /\ n \in Nat
  BY <1>1
<1> HIDE DEF more, n
<1>3. ASSUME NEW i \in DOMAIN more
      PROVE  KeyTrue(more[i].stream, more[i].key) /\ Placed(more[i], kag) /\ more[i].told = SizeOf(more[i].ends)
  <2>1. CASE i = n + 1
    BY <1>2, <2>1
  <2>2. CASE i \in 1 .. n
    BY <1>2, <2>2 DEF KlvsTrue
  <2> QED BY <1>2, <2>1, <2>2
<1>4. KlvsTrue(more, kag)
  BY <1>2, <1>3 DEF KlvsTrue
<1> QED BY <1>4 DEF more

\* An item that a turn of the loop writes.
LEMMA ItemPlaced ==
    ASSUME Outside, NEW b \in AnyBlock
    PROVE  LET type == TypeIn(b.order) IN
           Placed(Klv(b, writer.offset + FillBefore(b), tell + FillBefore(b), writer.offset + FillBefore(b) + 16 + LengthSize(b),
                      type, type # call.last), writer.kag)
<1> DEFINE type == TypeIn(b.order)
           starts == type # call.last
           where == tell + FillBefore(b)
           k == Klv(b, writer.offset + FillBefore(b), where, writer.offset + FillBefore(b) + 16 + LengthSize(b), type, starts)
<1>0. SUFFICES Placed(k, writer.kag)
  OBVIOUS
<1>1. k.type = type /\ k.starts = starts /\ k.tell = where
  <2> HIDE DEF type, starts, where
  <2> QED BY DEF Klv
<1>2. SUFFICES ASSUME writer.kag > 1, ~setup.blocked, type # 4, starts \/ setup.alignAll
               PROVE  where % writer.kag = 0
  <2>1. Placed(k, writer.kag)
          <=> ((writer.kag > 1 /\ ~setup.blocked /\ k.type # 4 /\ (k.starts \/ setup.alignAll)) => k.tell % writer.kag = 0)
    <3> HIDE DEF k
    <3> QED BY Zenon DEF Placed
  <2>2. k.starts <=> starts
    <3> HIDE DEF k
    <3> QED BY <1>1
  <2> HIDE DEF k, type, starts, where
  <2> QED BY <1>1, <2>1, <2>2
<1>3. Aligns(type, call.last)
  <2> HIDE DEF type
  <2> QED BY <1>2 DEF Aligns
<1>4. FillBefore(b) = Filler(tell)
  BY <1>3 DEF FillBefore
<1>5. (tell + Filler(tell)) % writer.kag = 0
  BY <1>2, FileHere, FillerSound
<1> QED BY <1>4, <1>5

\* The record of a Flush after a turn of its loop, field by field.
SetLast(c, last) == [c EXCEPT !.last = last]
SetKL(c, kl) == [c EXCEPT !.kl = kl]
SetError(c, error) == [c EXCEPT !.error = error]
SetKlvs(c, klvs) == [c EXCEPT !.klvs = klvs]
SetOffers(c, offers) == [c EXCEPT !.offers = offers]

Turned(c, last, kl, klvs, offers, error) ==
    SetOffers(SetKlvs(SetError(SetKL(SetLast(c, last), kl), error), klvs), offers)

\* It is the record of a Flush again.
LEMMA TurnedIs ==
    ASSUME NEW from, NEW start, NEW predicted, NEW last0, NEW kl0, NEW klvs0, NEW offers0, NEW error0,
           NEW last, NEW kl, NEW klvs, NEW offers, NEW error
    PROVE  Turned(Flushing(from, start, predicted, last0, kl0, klvs0, offers0, error0), last, kl, klvs, offers, error)
             = Flushing(from, start, predicted, last, kl, klvs, offers, error)
<1> DEFINE F(l, k, q, o, e) == Flushing(from, start, predicted, l, k, q, o, e)
<1>1. \A l, k, q, o, e : SetLast(F(l, k, q, o, e), last) = F(last, k, q, o, e)
  BY DEF Flushing, SetLast
<1>2. \A l, k, q, o, e : SetKL(F(l, k, q, o, e), kl) = F(l, kl, q, o, e)
  BY DEF Flushing, SetKL
<1>3. \A l, k, q, o, e : SetKlvs(F(l, k, q, o, e), klvs) = F(l, k, klvs, o, e)
  BY DEF Flushing, SetKlvs
<1>4. \A l, k, q, o, e : SetOffers(F(l, k, q, o, e), offers) = F(l, k, q, offers, e)
  BY DEF Flushing, SetOffers
<1>5. \A l, k, q, o, e : SetError(F(l, k, q, o, e), error) = F(l, k, q, o, error)
  BY DEF Flushing, SetError
<1>6. Turned(F(last0, kl0, klvs0, offers0, error0), last, kl, klvs, offers, error) = F(last, kl, klvs, offers, error)
  <2> HIDE DEF F
  <2> QED BY <1>1, <1>2, <1>3, <1>4, <1>5 DEF Turned
<1> QED BY <1>6

\* A turn of the loop: the item is written behind the ones before it.
LEMMA FlushItemKeeps ==
    ASSUME IInv, NEW b \in queue, FlushItem(b), UNCHANGED scene
    PROVE  IInv'
<1> DEFINE type == TypeIn(b.order)
           starts == type # call.last
           at == writer.offset + FillBefore(b)
           where == tell + FillBefore(b)
           value == writer.offset + FillBefore(b) + 16 + LengthSize(b)
           kl == KLSizeOf(b, value)
           k == Klv(b, at, where, value, type, starts)
           n == Len(call.klvs)
           offers == Offers(b, at, value, kl)
           error == call.error \/ Outgrown(b)
           klvs == Append(call.klvs, k)
<1>1. Outside /\ CallTrue
  BY DEF IInv, Outside
<1>2. /\ call # Nothing
      /\ queue' = queue \ {b} /\ tell' = tell + Behind(b)
      /\ UNCHANGED <<setup, streams, used, given, others, done>>
  BY DEF FlushItem
<1>3. writer' = Moved(writer, Behind(b))
  BY DEF FlushItem, Moved
<1>4. b \in AnyBlock /\ Typed
  BY <1>1 DEF Outside, Typed, QueueTyped
<1>5. /\ call = Flushing(call.from, call.start, call.predicted, call.last, call.kl, call.klvs, call.offers, call.error)
      /\ call.from \in Nat /\ call.kl \in Int /\ KlvsTrue(call.klvs, writer.kag) /\ FieldsTrue(call.klvs, call.error)
      /\ writer.offset = EndOf(call.klvs, call.from, n)
      /\ writer.offset >= call.from /\ (writer.offset = call.from => call.kl = call.from)
      /\ ~Displaced(call.klvs, call.from) => call.offers = OffersUpTo(call.klvs, call.from, writer.unit, writer.kag, n)
      /\ done = Nothing
  BY <1>1, <1>2 DEF CallTrue
<1>6. call' = [call EXCEPT !.last = type, !.kl = kl, !.error = error, !.klvs = klvs, !.offers = call.offers \cup offers]
  BY DEF FlushItem, Klv, KLSizeOf
<1>7. call' = Flushing(call.from, call.start, call.predicted, type, kl, klvs, call.offers \cup offers, error)
  <2>1. call' = Turned(call, type, kl, klvs, call.offers \cup offers, error)
    <3> HIDE DEF type, kl, klvs, offers, error
    <3> QED BY <1>6 DEF Turned, SetLast, SetKL, SetError, SetKlvs, SetOffers
  <2> HIDE DEF type, kl, klvs, offers, error
  <2> DEFINE c == Flushing(call.from, call.start, call.predicted, call.last, call.kl, call.klvs, call.offers, call.error)
  <2>2. Turned(c, type, kl, klvs, call.offers \cup offers, error)
          = Flushing(call.from, call.start, call.predicted, type, kl, klvs, call.offers \cup offers, error)
    BY TurnedIs
  <2>3. call = c
    BY <1>5
  <2> HIDE DEF c
  <2> QED BY <2>1, <2>2, <2>3
<1>8. /\ FillBefore(b) \in Nat /\ Behind(b) \in Nat /\ LengthSize(b) \in Nat /\ SizeOf(b.ends) \in Nat
      /\ Behind(b) = FillBefore(b) + 16 + LengthSize(b) + SizeOf(b.ends)
  BY <1>4, BehindType, LengthType, SizeType DEF AnyBlock
<1>9. /\ writer \in AnyWriter /\ tell \in Nat /\ others \in Nat /\ writer.offset \in Nat /\ writer.offset = tell - others
  BY <1>1, FileHere
<1>10. at \in Nat /\ where \in Nat /\ value \in Nat /\ type \in Nat /\ starts \in BOOLEAN
  <2>1. at \in Nat /\ where \in Nat /\ value \in Nat
    BY <1>8, <1>9
  <2>2. b.order \in Nat
    BY <1>4 DEF AnyBlock
  <2>3. type \in Nat
    BY <2>2, SMT DEF TypeIn
  <2> QED BY <2>1, <2>3
<1>11. kl \in Int
  <2> HIDE DEF value
  <2> QED BY <1>5, <1>10 DEF KLSizeOf
<1>12. /\ k \in AnyKlv /\ k.stream = b.stream /\ k.key = b.key /\ k.value = value /\ k.told = SizeOf(k.ends) /\ k.ends = b.ends
       /\ k.at = at /\ k.field = FieldSize(b) /\ k.clip = b.clip /\ k.kind = b.kind
  <2> HIDE DEF at, where, value, type, starts
  <2>1. KlvOf(k, b, at, where, value)
    BY <1>4, <1>10, KlvIs
  <2> HIDE DEF k
  <2> QED BY <2>1 DEF KlvOf
<1>13. Placed(k, writer.kag)
  BY <1>1, <1>4, ItemPlaced
<1>14. (setup.relative /\ b.clip /\ b.kind = "source" => at = call.from)
         => offers = OffersOf(k, writer.offset, writer.unit, writer.kag)
  <2> SUFFICES ASSUME setup.relative /\ b.clip /\ b.kind = "source" => at = call.from
               PROVE  offers = OffersOf(k, writer.offset, writer.unit, writer.kag)
    OBVIOUS
  <2>1. at = call.from => call.kl = at
    BY <1>5, <1>8, <1>9
  <2> HIDE DEF at, where, value
  <2> QED BY <1>4, <1>10, <2>1, OffersSame
<1>15. k.value = k.at + 16 + k.field \/ Outgrown(b)
  <2>1. value = at + 16 + LengthSize(b)
    OBVIOUS
  <2>2. Outgrown(b) \/ FieldSize(b) = LengthSize(b)
    BY <1>4, ToldType
  <2> HIDE DEF at, value, k
  <2> QED BY <1>12, <2>1, <2>2
<1>16. error <=> call.error \/ Outgrown(b)
  OBVIOUS
<1> HIDE DEF at, where, type, starts, k, offers, error, kl
<1>17. n \in Nat /\ call.klvs \in Seq(AnyKlv)
  BY <1>5 DEF KlvsTrue
<1>18. /\ klvs \in Seq(AnyKlv) /\ Len(klvs) = n + 1 /\ DOMAIN klvs = 1 .. (n + 1)
       /\ klvs[n + 1] = k /\ \A i \in 1 .. n : i \in DOMAIN call.klvs /\ klvs[i] = call.klvs[i]
  BY <1>12, <1>17
<1>19. /\ writer' \in AnyWriter /\ writer'.offset = writer.offset + Behind(b) /\ writer'.kag = writer.kag
       /\ writer'.unit = writer.unit
  BY <1>3, <1>8, <1>9, MovedIs
<1>20. Outside'
  <2>1. SceneTyped /\ StreamsTyped /\ QueueTyped /\ KeysTrue
    BY <1>1 DEF Outside, Typed
  <2>2. SceneTyped' /\ QueueTyped'
    BY <1>2, <2>1 DEF SceneTyped, Setups, QueueTyped
  <2>3. StreamsTyped'
    BY <1>2, <2>1 DEF StreamsTyped, MaxStreams, MaxOrders
  <2>4. KeysTrue'
    <3>1. \A c \in queue : KeyTrue(c.stream, c.key)'
      BY <1>2, <2>1 DEF KeysTrue, KeyTrue
    <3> QED BY <1>2, <2>1, <3>1 DEF KeysTrue
  <2>5. tell' \in Nat /\ others' = others /\ writer'.offset = tell' - others'
    BY <1>2, <1>8, <1>9, <1>19
  <2>6. FileTyped' /\ OffsetTrue'
    BY <1>9, <1>19, <2>5 DEF FileTyped, OffsetTrue
  <2> QED BY <2>2, <2>3, <2>4, <2>6 DEF Outside, Typed
<1>21. DoneTrue'
  BY <1>2, <1>5 DEF DoneTrue, Flushed, Nothing
<1>22. /\ call'.from = call.from /\ call'.kl = kl /\ call'.klvs = klvs /\ call'.offers = call.offers \cup offers
       /\ call'.error = error
       /\ call' = Flushing(call'.from, call'.start, call'.predicted, call'.last, call'.kl, call'.klvs, call'.offers, call'.error)
  <2> HIDE DEF klvs
  <2> QED BY <1>7 DEF Flushing
<1>23. KlvsTrue(call.klvs, writer.kag)'
  <2>1. KeyTrue(k.stream, k.key)
    BY <1>1, <1>12 DEF Outside, KeysTrue
  <2>2. KlvsTrue(klvs, writer.kag)
    <3> DEFINE kag == writer.kag
    <3> HIDE DEF kag
    <3>1. KlvsTrue(Append(call.klvs, k), kag)
      BY <1>5, <1>12, <1>13, <2>1, KlvsMore DEF kag
    <3> QED BY <3>1 DEF kag
  <2>3. PICK q : q = klvs
    OBVIOUS
  <2>4. PICK g : g = writer.kag
    OBVIOUS
  <2>5. KlvsTrue(q, g)
    BY <2>2, <2>3, <2>4
  <2>6. KlvsTrue(q, g)'
    BY <1>2, <2>5, KlvsStay
  <2>7. call'.klvs = q /\ writer'.kag = g
    BY <1>19, <1>22, <2>3, <2>4
  <2> HIDE DEF klvs
  <2> QED BY <2>6, <2>7 DEF KlvsTrue, Placed
<1>24. (writer.offset = EndOf(call.klvs, call.from, Len(call.klvs)))'
  <2>1. EndOf(klvs, call.from, n + 1) = k.value + SizeOf(k.ends)
    BY <1>12, <1>17, OffersNext
  <2>2. writer'.offset = value + SizeOf(b.ends)
    BY <1>8, <1>9, <1>19
  <2> HIDE DEF klvs
  <2>3. EndOf(call'.klvs, call'.from, Len(call'.klvs)) = value + SizeOf(b.ends)
    BY <1>12, <1>18, <1>22, <2>1
  <2> QED BY <2>2, <2>3 DEF EndOf
<1>25. (~Displaced(call.klvs, call.from) => call.offers = OffersUpTo(call.klvs, call.from, writer.unit, writer.kag, Len(call.klvs)))'
  <2> SUFFICES ASSUME ~Displaced(klvs, call.from)
               PROVE  (call.offers = OffersUpTo(call.klvs, call.from, writer.unit, writer.kag, Len(call.klvs)))'
    <3> HIDE DEF klvs
    <3> QED BY <1>2, <1>22 DEF Displaced
  <2>1. ~Displaced(call.klvs, call.from) /\ (setup.relative /\ b.clip /\ b.kind = "source" => at = call.from)
    <3>1. \A i \in DOMAIN klvs : setup.relative => ~(klvs[i].clip /\ klvs[i].kind = "source" /\ klvs[i].at # call.from)
      <4> HIDE DEF klvs
      <4> QED BY DEF Displaced
    <3>2. \A i \in DOMAIN call.klvs : i \in 1 .. n
      BY <1>17
    <3>3. n + 1 \in DOMAIN klvs /\ klvs[n + 1] = k
      BY <1>17, <1>18
    <3>4. setup.relative /\ b.clip /\ b.kind = "source" => at = call.from
      <4> HIDE DEF klvs, n
      <4> QED BY <1>12, <3>1, <3>3
    <3>5. ~Displaced(call.klvs, call.from)
      <4> SUFFICES ASSUME setup.relative, NEW i \in DOMAIN call.klvs
                   PROVE  ~(call.klvs[i].clip /\ call.klvs[i].kind = "source" /\ call.klvs[i].at # call.from)
        BY DEF Displaced
      <4>1. klvs[i] = call.klvs[i] /\ i \in DOMAIN klvs
        BY <1>17, <1>18, <3>2
      <4> HIDE DEF klvs
      <4> QED BY <3>1, <4>1
    <3> QED BY <3>4, <3>5
  <2>2. OffersUpTo(klvs, call.from, writer.unit, writer.kag, n + 1)
          = OffersUpTo(call.klvs, call.from, writer.unit, writer.kag, n)
            \cup OffersOf(k, EndOf(call.klvs, call.from, n), writer.unit, writer.kag)
    BY <1>12, <1>17, OffersNext
  <2>3. call.offers \cup offers = OffersUpTo(klvs, call.from, writer.unit, writer.kag, n + 1)
    <3> HIDE DEF klvs
    <3> QED BY <1>5, <1>14, <2>1, <2>2
  <2> HIDE DEF klvs
  <2>4. call'.offers = OffersUpTo(call'.klvs, call'.from, writer'.unit, writer'.kag, Len(call'.klvs))
    BY <1>18, <1>19, <1>22, <2>3
  <2> QED BY <1>2, <2>4 DEF OffersUpTo, OffersOf
<1>26. /\ call'.from \in Nat /\ call'.kl \in Int
       /\ writer'.offset >= call'.from /\ (writer'.offset = call'.from => call'.kl = call'.from)
  <2>1. writer'.offset > call.from
    BY <1>5, <1>8, <1>9, <1>19
  <2>2. call'.from = call.from /\ call'.kl = kl
    BY <1>22
  <2>3. call.from \in Nat /\ writer'.offset \in Int
    BY <1>5, <1>8, <1>9, <1>19
  <2> QED BY <1>11, <2>1, <2>2, <2>3
<1>27. FieldsTrue(call.klvs, call.error)'
  <2> SUFFICES ASSUME ~error, NEW i \in DOMAIN klvs
               PROVE  klvs[i].value = klvs[i].at + 16 + klvs[i].field
    <3> HIDE DEF klvs
    <3> QED BY <1>22 DEF FieldsTrue
  <2>1. CASE i = n + 1
    BY <1>15, <1>16, <1>18, <2>1
  <2>2. CASE i \in 1 .. n
    <3> HIDE DEF klvs
    <3> QED BY <1>5, <1>16, <1>18, <2>2 DEF FieldsTrue
  <2> HIDE DEF klvs
  <2> QED BY <1>18, <2>1, <2>2
<1>28. done' = Nothing
  BY <1>2, <1>5
<1>29. CallTrue'
  BY <1>22, <1>23, <1>24, <1>25, <1>26, <1>27, <1>28 DEF CallTrue
<1> QED BY <1>20, <1>21, <1>29 DEF IInv, Outside

\* The items of the package are those of the call, and the file is aligned.
LEMMA FlushEndsKeeps ==
    ASSUME IInv, FlushEnds, UNCHANGED scene
    PROVE  IInv'
<1> DEFINE fill == Filler(tell)
           n == Len(call.klvs)
           w == [Moved(writer, fill) EXCEPT !.unit = writer.unit + 1]
<1>1. Outside /\ CallTrue
  BY DEF IInv, Outside
<1>2. /\ call # Nothing /\ queue = {} /\ tell' = tell + fill /\ call' = Nothing
      /\ given' = [id \in DOMAIN given |-> 0]
      /\ UNCHANGED <<setup, streams, used, queue, others>>
  BY DEF FlushEnds
<1>3. /\ writer \in AnyWriter /\ tell \in Nat /\ others \in Nat /\ writer.offset = tell - others /\ writer.unit \in Nat
      /\ writer.kag \in Nat
  BY <1>1, FileHere
<1>4. fill \in Nat /\ ((writer.kag > 1 /\ ~setup.blocked) => (tell + fill) % writer.kag = 0)
  BY <1>3, FillerSound
<1>5. writer' = w
  BY <1>3 DEF FlushEnds, Moved, AnyWriter
<1>6. writer' \in AnyWriter /\ writer'.offset = writer.offset + fill
  <2> DEFINE m == Moved(writer, fill)
  <2>1. m \in AnyWriter /\ m.offset = writer.offset + fill
    <3> HIDE DEF fill
    <3> QED BY <1>3, <1>4, MovedIs
  <2>2. writer' = [m EXCEPT !.unit = writer.unit + 1] /\ writer.unit + 1 \in Nat
    BY <1>3, <1>5
  <2> HIDE DEF m
  <2> QED BY <2>1, <2>2 DEF AnyWriter
<1>7. Outside'
  <2>1. SceneTyped /\ StreamsTyped /\ QueueTyped /\ KeysTrue
    BY <1>1 DEF Outside, Typed
  <2>2. SceneTyped' /\ QueueTyped'
    BY <1>2, <2>1 DEF SceneTyped, Setups, QueueTyped
  <2>3. given' \in Seq(Nat) /\ Len(given') = Len(given)
    <3>1. DOMAIN given = 1 .. Len(given) /\ Len(given) \in Nat
      BY <2>1 DEF StreamsTyped
    <3>2. given' = [id \in 1 .. Len(given) |-> 0]
      BY <1>2, <3>1
    <3> QED BY <3>1, <3>2
  <2>4. StreamsTyped'
    BY <1>2, <2>1, <2>3 DEF StreamsTyped, MaxStreams, MaxOrders
  <2>5. KeysTrue'
    BY <1>2, <2>1 DEF KeysTrue
  <2>6. tell' \in Nat /\ others' = others /\ writer'.offset = tell' - others'
    <3> HIDE DEF fill
    <3> QED BY <1>2, <1>3, <1>4, <1>6
  <2>7. FileTyped' /\ OffsetTrue'
    BY <1>3, <1>6, <2>6 DEF FileTyped, OffsetTrue
  <2> QED BY <2>2, <2>4, <2>5, <2>7 DEF Outside, Typed
<1>8. CallTrue'
  BY <1>2 DEF CallTrue
<1>9. /\ call.from \in Nat /\ KlvsTrue(call.klvs, writer.kag) /\ FieldsTrue(call.klvs, call.error)
      /\ ~Displaced(call.klvs, call.from) => call.offers = OffersUpTo(call.klvs, call.from, writer.unit, writer.kag, n)
  BY <1>1, <1>2 DEF CallTrue
<1>10. /\ done'.kag = writer.kag /\ done'.klvs = call.klvs /\ done'.offers = call.offers /\ done'.from = call.from
       /\ done'.unit = writer.unit /\ done'.error = call.error
  BY DEF FlushEnds
<1> HIDE DEF fill
<1>11. KlvsTrue(done.klvs, done.kag)'
  <2>1. PICK q : q = call.klvs
    OBVIOUS
  <2>2. PICK g : g = writer.kag
    OBVIOUS
  <2>3. KlvsTrue(q, g)
    BY <1>9, <2>1, <2>2
  <2>4. KlvsTrue(q, g)'
    BY <1>2, <2>3, KlvsStay
  <2>5. done'.klvs = q /\ done'.kag = g
    BY <1>10, <2>1, <2>2
  <2> QED BY <2>4, <2>5 DEF KlvsTrue, Placed
<1>12. (done.kag > 1 /\ ~setup.blocked => tell % done.kag = 0)'
  BY <1>2, <1>4, <1>10
<1>13. (~Displaced(done.klvs, done.from) => done.offers = OffersUpTo(done.klvs, done.from, done.unit, done.kag, Len(done.klvs)))'
  <2> SUFFICES ASSUME ~Displaced(call.klvs, call.from)
               PROVE  (done.offers = OffersUpTo(done.klvs, done.from, done.unit, done.kag, Len(done.klvs)))'
    BY <1>2, <1>10 DEF Displaced
  <2>1. done'.offers = OffersUpTo(done'.klvs, done'.from, done'.unit, done'.kag, Len(done'.klvs))
    BY <1>9, <1>10
  <2> QED BY <1>2, <2>1 DEF OffersUpTo, OffersOf
<1>14. FieldsTrue(done.klvs, done.error)'
  BY <1>9, <1>10 DEF FieldsTrue
<1>15. DoneTrue'
  BY <1>11, <1>12, <1>13, <1>14 DEF DoneTrue
<1> QED BY <1>7, <1>8, <1>15 DEF IInv, Outside

-----------------------------------------------------------------------------
(***************************************************************************)
(* 7. The properties.                                                      *)
(***************************************************************************)
\* A new writer has IInv.
LEMMA InitHolds ==
    ASSUME Init
    PROVE  IInv
<1>1. /\ scene \in Scenes /\ setup \in Setups
      /\ writer = [kag |-> 1, ber4 |-> FALSE, offset |-> 0, unit |-> 0, next |-> 0]
      /\ streams = << >> /\ used = {} /\ queue = {} /\ given = << >>
      /\ tell = 0 /\ call = Nothing /\ others = 0 /\ done = Nothing
  BY DEF Init
<1>2. SceneTyped /\ QueueTyped /\ KeysTrue /\ CallTrue
  BY <1>1 DEF SceneTyped, QueueTyped, KeysTrue, CallTrue
<1>3. MaxStreams \in Nat /\ MaxOrders \in Nat
  <2>1. \A x \in Scenes : {x.maxStreams, x.maxOrders} \subseteq Nat
    BY GCWriterAssumption
  <2> QED BY <1>1, <2>1 DEF MaxStreams, MaxOrders
<1>4. StreamsTyped
  <2>1. IsFiniteSet(used) /\ Cardinality(used) = 0
    BY <1>1, FS_EmptySet
  <2>2. streams \in Seq(AnyStream) /\ Len(streams) = 0 /\ given \in Seq(Nat) /\ Len(given) = 0
    BY <1>1
  <2> QED BY <1>3, <2>1, <2>2 DEF StreamsTyped
<1>5. FileTyped
  BY <1>1 DEF FileTyped, AnyWriter
<1>6. OffsetTrue
  BY <1>1 DEF OffsetTrue
<1>7. DoneTrue
  BY <1>1 DEF DoneTrue, Flushed, Nothing
<1> QED BY <1>2, <1>4, <1>5, <1>6, <1>7 DEF IInv, Typed

\* Every step keeps it, between two calls and within a Flush.
LEMMA StepKeeps ==
    ASSUME IInv, [Next]_vars
    PROVE  IInv'
<1>1. CASE UNCHANGED vars
  <2>1. UNCHANGED <<scene, setup, writer, streams, used, queue, tell, call, given, others, done>>
    BY <1>1 DEF vars
  <2>2. Outside
    BY DEF IInv, Outside
  <2>3. Outside'
    BY <2>1, <2>2, FileHere, FileOutside
  <2>4. CallTrue'
    <3>1. CallTrue
      BY DEF IInv
    <3> QED BY <2>1, <3>1 DEF CallTrue, KlvsTrue, FieldsTrue, KeyTrue, Placed, Displaced, EndOf, OffersUpTo, OffersOf
  <2>5. DoneTrue'
    <3>1. DoneTrue
      BY DEF IInv
    <3> QED BY <2>1, <3>1 DEF DoneTrue, Flushed, KlvsTrue, FieldsTrue, KeyTrue, Placed, Displaced, OffersUpTo, OffersOf
  <2> QED BY <2>3, <2>4, <2>5 DEF IInv, Outside
<1>2. CASE Step /\ UNCHANGED scene
  <2>1. CASE call = Nothing /\ Call /\ UNCHANGED call
    <3>1. Outside
      BY DEF IInv, Outside
    <3>2. Outside' /\ ~Flushed'
      BY <1>2, <2>1, <3>1, CallOutside
    <3>3. CallTrue'
      BY <2>1 DEF CallTrue
    <3>4. DoneTrue'
      BY <3>2 DEF DoneTrue
    <3> QED BY <3>2, <3>3, <3>4 DEF IInv, Outside
  <2>2. CASE Flush
    BY <1>2, <2>2, FlushKeeps
  <2>3. CASE FlushEnds
    BY <1>2, <2>3, FlushEndsKeeps
  <2>4. CASE \E b \in queue : FlushItem(b)
    BY <1>2, <2>4, FlushItemKeeps
  <2> QED BY <1>2, <2>1, <2>2, <2>3, <2>4 DEF Step
<1> QED BY <1>1, <1>2 DEF Next

\* The inductive invariant.
THEOREM Invariant == Spec => []IInv
<1>1. Init => IInv
  BY InitHolds
<1>2. IInv /\ [Next]_vars => IInv'
  BY StepKeeps
<1> QED BY <1>1, <1>2, PTL DEF Spec

\* The key of every item holds the track number that GetTrackNumber reported
\* for its stream, however many streams of the type were added since.
THEOREM TrackNumberKeptAlways == Spec => []TrackNumberKept
<1>1. IInv => TrackNumberKept
  <2> SUFFICES ASSUME IInv, Flushed, NEW i \in DOMAIN done.klvs,
                      ~streams[done.klvs[i].stream].plain, streams[done.klvs[i].stream].told # << >>
               PROVE  done.klvs[i].key = streams[done.klvs[i].stream].told
    BY DEF TrackNumberKept
  <2>1. KeyTrue(done.klvs[i].stream, done.klvs[i].key)
    BY DEF IInv, DoneTrue, KlvsTrue
  <2>2. \A id \in DOMAIN streams : ToldTrue(streams[id])
    BY DEF IInv, KeysTrue
  <2> QED BY <2>1, <2>2 DEF KeyTrue, ToldTrue
<1> QED BY <1>1, Invariant, PTL

\* Flush offers the index manager every frame, filler and edit unit of the
\* package whose first read is answered, and nothing else, each with the place
\* where it is in the essence container; with indexing relative to values, in
\* a package that starts with its only clip.
THEOREM IndexTrueAlways == Spec => []IndexTrue
<1>1. IInv => IndexTrue
  <2> SUFFICES ASSUME IInv
               PROVE  Flushed /\ ~Displaced(done.klvs, done.from) => done.offers = Expected
    BY DEF IInv, IndexTrue
  <2> SUFFICES ASSUME Flushed, ~Displaced(done.klvs, done.from)
               PROVE  done.offers = Expected
    OBVIOUS
  <2> DEFINE G(i) == OffersOf(done.klvs[i], EndOf(done.klvs, done.from, i - 1), done.unit, done.kag)
             E(i) == LET k == done.klvs[i] IN
                       (IF k.index /\ ~k.clip THEN {[sub |-> k.stream, unit |-> done.unit, offset |-> k.at]} ELSE {})
                       \cup (IF k.clip /\ k.kind = "source"
                               THEN {[sub |-> k.stream, unit |-> k.units[u],
                                      offset |-> (IF setup.relative THEN k.at ELSE k.value) + PartAt(k.ends, u)] : u \in Starts(k)}
                             ELSE {})
                       \cup (IF k.filler /\ done.kag > 1 /\ k.type # 4 /\ (k.starts \/ setup.alignAll)
                               THEN {[sub |-> -1, unit |-> done.unit, offset |-> FillerAt(i)]} ELSE {})
  <2>2. done.klvs \in Seq(AnyKlv) /\ done.offers = OffersUpTo(done.klvs, done.from, done.unit, done.kag, Len(done.klvs))
    BY DEF IInv, DoneTrue, KlvsTrue
  <2>3. DOMAIN done.klvs = 1 .. Len(done.klvs) /\ Len(done.klvs) \in Nat
    BY <2>2
  <2>4. ASSUME NEW i \in DOMAIN done.klvs
        PROVE  G(i) = E(i)
    <3>1. FillerAt(i) = EndOf(done.klvs, done.from, i - 1)
      <4>1. i \in Nat /\ i >= 1
        BY <2>3
      <4> QED BY <4>1 DEF FillerAt, EndOf
    <3> QED BY <3>1, Zenon DEF OffersOf
  <2>5. done.offers = UNION {G(i) : i \in DOMAIN done.klvs}
    BY <2>2, <2>3 DEF OffersUpTo
  <2>6. Expected = UNION {E(i) : i \in DOMAIN done.klvs}
    BY Zenon DEF Expected
  <2> HIDE DEF G, E
  <2> QED BY <2>4, <2>5, <2>6
<1> QED BY <1>1, Invariant, PTL

\* What a Flush wrote can be read back: each type starts on the KAG and so
\* does what follows the package, and, unless an error is reported, the lengths
\* that are told, also where one is written over a provisional one, are those
\* of the values and take the bytes between key and value.
THEOREM WellFormedAlways == Spec => []WellFormed
<1>1. IInv => TypeOK
  <2> SUFFICES ASSUME IInv
               PROVE  TypeOK
    OBVIOUS
  <2>1. StreamsTyped /\ QueueTyped /\ FileTyped
    BY DEF IInv, Typed
  <2>2. DOMAIN given = DOMAIN streams
    BY <2>1 DEF StreamsTyped
  <2>3. ASSUME NEW id \in DOMAIN streams
        PROVE  /\ streams[id].type \in Byte /\ streams[id].count \in Byte /\ streams[id].number \in Byte
               /\ streams[id].order \in Nat /\ streams[id].told \in Seq(Nat)
    <3>1. streams[id] \in AnyStream
      BY <2>1 DEF StreamsTyped
    <3> QED BY <3>1 DEF AnyStream
  <2> QED BY <2>1, <2>2, <2>3 DEF TypeOK, QueueTyped, FileTyped, AnyWriter
<1>2. IInv => KagKept
  <2> SUFFICES ASSUME IInv, Flushed, done.kag > 1, ~setup.blocked
               PROVE  /\ tell % done.kag = 0
                      /\ \A i \in DOMAIN done.klvs :
                           (done.klvs[i].type # 4 /\ (done.klvs[i].starts \/ setup.alignAll)) => done.klvs[i].tell % done.kag = 0
    BY DEF KagKept
  <2>1. tell % done.kag = 0 /\ \A i \in DOMAIN done.klvs : Placed(done.klvs[i], done.kag)
    BY DEF IInv, DoneTrue, KlvsTrue
  <2> QED BY <2>1 DEF Placed
<1>3. IInv => LengthsTrue
  BY DEF IInv, DoneTrue, KlvsTrue, FieldsTrue, LengthsTrue
<1> QED BY <1>1, <1>2, <1>3, Invariant, PTL DEF WellFormed

-----------------------------------------------------------------------------
(***************************************************************************)
(* 8. The package is complete and in the documented order.                 *)
(*                                                                         *)
(* Where the streams of a type are among the write orders, by the class of *)
(* the place that was given to them (see Rank): a row for each sorting     *)
(* type M, CP (g = 0) or GC (1), and class, and in it a place for each k.  *)
(***************************************************************************)
Start(M, g) == M * 33554432 + g * 8388608

Low(class) ==
    CASE class = 0 -> -4194335 [] class = 1 -> 0 [] class = 2 -> 4194304 [] class = 3 -> 7340032
      [] OTHER -> 20971520

High(class) ==
    CASE class = 0 -> -2097152 [] class = 1 -> 1048576 [] class = 2 -> 7340032 [] class = 3 -> 8388608
      [] OTHER -> 23068672

InRow(order, M, g, class) == Start(M, g) + Low(class) <= order /\ order < Start(M, g) + High(class)

\* The rows in their order.
RowOf(M, g, class) == (M * 2 + g) * 5 + class

\* What is before a type is CP, what is behind it GC.
Sided(g, class) == (class = 0 => g = 0) /\ (class = 4 => g = 1)

\* An order of a row and one of a lower row, but what is behind a type and what
\* is before the next one are in the same place.
Higher(o, M, g, c, p, N, h, d) ==
    /\ {o, p, M, N} \subseteq Int /\ {g, h} \subseteq {0, 1} /\ {c, d} \subseteq 0 .. 4
    /\ InRow(o, M, g, c) /\ InRow(p, N, h, d)
    /\ Sided(g, c) /\ Sided(h, d)
    /\ RowOf(M, g, c) > RowOf(N, h, d)
    /\ ~(c = 0 /\ d = 4 /\ M = N + 1)

\* A row that is higher has higher orders.
LEMMA RowsApart ==
    ASSUME NEW o, NEW M, NEW g, NEW c, NEW p, NEW N, NEW h, NEW d, Higher(o, M, g, c, p, N, h, d)
    PROVE  o > p
<1>7. /\ o \in Int /\ p \in Int /\ M \in Int /\ N \in Int /\ g \in {0, 1} /\ h \in {0, 1}
      /\ c \in 0 .. 4 /\ d \in 0 .. 4
      /\ InRow(o, M, g, c) /\ InRow(p, N, h, d) /\ Sided(g, c) /\ Sided(h, d)
      /\ RowOf(M, g, c) > RowOf(N, h, d) /\ ~(c = 0 /\ d = 4 /\ M = N + 1)
  BY DEF Higher
<1> HIDE DEF Higher
<1>0. (M * 2 + g) * 5 + c > (N * 2 + h) * 5 + d
  BY <1>7 DEF RowOf
<1>1. /\ o >= M * 33554432 + g * 8388608 + Low(c) /\ p < N * 33554432 + h * 8388608 + High(d)
      /\ Low(c) \in Int /\ High(d) \in Int
  BY <1>7 DEF InRow, Start, Low, High
<1>2. /\ c # 0 => Low(c) >= 0
      /\ c = 0 => Low(c) = -4194335 /\ g = 0
      /\ d # 4 => High(d) <= 8388608
      /\ d = 4 => High(d) = 23068672 /\ h = 1
  BY <1>7 DEF Low, High, Sided
<1>3. CASE M > N /\ c # 0
  BY <1>7, <1>1, <1>2, <1>3
<1>4. CASE M > N /\ c = 0
  BY <1>7, <1>1, <1>2, <1>4
<1>5. CASE M = N /\ g > h
  <2>1. c # 0 /\ d # 4 /\ g = 1 /\ h = 0
    BY <1>7, <1>5 DEF Sided
  <2> QED BY <1>7, <2>1, <1>1, <1>2, <1>5
<1>6. CASE M = N /\ g = h /\ c > d
  <2>1. High(d) <= Low(c)
    BY <1>7, <1>6 DEF Low, High
  <2> QED BY <1>7, <2>1, <1>1, <1>6
<1> QED BY <1>7, <1>0, <1>3, <1>4, <1>5, <1>6

\* Each place of a row but those in the default one has room for 32 orders.
Offset(class) ==
    CASE class = 0 -> -4194367 [] class = 1 -> 0 [] class = 3 -> 6291456 [] OTHER -> 23068640

Places(class, k) ==
    /\ class = 0 => 1 <= k /\ k <= 65535
    /\ class = 1 => 0 <= k /\ k <= 32767
    /\ class = 3 => 32768 <= k /\ k <= 65535
    /\ class = 4 => 0 - 65535 <= k /\ k <= 0

InPlace(order, M, g, class, k) ==
    IF class = 2 THEN k = 0 /\ InRow(order, M, g, class)
    ELSE LET from == Start(M, g) + Offset(class) + k * 32
         IN Places(class, k) /\ from <= order /\ order < from + 32

\* The places of a row.
Near(k) == k > -65536 /\ k < 65536

\* Places are in their rows.
LEMMA PlaceInRow ==
    ASSUME NEW M \in Int, NEW g \in {0, 1}, NEW c \in 0 .. 4, NEW k \in Int, NEW o \in Int, InPlace(o, M, g, c, k)
    PROVE  InRow(o, M, g, c) /\ Near(k)
<1> DEFINE s == Start(M, g)
<1>1. s \in Int
  BY DEF Start
<1> HIDE DEF s
<1>2. CASE c = 2
  BY <1>2, SMT DEF InPlace, Near
<1>3. CASE c # 2
  <2>1. Places(c, k) /\ s + Offset(c) + k * 32 <= o /\ o < s + Offset(c) + k * 32 + 32
    BY <1>3 DEF InPlace, s
  <2>2. k > -65536 /\ k < 65536 /\ Low(c) <= Offset(c) + k * 32 /\ Offset(c) + k * 32 + 32 <= High(c)
        /\ Low(c) \in Int /\ High(c) \in Int /\ Offset(c) \in Int
    <3>1. CASE c = 0
      <4>1. 1 <= k /\ k <= 65535
        BY <3>1, <2>1 DEF Places
      <4>2. Low(c) = 0 - 4194335 /\ High(c) = 0 - 2097152 /\ Offset(c) = 0 - 4194367
        BY <3>1 DEF Low, High, Offset
      <4>3. k > -65536 /\ k < 65536 /\ 0 - 4194335 <= (0 - 4194367) + k * 32 /\ (0 - 4194367) + k * 32 + 32 <= 0 - 2097152
        BY <4>1
      <4> QED BY <4>2, <4>3
    <3>2. CASE c = 1
      <4>1. 0 <= k /\ k <= 32767
        BY <3>2, <2>1 DEF Places
      <4>2. Low(c) = 0 /\ High(c) = 1048576 /\ Offset(c) = 0
        BY <3>2 DEF Low, High, Offset
      <4>3. k > -65536 /\ k < 65536 /\ 0 <= (0) + k * 32 /\ (0) + k * 32 + 32 <= 1048576
        BY <4>1
      <4> QED BY <4>2, <4>3
    <3>3. CASE c = 3
      <4>1. 32768 <= k /\ k <= 65535
        BY <3>3, <2>1 DEF Places
      <4>2. Low(c) = 7340032 /\ High(c) = 8388608 /\ Offset(c) = 6291456
        BY <3>3 DEF Low, High, Offset
      <4>3. k > -65536 /\ k < 65536 /\ 7340032 <= (6291456) + k * 32 /\ (6291456) + k * 32 + 32 <= 8388608
        BY <4>1
      <4> QED BY <4>2, <4>3
    <3>4. CASE c = 4
      <4>1. 0 - 65535 <= k /\ k <= 0
        BY <3>4, <2>1 DEF Places
      <4>2. Low(c) = 20971520 /\ High(c) = 23068672 /\ Offset(c) = 23068640
        BY <3>4 DEF Low, High, Offset
      <4>3. k > -65536 /\ k < 65536 /\ 20971520 <= (23068640) + k * 32 /\ (23068640) + k * 32 + 32 <= 23068672
        BY <4>1
      <4> QED BY <4>2, <4>3
    <3> QED BY <1>3, <3>1, <3>2, <3>3, <3>4
  <2>3. s + Low(c) <= o /\ o < s + High(c)
    BY <2>1, <2>2, <1>1
  <2> QED BY <2>2, <2>3, SMT DEF InRow, Near, s
<1> QED BY <1>2, <1>3

\* Higher places of a row have higher orders.
LEMMA PlacesApart ==
    ASSUME NEW M \in Int, NEW g \in {0, 1}, NEW c \in 0 .. 4, NEW k \in Int, NEW l \in Int, NEW o \in Int, NEW p \in Int,
           InPlace(o, M, g, c, k), InPlace(p, M, g, c, l), k > l
    PROVE  o > p
<1> DEFINE s == Start(M, g) + Offset(c)
<1>1. s \in Int
  BY DEF Start, Offset
<1>2. c # 2
  BY DEF InPlace
<1>3. s + k * 32 <= o /\ p < s + l * 32 + 32
  BY <1>2 DEF InPlace
<1> HIDE DEF s
<1> QED BY <1>1, <1>3

\* CP or GC.
Half(type) == IF IsCP(type) THEN 0 ELSE 1

\* The types that are used, by the type they sort under and by CP or GC.
LEMMA TypeFacts ==
    ASSUME NEW type \in KnownTypes
    PROVE  /\ type \in Nat /\ Mapped(type) \in 4 .. 8 /\ Half(type) \in {0, 1}
           /\ type = Mapped(type) + 16 * Half(type)
           /\ GCBit(type) = Half(type) * 8388608
           /\ IsCP(type) <=> Half(type) = 0
<1>1. CASE type \in 4 .. 7
  <2>1. IsCP(type) /\ type \notin 20 .. 24
    BY <1>1 DEF IsCP
  <2>2. Mapped(type) = type /\ Half(type) = 0 /\ GCBit(type) = 0
    BY <2>1 DEF Mapped, Half, GCBit
  <2> QED BY <1>1, <2>1, <2>2
<1>2. CASE type \in 20 .. 24
  <2>1. ~IsCP(type)
    BY <1>2 DEF IsCP
  <2>2. Mapped(type) = type - 16 /\ Half(type) = 1 /\ GCBit(type) = 8388608
    BY <1>2, <2>1 DEF Mapped, Half, GCBit
  <2> QED BY <1>2, <2>1, <2>2
<1> QED BY <1>1, <1>2 DEF KnownTypes

\* A place before or behind a type is only given as the scene says.
Given(relatives, type, class) ==
    /\ class = 0 => Half(type) = 0 /\ \E r \in relatives : r[1] = type /\ r[2] < 0
    /\ class = 4 => Half(type) = 1 /\ \E r \in relatives : r[1] = type /\ r[2] >= 0

\* An order is where the rank says.
Stands(relatives, order, rank) ==
    \E type \in KnownTypes, class \in 0 .. 4, k \in Int :
       /\ rank = Rank(type, class, k)
       /\ InPlace(order, Mapped(type), Half(type), class, k)
       /\ Given(relatives, type, class)

\* Ranks go by type, CP or GC, class and place.
LEMMA RankIs ==
    ASSUME NEW type \in KnownTypes, NEW class \in 0 .. 4, NEW k \in Int
    PROVE  Rank(type, class, k) = ((Mapped(type) * 2 + Half(type)) * 5 + class) * 131072 + 65536 + k
BY TypeFacts DEF Rank, Half

\* The orders of two streams are as their ranks are.
LEMMA RanksFollow ==
    ASSUME NEW relatives, NotBetween(relatives), NEW o \in Int, NEW p \in Int, NEW r, NEW q,
           Stands(relatives, o, r), Stands(relatives, p, q), o < p
    PROVE  r <= q
<1>0. \A x, y \in relatives : x[2] < 0 /\ y[2] >= 0 => Mapped(x[1]) # Mapped(y[1]) + 1
  BY DEF NotBetween
<1>1. PICK t \in KnownTypes, c \in 0 .. 4, k \in Int :
         r = Rank(t, c, k) /\ InPlace(o, Mapped(t), Half(t), c, k) /\ Given(relatives, t, c)
  BY DEF Stands
<1>2. PICK u \in KnownTypes, d \in 0 .. 4, l \in Int :
         q = Rank(u, d, l) /\ InPlace(p, Mapped(u), Half(u), d, l) /\ Given(relatives, u, d)
  BY DEF Stands
<1> DEFINE M == Mapped(t)
           g == Half(t)
           N == Mapped(u)
           h == Half(u)
           row == RowOf(M, g, c)
           other == RowOf(N, h, d)
<1>3. M \in Int /\ N \in Int /\ g \in {0, 1} /\ h \in {0, 1}
  BY TypeFacts
<1>4. r = row * 131072 + 65536 + k /\ q = other * 131072 + 65536 + l
  BY <1>1, <1>2, RankIs DEF RowOf
<1>5. /\ InRow(o, M, g, c) /\ InRow(p, N, h, d)
      /\ Near(k) /\ Near(l)
  <2>1. InPlace(o, M, g, c, k) /\ InPlace(p, N, h, d, l)
    BY <1>1, <1>2
  <2> HIDE DEF M, N, g, h
  <2>2. InRow(o, M, g, c) /\ Near(k)
    BY <1>3, <2>1, PlaceInRow, Zenon
  <2>3. InRow(p, N, h, d) /\ Near(l)
    BY <1>3, <2>1, PlaceInRow, Zenon
  <2> QED BY <2>2, <2>3
<1>6. Sided(g, c) /\ Sided(h, d)
  BY <1>1, <1>2 DEF Sided, Given
<1>7. ~(c = 0 /\ d = 4 /\ M = N + 1)
  <2>1. SUFFICES ASSUME c = 0, d = 4
                 PROVE  M # N + 1
    OBVIOUS
  <2>2. PICK x \in relatives : x[1] = t /\ x[2] < 0
    BY <1>1, <2>1 DEF Given
  <2>3. PICK y \in relatives : y[1] = u /\ y[2] >= 0
    BY <1>2, <2>1 DEF Given
  <2>4. Mapped(x[1]) # Mapped(y[1]) + 1
    BY <2>2, <2>3, <1>0
  <2> QED BY <2>2, <2>3, <2>4
<1>8. ~(row > other)
  <2> SUFFICES ASSUME row > other
               PROVE  FALSE
    OBVIOUS
  <2> HIDE DEF M, N, g, h
  <2>1. RowOf(M, g, c) > RowOf(N, h, d)
    OBVIOUS
  <2>2. Higher(o, M, g, c, p, N, h, d)
    BY <1>3, <1>5, <1>6, <1>7, <2>1 DEF Higher
  <2>3. o > p
    BY <2>2, RowsApart, Zenon
  <2> QED BY <2>3
<1>9. row = other => ~(k > l)
  <2> SUFFICES ASSUME row = other, k > l
               PROVE  FALSE
    OBVIOUS
  <2>1. M = N /\ g = h /\ c = d
    <3> HIDE DEF M, N, g, h
    <3> QED BY <1>3 DEF RowOf
  <2>2. InPlace(o, M, g, c, k) /\ InPlace(p, M, g, c, l)
    BY <1>1, <1>2, <2>1
  <2>3. o > p
    <3> HIDE DEF M, g
    <3> QED BY <1>3, <2>2, PlacesApart
  <2> QED BY <2>3
<1>10. row \in Int /\ other \in Int
  <2> HIDE DEF M, N, g, h
  <2> QED BY <1>3 DEF RowOf
<1> HIDE DEF row, other
<1>11. CASE row < other
  BY <1>4, <1>5, <1>10, <1>11, SMT DEF Near
<1>12. CASE row = other
  BY <1>4, <1>9, <1>10, <1>12, SMT
<1> QED BY <1>8, <1>10, <1>11, <1>12

\* The counts and numbers in default orders.
Counts == {n \in Nat : n < 129}

Numbers == {n \in Nat : n < 16384}

\* Where the orders are that the calls make.
LEMMA DefaultPlace ==
    ASSUME NEW type \in KnownTypes, NEW count \in Counts, NEW number \in Numbers
    PROVE  /\ DefaultOrder(type, count, number) \in Nat
           /\ InRow(DefaultOrder(type, count, number), Mapped(type), Half(type), 2)
           /\ InPlace(DefaultOrder(type, count, number), Mapped(type), Half(type), 2, 0)
<1> DEFINE s == Start(Mapped(type), Half(type))
           o == DefaultOrder(type, count, number)
<1>1. s \in Nat /\ o = s + 4194304 + count * 16384 + number
  BY TypeFacts, SMT DEF Start, DefaultOrder, Counts, Numbers
<1> HIDE DEF s, o
<1>2. o \in Nat /\ s + 4194304 <= o /\ o < s + 7340032
  BY <1>1, SMT DEF Counts, Numbers
<1>3. Low(2) = 4194304 /\ High(2) = 7340032
  BY SMT DEF Low, High
<1>4. InRow(o, Mapped(type), Half(type), 2)
  BY <1>2, <1>3, SMT DEF InRow, s
<1>5. InPlace(o, Mapped(type), Half(type), 2, 0)
  BY <1>4, SMT DEF InPlace
<1> QED BY <1>2, <1>4, <1>5 DEF o

\* The numbers that fit 16 bits.
LEMMA ModSmall ==
    ASSUME NEW a \in Int, 0 <= a, a < 65536
    PROVE  a % 65536 = a /\ (a < 32768 => a \div 32768 = 0) /\ (a >= 32768 => a \div 32768 = 1)
<1>1. a % 65536 = a
  BY SMT
<1>2. a < 32768 => a \div 32768 = 0
  BY SMT
<1>3. a >= 32768 => a \div 32768 = 1
  BY SMT
<1> QED BY <1>1, <1>2, <1>3

\* And those below 0.
LEMMA ModBelow ==
    ASSUME NEW a \in Int, a < 0, 0 - 65536 < a
    PROVE  a % 65536 = a + 65536
BY SMT

\* Below 32768 a manual order is low, from there on it is high.
ManualClass(order) == IF order < 32768 THEN 1 ELSE 3

\* Manual orders are in their places.
LEMMA ManualPlace ==
    ASSUME NEW type \in KnownTypes, NEW order \in Nat, Near(order), NEW n \in 0 .. 31
    PROVE  InPlace(ManualOrder(type, order) + n, Mapped(type), Half(type), ManualClass(order), order)
<1> DEFINE s == Start(Mapped(type), Half(type))
           o == ManualOrder(type, order)
<1>1. order % 65536 = order /\ (order < 32768 => order \div 32768 = 0) /\ (order >= 32768 => order \div 32768 = 1)
  <2>1. order \in Int /\ 0 <= order /\ order < 65536
    BY DEF Near
  <2> QED BY <2>1, ModSmall
<1>2. s \in Nat /\ Mapped(type) * 33554432 + GCBit(type) = s
  BY TypeFacts DEF Start
<1>5. order \in Int /\ 0 <= order /\ order <= 65535
  BY SMT DEF Near
<1>3. CASE order < 32768
  <2>1. (order \div 32768) % 2 = 0
    BY <1>1, <1>3
  <2>2. o = s + order * 32
    BY <1>1, <1>2, <2>1 DEF ManualOrder
  <2>3. Offset(1) = 0 /\ Places(1, order)
    <3>1. Offset(1) = 0
      BY SMT DEF Offset
    <3>3. Places(1, order)
      BY <1>3, <1>5, SMT DEF Places
    <3> QED BY <3>1, <3>3
  <2> HIDE DEF s, o
  <2>4. s + Offset(1) + order * 32 <= o + n /\ o + n < s + Offset(1) + order * 32 + 32
    BY <1>2, <2>2, <2>3
  <2>5. InPlace(o + n, Mapped(type), Half(type), 1, order)
    BY <2>3, <2>4 DEF InPlace, s
  <2>6. ManualClass(order) = 1
    BY <1>3, SMT DEF ManualClass
  <2> QED BY <2>5, <2>6 DEF o
<1>4. CASE order >= 32768
  <2>1. (order \div 32768) % 2 = 1
    BY <1>1, <1>4
  <2>2. o = s + order * 32 + 6291456
    BY <1>1, <1>2, <2>1 DEF ManualOrder
  <2>3. Offset(3) = 6291456 /\ Places(3, order)
    <3>1. Offset(3) = 6291456
      BY SMT DEF Offset
    <3>3. Places(3, order)
      BY <1>4, <1>5, SMT DEF Places
    <3> QED BY <3>1, <3>3
  <2> HIDE DEF s, o
  <2>4. s + Offset(3) + order * 32 <= o + n /\ o + n < s + Offset(3) + order * 32 + 32
    BY <1>2, <2>2, <2>3
  <2>5. InPlace(o + n, Mapped(type), Half(type), 3, order)
    BY <2>3, <2>4 DEF InPlace, s
  <2>6. ManualClass(order) = 3
    BY <1>4, <1>5, SMT DEF ManualClass
  <2> QED BY <2>5, <2>6 DEF o
<1> QED BY <1>3, <1>4, <1>5

\* What is before a CP type is at the end of the type before it.
LEMMA BeforePlace ==
    ASSUME NEW type \in 4 .. 7, NEW position \in Int, Near(position), position < 0, NEW n \in 0 .. 31
    PROVE  InPlace(RelativeOrder(type, position) - n, Mapped(type), Half(type), 0, -position)
<1> DEFINE s == Start(Mapped(type), Half(type))
           o == RelativeOrder(type, position)
<1>0. position \in Int /\ 0 - 65535 <= position /\ position <= 0 - 1 /\ -position \in Int /\ -position = 0 - position
  BY SMT DEF Near
<1>1. position % 65536 = position + 65536
  BY <1>0, ModBelow
<1>2. /\ Mapped(type) = type /\ Half(type) = 0
  BY DEF Mapped, Half, IsCP
<1>3. s = type * 33554432
  BY <1>2 DEF Start
<1>4. o = (type - 1) * 33554432 + 29360128 + (65535 - (position + 65536)) * 32
  BY <1>1, <1>2 DEF RelativeOrder
<1>5. Offset(0) = 0 - 4194367 /\ Places(0, -position)
  <2>1. Offset(0) = 0 - 4194367
    BY SMT DEF Offset
  <2>2. Places(0, -position)
    BY <1>0, SMT DEF Places
  <2> QED BY <2>1, <2>2
<1> HIDE DEF s, o
<1>6. s + (0 - 4194367) + (-position) * 32 <= o - n /\ o - n < s + (0 - 4194367) + (-position) * 32 + 32
  BY <1>3, <1>4
<1> QED BY <1>5, <1>6 DEF InPlace, s, o

\* What is behind a GC type is at its end.
LEMMA BehindPlace ==
    ASSUME NEW type \in 20 .. 24, NEW position \in Nat, Near(position), NEW n \in 0 .. 31
    PROVE  InPlace(RelativeOrder(type, position) + n, Mapped(type), Half(type), 4, -position)
<1> DEFINE s == Start(Mapped(type), Half(type))
           o == RelativeOrder(type, position)
<1>0. position \in Int /\ 0 <= position /\ position <= 65535 /\ -position \in Int /\ -position = 0 - position
  BY SMT DEF Near
<1>1. position % 65536 = position
  BY <1>0, ModSmall
<1>2. /\ Mapped(type) = type - 16 /\ Half(type) = 1
  BY DEF Mapped, Half, IsCP
<1>3. s = (type - 16) * 33554432 + 8388608
  BY <1>2 DEF Start
<1>4. o = (type - 16) * 33554432 + 29360128 + (65535 - position) * 32
  BY <1>1, <1>2 DEF RelativeOrder
<1>5. Offset(4) = 23068640 /\ Places(4, -position)
  <2>1. Offset(4) = 23068640
    BY SMT DEF Offset
  <2>2. Places(4, -position)
    BY <1>0, SMT DEF Places
  <2> QED BY <2>1, <2>2
<1> HIDE DEF s, o
<1>6. s + 23068640 + (-position) * 32 <= o + n /\ o + n < s + 23068640 + (-position) * 32 + 32
  BY <1>3, <1>4
<1> QED BY <1>5, <1>6 DEF InPlace, s, o

\* Default orders are those of one type and count.
LEMMA DefaultsApart ==
    ASSUME NEW t \in KnownTypes, NEW c \in Counts, NEW n \in Numbers,
           NEW u \in KnownTypes, NEW d \in Counts, NEW m \in Numbers,
           DefaultOrder(t, c, n) = DefaultOrder(u, d, m)
    PROVE  t = u /\ c = d
<1> DEFINE M == Mapped(t)
           g == Half(t)
           N == Mapped(u)
           h == Half(u)
           o == DefaultOrder(t, c, n)
<1>1. /\ M \in Int /\ N \in Int /\ g \in {0, 1} /\ h \in {0, 1}
      /\ t = M + 16 * g /\ u = N + 16 * h
  BY TypeFacts
<1>2. InRow(o, M, g, 2) /\ o \in Nat
  <2> HIDE DEF o, M, g
  <2> QED BY DefaultPlace, Zenon DEF o, M, g
<1>3. InRow(o, N, h, 2)
  BY DefaultPlace, Zenon
<1>4. M = N /\ g = h
  <2> HIDE DEF M, N, g, h, o
  <2>1. Sided(g, 2) /\ Sided(h, 2) /\ 2 \in 0 .. 4 /\ o \in Int
    BY <1>2 DEF Sided
  <2>2. ~(o > o)
    BY <2>1
  <2>3. RowOf(M, g, 2) > RowOf(N, h, 2) => Higher(o, M, g, 2, o, N, h, 2)
    BY <1>1, <1>2, <1>3, <2>1 DEF Higher
  <2>4. RowOf(N, h, 2) > RowOf(M, g, 2) => Higher(o, N, h, 2, o, M, g, 2)
    BY <1>1, <1>2, <1>3, <2>1 DEF Higher
  <2>5. ~(RowOf(M, g, 2) > RowOf(N, h, 2)) /\ ~(RowOf(N, h, 2) > RowOf(M, g, 2))
    BY <2>2, <2>3, <2>4, RowsApart, Zenon
  <2> QED BY <1>1, <2>5 DEF RowOf
<1>5. t = u
  <2> HIDE DEF M, N, g, h
  <2> QED BY <1>1, <1>4
<1>6. c = d
  <2> DEFINE z == Mapped(t) * 33554432 + GCBit(t) + 4194304
  <2>1. z \in Int
    BY TypeFacts, SMT
  <2>2. o = z + c * 16384 + n /\ o = z + d * 16384 + m
    BY <1>5, SMT DEF DefaultOrder
  <2> HIDE DEF z, o
  <2>3. c * 16384 + n = d * 16384 + m
    BY <2>1, <2>2, SMT DEF Counts, Numbers
  <2>4. c \in Nat /\ d \in Nat /\ n \in Nat /\ m \in Nat /\ n < 16384 /\ m < 16384
    BY SMT DEF Counts, Numbers
  <2>5. ~(c < d)
    BY <2>3, <2>4, SMT
  <2>6. ~(d < c)
    BY <2>3, <2>4, SMT
  <2> QED BY <2>4, <2>5, <2>6
<1> QED BY <1>5, <1>6

\* No other order is one of the default ones.
LEMMA NotDefault ==
    ASSUME NEW t \in KnownTypes, NEW c \in 0 .. 4, c # 2, NEW k \in Int, NEW o \in Int,
           InPlace(o, Mapped(t), Half(t), c, k), Sided(Half(t), c),
           NEW u \in KnownTypes, NEW count \in Counts, NEW number \in Numbers
    PROVE  o # DefaultOrder(u, count, number)
<1> DEFINE M == Mapped(t)
           g == Half(t)
           N == Mapped(u)
           h == Half(u)
           p == DefaultOrder(u, count, number)
<1>1. M \in Int /\ N \in Int /\ g \in {0, 1} /\ h \in {0, 1}
  BY TypeFacts
<1>2. InRow(p, N, h, 2) /\ p \in Nat
  BY DefaultPlace, Zenon
<1>3. InPlace(o, M, g, c, k) /\ Sided(g, c)
  OBVIOUS
<1> HIDE DEF M, N, g, h, p
<1>4. InRow(o, M, g, c)
  BY <1>1, <1>3, PlaceInRow, Zenon
<1>5. Sided(h, 2) /\ 2 \in 0 .. 4 /\ p \in Int
  BY <1>2 DEF Sided
<1>6. CASE RowOf(M, g, c) > RowOf(N, h, 2)
  <2>1. Higher(o, M, g, c, p, N, h, 2)
    BY <1>1, <1>2, <1>3, <1>4, <1>5, <1>6 DEF Higher
  <2>2. o > p
    BY <2>1, RowsApart, Zenon
  <2> QED BY <2>2, <1>5, SMT DEF p
<1>7. CASE RowOf(N, h, 2) > RowOf(M, g, c)
  <2>1. Higher(p, N, h, 2, o, M, g, c)
    BY <1>1, <1>2, <1>3, <1>4, <1>5, <1>7 DEF Higher
  <2>2. p > o
    BY <2>1, RowsApart, Zenon
  <2> QED BY <2>2, <1>5, SMT DEF p
<1>8. RowOf(M, g, c) \in Int /\ RowOf(N, h, 2) \in Int /\ RowOf(M, g, c) # RowOf(N, h, 2)
  BY <1>1 DEF RowOf
<1> QED BY <1>6, <1>7, <1>8

\* Where the orders of streams with keys of their own begin.
Foreign == 671088640

\* All others are below.
LEMMA StandsBelow ==
    ASSUME NEW relatives, NEW o \in Int, NEW r, Stands(relatives, o, r)
    PROVE  o < Foreign
<1>1. PICK t \in KnownTypes, c \in 0 .. 4, k \in Int : InPlace(o, Mapped(t), Half(t), c, k)
  BY DEF Stands
<1> DEFINE M == Mapped(t)
           g == Half(t)
<1>2. M \in 4 .. 8 /\ g \in {0, 1} /\ M \in Int
  BY TypeFacts
<1>3. InPlace(o, M, g, c, k)
  BY <1>1
<1> HIDE DEF M, g
<1>4. InRow(o, M, g, c)
  BY <1>2, <1>3, PlaceInRow, Zenon
<1>5. High(c) \in Int /\ High(c) <= 23068672
  BY SMT DEF High
<1>6. o < M * 33554432 + g * 8388608 + High(c)
  BY <1>4, SMT DEF InRow, Start
<1> QED BY <1>2, <1>5, <1>6, SMT DEF Foreign

\* So are the default orders.
LEMMA DefaultBelow ==
    ASSUME NEW type \in KnownTypes, NEW count \in Counts, NEW number \in Numbers
    PROVE  DefaultOrder(type, count, number) < Foreign
<1> DEFINE M == Mapped(type)
           g == Half(type)
           o == DefaultOrder(type, count, number)
<1>1. M \in 4 .. 8 /\ g \in {0, 1}
  BY TypeFacts
<1>2. InRow(o, M, g, 2) /\ o \in Nat
  BY DefaultPlace, Zenon
<1>3. High(2) = 7340032
  BY SMT DEF High
<1> HIDE DEF M, g, o
<1>4. o < Foreign
  BY <1>1, <1>2, <1>3, SMT DEF Foreign, InRow, Start
<1> QED BY <1>4 DEF o

\* What Free chooses is free.
LEMMA FreeIs ==
    ASSUME StreamsTyped, NEW order \in Int, NEW step \in {-1, 1}
    PROVE  Free(order, step) \notin used
<1> DEFINE Is(x) == order + step * x \notin used /\ \A m \in 0 .. (x - 1) : order + step * m \in used
           n == CHOOSE x \in 0 .. Cardinality(used) : Is(x)
<1>1. \E x \in 0 .. Cardinality(used) : Is(x)
  BY SomeFree DEF StreamsTyped
<1>2. Is(n)
  <2> HIDE DEF Is
  <2> QED BY <1>1
<1>3. Free(order, step) = order + step * n
  BY DEF Free
<1> QED BY <1>2, <1>3

\* What the scenes agree to.
LEMMA Agreed ==
    ASSUME Conventional(scene)
    PROVE  /\ \A e \in Elements : ElementFits(e)
           /\ \A o \in Orders : OrderFits(o)
           /\ \A r \in Relatives : RelativeFits(r)
           /\ NotBetween(scene.relatives)
           /\ MaxStreams <= 128 /\ MaxOrders <= 32
BY Zenon DEF Conventional, Elements, Orders, Relatives, MaxStreams, MaxOrders

\* The streams of a table that have a type, of which OfType are those of StreamTable.
Having(table, type) == {id \in DOMAIN table : table[id].type = type}

\* Default orders with a count are taken: system items have the count as scheme,
\* essence elements are counted.
Taken(table, type, count) ==
    IF type \in {4, 20} THEN \E id \in DOMAIN table : table[id].system /\ table[id].count = count
    ELSE count <= Cardinality(Having(table, type))

DefaultsTrue ==
    \A type \in KnownTypes, count \in Counts, number \in Numbers :
       DefaultOrder(type, count, number) \in used => Taken(streams, type, count)

\* Every stream stands in WriteOrderMap where its rank says, those with keys of
\* their own behind all others as long as they are given no order.
StreamStands(relatives, s) ==
    s.type \in KnownTypes /\ ((s.plain /\ s.rank = -1) \/ Stands(relatives, s.order, s.rank))

StreamsStand == \A id \in DOMAIN streams : streams[id].order \in used /\ StreamStands(scene.relatives, streams[id])

\* No stream has the order of another one, unless its bytes were never set.
StreamsApart == \A i, j \in DOMAIN streams : i # j /\ ~streams[i].plain => streams[i].order # streams[j].order

\* The orders of items, which may be older than those of their streams.
ItemStands(relatives, b) == b.rank = -1 \/ Stands(relatives, b.order, b.rank)

ItemsStand == \A b \in queue : b.order \in used /\ ItemStands(scene.relatives, b)

ItemsApart ==
    \A b \in queue, id \in DOMAIN streams : b.stream # id /\ ~streams[id].plain => streams[id].order # b.order

\* What was handed over for a stream is queued or written, once.
KlvsNow == IF call = Nothing THEN << >> ELSE call.klvs

OnceIn(items, klvs, id, n) ==
    /\ n \in {0, 1}
    /\ \A b, c \in items : b.stream = id /\ c.stream = id => b = c
    /\ \A i, j \in DOMAIN klvs : klvs[i].stream = id /\ klvs[j].stream = id => i = j
    /\ (\E b \in items : b.stream = id) => n = 1 /\ \A i \in DOMAIN klvs : klvs[i].stream # id
    /\ n = 1 => (\E b \in items : b.stream = id) \/ (\E i \in DOMAIN klvs : klvs[i].stream = id)
    /\ n = 0 => \A i \in DOMAIN klvs : klvs[i].stream # id

GivenTrue == \A id \in DOMAIN streams : ~streams[id].plain => OnceIn(queue, KlvsNow, id, given[id])

\* What is written is in order, and before what is queued.
Before(r, q) == r # -1 /\ q # -1 => r <= q

InOrder(klvs, items) ==
    /\ \A i, j \in DOMAIN klvs : i < j => Before(klvs[i].rank, klvs[j].rank)
    /\ \A i \in DOMAIN klvs, b \in items : Before(klvs[i].rank, b.rank)

NextTrue == writer.next <= Cardinality(used)

OrdersTrue == NextTrue /\ DefaultsTrue /\ StreamsStand /\ StreamsApart

ItemsTrue == ItemsStand /\ ItemsApart /\ GivenTrue

PackageInv == OrdersTrue /\ ItemsTrue /\ InOrder(KlvsNow, queue) /\ PackageTrue

\* The streams of a type can be counted.
LEMMA HavingType ==
    ASSUME NEW table \in Seq(AnyStream), NEW type
    PROVE  IsFiniteSet(Having(table, type)) /\ Cardinality(Having(table, type)) \in Nat
<1> DEFINE n == Len(table)
<1>1. n \in Nat /\ DOMAIN table = 1 .. n /\ 1 \in Int /\ n \in Int
  OBVIOUS
<1>2. IsFiniteSet(1 .. n)
  <2> HIDE DEF n
  <2> QED BY <1>1, FS_Interval
<1>3. Having(table, type) \in SUBSET (1 .. n)
  BY <1>1 DEF Having
<1> HIDE DEF n
<1> QED BY <1>2, <1>3, FS_Subset, FS_CardinalityType

\* What was taken stays taken when streams are added and when they change, as
\* long as neither types nor schemes do.
LEMMA TakenStays ==
    ASSUME NEW table \in Seq(AnyStream), NEW more \in Seq(AnyStream),
           \A id \in DOMAIN table :
              /\ id \in DOMAIN more /\ more[id].type = table[id].type
              /\ table[id].system => more[id].system /\ more[id].count = table[id].count,
           NEW type, NEW count \in Counts, Taken(table, type, count)
    PROVE  Taken(more, type, count)
<1>1. CASE type \in {4, 20}
  BY <1>1 DEF Taken
<1>2. CASE type \notin {4, 20}
  <2>1. Having(table, type) \subseteq Having(more, type)
    BY DEF Having
  <2>2. /\ Cardinality(Having(table, type)) <= Cardinality(Having(more, type))
        /\ Cardinality(Having(table, type)) \in Nat /\ Cardinality(Having(more, type)) \in Nat
    BY <2>1, HavingType, FS_Subset
  <2>3. count <= Cardinality(Having(table, type)) /\ count \in Nat
    BY <1>2 DEF Taken, Counts
  <2>4. count <= Cardinality(Having(more, type))
    BY <2>2, <2>3
  <2> QED BY <1>2, <2>4 DEF Taken
<1> QED BY <1>1, <1>2

\* A new order is used, and one more order is then used.
LEMMA OneMore ==
    ASSUME Outside, NEW order
    PROVE  /\ Cardinality(used) \in Nat /\ Cardinality(used \cup {order}) \in Nat
           /\ Cardinality(used) <= Cardinality(used \cup {order})
           /\ order \notin used => Cardinality(used \cup {order}) = Cardinality(used) + 1
<1>1. IsFiniteSet(used)
  BY DEF Outside, Typed, StreamsTyped
<1>2. Cardinality(used) \in Nat
  BY <1>1, FS_CardinalityType
<1>3. Cardinality(used \cup {order}) = IF order \in used THEN Cardinality(used) ELSE Cardinality(used) + 1
  BY <1>1, FS_AddElement
<1> QED BY <1>2, <1>3

\* A stream is added whose order no stream has that is not as undetermined.
LEMMA AddItems ==
    ASSUME Outside, OrdersTrue, ItemsTrue, call = Nothing, UNCHANGED <<scene, call>>,
           NEW stream \in AnyStream, Add(stream), StreamStands(scene.relatives, stream),
           IF stream.plain THEN stream.order >= Foreign ELSE stream.order \notin used,
           \A type \in KnownTypes, count \in Counts, number \in Numbers :
              stream.order = DefaultOrder(type, count, number) => Taken(streams', type, count)
    PROVE  OrdersTrue' /\ ItemsTrue'
<1> DEFINE n == Len(streams)
<1>1. /\ streams \in Seq(AnyStream) /\ streams' = Append(streams, stream) /\ used' = used \cup {stream.order}
      /\ given \in Seq(Nat) /\ Len(given) = Len(streams) /\ given' = Append(given, 0)
      /\ writer' = writer /\ queue' = queue /\ queue \subseteq AnyBlock
      /\ KeysTrue /\ writer \in AnyWriter
  BY DEF Outside, Typed, StreamsTyped, QueueTyped, FileTyped, Add
<1>2. /\ n \in Nat /\ streams' \in Seq(AnyStream) /\ DOMAIN streams = 1 .. n /\ DOMAIN streams' = 1 .. (n + 1)
      /\ \A id \in 1 .. n : streams'[id] = streams[id] /\ given'[id] = given[id]
      /\ streams'[n + 1] = stream /\ given'[n + 1] = 0
  BY <1>1
<1> HIDE DEF n
<1>3. NextTrue /\ DefaultsTrue /\ StreamsStand /\ StreamsApart /\ ItemsStand /\ ItemsApart /\ GivenTrue
  BY DEF OrdersTrue, ItemsTrue
<1>4. NextTrue'
  <2>1. writer'.next <= Cardinality(used) /\ writer'.next \in Nat
    BY <1>1, <1>3 DEF NextTrue, AnyWriter
  <2>2. writer'.next <= Cardinality(used \cup {stream.order})
    BY <2>1, OneMore
  <2> QED BY <1>1, <2>2 DEF NextTrue
<1>5. DefaultsTrue'
  <2> SUFFICES ASSUME NEW type \in KnownTypes, NEW count \in Counts, NEW number \in Numbers,
                      DefaultOrder(type, count, number) \in used'
               PROVE  Taken(streams', type, count)
    BY DEF DefaultsTrue
  <2>1. CASE DefaultOrder(type, count, number) \in used
    <3>1. Taken(streams, type, count)
      BY <1>3, <2>1 DEF DefaultsTrue
    <3>2. \A id \in DOMAIN streams :
             /\ id \in DOMAIN streams' /\ streams'[id].type = streams[id].type
             /\ streams[id].system => streams'[id].system /\ streams'[id].count = streams[id].count
      BY <1>2
    <3> QED BY <1>1, <1>2, <3>1, <3>2, TakenStays
  <2>2. CASE DefaultOrder(type, count, number) = stream.order
    BY <2>2
  <2> QED BY <1>1, <2>1, <2>2
<1>6. StreamsStand'
  <2> SUFFICES ASSUME NEW id \in 1 .. (n + 1)
               PROVE  streams'[id].order \in used' /\ StreamStands(scene.relatives, streams'[id])
    BY <1>2 DEF StreamsStand
  <2>1. CASE id = n + 1
    BY <1>1, <1>2, <2>1
  <2>2. CASE id \in 1 .. n
    BY <1>1, <1>2, <1>3, <2>2 DEF StreamsStand
  <2> QED BY <2>1, <2>2, <1>2
<1>7. ASSUME NEW id \in 1 .. n, ~streams[id].plain
      PROVE  streams[id].order # stream.order
  <2>1. streams[id].order \in used /\ StreamStands(scene.relatives, streams[id])
    BY <1>2, <1>3 DEF StreamsStand
  <2>2. streams[id] \in AnyStream
    BY <1>1, <1>2
  <2>3. streams[id].order < Foreign
    <3>1. Stands(scene.relatives, streams[id].order, streams[id].rank)
      BY <1>7, <2>1 DEF StreamStands
    <3>2. streams[id].order \in Int
      BY <2>2 DEF AnyStream
    <3> QED BY <3>1, <3>2, StandsBelow, Zenon
  <2>4. streams[id].order \in Int /\ stream.order \in Int /\ Foreign \in Int
    BY <2>2, SMT DEF AnyStream, Foreign
  <2> QED BY <2>1, <2>3, <2>4
<1>8. StreamsApart'
  <2> SUFFICES ASSUME NEW i \in 1 .. (n + 1), NEW j \in 1 .. (n + 1), i # j, ~streams'[i].plain
               PROVE  streams'[i].order # streams'[j].order
    BY <1>2 DEF StreamsApart
  <2>1. CASE i \in 1 .. n /\ j \in 1 .. n
    BY <1>2, <1>3, <2>1 DEF StreamsApart
  <2>2. CASE i \in 1 .. n /\ j = n + 1
    BY <1>2, <1>7, <2>2
  <2>3. CASE i = n + 1 /\ j \in 1 .. n
    <3>1. stream.order \notin used
      BY <1>2, <2>3
    <3>2. streams[j].order \in used
      BY <1>2, <1>3, <2>3 DEF StreamsStand
    <3> QED BY <1>2, <2>3, <3>1, <3>2
  <2> QED BY <1>2, <2>1, <2>2, <2>3
<1>9. ItemsStand'
  BY <1>1, <1>3 DEF ItemsStand
<1>10. ASSUME NEW b \in queue
       PROVE  b.stream \in 1 .. n
  BY <1>1, <1>2 DEF KeysTrue, KeyTrue
<1>11. ItemsApart'
  <2> SUFFICES ASSUME NEW b \in queue, NEW id \in 1 .. (n + 1), b.stream # id, ~streams'[id].plain
               PROVE  streams'[id].order # b.order
    BY <1>1, <1>2 DEF ItemsApart
  <2>1. CASE id \in 1 .. n
    BY <1>2, <1>3, <2>1 DEF ItemsApart
  <2>2. CASE id = n + 1
    <3>1. b.order \in used
      BY <1>3 DEF ItemsStand
    <3> QED BY <1>2, <2>2, <3>1
  <2> QED BY <1>2, <2>1, <2>2
<1>12. GivenTrue'
  <2> SUFFICES ASSUME NEW id \in 1 .. (n + 1), ~streams'[id].plain
               PROVE  OnceIn(queue, << >>, id, given'[id])
    BY <1>1, <1>2 DEF GivenTrue, KlvsNow
  <2>1. CASE id \in 1 .. n
    BY <1>2, <1>3, <2>1 DEF GivenTrue, KlvsNow
  <2>2. CASE id = n + 1
    <3>1. \A b \in queue : b.stream # id
      BY <1>2, <1>10, <2>2
    <3> QED BY <1>2, <2>2, <3>1 DEF OnceIn
  <2> QED BY <1>2, <2>1, <2>2
<1> QED BY <1>4, <1>5, <1>6, <1>8, <1>9, <1>11, <1>12 DEF OrdersTrue, ItemsTrue

\* What fits a count, a number and a byte.
LEMMA RangesType ==
    /\ \A n \in Nat : (n < 129 => n \in Counts) /\ (n < 16384 => n \in Numbers)
    /\ \A n \in Byte : n \in Nat /\ n < 256
<1>1. \A n \in Nat : n < 129 => n \in Counts
  BY SMT DEF Counts
<1>2. \A n \in Nat : n < 16384 => n \in Numbers
  BY SMT DEF Numbers
<1>3. \A n \in Byte : n \in Nat /\ n < 256
  BY SMT DEF Byte
<1> QED BY <1>1, <1>2, <1>3, SMT

\* A new stream with its default order, with a scheme of its own or counted.
LEMMA DefaultItems ==
    ASSUME Outside, Outside', OrdersTrue, ItemsTrue, call = Nothing, UNCHANGED <<scene, call>>,
           NEW stream, Add(stream), ~stream.plain,
           NEW type \in KnownTypes, NEW count \in Counts, NEW number \in Numbers,
           stream.type = type, stream.order = DefaultOrder(type, count, number), stream.rank = Rank(type, 2, 0),
           IF type \in {4, 20}
             THEN /\ stream.system /\ stream.count = count
                  /\ \A id \in DOMAIN streams : streams[id].system => streams[id].count # count
             ELSE count = Cardinality(Having(streams, type)) + 1
    PROVE  OrdersTrue' /\ ItemsTrue'
<1> DEFINE n == Len(streams)
           order == DefaultOrder(type, count, number)
<1>1. streams \in Seq(AnyStream) /\ streams' \in Seq(AnyStream) /\ streams' = Append(streams, stream)
  BY DEF Outside, Typed, StreamsTyped, Add
<1>2. /\ n \in Nat /\ DOMAIN streams = 1 .. n /\ DOMAIN streams' = 1 .. (n + 1)
      /\ \A id \in 1 .. n : streams'[id] = streams[id]
      /\ streams'[n + 1] = stream /\ stream \in AnyStream
  BY <1>1
<1> HIDE DEF n
<1>3. order \notin used
  <2>1. order \in used => Taken(streams, type, count)
    BY DEF OrdersTrue, DefaultsTrue
  <2>2. CASE type \in {4, 20}
    BY <2>1, <2>2, Zenon DEF Taken
  <2>3. CASE type \notin {4, 20}
    <3>1. Cardinality(Having(streams, type)) \in Nat
      BY <1>1, HavingType
    <3>2. ~(count <= Cardinality(Having(streams, type)))
      BY <2>3, <3>1
    <3> QED BY <2>1, <2>3, <3>2, Zenon DEF Taken
  <2> QED BY <2>2, <2>3
<1>4. StreamStands(scene.relatives, stream)
  <2>1. InPlace(order, Mapped(type), Half(type), 2, 0)
    BY DefaultPlace, Zenon
  <2>2. Given(scene.relatives, type, 2) /\ 2 \in 0 .. 4 /\ 0 \in Int
    BY DEF Given
  <2>3. Stands(scene.relatives, order, Rank(type, 2, 0))
    <3> HIDE DEF order
    <3> QED BY <2>1, <2>2, Zenon DEF Stands
  <2> QED BY <2>3, Zenon DEF StreamStands
<1>5. Taken(streams', type, count)
  <2>1. CASE type \in {4, 20}
    <3>1. n + 1 \in DOMAIN streams' /\ streams'[n + 1].system /\ streams'[n + 1].count = count
      BY <1>2, <2>1
    <3> QED BY <2>1, <3>1, Zenon DEF Taken
  <2>2. CASE type \notin {4, 20}
    <3>1. Having(streams', type) = Having(streams, type) \cup {n + 1} /\ n + 1 \notin Having(streams, type)
      BY <1>2 DEF Having
    <3>2. IsFiniteSet(Having(streams, type)) /\ Cardinality(Having(streams, type)) \in Nat
      BY <1>1, HavingType
    <3>3. Cardinality(Having(streams', type)) = Cardinality(Having(streams, type)) + 1
      <4> DEFINE S == Having(streams, type)
      <4>1. Cardinality(S \cup {n + 1}) = IF n + 1 \in S THEN Cardinality(S) ELSE Cardinality(S) + 1
        <5>1. IsFiniteSet(S)
          BY <3>2
        <5> HIDE DEF S
        <5> QED BY <5>1, FS_AddElement, Zenon
      <4> QED BY <3>1, <4>1, Zenon
    <3>4. count <= Cardinality(Having(streams', type))
      BY <2>2, <3>2, <3>3
    <3> QED BY <2>2, <3>4, Zenon DEF Taken
  <2> QED BY <2>1, <2>2
<1>6. ASSUME NEW t \in KnownTypes, NEW c \in Counts, NEW m \in Numbers, stream.order = DefaultOrder(t, c, m)
      PROVE  Taken(streams', t, c)
  <2>1. DefaultOrder(t, c, m) = DefaultOrder(type, count, number)
    BY <1>6
  <2>2. t = type /\ c = count
    BY <2>1, DefaultsApart, SMT
  <2> QED BY <1>5, <2>2
<1>7. IF stream.plain THEN stream.order >= Foreign ELSE stream.order \notin used
  BY <1>3
<1> HIDE DEF order
<1> QED BY <1>2, <1>4, <1>6, <1>7, AddItems

\* The count of a new essence element, and its number.
LEMMA NewCount ==
    ASSUME Outside, Conventional(scene), Len(streams) < MaxStreams, NEW type
    PROVE  LET count == Cardinality(OfType(type)) + 1 IN
           /\ count \in Counts /\ count + setup.base - 1 \in Numbers
           /\ OfType(type) = Having(streams, type)
<1> DEFINE n == Cardinality(OfType(type))
<1>1. n \in 0 .. Len(streams)
  BY CountType DEF Outside, Typed
<1>2. MaxStreams \in Nat /\ MaxStreams <= 128
  BY BoundsType, Agreed DEF Outside, Typed
<1>3. setup.base \in {0, 1}
  <2>1. \A x \in Scenes : \A y \in x.setups : y.base \in {0, 1}
    BY GCWriterAssumption
  <2> QED BY <2>1 DEF Outside, Typed, SceneTyped, Setups
<1>4. Len(streams) \in Nat
  BY DEF Outside, Typed, StreamsTyped
<1>5. n \in Nat /\ n + 1 <= 128
  BY <1>1, <1>2, <1>4
<1> HIDE DEF n
<1>6. n + 1 \in Counts /\ n + 1 + setup.base - 1 \in Numbers
  <2>1. n + 1 + setup.base - 1 \in Nat /\ n + 1 + setup.base - 1 < 16384 /\ n + 1 \in Nat /\ n + 1 < 129
    BY <1>3, <1>5, SMT
  <2> QED BY <2>1, RangesType, SMT
<1> QED BY <1>6 DEF n, OfType, Having

\* All ways to add a stream.
LEMMA AddStreamItems ==
    ASSUME Outside, OrdersTrue, ItemsTrue, Conventional(scene), call = Nothing, UNCHANGED <<scene, call>>, AddStream
    PROVE  OrdersTrue' /\ ItemsTrue'
<1>1. Outside'
  BY AddStreamOutside
<1>2. PICK e \in Elements : AddSystemElement(e) \/ AddEssenceElement(e) \/ AddPlainElement(e) \/ AddNamedElement(e)
  BY DEF AddStream
<1>3. ElementFits(e)
  BY Agreed
<1>4. \A type \in {4, 20} : type \in KnownTypes
  BY DEF KnownTypes
<1>5. CASE AddSystemElement(e)
  <2> DEFINE type == IF e.cp THEN 4 ELSE 20
             number == e.element * 128 + e.sub
             stream == [NewStream(type, e.scheme, e.element, e.sub) EXCEPT
                           !.system = TRUE, !.order = DefaultOrder(type, e.scheme, number)]
  <2>1. /\ Add(stream) /\ e.by = "system"
        /\ \A id \in DOMAIN streams : ~streams[id].system \/ streams[id].count # e.scheme
    BY <1>5 DEF AddSystemElement
  <2>2. e.scheme \in Counts /\ number \in Numbers
    <3>1. e.scheme \in Byte /\ e.element \in Byte /\ e.sub \in Byte
      BY <2>1, ElementType DEF Outside, Typed
    <3>2. e.scheme < 128 /\ e.element < 128 /\ e.sub < 128
      BY <1>3, <2>1 DEF ElementFits
    <3>3. e.scheme \in Nat /\ e.element \in Nat /\ e.sub \in Nat
      BY <3>1, RangesType, SMT
    <3>4. e.scheme < 129 /\ number \in Nat /\ number < 16384
      BY <3>2, <3>3, SMT
    <3> HIDE DEF number
    <3> QED BY <3>3, <3>4, RangesType, SMT
  <2>3. type \in {4, 20} /\ type \in KnownTypes
    BY <1>4
  <2> HIDE DEF number, type
  <2>4. /\ ~stream.plain /\ stream.type = type /\ stream.rank = Rank(type, 2, 0)
        /\ stream.order = DefaultOrder(type, e.scheme, number) /\ stream.system /\ stream.count = e.scheme
    BY DEF NewStream
  <2> HIDE DEF stream
  <2> QED BY <1>1, <2>1, <2>2, <2>3, <2>4, DefaultItems
<1>6. CASE AddEssenceElement(e)
  <2> DEFINE type == e.type
             count == Cardinality(OfType(type)) + 1
             number == count + setup.base - 1
             stream == [NewStream(type, count, 0, number) EXCEPT !.len = e.len]
  <2>1. Add(stream) /\ e.by \in {"type", "key"}
    BY <1>6 DEF AddEssenceElement
  <2>2. type \in KnownTypes /\ type \notin {4, 20}
    BY <1>3, <2>1 DEF ElementFits
  <2>3. count \in Counts /\ number \in Numbers /\ count = Cardinality(Having(streams, type)) + 1
    <3>1. Len(streams) < MaxStreams
      BY <2>1 DEF Add
    <3> HIDE DEF type
    <3> QED BY <3>1, NewCount
  <2> HIDE DEF number, type, count
  <2>4. /\ ~stream.plain /\ stream.type = type /\ stream.rank = Rank(type, 2, 0)
        /\ stream.order = DefaultOrder(type, count, number)
    BY DEF NewStream
  <2> HIDE DEF stream
  <2> QED BY <1>1, <2>1, <2>2, <2>3, <2>4, DefaultItems
<1>7. CASE AddNamedElement(e)
  <2> DEFINE type == NamedType(e.name)
             count == Cardinality(OfType(type)) + 1
             number == count + setup.base - 1
             stream == NewStream(type, count, e.element, number)
  <2>1. Add(stream) /\ e.by = "name"
    BY <1>7 DEF AddNamedElement
  <2>2. type \in KnownTypes /\ type \notin {4, 20}
    <3>1. e.name \in {"CPPicture", "Picture", "CPSound", "Sound", "CPData", "Data", "Compound"}
      BY <2>1, ElementType DEF Outside, Typed
    <3>2. type \in {5, 21, 7, 23, 24}
      BY <3>1 DEF NamedType
    <3> QED BY <3>2 DEF KnownTypes
  <2>3. count \in Counts /\ number \in Numbers /\ count = Cardinality(Having(streams, type)) + 1
    <3>1. Len(streams) < MaxStreams
      BY <2>1 DEF Add
    <3> HIDE DEF type
    <3> QED BY <3>1, NewCount
  <2> HIDE DEF number, type, count
  <2>4. /\ ~stream.plain /\ stream.type = type /\ stream.rank = Rank(type, 2, 0)
        /\ stream.order = DefaultOrder(type, count, number)
    BY DEF NewStream
  <2> HIDE DEF stream
  <2> QED BY <1>1, <2>1, <2>2, <2>3, <2>4, DefaultItems
<1>8. CASE AddPlainElement(e)
  <2>1. PICK count \in Garbage, number \in Garbage, fixed \in BOOLEAN : Add(PlainStream(e, count, number, fixed))
    BY <1>8 DEF AddPlainElement
  <2> DEFINE stream == PlainStream(e, count, number, fixed)
  <2>2. e.by = "plain" /\ e.type \in 20 .. 24
    BY <1>3, <1>8 DEF AddPlainElement, ElementFits
  <2>3. count \in Byte /\ number \in Byte
    <3>1. \A x \in Scenes : x.garbage \subseteq Byte
      BY GCWriterAssumption
    <3> QED BY <3>1 DEF Outside, Typed, SceneTyped, Garbage
  <2>4. stream \in AnyStream
    <3>1. e.type \in 0 .. 127 /\ e.len \in Nat
      BY <2>2, ElementType DEF Outside, Typed
    <3> QED BY <2>3, <3>1, PlainType
  <2>5. stream.plain /\ stream.rank = -1 /\ stream.type = e.type
    BY SMT DEF PlainStream, NewStream
  <2>6. stream.order = e.type * 33554432 + 12582912 + count * 16384 + number
    BY SMT DEF PlainStream, NewStream
  <2> HIDE DEF stream
  <2>7. stream.order >= Foreign /\ stream.order \in Int
    <3>1. e.type \in Int /\ e.type >= 20 /\ count \in Nat /\ number \in Nat
      BY <2>2, <2>3, RangesType
    <3> QED BY <2>6, <3>1, SMT DEF Foreign
  <2>8. StreamStands(scene.relatives, stream)
    <3>1. stream.type \in KnownTypes
      BY <2>2, <2>5 DEF KnownTypes
    <3> QED BY <2>5, <3>1, Zenon DEF StreamStands
  <2>9. ASSUME NEW t \in KnownTypes, NEW c \in Counts, NEW m \in Numbers, stream.order = DefaultOrder(t, c, m)
        PROVE  FALSE
    <3>1. DefaultOrder(t, c, m) < Foreign
      BY DefaultBelow, Zenon
    <3>2. Foreign \in Int
      BY SMT DEF Foreign
    <3> QED BY <2>7, <2>9, <3>1, <3>2
  <2>10. Add(stream)
    BY <2>1 DEF stream
  <2>11. IF stream.plain THEN stream.order >= Foreign ELSE stream.order \notin used
    BY <2>5, <2>7
  <2> QED BY <2>4, <2>8, <2>9, <2>10, <2>11, AddItems
<1> QED BY <1>2, <1>5, <1>6, <1>7, <1>8

\* What a stream keeps when it is not given another order.
Like(s, t) ==
    /\ t.type = s.type /\ t.plain = s.plain /\ t.order = s.order /\ t.rank = s.rank /\ t.system = s.system
    /\ s.system => t.count = s.count

\* When all streams keep it, the orders stay as they are.
LEMMA LikeOrders ==
    ASSUME Outside, Outside', OrdersTrue, DOMAIN streams' = DOMAIN streams,
           \A id \in DOMAIN streams : Like(streams[id], streams'[id]),
           UNCHANGED <<scene, used>>, writer'.next = writer.next
    PROVE  OrdersTrue'
<1>1. streams \in Seq(AnyStream) /\ streams' \in Seq(AnyStream)
  BY DEF Outside, Typed, StreamsTyped
<1>2. NextTrue'
  BY DEF OrdersTrue, NextTrue
<1>3. DefaultsTrue'
  <2> SUFFICES ASSUME NEW type \in KnownTypes, NEW count \in Counts, NEW number \in Numbers,
                      DefaultOrder(type, count, number) \in used
               PROVE  Taken(streams', type, count)
    BY DEF DefaultsTrue
  <2>1. Taken(streams, type, count)
    BY DEF OrdersTrue, DefaultsTrue
  <2>2. \A id \in DOMAIN streams :
           /\ id \in DOMAIN streams' /\ streams'[id].type = streams[id].type
           /\ streams[id].system => streams'[id].system /\ streams'[id].count = streams[id].count
    BY DEF Like
  <2> QED BY <1>1, <2>1, <2>2, TakenStays
<1>4. StreamsStand'
  BY DEF OrdersTrue, StreamsStand, StreamStands, Like
<1>5. StreamsApart'
  BY DEF OrdersTrue, StreamsApart, Like
<1> QED BY <1>2, <1>3, <1>4, <1>5 DEF OrdersTrue

\* And so does what is queued.
LEMMA LikeItems ==
    ASSUME Outside, Outside', OrdersTrue, ItemsTrue, DOMAIN streams' = DOMAIN streams,
           \A id \in DOMAIN streams : Like(streams[id], streams'[id]),
           UNCHANGED <<scene, used, queue, given, call>>, writer'.next = writer.next
    PROVE  OrdersTrue' /\ ItemsTrue'
<1>1. OrdersTrue'
  BY LikeOrders
<1>2. ItemsStand'
  BY DEF ItemsTrue, ItemsStand
<1>3. ItemsApart'
  BY DEF ItemsTrue, ItemsApart, Like
<1>4. GivenTrue'
  BY DEF ItemsTrue, GivenTrue, KlvsNow, Like
<1> QED BY <1>1, <1>2, <1>3, <1>4 DEF ItemsTrue

\* A stream gets a free order that is no default one and is where its rank says.
LEMMA SetOrderItems ==
    ASSUME Outside, Outside', OrdersTrue, ItemsTrue, call = Nothing, UNCHANGED <<scene, call>>,
           NEW id \in DOMAIN streams, NEW order, NEW rank, SetOrder(id, order, rank),
           order \notin used, Stands(scene.relatives, order, rank),
           \A type \in KnownTypes, count \in Counts, number \in Numbers : order # DefaultOrder(type, count, number),
           writer'.next <= writer.next + 1
    PROVE  OrdersTrue' /\ ItemsTrue'
<1>1. /\ streams \in Seq(AnyStream) /\ streams' \in Seq(AnyStream)
      /\ streams' = [streams EXCEPT ![id].order = order, ![id].rank = rank]
      /\ used' = used \cup {order} /\ queue' = queue /\ given' = given
      /\ writer \in AnyWriter /\ writer' \in AnyWriter
  BY DEF Outside, Typed, StreamsTyped, FileTyped, SetOrder
<1>2. /\ DOMAIN streams' = DOMAIN streams
      /\ \A i \in DOMAIN streams : i # id => streams'[i] = streams[i]
      /\ streams'[id] = WithOrder(streams[id], order, rank)
  BY <1>1 DEF WithOrder
<1>3. streams[id] \in AnyStream
  BY <1>1
<1>4. LET t == streams'[id] IN
      /\ t.order = order /\ t.rank = rank /\ t.type = streams[id].type /\ t.plain = streams[id].plain
      /\ t.system = streams[id].system /\ t.count = streams[id].count
  <2> DEFINE s == streams[id]
  <2>1. s \in AnyStream
    BY <1>3
  <2> HIDE DEF s
  <2>2. LET t == WithOrder(s, order, rank) IN
        /\ t.order = order /\ t.rank = rank /\ t.type = s.type /\ t.plain = s.plain
        /\ t.system = s.system /\ t.count = s.count
    BY <2>1 DEF WithOrder, AnyStream
  <2> QED BY <1>2, <2>2 DEF s
<1>5. NextTrue /\ DefaultsTrue /\ StreamsStand /\ StreamsApart /\ ItemsStand /\ ItemsApart /\ GivenTrue
  BY DEF OrdersTrue, ItemsTrue
<1>6. NextTrue'
  <2>1. /\ Cardinality(used \cup {order}) = Cardinality(used) + 1 /\ Cardinality(used) \in Nat
    BY OneMore
  <2>2. writer.next <= Cardinality(used) /\ writer.next \in Nat /\ writer'.next \in Nat
    BY <1>1, <1>5 DEF NextTrue, AnyWriter
  <2>3. writer'.next <= Cardinality(used \cup {order})
    BY <2>1, <2>2
  <2> QED BY <1>1, <2>3 DEF NextTrue
<1>7. DefaultsTrue'
  <2> SUFFICES ASSUME NEW type \in KnownTypes, NEW count \in Counts, NEW number \in Numbers,
                      DefaultOrder(type, count, number) \in used'
               PROVE  Taken(streams', type, count)
    BY DEF DefaultsTrue
  <2>1. DefaultOrder(type, count, number) \in used
    BY <1>1
  <2>2. Taken(streams, type, count)
    BY <1>5, <2>1 DEF DefaultsTrue
  <2>3. \A i \in DOMAIN streams :
           /\ i \in DOMAIN streams' /\ streams'[i].type = streams[i].type
           /\ streams[i].system => streams'[i].system /\ streams'[i].count = streams[i].count
    BY <1>2, <1>4
  <2> QED BY <1>1, <2>2, <2>3, TakenStays
<1>8. StreamsStand'
  <2> SUFFICES ASSUME NEW i \in DOMAIN streams
               PROVE  streams'[i].order \in used' /\ StreamStands(scene.relatives, streams'[i])
    BY <1>2 DEF StreamsStand
  <2>1. CASE i = id
    BY <1>1, <1>4, <1>5, <2>1 DEF StreamsStand, StreamStands
  <2>2. CASE i # id
    BY <1>1, <1>2, <1>5, <2>2 DEF StreamsStand
  <2> QED BY <2>1, <2>2
<1>9. StreamsApart'
  <2> SUFFICES ASSUME NEW i \in DOMAIN streams, NEW j \in DOMAIN streams, i # j, ~streams'[i].plain
               PROVE  streams'[i].order # streams'[j].order
    BY <1>2 DEF StreamsApart
  <2>1. streams[i].order \in used /\ streams[j].order \in used
    BY <1>5 DEF StreamsStand
  <2>2. CASE i = id
    BY <1>2, <1>4, <2>1, <2>2
  <2>3. CASE j = id
    BY <1>2, <1>4, <2>1, <2>3
  <2>4. CASE i # id /\ j # id
    BY <1>2, <1>5, <2>4 DEF StreamsApart
  <2> QED BY <2>2, <2>3, <2>4
<1>10. ItemsStand'
  BY <1>1, <1>5 DEF ItemsStand
<1>11. ItemsApart'
  <2> SUFFICES ASSUME NEW b \in queue, NEW i \in DOMAIN streams, b.stream # i, ~streams'[i].plain
               PROVE  streams'[i].order # b.order
    BY <1>1, <1>2 DEF ItemsApart
  <2>1. b.order \in used
    BY <1>5 DEF ItemsStand
  <2>2. CASE i = id
    BY <1>4, <2>1, <2>2
  <2>3. CASE i # id
    BY <1>2, <1>5, <2>3 DEF ItemsApart
  <2> QED BY <2>2, <2>3
<1>12. GivenTrue'
  <2> SUFFICES ASSUME NEW i \in DOMAIN streams, ~streams'[i].plain
               PROVE  OnceIn(queue, KlvsNow, i, given[i])
    BY <1>1, <1>2 DEF GivenTrue, KlvsNow
  <2>1. ~streams[i].plain
    BY <1>2, <1>4
  <2> QED BY <1>5, <2>1 DEF GivenTrue
<1> QED BY <1>6, <1>7, <1>8, <1>9, <1>10, <1>11, <1>12 DEF OrdersTrue, ItemsTrue

\* An order that is free is at most 31 from the one asked for.
LEMMA FreeNear ==
    ASSUME Outside, Conventional(scene), Cardinality(used) < MaxOrders, NEW order \in Int, NEW step \in {-1, 1}
    PROVE  /\ Free(order, step) \notin used
           /\ \E n \in 0 .. 31 : Free(order, step) = order + step * n
<1>1. StreamsTyped
  BY DEF Outside, Typed
<1>2. PICK n \in 0 .. Cardinality(used) : Free(order, step) = order + step * n
  BY <1>1, FreeType
<1>3. Cardinality(used) \in Nat
  BY OneMore
<1>4. MaxOrders \in Nat /\ MaxOrders <= 32
  BY BoundsType, Agreed DEF Outside, Typed
<1>5. n \in 0 .. 31
  BY <1>2, <1>3, <1>4
<1>6. Free(order, step) \notin used
  BY <1>1, FreeIs
<1> QED BY <1>2, <1>5, <1>6

\* SetWriteOrder: low orders below 32768 and high ones from there on.
LEMMA SetWriteOrderItems ==
    ASSUME Outside, OrdersTrue, ItemsTrue, Conventional(scene), call = Nothing, UNCHANGED <<scene, call>>,
           NEW id \in DOMAIN streams, SetWriteOrder(id)
    PROVE  OrdersTrue' /\ ItemsTrue'
<1> DEFINE Order(o) == IF o[1] = -1 THEN writer.next ELSE o[1]
           Type(o) == IF o[2] = -1 THEN streams[id].type ELSE o[2]
<1>1. SceneTyped /\ StreamsTyped /\ writer \in AnyWriter /\ Outside'
  BY SetWriteOrderOutside DEF Outside, Typed, FileTyped
<1>2. Cardinality(used) < MaxOrders
  BY SMT DEF SetWriteOrder
<1>3. PICK o \in Orders :
         /\ writer' = [writer EXCEPT !.next = IF o[1] = -1 THEN @ + 1 ELSE @]
         /\ SetOrder(id, Free(ManualOrder(Type(o), Order(o)), 1), Rank(Type(o), ManualClass(Order(o)), Order(o)))
  BY SMT DEF SetWriteOrder, ManualClass
<1>4. OrderFits(o) /\ o[1] \in Nat \cup {-1}
  <2>1. \A x \in Scenes : \A y \in x.orders : y[1] \in Nat \cup {-1}
    BY GCWriterAssumption
  <2> QED BY <1>1, <2>1, Agreed DEF SceneTyped, Orders
<1>5. Order(o) \in Nat /\ Near(Order(o))
  <2>1. writer.next \in Nat /\ writer.next <= Cardinality(used)
    BY <1>1 DEF OrdersTrue, NextTrue, AnyWriter
  <2>2. Cardinality(used) \in Nat
    BY OneMore
  <2>3. MaxOrders \in Nat /\ MaxOrders <= 32
    BY <1>1, BoundsType, Agreed
  <2>4. writer.next \in Nat /\ writer.next < 65536
    BY <1>2, <2>1, <2>2, <2>3
  <2>5. o[1] < 65536
    BY <1>4, SMT DEF OrderFits
  <2>6. Order(o) \in Nat /\ Order(o) < 65536
    BY <1>4, <2>4, <2>5, SMT
  <2> HIDE DEF Order
  <2> QED BY <2>6, SMT DEF Near
<1>6. Type(o) \in KnownTypes
  <2>1. streams[id].type \in KnownTypes
    BY DEF OrdersTrue, StreamsStand, StreamStands
  <2>2. o[2] \in KnownTypes \cup {-1}
    BY <1>4, SMT DEF OrderFits
  <2> QED BY <2>1, <2>2
<1> DEFINE type == Type(o)
           number == Order(o)
           class == ManualClass(number)
           order == Free(ManualOrder(type, number), 1)
           rank == Rank(type, class, number)
<1>7. SetOrder(id, order, rank)
  BY <1>3
<1>8. /\ writer'.next <= writer.next + 1
  BY <1>1, <1>3 DEF AnyWriter
<1>9. number \in Nat /\ Near(number) /\ type \in KnownTypes
  BY <1>5, <1>6
<1> HIDE DEF number, type
<1>10. class \in {1, 3} /\ number \in Int
  BY <1>9, SMT DEF ManualClass
<1>11. ManualOrder(type, number) \in Int
  <2>1. type \in Nat
    BY <1>9, TypeFacts
  <2>2. ManualOrder(type, number) \in Nat
    BY <1>9, <2>1, ManualType
  <2> QED BY <2>2
<1>12. PICK n \in 0 .. 31 : order = ManualOrder(type, number) + n
  <2> DEFINE manual == ManualOrder(type, number)
  <2>1. PICK one \in {-1, 1} : one = 1
    OBVIOUS
  <2>2. manual \in Int
    BY <1>11
  <2> HIDE DEF manual
  <2>3. PICK n \in 0 .. 31 : Free(manual, one) = manual + one * n
    BY <1>2, <2>2, FreeNear
  <2>4. Free(manual, 1) = manual + n
    BY <2>1, <2>2, <2>3
  <2> QED BY <2>4 DEF manual
<1>13. order \notin used
  <2> DEFINE manual == ManualOrder(type, number)
  <2>1. PICK one \in {-1, 1} : one = 1
    OBVIOUS
  <2>2. manual \in Int
    BY <1>11
  <2> HIDE DEF manual
  <2>3. Free(manual, one) \notin used
    BY <1>2, <2>2, FreeNear
  <2> QED BY <2>1, <2>3 DEF manual
<1>14. InPlace(order, Mapped(type), Half(type), class, number) /\ order \in Int
  <2>1. InPlace(ManualOrder(type, number) + n, Mapped(type), Half(type), class, number)
    BY <1>9, <1>12, ManualPlace, Zenon
  <2>2. ManualOrder(type, number) + n \in Int
    BY <1>11
  <2> HIDE DEF order
  <2> QED BY <1>12, <2>1, <2>2
<1> HIDE DEF order, class
<1>15. class \in 0 .. 4 /\ class # 2 /\ Given(scene.relatives, type, class) /\ Sided(Half(type), class)
  BY <1>10 DEF Given, Sided
<1>16. Stands(scene.relatives, order, rank)
  BY <1>9, <1>10, <1>14, <1>15, Zenon DEF Stands
<1>17. ASSUME NEW t \in KnownTypes, NEW c \in Counts, NEW m \in Numbers
       PROVE  order # DefaultOrder(t, c, m)
  BY <1>9, <1>10, <1>14, <1>15, NotDefault, Zenon
<1> HIDE DEF rank
<1> QED BY <1>1, <1>7, <1>8, <1>13, <1>16, <1>17, SetOrderItems

\* SetRelativeWriteOrder: before a CP type or behind a GC one.
LEMMA SetRelativeWriteOrderItems ==
    ASSUME Outside, OrdersTrue, ItemsTrue, Conventional(scene), call = Nothing, UNCHANGED <<scene, call>>,
           NEW id \in DOMAIN streams, SetRelativeWriteOrder(id)
    PROVE  OrdersTrue' /\ ItemsTrue'
<1>1. SceneTyped /\ StreamsTyped /\ writer \in AnyWriter /\ Outside'
  BY SetRelativeWriteOrderOutside DEF Outside, Typed, FileTyped
<1>2. Cardinality(used) < MaxOrders
  BY DEF SetRelativeWriteOrder
<1>3. PICK r \in Relatives :
         /\ SetOrder(id, Free(RelativeOrder(r[1], r[2]), IF r[2] >= 0 THEN 1 ELSE -1),
                     Rank(r[1], IF r[2] >= 0 THEN 4 ELSE 0, -r[2]))
         /\ UNCHANGED writer
  BY DEF SetRelativeWriteOrder
<1> DEFINE type == r[1]
           position == r[2]
           relative == RelativeOrder(type, position)
<1>4. /\ Near(position) /\ position \in Int
      /\ position < 0 => type \in 4 .. 7
      /\ position >= 0 => type \in 20 .. 24
  <2>1. RelativeFits(r)
    BY Agreed
  <2>2. position \in Int
    <3>1. \A x \in Scenes : \A y \in x.relatives : y[2] \in Int
      BY GCWriterAssumption
    <3> QED BY <1>1, <3>1 DEF SceneTyped, Relatives
  <2>3. ~(position < 0 /\ position >= 0)
    BY <2>2
  <2> QED BY <2>1, <2>2, <2>3, SMT DEF RelativeFits, Near
<1>5. \E x \in scene.relatives : x[1] = type /\ x[2] = position
  BY <1>3 DEF Relatives
<1>6. writer'.next <= writer.next + 1
  BY <1>1, <1>3 DEF AnyWriter
<1> HIDE DEF type, position
<1>7. position \in Int /\ type \in KnownTypes /\ type \in Nat \ {0}
  <2>1. type \in 4 .. 7 \/ type \in 20 .. 24
    BY <1>4
  <2> QED BY <1>4, <2>1, SMT DEF KnownTypes
<1>8. relative \in Int
  BY <1>7, RelativeType
<1>9. ASSUME NEW order, NEW class \in {0, 4}, SetOrder(id, order, Rank(type, class, -position)), order \notin used,
             order \in Int, InPlace(order, Mapped(type), Half(type), class, -position), Sided(Half(type), class),
             Given(scene.relatives, type, class)
      PROVE  OrdersTrue' /\ ItemsTrue'
  <2>1. class \in 0 .. 4 /\ class # 2 /\ -position \in Int
    BY <1>7
  <2>2. Stands(scene.relatives, order, Rank(type, class, -position))
    BY <1>7, <1>9, <2>1, Zenon DEF Stands
  <2>3. ASSUME NEW t \in KnownTypes, NEW c \in Counts, NEW m \in Numbers
        PROVE  order # DefaultOrder(t, c, m)
    BY <1>7, <1>9, <2>1, NotDefault, Zenon
  <2> DEFINE rank == Rank(type, class, -position)
  <2> HIDE DEF rank
  <2>4. SetOrder(id, order, rank) /\ Stands(scene.relatives, order, rank)
    BY <1>9, <2>2 DEF rank
  <2> QED BY <1>1, <1>6, <1>9, <2>3, <2>4, SetOrderItems
<1>10. CASE position >= 0
  <2> DEFINE order == Free(relative, 1)
  <2>1. PICK one \in {-1, 1} : one = 1
    OBVIOUS
  <2>2. order \notin used /\ \E n \in 0 .. 31 : order = relative + one * n
    <3> HIDE DEF relative
    <3> QED BY <1>2, <1>8, <2>1, FreeNear
  <2>3. PICK n \in 0 .. 31 : order = relative + one * n
    BY <2>2
  <2>4. order = relative + n /\ order \in Int
    <3> HIDE DEF relative, order
    <3> QED BY <1>8, <2>1, <2>3
  <2>5. type \in 20 .. 24 /\ position \in Nat /\ Near(position)
    BY <1>4, <1>10, SMT
  <2>6. InPlace(relative + n, Mapped(type), Half(type), 4, -position)
    BY <2>5, BehindPlace, Zenon
  <2>7. InPlace(order, Mapped(type), Half(type), 4, -position)
    <3> HIDE DEF relative, order
    <3> QED BY <2>4, <2>6, Zenon
  <2>8. Half(type) = 1
    BY <2>5 DEF Half, IsCP
  <2>9. Sided(Half(type), 4) /\ Given(scene.relatives, type, 4)
    BY <1>5, <1>10, <2>8 DEF Sided, Given
  <2>10. SetOrder(id, order, Rank(type, 4, -position))
    BY <1>3, <1>10 DEF type, position
  <2> HIDE DEF order
  <2> QED BY <1>9, <2>2, <2>4, <2>7, <2>9, <2>10
<1>11. CASE position < 0
  <2> DEFINE order == Free(relative, -1)
  <2>1. PICK less \in {-1, 1} : less = -1
    OBVIOUS
  <2>2. order \notin used /\ \E n \in 0 .. 31 : order = relative + less * n
    <3> HIDE DEF relative
    <3> QED BY <1>2, <1>8, <2>1, FreeNear
  <2>3. PICK n \in 0 .. 31 : order = relative + less * n
    BY <2>2
  <2>4. order = relative - n /\ order \in Int
    <3> HIDE DEF relative, order
    <3> QED BY <1>8, <2>1, <2>3
  <2>5. type \in 4 .. 7 /\ position \in Int /\ Near(position) /\ position < 0
    BY <1>4, <1>11, SMT
  <2>6. InPlace(relative - n, Mapped(type), Half(type), 0, -position)
    BY <2>5, BeforePlace, Zenon
  <2>7. InPlace(order, Mapped(type), Half(type), 0, -position)
    <3> HIDE DEF relative, order
    <3> QED BY <2>4, <2>6, Zenon
  <2>8. Half(type) = 0
    BY <2>5 DEF Half, IsCP
  <2>9. Sided(Half(type), 0) /\ Given(scene.relatives, type, 0)
    BY <1>5, <1>11, <2>8 DEF Sided, Given
  <2>10. SetOrder(id, order, Rank(type, 0, -position))
    <3>1. ~(position >= 0)
      BY <1>7, <1>11
    <3> QED BY <1>3, <3>1 DEF type, position
  <2> HIDE DEF order
  <2> QED BY <1>9, <2>2, <2>4, <2>7, <2>9, <2>10
<1> QED BY <1>7, <1>10, <1>11

\* When one stream keeps it, all do.
LEMMA LikeOne ==
    ASSUME Outside, NEW id \in DOMAIN streams, NEW t, Like(streams[id], t), streams' = [streams EXCEPT ![id] = t]
    PROVE  DOMAIN streams' = DOMAIN streams /\ \A i \in DOMAIN streams : Like(streams[i], streams'[i])
<1>1. streams \in Seq(AnyStream)
  BY DEF Outside, Typed, StreamsTyped
<1>2. DOMAIN streams' = DOMAIN streams /\ streams'[id] = t /\ \A i \in DOMAIN streams : i # id => streams'[i] = streams[i]
  BY <1>1
<1>3. \A s : Like(s, s)
  BY DEF Like
<1> QED BY <1>2, <1>3

\* What indexing, telling and fixing a count change of a stream is not its order.
LEMMA ChangedLike ==
    ASSUME NEW s \in AnyStream, NEW i, NEW count, NEW number, NEW told
    PROVE  /\ Like(s, WithIndex(s, i)) /\ Like(s, WithTold(s, told))
           /\ ~s.system => Like(s, WithNumbers(s, count, number)) /\ Like(s, WithCount(s, count))
           /\ WithCount(s, count).system = s.system
BY DEF AnyStream, Like, WithIndex, WithTold, WithNumbers, WithCount

\* An index is added for a stream.
LEMMA AddStreamIndexItems ==
    ASSUME Outside, OrdersTrue, ItemsTrue, UNCHANGED <<scene, call>>, NEW id \in DOMAIN streams, AddStreamIndex(id)
    PROVE  OrdersTrue' /\ ItemsTrue'
<1>1. Outside'
  BY AddStreamIndexOutside
<1>2. PICK i \in Indexes : streams' = [streams EXCEPT ![id].index = TRUE, ![id].clip = i.clip, ![id].filler = i.filler]
  BY DEF AddStreamIndex
<1> DEFINE s == streams[id]
           t == WithIndex(s, i)
<1>3. s \in AnyStream
  BY StreamThere
<1>4. streams' = [streams EXCEPT ![id] = t]
  BY <1>2, <1>3 DEF WithIndex
<1>5. Like(s, t)
  <2> HIDE DEF s
  <2> QED BY <1>3, ChangedLike
<1>6. UNCHANGED <<writer, used, queue, given>>
  BY DEF AddStreamIndex
<1> HIDE DEF t
<1>7. DOMAIN streams' = DOMAIN streams /\ \A j \in DOMAIN streams : Like(streams[j], streams'[j])
  BY <1>4, <1>5, LikeOne
<1> QED BY <1>1, <1>6, <1>7, LikeItems

\* A track number is told.
LEMMA GetTrackNumberItems ==
    ASSUME Outside, OrdersTrue, ItemsTrue, UNCHANGED <<scene, call>>, NEW id \in DOMAIN streams, GetTrackNumber(id)
    PROVE  OrdersTrue' /\ ItemsTrue'
<1> DEFINE s == streams[id]
           f == FixForTrackNumber(s)
           t == WithTold(f, TrackNumber(f))
           n == Cardinality(OfType(s.type))
<1>1. s \in AnyStream /\ Outside'
  BY StreamThere, GetTrackNumberOutside
<1>2. ~s.system /\ streams' = [streams EXCEPT ![id] = t] /\ UNCHANGED <<writer, used, queue, given>>
  BY DEF GetTrackNumber, WithTold
<1>3. f = IF s.fixed THEN s ELSE WithCount(s, n)
  BY DEF FixForTrackNumber, WithCount
<1>4. n \in Byte
  BY FixedNumbers
<1> HIDE DEF s, f, n
<1>5. f \in AnyStream /\ Like(s, f)
  <2>1. CASE s.fixed
    BY <2>1, <1>1, <1>3 DEF Like
  <2>2. CASE ~s.fixed
    BY <2>2, <1>1, <1>2, <1>3, <1>4, WithCountIs, ChangedLike
  <2> QED BY <2>1, <2>2
<1>6. Like(f, t)
  BY <1>5, ChangedLike
<1>7. Like(s, t)
  <2> HIDE DEF t
  <2> QED BY <1>2, <1>5, <1>6 DEF Like
<1> HIDE DEF t
<1>8. DOMAIN streams' = DOMAIN streams /\ \A j \in DOMAIN streams : Like(streams[j], streams'[j])
  BY <1>2, <1>7, LikeOne DEF s
<1> QED BY <1>1, <1>2, <1>8, LikeItems

\* The calls that leave streams, orders and items alone.
LEMMA SameItems ==
    ASSUME OrdersTrue, ItemsTrue, UNCHANGED <<scene, streams, used, queue, given>>, writer'.next = writer.next,
           KlvsNow' = KlvsNow
    PROVE  OrdersTrue' /\ ItemsTrue'
<1>1. NextTrue' /\ DefaultsTrue' /\ StreamsStand' /\ StreamsApart'
  BY DEF OrdersTrue, NextTrue, DefaultsTrue, StreamsStand, StreamsApart
<1>2. ItemsStand' /\ ItemsApart' /\ GivenTrue'
  BY DEF ItemsTrue, ItemsStand, ItemsApart, GivenTrue
<1> QED BY <1>1, <1>2 DEF OrdersTrue, ItemsTrue

\* Those calls, and that nothing else of the writer is its next order.
LEMMA FileItems ==
    ASSUME Outside, OrdersTrue, ItemsTrue, UNCHANGED <<scene, call>>,
           SetKAG \/ SetIndexEditUnit \/ (\E size \in Raws : WriteRaw(size)) \/ (\E n \in Packs : OtherWrite(n))
    PROVE  OrdersTrue' /\ ItemsTrue'
<1>1. UNCHANGED <<streams, used, queue, given>>
  BY DEF SetKAG, SetIndexEditUnit, WriteRaw, OtherWrite
<1>2. writer \in AnyWriter
  BY FileHere
<1>3. writer'.next = writer.next
  <2>1. CASE SetKAG
    BY <2>1, <1>2 DEF SetKAG, AnyWriter
  <2>2. CASE SetIndexEditUnit
    BY <2>2, <1>2 DEF SetIndexEditUnit, AnyWriter
  <2>3. CASE \E size \in Raws : WriteRaw(size)
    BY <2>3, <1>2 DEF WriteRaw, AnyWriter
  <2>4. CASE \E n \in Packs : OtherWrite(n)
    BY <2>4 DEF OtherWrite
  <2> QED BY <2>1, <2>2, <2>3, <2>4
<1>4. KlvsNow' = KlvsNow
  BY DEF KlvsNow
<1> QED BY <1>1, <1>3, <1>4, SameItems

\* The first item of a stream in a package is in its place, which no other item has.
LEMMA AddDataItems ==
    ASSUME PerPackage = 1, Outside, OrdersTrue, ItemsTrue, call = Nothing, UNCHANGED <<scene, call>>,
           NEW id \in DOMAIN streams, NEW item \in Items, AddData(id, item)
    PROVE  OrdersTrue' /\ ItemsTrue'
<1> DEFINE s == streams[id]
           n == Cardinality(OfType(s.type))
           t == IF s.system THEN s ELSE FixForKey(s)
           b == Block(id, t, item)
<1>1. s \in AnyStream /\ Outside'
  BY StreamThere, AddDataOutside
<1>2. /\ given[id] < PerPackage
      /\ streams' = [streams EXCEPT ![id] = t] /\ queue' = Insert(b) /\ given' = [given EXCEPT ![id] = @ + 1]
      /\ UNCHANGED <<writer, used>>
  BY DEF AddData
<1>3. n \in Byte /\ n + setup.base - 1 \in Byte
  BY FixedNumbers
<1>4. t = IF s.system \/ s.plain \/ s.fixed THEN s ELSE WithNumbers(s, n, n + setup.base - 1)
  BY DEF FixForKey, WithNumbers
<1>5. /\ given \in Seq(Nat) /\ DOMAIN given = DOMAIN streams /\ QueueTyped
      /\ StreamsStand /\ StreamsApart /\ ItemsStand /\ ItemsApart /\ GivenTrue
  BY DEF Outside, Typed, StreamsTyped, OrdersTrue, ItemsTrue
<1>6. /\ given[id] = 0 /\ given'[id] = 1 /\ DOMAIN given' = DOMAIN streams
      /\ \A i \in DOMAIN streams : i # id => given'[i] = given[i]
  <2>1. given[id] \in Nat
    BY <1>5
  <2> QED BY <1>2, <1>5, <2>1
<1> HIDE DEF n
<1>7. Like(s, t)
  <2> HIDE DEF s
  <2>1. CASE s.system \/ s.plain \/ s.fixed
    BY <2>1, <1>4 DEF Like
  <2>2. CASE ~(s.system \/ s.plain \/ s.fixed)
    <3> DEFINE m == n + setup.base - 1
    <3> HIDE DEF m
    <3>1. t = WithNumbers(s, n, m)
      BY <2>2, <1>4 DEF m
    <3> QED BY <2>2, <3>1, <1>1, ChangedLike
  <2> QED BY <2>1, <2>2
<1> HIDE DEF t
<1>8. b.stream = id /\ b.order = s.order /\ b.rank = s.rank
  <2> HIDE DEF s
  <2>1. b.stream = id /\ b.order = t.order /\ b.rank = t.rank
    BY DEF Block
  <2> QED BY <2>1, <1>7 DEF Like
<1> HIDE DEF b
<1>9. DOMAIN streams' = DOMAIN streams /\ \A i \in DOMAIN streams : Like(streams[i], streams'[i])
  BY <1>2, <1>7, LikeOne
<1>10. OrdersTrue'
  BY <1>1, <1>2, <1>9, LikeOrders
<1>11. ~s.plain => \A c \in queue : c.order # b.order
  <2> SUFFICES ASSUME ~s.plain, NEW c \in queue
               PROVE  c.order # b.order
    OBVIOUS
  <2>1. CASE c.stream = id
    <3>1. OnceIn(queue, KlvsNow, id, given[id])
      BY <1>5 DEF GivenTrue
    <3> QED BY <2>1, <3>1, <1>6 DEF OnceIn
  <2>2. CASE c.stream # id
    BY <2>2, <1>5, <1>8 DEF ItemsApart
  <2> QED BY <2>1, <2>2
<1>12. /\ queue' \subseteq queue \cup {b} /\ queue \subseteq queue'
       /\ ~s.plain => queue' = queue \cup {b}
  BY <1>2, <1>11 DEF Insert
<1>13. ItemsStand'
  <2>1. s.order \in used /\ ItemStands(scene.relatives, b)
    BY <1>5, <1>8 DEF StreamsStand, StreamStands, ItemStands
  <2> QED BY <1>2, <1>5, <1>8, <1>12, <2>1 DEF ItemsStand
<1>14. ItemsApart'
  <2> SUFFICES ASSUME NEW c \in queue', NEW i \in DOMAIN streams, c.stream # i, ~streams'[i].plain
               PROVE  streams'[i].order # c.order
    BY <1>9 DEF ItemsApart
  <2>1. streams'[i].order = streams[i].order /\ ~streams[i].plain
    BY <1>9 DEF Like
  <2>2. CASE c \in queue
    BY <1>5, <2>1, <2>2 DEF ItemsApart
  <2>3. CASE c = b
    <3>1. i # id /\ c.order = streams[id].order
      BY <1>8, <2>3
    <3> QED BY <1>5, <2>1, <3>1 DEF StreamsApart
  <2> QED BY <1>12, <2>2, <2>3
<1>15. GivenTrue'
  <2> SUFFICES ASSUME NEW i \in DOMAIN streams, ~streams'[i].plain
               PROVE  OnceIn(queue', << >>, i, given'[i])
    BY <1>9 DEF GivenTrue, KlvsNow
  <2>1. ~streams[i].plain
    BY <1>9 DEF Like
  <2>2. OnceIn(queue, << >>, i, given[i])
    BY <1>5, <2>1 DEF GivenTrue, KlvsNow
  <2>3. CASE i = id
    <3>1. queue' = queue \cup {b}
      BY <1>12, <2>1, <2>3
    <3>2. \A c \in queue : c.stream # id
      BY <2>2, <2>3, <1>6 DEF OnceIn
    <3> QED BY <1>6, <1>8, <2>2, <2>3, <3>1, <3>2 DEF OnceIn
  <2>4. CASE i # id
    <3>1. \A c \in queue' : c.stream = i => c \in queue
      BY <1>8, <1>12, <2>4
    <3> QED BY <1>6, <1>12, <2>2, <2>4, <3>1 DEF OnceIn
  <2> QED BY <2>3, <2>4
<1> QED BY <1>10, <1>13, <1>14, <1>15 DEF ItemsTrue

\* Every call.
LEMMA CallItems ==
    ASSUME PerPackage = 1, Conventional(scene), Outside, OrdersTrue, ItemsTrue, call = Nothing, UNCHANGED <<scene, call>>, Call
    PROVE  OrdersTrue' /\ ItemsTrue'
<1>1. CASE AddStream
  BY <1>1, AddStreamItems
<1>2. CASE \E id \in DOMAIN streams : AddStreamIndex(id)
  BY <1>2, AddStreamIndexItems
<1>3. CASE \E id \in DOMAIN streams : SetWriteOrder(id)
  BY <1>3, SetWriteOrderItems
<1>4. CASE \E id \in DOMAIN streams : SetRelativeWriteOrder(id)
  BY <1>4, SetRelativeWriteOrderItems
<1>5. CASE \E id \in DOMAIN streams : GetTrackNumber(id)
  BY <1>5, GetTrackNumberItems
<1>6. CASE \E id \in DOMAIN streams : \E item \in Items : AddData(id, item)
  BY <1>6, AddDataItems
<1>7. CASE SetKAG \/ SetIndexEditUnit \/ (\E size \in Raws : WriteRaw(size)) \/ (\E n \in Packs : OtherWrite(n))
  BY <1>7, FileItems
<1> QED BY <1>1, <1>2, <1>3, <1>4, <1>5, <1>6, <1>7 DEF Call

\* A Flush begins with nothing written.
LEMMA FlushItems ==
    ASSUME PackageInv, Flush, call = Nothing, UNCHANGED scene
    PROVE  PackageInv'
<1>1. KlvsNow' = << >> /\ KlvsNow = << >>
  BY DEF KlvsNow, Flush
<1>2. done' = Nothing /\ UNCHANGED <<writer, streams, used, queue, given>>
  BY DEF Flush
<1>3. OrdersTrue' /\ ItemsTrue'
  BY <1>1, <1>2, SameItems DEF PackageInv
<1>4. InOrder(KlvsNow, queue)'
  BY <1>1, <1>2 DEF PackageInv, InOrder
<1>5. PackageTrue'
  BY <1>2 DEF PackageTrue, AllWritten, WrittenInOrder, Flushed, Nothing
<1> QED BY <1>3, <1>4, <1>5 DEF PackageInv

\* An item that is written is no longer queued.
LEMMA OnceMoved ==
    ASSUME NEW items, NEW klvs \in Seq(AnyKlv), NEW b \in items, NEW k \in AnyKlv, k.stream = b.stream,
           NEW id, NEW n, OnceIn(items, klvs, id, n)
    PROVE  OnceIn(items \ {b}, Append(klvs, k), id, n)
<1> DEFINE m == Len(klvs)
           more == Append(klvs, k)
           less == items \ {b}
<1>1. /\ m \in Nat /\ DOMAIN klvs = 1 .. m /\ DOMAIN more = 1 .. (m + 1) /\ more[m + 1] = k
      /\ \A i \in 1 .. m : more[i] = klvs[i] /\ i # m + 1
  OBVIOUS
<1>2. \A i \in 1 .. (m + 1) : i \in 1 .. m \/ i = m + 1
  BY <1>1
<1>3. 1 .. m \subseteq 1 .. (m + 1) /\ m + 1 \in 1 .. (m + 1)
  BY <1>1
<1> HIDE DEF m, more
<1>4. /\ n \in {0, 1}
      /\ \A x, y \in items : x.stream = id /\ y.stream = id => x = y
      /\ \A i, j \in 1 .. m : klvs[i].stream = id /\ klvs[j].stream = id => i = j
      /\ (\E x \in items : x.stream = id) => n = 1 /\ \A i \in 1 .. m : klvs[i].stream # id
      /\ n = 1 => (\E x \in items : x.stream = id) \/ (\E i \in 1 .. m : klvs[i].stream = id)
      /\ n = 0 => \A i \in 1 .. m : klvs[i].stream # id
  BY <1>1 DEF OnceIn
<1>5. CASE b.stream = id
  <2>1. /\ n = 1 /\ \A i \in 1 .. m : more[i].stream # id
        /\ more[m + 1].stream = id /\ \A x \in less : x.stream # id
    BY <1>1, <1>4, <1>5
  <2>2. \A i, j \in 1 .. (m + 1) : more[i].stream = id /\ more[j].stream = id => i = j
    BY <1>2, <2>1
  <2> HIDE DEF less
  <2>3. /\ n \in {0, 1} /\ ~(n = 0)
        /\ \A x, y \in less : x.stream = id /\ y.stream = id => x = y
        /\ ~\E x \in less : x.stream = id
        /\ \E i \in 1 .. (m + 1) : more[i].stream = id
    BY <1>3, <2>1
  <2>4. OnceIn(less, more, id, n)
    BY <1>1, <2>1, <2>2, <2>3 DEF OnceIn
  <2> QED BY <2>4 DEF less, more
<1>6. CASE b.stream # id
  <2>1. \A i \in 1 .. (m + 1) : more[i].stream = id => i \in 1 .. m /\ klvs[i].stream = id
    BY <1>1, <1>2, <1>6
  <2>2. \A i \in 1 .. m : klvs[i].stream = id => i \in 1 .. (m + 1) /\ more[i].stream = id
    BY <1>1, <1>3
  <2>3. \A x \in less : x \in items
    OBVIOUS
  <2>4. \A x \in items : x.stream = id => x \in less
    BY <1>6
  <2> HIDE DEF less
  <2>5. \A i, j \in 1 .. (m + 1) : more[i].stream = id /\ more[j].stream = id => i = j
    BY <1>4, <2>1
  <2>6. (\E x \in less : x.stream = id) => n = 1 /\ \A i \in 1 .. (m + 1) : more[i].stream # id
    BY <1>4, <2>1, <2>3
  <2>7. n = 1 => (\E x \in less : x.stream = id) \/ (\E i \in 1 .. (m + 1) : more[i].stream = id)
    BY <1>4, <2>2, <2>4
  <2>8. n = 0 => \A i \in 1 .. (m + 1) : more[i].stream # id
    BY <1>4, <2>1
  <2> QED BY <1>1, <1>4, <2>3, <2>5, <2>6, <2>7, <2>8 DEF OnceIn
<1> QED BY <1>5, <1>6 DEF more

\* What is written next is the first of what is queued.
LEMMA OrderMoved ==
    ASSUME NEW items, NEW klvs \in Seq(AnyKlv), NEW b \in items, NEW k \in AnyKlv, k.rank = b.rank,
           InOrder(klvs, items), \A c \in items \ {b} : Before(b.rank, c.rank)
    PROVE  InOrder(Append(klvs, k), items \ {b})
<1> DEFINE m == Len(klvs)
           more == Append(klvs, k)
<1>1. /\ m \in Nat /\ DOMAIN klvs = 1 .. m /\ DOMAIN more = 1 .. (m + 1) /\ more[m + 1] = k
      /\ \A i \in 1 .. m : more[i] = klvs[i]
  OBVIOUS
<1> HIDE DEF m, more
<1>2. /\ \A i, j \in 1 .. m : i < j => Before(klvs[i].rank, klvs[j].rank)
      /\ \A i \in 1 .. m, c \in items : Before(klvs[i].rank, c.rank)
  BY <1>1 DEF InOrder
<1>3. ASSUME NEW i \in 1 .. (m + 1), NEW j \in 1 .. (m + 1), i < j
      PROVE  Before(more[i].rank, more[j].rank)
  <2>1. i \in 1 .. m
    BY <1>1, <1>3
  <2>2. CASE j = m + 1
    BY <1>1, <1>2, <2>1, <2>2
  <2>3. CASE j \in 1 .. m
    BY <1>1, <1>2, <1>3, <2>1, <2>3
  <2> QED BY <1>1, <2>2, <2>3
<1>4. ASSUME NEW i \in 1 .. (m + 1), NEW c \in items \ {b}
      PROVE  Before(more[i].rank, c.rank)
  <2>1. CASE i = m + 1
    BY <1>1, <2>1
  <2>2. CASE i \in 1 .. m
    BY <1>1, <1>2, <2>2
  <2> QED BY <1>1, <2>1, <2>2
<1>5. InOrder(more, items \ {b})
  BY <1>1, <1>3, <1>4, Zenon DEF InOrder
<1> QED BY <1>5 DEF more

\* A turn of the loop notes the item that it takes from the queue.
LEMMA TurnNotes ==
    ASSUME IInv, NEW b \in queue, FlushItem(b), UNCHANGED scene
    PROVE  /\ KlvsNow \in Seq(AnyKlv) /\ b \in AnyBlock
           /\ \E k \in AnyKlv : k.stream = b.stream /\ k.rank = b.rank /\ KlvsNow' = Append(KlvsNow, k)
<1> DEFINE type == TypeIn(b.order)
           at == writer.offset + FillBefore(b)
           where == tell + FillBefore(b)
           value == writer.offset + FillBefore(b) + 16 + LengthSize(b)
           starts == type # call.last
           kl == KLSizeOf(b, value)
           k == Klv(b, at, where, value, type, starts)
           offers == call.offers \cup Offers(b, at, value, kl)
           error == call.error \/ Outgrown(b)
           klvs == Append(call.klvs, k)
<1>1. Outside /\ call # Nothing
  BY DEF IInv, Outside, FlushItem
<1>2. b \in AnyBlock
  BY <1>1 DEF Outside, Typed, QueueTyped
<1>3. /\ call = Flushing(call.from, call.start, call.predicted, call.last, call.kl, call.klvs, call.offers, call.error)
      /\ KlvsTrue(call.klvs, writer.kag)
  BY <1>1 DEF IInv, CallTrue
<1>4. call' = [call EXCEPT !.last = type, !.kl = kl, !.error = error, !.klvs = klvs, !.offers = offers]
  BY DEF FlushItem, Klv, KLSizeOf
<1>5. k \in AnyKlv /\ k.stream = b.stream /\ k.rank = b.rank
  <2>1. at \in Nat /\ where \in Nat /\ value \in Nat
    <3>1. FillBefore(b) \in Nat /\ LengthSize(b) \in Nat
      BY <1>1, <1>2, BehindType, LengthType DEF Outside
    <3>2. writer.offset \in Nat /\ tell \in Nat
      BY <1>1, FileHere
    <3> QED BY <3>1, <3>2
  <2>2. type \in Nat /\ starts \in BOOLEAN
    <3>1. b.order \in Nat
      BY <1>2 DEF AnyBlock
    <3>2. type \in Nat
      BY <3>1, SMT DEF TypeIn
    <3> QED BY <3>2
  <2> HIDE DEF at, where, value, type, starts
  <2>3. KlvOf(k, b, at, where, value)
    BY <1>1, <1>2, <2>1, <2>2, KlvIs DEF Outside
  <2>4. k.rank = b.rank
    BY DEF Klv
  <2> HIDE DEF k
  <2> QED BY <2>3, <2>4 DEF KlvOf
<1> HIDE DEF type, kl, klvs, offers, error
<1>6. call'.klvs = klvs /\ call'.op = "flush"
  <2> DEFINE c == Flushing(call.from, call.start, call.predicted, call.last, call.kl, call.klvs, call.offers, call.error)
             d == [c EXCEPT !.last = type, !.kl = kl, !.error = error, !.klvs = klvs, !.offers = offers]
  <2>1. d.klvs = klvs /\ d.op = "flush"
    BY DEF Flushing
  <2>2. call = c
    BY <1>3
  <2>3. call' = d
    <3> HIDE DEF c
    <3> QED BY <1>4, <2>2
  <2> HIDE DEF d
  <2> QED BY <2>1, <2>3
<1>7. KlvsNow = call.klvs /\ KlvsNow' = klvs
  BY <1>1, <1>6 DEF KlvsNow, Nothing
<1>8. call.klvs \in Seq(AnyKlv)
  BY <1>3 DEF KlvsTrue
<1> HIDE DEF k
<1> QED BY <1>2, <1>5, <1>7, <1>8 DEF klvs

\* The first item of the queue is written behind all that was.
LEMMA FlushItemItems ==
    ASSUME IInv, PackageInv, Conventional(scene), NEW b \in queue, FlushItem(b), UNCHANGED scene
    PROVE  PackageInv'
<1>1. /\ queue' = queue \ {b} /\ UNCHANGED <<streams, used, given, done>>
      /\ call # Nothing /\ \A c \in queue : b.order <= c.order
  BY DEF FlushItem
<1>2. /\ QueueTyped /\ Outside /\ writer \in AnyWriter /\ CallTrue
      /\ OrdersTrue /\ ItemsStand /\ ItemsApart /\ GivenTrue /\ InOrder(KlvsNow, queue)
  BY DEF IInv, Typed, FileTyped, PackageInv, ItemsTrue, Outside
<1>3. /\ KlvsNow \in Seq(AnyKlv) /\ b \in AnyBlock
      /\ \E k \in AnyKlv : k.stream = b.stream /\ k.rank = b.rank /\ KlvsNow' = Append(KlvsNow, k)
  BY TurnNotes
<1>4. PICK k \in AnyKlv : k.stream = b.stream /\ k.rank = b.rank /\ KlvsNow' = Append(KlvsNow, k)
  BY <1>3
<1>5. writer'.next = writer.next
  BY <1>2 DEF FlushItem, AnyWriter
<1>6. OrdersTrue'
  BY <1>1, <1>2, <1>5 DEF OrdersTrue, NextTrue, DefaultsTrue, StreamsStand, StreamsApart
<1>7. ItemsStand' /\ ItemsApart'
  BY <1>1, <1>2 DEF ItemsStand, ItemsApart
<1>8. GivenTrue'
  <2> SUFFICES ASSUME NEW id \in DOMAIN streams, ~streams[id].plain
               PROVE  OnceIn(queue \ {b}, KlvsNow', id, given[id])
    BY <1>1 DEF GivenTrue
  <2> DEFINE klvs == KlvsNow
             items == queue
             n == given[id]
  <2>1. OnceIn(items, klvs, id, n)
    BY <1>2 DEF GivenTrue
  <2>2. klvs \in Seq(AnyKlv) /\ b \in items
    BY <1>3
  <2> HIDE DEF klvs, items, n
  <2>3. OnceIn(items \ {b}, Append(klvs, k), id, n)
    BY <1>4, <2>1, <2>2, OnceMoved
  <2> QED BY <1>4, <2>3 DEF klvs, items, n
<1>9. ASSUME NEW c \in queue \ {b}
      PROVE  Before(b.rank, c.rank)
  <2> SUFFICES ASSUME b.rank # -1, c.rank # -1
               PROVE  b.rank <= c.rank
    BY DEF Before
  <2>1. Stands(scene.relatives, b.order, b.rank) /\ Stands(scene.relatives, c.order, c.rank)
    BY <1>2 DEF ItemsStand, ItemStands
  <2>2. b.order \in Int /\ c.order \in Int /\ b.order < c.order
    <3>1. b \in AnyBlock /\ c \in AnyBlock /\ b.order # c.order
      BY <1>2 DEF QueueTyped
    <3>2. b.order \in Nat /\ c.order \in Nat
      BY <3>1 DEF AnyBlock
    <3> QED BY <1>1, <3>1, <3>2
  <2>3. NotBetween(scene.relatives)
    BY Agreed
  <2> QED BY <2>1, <2>2, <2>3, RanksFollow
<1>10. InOrder(KlvsNow, queue)'
  <2> DEFINE klvs == KlvsNow
             items == queue
  <2>1. InOrder(klvs, items) /\ klvs \in Seq(AnyKlv) /\ b \in items /\ \A c \in items \ {b} : Before(b.rank, c.rank)
    BY <1>2, <1>3, <1>9
  <2> HIDE DEF klvs, items
  <2>2. InOrder(Append(klvs, k), items \ {b})
    BY <1>4, <2>1, OrderMoved
  <2>3. InOrder(KlvsNow', queue')
    BY <1>1, <1>4, <2>2 DEF klvs, items
  <2> QED BY <2>3 DEF InOrder
<1>11. PackageTrue'
  <2>1. done' = Nothing
    BY <1>1, <1>2 DEF CallTrue
  <2> QED BY <2>1 DEF PackageTrue, AllWritten, WrittenInOrder, Flushed, Nothing
<1> QED BY <1>6, <1>7, <1>8, <1>10, <1>11 DEF PackageInv, ItemsTrue

\* When nothing is queued, what was handed over is written.
LEMMA AllOfIt ==
    ASSUME NEW klvs, NEW id, NEW n, OnceIn({}, klvs, id, n)
    PROVE  Cardinality({i \in DOMAIN klvs : klvs[i].stream = id}) = n
<1> DEFINE S == {i \in DOMAIN klvs : klvs[i].stream = id}
<1>1. CASE n = 0
  <2>1. S = {}
    BY <1>1 DEF OnceIn
  <2> QED BY <1>1, <2>1, FS_EmptySet
<1>2. CASE n = 1
  <2>1. PICK i \in DOMAIN klvs : klvs[i].stream = id
    BY <1>2 DEF OnceIn
  <2>2. S = {i}
    BY <2>1 DEF OnceIn
  <2>3. Cardinality({i}) = 1
    BY FS_Singleton
  <2> QED BY <1>2, <2>2, <2>3
<1> QED BY <1>1, <1>2 DEF OnceIn

\* A Flush ends when the queue is empty: the package is complete and in order.
LEMMA FlushEndsItems ==
    ASSUME IInv, PackageInv, FlushEnds, UNCHANGED scene
    PROVE  PackageInv'
<1>1. /\ call # Nothing /\ call' = Nothing /\ queue = {} /\ given' = [id \in DOMAIN given |-> 0]
      /\ UNCHANGED <<streams, used, queue>>
  BY DEF FlushEnds
<1>2. /\ writer \in AnyWriter /\ DOMAIN given = DOMAIN streams
      /\ OrdersTrue /\ GivenTrue /\ InOrder(KlvsNow, queue)
  BY DEF IInv, Typed, FileTyped, StreamsTyped, PackageInv, ItemsTrue
<1>3. writer'.next = writer.next
  BY <1>2 DEF FlushEnds, AnyWriter
<1>4. OrdersTrue'
  BY <1>1, <1>2, <1>3 DEF OrdersTrue, NextTrue, DefaultsTrue, StreamsStand, StreamsApart
<1>5. KlvsNow = call.klvs /\ KlvsNow' = << >>
  BY <1>1 DEF KlvsNow
<1>6. ItemsStand' /\ ItemsApart' /\ InOrder(KlvsNow, queue)'
  BY <1>1, <1>5 DEF ItemsStand, ItemsApart, InOrder
<1>7. GivenTrue'
  <2> SUFFICES ASSUME NEW id \in DOMAIN streams
               PROVE  OnceIn({}, << >>, id, 0)
    BY <1>1, <1>2, <1>5 DEF GivenTrue
  <2> QED BY DEF OnceIn
<1>8. done'.klvs = call.klvs /\ done'.given = given
  BY DEF FlushEnds
<1>9. AllWritten'
  <2> SUFFICES ASSUME NEW id \in DOMAIN given, ~streams[id].plain
               PROVE  Cardinality({i \in DOMAIN call.klvs : call.klvs[i].stream = id}) = given[id]
    BY <1>1, <1>8 DEF AllWritten
  <2> DEFINE klvs == call.klvs
             n == given[id]
  <2>1. OnceIn({}, klvs, id, n)
    BY <1>1, <1>2, <1>5 DEF GivenTrue
  <2> HIDE DEF klvs, n
  <2>2. Cardinality({i \in DOMAIN klvs : klvs[i].stream = id}) = n
    BY <2>1, AllOfIt
  <2> QED BY <2>2 DEF klvs, n
<1>10. WrittenInOrder'
  BY <1>2, <1>5, <1>8 DEF WrittenInOrder, InOrder, Before
<1> QED BY <1>4, <1>6, <1>7, <1>9, <1>10 DEF PackageInv, ItemsTrue, PackageTrue

\* Nothing was handed over and nothing set.
LEMMA InitItems ==
    ASSUME Init
    PROVE  PackageInv
<1>1. /\ writer = [kag |-> 1, ber4 |-> FALSE, offset |-> 0, unit |-> 0, next |-> 0]
      /\ streams = << >> /\ used = {} /\ queue = {} /\ call = Nothing /\ done = Nothing
  BY DEF Init
<1>2. writer.next = 0 /\ DOMAIN streams = {} /\ KlvsNow = << >>
  BY <1>1 DEF KlvsNow
<1>3. NextTrue
  <2>1. Cardinality(used) = 0
    BY <1>1, FS_EmptySet
  <2> QED BY <1>2, <2>1 DEF NextTrue
<1>4. OrdersTrue
  BY <1>1, <1>2, <1>3 DEF OrdersTrue, DefaultsTrue, StreamsStand, StreamsApart
<1>5. ItemsTrue
  BY <1>1, <1>2 DEF ItemsTrue, ItemsStand, ItemsApart, GivenTrue
<1>6. InOrder(KlvsNow, queue)
  BY <1>1, <1>2 DEF InOrder
<1>7. PackageTrue
  BY <1>1 DEF PackageTrue, AllWritten, WrittenInOrder, Flushed, Nothing
<1> QED BY <1>4, <1>5, <1>6, <1>7 DEF PackageInv

\* A Flush writes the package that was put together, each item once and in the
\* documented order, whenever streams were added and orders set: where a stream
\* is handed over one item a package, and orders say what they are documented
\* to say.
THEOREM PackageTrueAlways ==
    ASSUME PerPackage = 1, \A x \in Scenes : Conventional(x)
    PROVE  Spec => []PackageTrue
<1>1. Init => PackageInv
  BY InitItems
<1>2. IInv /\ PackageInv /\ [Next]_vars => PackageInv'
  <2> SUFFICES ASSUME IInv, PackageInv, [Next]_vars
               PROVE  PackageInv'
    OBVIOUS
  <2>1. CASE UNCHANGED vars
    <3>1. UNCHANGED <<scene, writer, streams, used, queue, call, given, done>>
      BY <2>1 DEF vars
    <3>2. KlvsNow' = KlvsNow
      BY <3>1 DEF KlvsNow
    <3>3. OrdersTrue' /\ ItemsTrue'
      BY <3>1, <3>2, SameItems DEF PackageInv
    <3>4. InOrder(KlvsNow, queue)'
      BY <3>1, <3>2 DEF PackageInv, InOrder
    <3>5. PackageTrue'
      BY <3>1 DEF PackageInv, PackageTrue, AllWritten, WrittenInOrder, Flushed
    <3> QED BY <3>3, <3>4, <3>5 DEF PackageInv
  <2>2. CASE Step /\ UNCHANGED scene
    <3>1. Conventional(scene) /\ Outside
      BY DEF IInv, Typed, SceneTyped, Outside
    <3>2. CASE call = Nothing /\ Call /\ UNCHANGED call
      <4>1. OrdersTrue' /\ ItemsTrue'
        BY <2>2, <3>1, <3>2, CallItems DEF PackageInv
      <4>2. ~Flushed'
        BY <2>2, <3>1, <3>2, CallOutside
      <4>3. InOrder(KlvsNow, queue)'
        BY <3>2 DEF InOrder, KlvsNow
      <4>4. PackageTrue'
        BY <4>2 DEF PackageTrue, AllWritten, WrittenInOrder
      <4> QED BY <4>1, <4>3, <4>4 DEF PackageInv
    <3>3. CASE Flush
      <4>1. call = Nothing
        BY <3>3 DEF Flush
      <4> QED BY <2>2, <3>3, <4>1, FlushItems
    <3>4. CASE FlushEnds
      BY <2>2, <3>4, FlushEndsItems
    <3>5. CASE \E b \in queue : FlushItem(b)
      BY <2>2, <3>1, <3>5, FlushItemItems
    <3> QED BY <2>2, <3>2, <3>3, <3>4, <3>5 DEF Step
  <2> QED BY <2>1, <2>2 DEF Next
<1>3. PackageInv => PackageTrue
  BY DEF PackageInv
<1> QED BY <1>1, <1>2, <1>3, Invariant, PTL DEF Spec

-----------------------------------------------------------------------------
(***************************************************************************)
(* 9. What CalcWriteSize and CalcRawSize predict is written.               *)
(***************************************************************************)
\* What a sum is made of: g has the sum of f over every subset of S.
SumsTo(g, f, S) ==
    g = [s \in SUBSET S |-> IF s = {} THEN 0 ELSE LET x == CHOOSE x \in s : TRUE IN f[x] + g[s \ {x}]]

Counted(f, S) == IsFiniteSet(S) /\ \A x \in S : f[x] \in Nat

\* There is such a g: it is made for subsets of one element more and more.
LEMMA SumsExist ==
    ASSUME NEW f, NEW S, Counted(f, S)
    PROVE  \E g : SumsTo(g, f, S) /\ g \in [SUBSET S -> Nat]
<1> DEFINE At(g, s) == IF s = {} THEN 0 ELSE LET x == CHOOSE x \in s : TRUE IN f[x] + g[s \ {x}]
           UpTo(g, n) == g \in [SUBSET S -> Nat] /\ \A s \in SUBSET S : Cardinality(s) <= n => g[s] = At(g, s)
           Without == {n \in Nat : ~\E g : UpTo(g, n)}
<1>1. \A s \in SUBSET S : IsFiniteSet(s) /\ Cardinality(s) \in Nat
  BY FS_Subset, FS_CardinalityType DEF Counted
<1>2. \A g \in [SUBSET S -> Nat], s \in SUBSET S : At(g, s) \in Nat
  <2> TAKE g \in [SUBSET S -> Nat], s \in SUBSET S
  <2>1. CASE s = {}
    BY <2>1
  <2>2. CASE s # {}
    <3> DEFINE x == CHOOSE x \in s : TRUE
    <3>1. x \in s
      BY <2>2
    <3> HIDE DEF x
    <3>2. f[x] \in Nat /\ g[s \ {x}] \in Nat
      BY <3>1 DEF Counted
    <3>3. f[x] + g[s \ {x}] \in Nat
      BY <3>2
    <3> QED BY <2>2, <3>3 DEF x
  <2> QED BY <2>1, <2>2
<1>3. Without = {}
  <2> SUFFICES ASSUME Without # {}
               PROVE  FALSE
    OBVIOUS
  <2>1. PICK n \in Without : \A k \in Without : n <= k
    <3>1. Without \in SUBSET Nat
      OBVIOUS
    <3> HIDE DEF Without
    <3> QED BY <3>1, Least
  <2>2. CASE n = 0
    <3> DEFINE g == [s \in SUBSET S |-> 0]
    <3>1. g \in [SUBSET S -> Nat]
      OBVIOUS
    <3>2. ASSUME NEW s \in SUBSET S, Cardinality(s) <= 0
          PROVE  g[s] = At(g, s)
      <4>1. s = {}
        BY <1>1, <3>2, FS_EmptySet
      <4> QED BY <4>1
    <3>3. UpTo(g, 0)
      BY <3>1, <3>2
    <3> QED BY <2>2, <3>3
  <2>3. CASE n # 0
    <3>1. n - 1 \in Nat /\ n - 1 \notin Without
      <4> HIDE DEF UpTo
      <4>1. n \in Nat /\ n - 1 \in Nat /\ ~(n <= n - 1)
        BY <2>1, <2>3
      <4> HIDE DEF Without
      <4> QED BY <2>1, <4>1
    <3>2. PICK g : UpTo(g, n - 1)
      <4> HIDE DEF UpTo
      <4> QED BY <3>1
    <3> DEFINE h == [s \in SUBSET S |-> IF Cardinality(s) <= n - 1 THEN g[s] ELSE At(g, s)]
    <3>3. h \in [SUBSET S -> Nat]
      <4>1. \A s \in SUBSET S : g[s] \in Nat /\ At(g, s) \in Nat
        BY <1>2, <3>2
      <4> HIDE DEF At
      <4> QED BY <4>1
    <3>4. ASSUME NEW s \in SUBSET S, Cardinality(s) <= n
          PROVE  h[s] = At(h, s)
      <4>1. h[s] = At(g, s)
        BY <3>2
      <4>2. CASE s = {}
        BY <4>1, <4>2
      <4>3. CASE s # {}
        <5> DEFINE x == CHOOSE x \in s : TRUE
        <5>1. x \in s
          BY <4>3
        <5> HIDE DEF x
        <5>2. Cardinality(s \ {x}) = Cardinality(s) - 1
          BY <1>1, <5>1, FS_RemoveElement
        <5>3. Cardinality(s \ {x}) <= n - 1 /\ s \ {x} \in SUBSET S
          BY <1>1, <2>1, <3>4, <5>2
        <5>4. h[s \ {x}] = g[s \ {x}]
          BY <5>3
        <5> HIDE DEF h
        <5> QED BY <4>1, <4>3, <5>4 DEF x
      <4> QED BY <4>2, <4>3
    <3>5. UpTo(h, n)
      BY <3>3, <3>4
    <3> HIDE DEF UpTo, h
    <3>6. \E k : UpTo(k, n)
      BY <3>5
    <3> QED BY <2>1, <3>6
  <2> QED BY <2>2, <2>3
<1>4. Cardinality(S) \in Nat
  BY <1>1
<1>5. PICK g : UpTo(g, Cardinality(S))
  <2> HIDE DEF UpTo
  <2> QED BY <1>3, <1>4
<1>6. \A s \in SUBSET S : Cardinality(s) <= Cardinality(S)
  BY FS_Subset DEF Counted
<1>7. \A s \in SUBSET S : g[s] = At(g, s)
  BY <1>5, <1>6
<1>8. g = [s \in SUBSET S |-> At(g, s)]
  BY <1>5, <1>7
<1> QED BY <1>5, <1>8 DEF SumsTo

\* Where f and h agree their sums do.
LEMMA SumsAgree ==
    ASSUME NEW f, NEW h, NEW S, NEW T, NEW p, NEW q, T \subseteq S, IsFiniteSet(T), \A x \in T : f[x] = h[x],
           SumsTo(p, f, S), SumsTo(q, h, T)
    PROVE  p[T] = q[T]
<1> DEFINE Apart == {n \in Nat : \E s \in SUBSET T : Cardinality(s) = n /\ p[s] # q[s]}
<1>1. \A s \in SUBSET T : IsFiniteSet(s) /\ Cardinality(s) \in Nat
  BY FS_Subset, FS_CardinalityType
<1>2. Apart = {}
  <2> SUFFICES ASSUME Apart # {}
               PROVE  FALSE
    OBVIOUS
  <2>1. PICK n \in Apart : \A k \in Apart : n <= k
    <3>1. Apart \in SUBSET Nat
      OBVIOUS
    <3> HIDE DEF Apart
    <3> QED BY <3>1, Least
  <2>2. PICK s \in SUBSET T : Cardinality(s) = n /\ p[s] # q[s]
    BY <2>1
  <2> DEFINE x == CHOOSE x \in s : TRUE
  <2>3. s \in SUBSET S
    OBVIOUS
  <2>4. /\ p[s] = IF s = {} THEN 0 ELSE f[x] + p[s \ {x}]
        /\ q[s] = IF s = {} THEN 0 ELSE h[x] + q[s \ {x}]
    BY <2>3 DEF SumsTo
  <2>5. s # {}
    BY <2>2, <2>4
  <2>6. x \in s
    BY <2>5
  <2> HIDE DEF x
  <2>7. Cardinality(s \ {x}) = n - 1 /\ s \ {x} \in SUBSET T
    BY <1>1, <2>2, <2>6, FS_RemoveElement
  <2>8. p[s \ {x}] = q[s \ {x}]
    <3>1. Cardinality(s \ {x}) \in Nat /\ ~(n <= Cardinality(s \ {x}))
      BY <1>1, <2>7
    <3>2. Cardinality(s \ {x}) \notin Apart
      BY <2>1, <3>1
    <3> QED BY <2>7, <3>1, <3>2
  <2>9. f[x] = h[x]
    BY <2>6
  <2> QED BY <2>2, <2>4, <2>5, <2>8, <2>9
<1> QED BY <1>1, <1>2

\* The sum over nothing, over a set less an element chosen, and of what agrees.
LEMMA SumSteps ==
    ASSUME NEW f, NEW S, Counted(f, S)
    PROVE  /\ SumFunctionOnSet(f, S) \in Nat
           /\ S = {} => SumFunctionOnSet(f, S) = 0
           /\ S # {} => LET x == CHOOSE x \in S : TRUE IN
                          x \in S /\ SumFunctionOnSet(f, S) = f[x] + SumFunctionOnSet(f, S \ {x})
           /\ \A h : (\A x \in S : h[x] = f[x]) => SumFunctionOnSet(h, S) = SumFunctionOnSet(f, S)
<1> DEFINE G(h, T) == CHOOSE g : SumsTo(g, h, T)
<1>1. \A h, T : SumFunctionOnSet(h, T) = G(h, T)[T]
  BY DEF SumFunctionOnSet, FoldFunctionOnSet, MapThenFoldSet, SumsTo
<1>2. SumsTo(G(f, S), f, S)
  BY SumsExist
<1>3. PICK g : SumsTo(g, f, S) /\ g \in [SUBSET S -> Nat]
  BY SumsExist
<1>4. G(f, S)[S] = g[S]
  BY <1>2, <1>3, SumsAgree DEF Counted
<1>5. SumFunctionOnSet(f, S) = g[S] /\ g[S] \in Nat
  BY <1>1, <1>3, <1>4
<1>6. S = {} => g[S] = 0
  BY <1>3 DEF SumsTo
<1>7. ASSUME S # {}, NEW x, x = CHOOSE y \in S : TRUE
      PROVE  x \in S /\ g[S] = f[x] + SumFunctionOnSet(f, S \ {x})
  <2>1. x \in S
    BY <1>7
  <2>2. g[S] = f[x] + g[S \ {x}]
    BY <1>3, <1>7 DEF SumsTo
  <2> DEFINE T == S \ {x}
  <2>3. Counted(f, T) /\ IsFiniteSet(T) /\ T \subseteq S
    BY FS_Subset DEF Counted
  <2> HIDE DEF T
  <2>4. SumsTo(G(f, T), f, T)
    BY <2>3, SumsExist
  <2>5. g[T] = G(f, T)[T]
    BY <1>3, <2>3, <2>4, SumsAgree
  <2> QED BY <1>1, <2>1, <2>2, <2>5 DEF T
<1>8. ASSUME NEW h, \A x \in S : h[x] = f[x]
      PROVE  SumFunctionOnSet(h, S) = g[S]
  <2>1. Counted(h, S)
    BY <1>8 DEF Counted
  <2>2. SumsTo(G(h, S), h, S)
    BY <2>1, SumsExist
  <2>3. G(h, S)[S] = g[S]
    BY <1>3, <1>8, <2>2, SumsAgree DEF Counted
  <2> QED BY <1>1, <2>3
<1> HIDE DEF G
<1> QED BY <1>5, <1>6, <1>7, <1>8

\* A sum is what any one element adds to the sum of the others.
LEMMA SumLess ==
    ASSUME NEW f, NEW S, Counted(f, S), NEW x \in S
    PROVE  SumFunctionOnSet(f, S) = f[x] + SumFunctionOnSet(f, S \ {x})
<1> DEFINE Sum(T) == SumFunctionOnSet(f, T)
           Odd(T) == \E y \in T : Sum(T) # f[y] + Sum(T \ {y})
           Bad == {n \in Nat : \E T \in SUBSET S : Cardinality(T) = n /\ Odd(T)}
<1>1. \A T \in SUBSET S : IsFiniteSet(T) /\ Cardinality(T) \in Nat /\ Counted(f, T)
  BY FS_Subset, FS_CardinalityType DEF Counted
<1>2. \A T \in SUBSET S : \A y \in T : Cardinality(T \ {y}) = Cardinality(T) - 1 /\ T \ {y} \in SUBSET S
  BY <1>1, FS_RemoveElement
<1>3. \A T \in SUBSET S : Sum(T) \in Nat
  BY <1>1, SumSteps
<1>4. \A y \in S : f[y] \in Nat
  BY DEF Counted
<1>5. Bad = {}
  <2> SUFFICES ASSUME Bad # {}
               PROVE  FALSE
    OBVIOUS
  <2>1. PICK n \in Bad : \A k \in Bad : n <= k
    <3>1. Bad \in SUBSET Nat
      OBVIOUS
    <3> HIDE DEF Bad
    <3> QED BY <3>1, Least
  <2>2. PICK T \in SUBSET S : Cardinality(T) = n /\ Odd(T)
    BY <2>1
  <2>3. \A U \in SUBSET S : Cardinality(U) < n => ~Odd(U)
    <3> SUFFICES ASSUME NEW U \in SUBSET S, Cardinality(U) < n, Odd(U)
                 PROVE  FALSE
      OBVIOUS
    <3>1. Cardinality(U) \in Nat /\ Cardinality(U) \in Bad
      BY <1>1
    <3> QED BY <2>1, <3>1
  <2> HIDE DEF Odd, Bad
  <2>4. PICK y \in T : Sum(T) # f[y] + Sum(T \ {y})
    BY <2>2 DEF Odd
  <2>5. PICK z \in T : Sum(T) = f[z] + Sum(T \ {z})
    BY <1>1, SumSteps
  <2> HIDE DEF Sum
  <2>6. y # z
    BY <2>4, <2>5
  <2>7. Sum(T \ {z}) = f[y] + Sum((T \ {z}) \ {y}) /\ Sum(T \ {y}) = f[z] + Sum((T \ {y}) \ {z})
    <3>1. T \ {z} \in SUBSET S /\ T \ {y} \in SUBSET S /\ Cardinality(T \ {z}) < n /\ Cardinality(T \ {y}) < n
      BY <1>1, <1>2, <2>2
    <3>2. ~Odd(T \ {z}) /\ ~Odd(T \ {y})
      BY <2>3, <3>1
    <3>3. y \in T \ {z} /\ z \in T \ {y}
      BY <2>6
    <3> QED BY <3>2, <3>3 DEF Odd
  <2>8. (T \ {z}) \ {y} = (T \ {y}) \ {z}
    OBVIOUS
  <2> DEFINE a == Sum((T \ {y}) \ {z})
  <2>9. a \in Nat /\ f[y] \in Nat /\ f[z] \in Nat
    BY <1>3, <1>4
  <2>10. Sum(T) = f[z] + (f[y] + a) /\ Sum(T \ {y}) = f[z] + a
    BY <2>5, <2>7, <2>8
  <2> HIDE DEF a
  <2>11. Sum(T) = f[y] + Sum(T \ {y})
    BY <2>9, <2>10
  <2> QED BY <2>4, <2>11
<1>6. S \in SUBSET S /\ Cardinality(S) \in Nat
  BY <1>1
<1> QED BY <1>5, <1>6

\* The largest of a finite set of natural numbers.
LEMMA MaxIs ==
    ASSUME NEW S \in SUBSET Nat, IsFiniteSet(S), S # {}
    PROVE  Max(S) \in S /\ \A y \in S : y <= Max(S)
<1> DEFINE HasMax(T) == \E x \in T : \A y \in T : y <= x
           Bad == {n \in Nat : \E T \in SUBSET S : T # {} /\ Cardinality(T) = n /\ ~HasMax(T)}
<1>1. \A T \in SUBSET S : IsFiniteSet(T) /\ Cardinality(T) \in Nat
  BY FS_Subset, FS_CardinalityType
<1>2. Bad = {}
  <2> SUFFICES ASSUME Bad # {}
               PROVE  FALSE
    OBVIOUS
  <2>1. PICK n \in Bad : \A k \in Bad : n <= k
    <3>1. Bad \in SUBSET Nat
      OBVIOUS
    <3> HIDE DEF Bad
    <3> QED BY <3>1, Least
  <2>2. PICK T \in SUBSET S : T # {} /\ Cardinality(T) = n /\ ~HasMax(T)
    BY <2>1
  <2>3. PICK z \in T : TRUE
    BY <2>2
  <2> DEFINE U == T \ {z}
  <2>4. U \in SUBSET S /\ Cardinality(U) = n - 1 /\ Cardinality(U) \in Nat
    BY <1>1, <2>2, <2>3, FS_RemoveElement
  <2>5. U # {}
    <3>1. U = {} => T = {z}
      BY <2>3
    <3>2. T = {z} => HasMax(T)
      BY <2>3
    <3> QED BY <2>2, <3>1, <3>2
  <2>6. HasMax(U)
    <3> HIDE DEF HasMax
    <3>1. Cardinality(U) \notin Bad
      BY <2>1, <2>4
    <3> QED BY <2>4, <2>5, <3>1
  <2>7. PICK x \in U : \A y \in U : y <= x
    BY <2>6
  <2>8. x \in Nat /\ z \in Nat /\ x \in T /\ \A y \in T : y = z \/ y <= x
    BY <2>3, <2>7
  <2>9. HasMax(T)
    <3>1. CASE z <= x
      <4>1. \A y \in T : y <= x
        BY <2>8, <3>1
      <4> QED BY <2>8, <4>1
    <3>2. CASE ~(z <= x)
      <4>1. \A y \in T : y \in Nat
        OBVIOUS
      <4>2. \A y \in T : y <= z
        BY <2>8, <3>2, <4>1
      <4> QED BY <2>3, <4>2
    <3> QED BY <3>1, <3>2
  <2> QED BY <2>2, <2>9
<1>3. HasMax(S)
  <2> HIDE DEF HasMax
  <2>1. Cardinality(S) \in Nat /\ S \in SUBSET S /\ Cardinality(S) \notin Bad
    BY <1>1, <1>2
  <2> QED BY <2>1
<1>4. \A y \in S : y \in Nat
  OBVIOUS
<1>5. \E x \in S : \A y \in S : x >= y
  BY <1>3, <1>4
<1>6. Max(S) \in S /\ \A y \in S : Max(S) >= y
  BY <1>5 DEF Max
<1> QED BY <1>4, <1>6

\* It stays the same when a smaller element is added.
LEMMA MaxMore ==
    ASSUME NEW S \in SUBSET Nat, IsFiniteSet(S), S # {}, NEW n \in Nat, \A y \in S : n < y
    PROVE  Max(S \cup {n}) = Max(S)
<1> DEFINE T == S \cup {n}
<1>1. Max(S) \in S /\ \A y \in S : y <= Max(S)
  BY MaxIs
<1>2. T \in SUBSET Nat /\ IsFiniteSet(T) /\ T # {}
  BY FS_AddElement
<1>3. S \subseteq T /\ n \in T /\ \A y \in T : y \in S \/ y = n
  OBVIOUS
<1> HIDE DEF T
<1>4. Max(T) \in T /\ \A y \in T : y <= Max(T)
  BY <1>2, MaxIs
<1>5. Max(T) \in Nat /\ Max(S) \in Nat /\ Max(S) <= Max(T) /\ n < Max(S)
  BY <1>1, <1>2, <1>3, <1>4
<1>6. Max(T) \in S
  BY <1>3, <1>4, <1>5
<1>7. Max(T) <= Max(S)
  BY <1>1, <1>6
<1> QED BY <1>5, <1>7 DEF T

\* The one element of a set is the largest.
LEMMA MaxOne ==
    ASSUME NEW n \in Nat
    PROVE  Max({n}) = n
BY FS_Singleton, MaxIs

\* The type of what comes before an item of a queue, of which an item of type
\* last was written last, and the items that are preceded by a filler.
LastBefore(items, last, b) ==
    LET before == {c \in items : c.order < b.order}
    IN IF before = {} THEN last ELSE TypeIn(Max({c.order : c \in before}))

Aligned(items, last) == {b \in items : Aligns(TypeIn(b.order), LastBefore(items, last, b))}

\* A queue: an order for each item.
Queue(items) == IsFiniteSet(items) /\ items \subseteq AnyBlock /\ \A b, c \in items : b.order = c.order => b = c

First(items, b) == b \in items /\ \A c \in items : b.order <= c.order

\* When the first item is written the others are preceded by what they were.
LEMMA BeforeOthers ==
    ASSUME NEW items, Queue(items), NEW b, First(items, b), NEW last, NEW c \in items \ {b}
    PROVE  LastBefore(items, last, c) = LastBefore(items \ {b}, TypeIn(b.order), c)
<1> DEFINE before == {d \in items : d.order < c.order}
           rest == {d \in items \ {b} : d.order < c.order}
           orders(s) == {d.order : d \in s}
<1>1. \A d \in items : d.order \in Nat
  BY DEF Queue, AnyBlock
<1>2. \A d \in items \ {b} : b.order < d.order
  BY <1>1 DEF Queue, First
<1>3. before = rest \cup {b} /\ b \notin rest /\ rest \subseteq items
  BY <1>2 DEF First
<1>4. /\ LastBefore(items, last, c) = TypeIn(Max(orders(before)))
      /\ LastBefore(items \ {b}, TypeIn(b.order), c) = IF rest = {} THEN TypeIn(b.order) ELSE TypeIn(Max(orders(rest)))
  <2>1. before # {}
    BY <1>3
  <2> QED BY <2>1 DEF LastBefore
<1>5. \A d \in rest : b.order < d.order
  BY <1>2
<1>6. IsFiniteSet(rest)
  BY <1>3, FS_Subset DEF Queue
<1>7. b.order \in Nat
  BY <1>1 DEF First
<1> HIDE DEF before, rest
<1>8. CASE rest = {}
  <2>1. orders(before) = {b.order}
    BY <1>3, <1>8
  <2> HIDE DEF orders
  <2> QED BY <1>4, <1>7, <1>8, <2>1, MaxOne
<1>9. CASE rest # {}
  <2>1. orders(before) = orders(rest) \cup {b.order} /\ orders(rest) # {} /\ orders(rest) \in SUBSET Nat
    BY <1>1, <1>3, <1>9
  <2>2. IsFiniteSet(orders(rest))
    <3> DEFINE f == [d \in rest |-> d.order]
    <3>1. f \in Surjection(rest, orders(rest))
      BY DEF Surjection
    <3> HIDE DEF f, orders
    <3> QED BY <1>6, <3>1, FS_Surjection
  <2>3. \A n \in orders(rest) : b.order < n
    BY <1>5
  <2> HIDE DEF orders
  <2>4. Max(orders(before)) = Max(orders(rest))
    BY <1>7, <2>1, <2>2, <2>3, MaxMore
  <2> QED BY <1>4, <1>9, <2>4
<1> QED BY <1>8, <1>9

\* The first item may be preceded by a filler; the other fillers remain.
LEMMA OneAligned ==
    ASSUME NEW items, Queue(items), NEW b, First(items, b), NEW last
    PROVE  LET rest == Aligned(items \ {b}, TypeIn(b.order)) IN
           /\ Cardinality(rest) \in Nat /\ Cardinality(Aligned(items, last)) \in Nat
           /\ Cardinality(Aligned(items, last)) = Cardinality(rest) + (IF Aligns(TypeIn(b.order), last) THEN 1 ELSE 0)
<1> DEFINE rest == Aligned(items \ {b}, TypeIn(b.order))
           here == Aligns(TypeIn(b.order), last)
<1>1. IsFiniteSet(items) /\ b \in items /\ \A d \in items : d.order \in Nat
  BY DEF Queue, First, AnyBlock
<1>2. LastBefore(items, last, b) = last
  <2>1. {c \in items : c.order < b.order} = {}
    BY <1>1 DEF First
  <2> QED BY <2>1 DEF LastBefore
<1>3. \A c \in items \ {b} : c \in Aligned(items, last) <=> c \in rest
  BY BeforeOthers DEF Aligned
<1>4. b \in Aligned(items, last) <=> here
  BY <1>1, <1>2 DEF Aligned
<1>5. rest \subseteq items \ {b} /\ Aligned(items, last) \subseteq items
  BY DEF Aligned
<1>6. Aligned(items, last) = rest \cup (IF here THEN {b} ELSE {}) /\ b \notin rest
  <2> HIDE DEF rest, here
  <2> QED BY <1>3, <1>4, <1>5
<1> HIDE DEF rest, here
<1>7. IsFiniteSet(rest)
  BY <1>1, <1>5, FS_Subset
<1>8. Cardinality(rest \cup {b}) = Cardinality(rest) + 1 /\ Cardinality(rest) \in Nat
  BY <1>6, <1>7, FS_AddElement, FS_CardinalityType
<1>9. CASE here
  BY <1>6, <1>8, <1>9 DEF rest, here
<1>10. CASE ~here
  BY <1>6, <1>8, <1>10 DEF rest, here
<1> QED BY <1>9, <1>10

\* What the items of a queue come to, with lengths of the best size.
BestSizes(items) == SumFunction([b \in items |-> BestSize(b)])

\* An item's is a natural number.
LEMMA BestSizeType ==
    ASSUME NEW b \in AnyBlock
    PROVE  BestSize(b) \in Nat
<1>1. b.said \in Nat
  BY DEF AnyBlock
<1>2. BERSize(b.said, 0) \in Nat
  BY <1>1 DEF BERSize
<1> QED BY <1>1, <1>2 DEF BestSize

\* The sum is that of one item and of the others.
LEMMA OneSize ==
    ASSUME NEW items, Queue(items)
    PROVE  /\ BestSizes(items) \in Nat
           /\ items = {} => BestSizes(items) = 0
           /\ \A b \in items : BestSizes(items) = BestSize(b) + BestSizes(items \ {b})
<1> DEFINE f(s) == [c \in s |-> BestSize(c)]
<1>1. \A s : BestSizes(s) = SumFunctionOnSet(f(s), s)
  BY DEF BestSizes, SumFunction
<1>2. \A s \in SUBSET items : Counted(f(s), s)
  <2> TAKE s \in SUBSET items
  <2>1. IsFiniteSet(s)
    BY FS_Subset DEF Queue
  <2>2. \A x \in s : BestSize(x) \in Nat
    BY BestSizeType DEF Queue
  <2> QED BY <2>1, <2>2 DEF Counted
<1>3. items \in SUBSET items
  OBVIOUS
<1>4. BestSizes(items) \in Nat /\ (items = {} => BestSizes(items) = 0)
  <2>1. Counted(f(items), items)
    BY <1>2, <1>3
  <2> HIDE DEF f
  <2> QED BY <1>1, <2>1, SumSteps
<1>5. ASSUME NEW b \in items
      PROVE  BestSizes(items) = BestSize(b) + BestSizes(items \ {b})
  <2> DEFINE rest == items \ {b}
             g == f(items)
             h == f(rest)
  <2>1. Counted(g, items) /\ Counted(h, rest)
    BY <1>2, <1>3
  <2>2. g[b] = BestSize(b) /\ \A x \in rest : g[x] = h[x]
    OBVIOUS
  <2>3. BestSizes(items) = SumFunctionOnSet(g, items) /\ BestSizes(rest) = SumFunctionOnSet(h, rest)
    BY <1>1
  <2> HIDE DEF g, h, f
  <2>4. SumFunctionOnSet(g, items) = g[b] + SumFunctionOnSet(g, rest)
    BY <2>1, SumLess
  <2> HIDE DEF rest
  <2>5. SumFunctionOnSet(g, rest) = SumFunctionOnSet(h, rest)
    BY <2>1, <2>2, SumSteps
  <2> QED BY <2>2, <2>3, <2>4, <2>5 DEF rest
<1> QED BY <1>4, <1>5

\* A length has nearly the best size, unless the item outgrows it, and just
\* that when none is asked for.
LEMMA LengthNear ==
    ASSUME NEW b \in AnyBlock, ~Fast(b)
    PROVE  LET best == BERSize(SizeOf(b.ends), 0) IN
           /\ b.said = SizeOf(b.ends)
           /\ LengthSize(b) \in Nat /\ best \in Nat
           /\ LengthSize(b) <= best + (IF b.len # 0 THEN 5 ELSE 0)
           /\ best <= LengthSize(b) + (IF b.len # 0 THEN 5 ELSE 0)
<1>1. SizeOf(b.ends) \in Nat /\ b.len \in Nat /\ b.said = SizeOf(b.ends)
  BY SizeType DEF AnyBlock, WellRead, SizeOf
<1>2. \A length, size \in Nat :
         /\ BERSize(length, size) \in Nat /\ BERSize(length, 0) \in {4, 8}
         /\ size # 0 => BERSize(length, size) <= BERSize(length, 0) + 5 /\ BERSize(length, 0) <= BERSize(length, size) + 5
  <2> TAKE length, size \in Nat
  <2>1. BERSize(length, 0) = IF length < 16777216 THEN 4 ELSE 8
    BY DEF BERSize
  <2>2. CASE size \in {1, 2, 3, 4}
    BY <2>1, <2>2 DEF BERSize
  <2>3. CASE size > 4
    <3>1. BERSize(length, size) = IF size > 9 THEN 9 ELSE size
      BY <2>3 DEF BERSize
    <3> QED BY <2>1, <2>3, <3>1
  <2>4. CASE size = 0
    BY <2>1, <2>4
  <2> QED BY <2>2, <2>3, <2>4
<1>3. LengthSize(b) = BERSize(SizeOf(b.ends), 0) \/ LengthSize(b) = BERSize(SizeOf(b.ends), b.len)
  BY <1>1 DEF LengthSize, Fast
<1> DEFINE size == SizeOf(b.ends)
           len == b.len
<1>4. size \in Nat /\ len \in Nat /\ (LengthSize(b) = BERSize(size, 0) \/ LengthSize(b) = BERSize(size, len))
  BY <1>1, <1>3
<1>5. len = 0 => LengthSize(b) = BERSize(size, 0)
  BY <1>4
<1> HIDE DEF size, len
<1>6. /\ BERSize(size, len) \in Nat /\ BERSize(size, 0) \in {4, 8}
      /\ len # 0 => BERSize(size, len) <= BERSize(size, 0) + 5 /\ BERSize(size, 0) <= BERSize(size, len) + 5
  BY <1>2, <1>4
<1> DEFINE a == LengthSize(b)
           best == BERSize(size, 0)
           other == BERSize(size, len)
<1>7. /\ a = best \/ a = other
      /\ len = 0 => a = best
      /\ other \in Nat /\ best \in {4, 8} /\ (len # 0 => other <= best + 5 /\ best <= other + 5)
  BY <1>4, <1>5, <1>6
<1> HIDE DEF a, best, other
<1>8. a \in Nat /\ best \in Nat /\ a <= best + (IF len # 0 THEN 5 ELSE 0) /\ best <= a + (IF len # 0 THEN 5 ELSE 0)
  BY <1>7
<1> QED BY <1>1, <1>8 DEF a, best, size, len

\* Two sizes that are out by no more than m.
Within(a, b, m) == a <= b + m /\ b <= a + m

\* What a filler can amount to now, how many items asked for a length of a
\* certain size, and by what the prediction can be out for what was written.
MostNow == IF writer.kag > 1 /\ ~setup.blocked THEN writer.kag + 19 ELSE 0

Asking(klvs) == Cardinality({i \in DOMAIN klvs : streams[klvs[i].stream].len # 0})

Margin(klvs) == Len(klvs) * MostNow + 5 * Asking(klvs)

\* What CalcWriteSize counts for what is queued, when the Flush began at start.
ToDo(items, last, start) == BestSizes(items) + (Cardinality(Aligned(items, last)) + 1) * Filler(start)

LensTrue == \A b \in queue : b.len = streams[b.stream].len

\* Of a Flush in progress: what was written and what is counted for the rest
\* is what was predicted, but for what was written.
SoFarTrue ==
    call # Nothing
      => /\ call.start \in Nat
         /\ call.predicted # -1
              => /\ call.predicted \in Int /\ \A b \in queue : ~Fast(b)
                 /\ Within(call.predicted, tell - call.start + ToDo(queue, call.last, call.start), Margin(call.klvs))

SizeInv == IsFiniteSet(queue) /\ LensTrue /\ SoFarTrue /\ Predicted

\* What is counted for the rest of a Flush does not change with the file.
LEMMA SameToDo ==
    ASSUME UNCHANGED setup, writer'.kag = writer.kag, writer'.ber4 = writer.ber4, NEW items, NEW last, NEW start
    PROVE  ToDo(items, last, start)' = ToDo(items, last, start)
<1>1. Filler(start)' = Filler(start)
  BY DEF Filler, FillerSize
<1>2. \A type, before : Aligns(type, before)' <=> Aligns(type, before)
  BY DEF Aligns
<1>3. Aligned(items, last)' = Aligned(items, last)
  BY <1>2 DEF Aligned, LastBefore
<1>4. BestSizes(items)' = BestSizes(items)
  BY DEF BestSizes, BestSize
<1>5. Cardinality(Aligned(items, last))' = Cardinality(Aligned(items, last))
  BY <1>3
<1> QED BY <1>1, <1>4, <1>5 DEF ToDo

\* It is a size.
LEMMA ToDoType ==
    ASSUME Outside, IsFiniteSet(queue), NEW last, NEW start \in Nat
    PROVE  /\ ToDo(queue, last, start) \in Nat
           /\ Cardinality(Aligned(queue, last)) \in Nat /\ BestSizes(queue) \in Nat
           /\ Filler(start) \in Nat /\ Filler(start) <= MostNow /\ MostNow \in Nat
<1>1. Queue(queue)
  BY DEF Outside, Typed, QueueTyped, Queue
<1>2. BestSizes(queue) \in Nat
  BY <1>1, OneSize
<1>3. Cardinality(Aligned(queue, last)) \in Nat
  <2>1. Aligned(queue, last) \subseteq queue
    BY DEF Aligned
  <2> QED BY <2>1, FS_Subset, FS_CardinalityType
<1>4. Filler(start) \in Nat /\ Filler(start) <= MostNow /\ MostNow \in Nat
  <2>1. writer \in AnyWriter /\ writer.kag \in Nat
    BY FileHere
  <2>2. Filler(start) \in Nat /\ Filler(start) <= IF writer.kag > 1 /\ ~setup.blocked THEN writer.kag + 19 ELSE 0
    BY <2>1, FillerSound
  <2>3. MostNow \in Nat
    BY <2>1 DEF MostNow
  <2> QED BY <2>2, <2>3 DEF MostNow
<1> DEFINE n == Cardinality(Aligned(queue, last))
           fill == Filler(start)
<1>5. n \in Nat /\ fill \in Nat
  BY <1>3, <1>4
<1> HIDE DEF n, fill
<1>6. (n + 1) * fill \in Nat
  BY <1>5
<1>7. ToDo(queue, last, start) = BestSizes(queue) + (n + 1) * fill
  BY DEF ToDo, n, fill
<1> QED BY <1>2, <1>3, <1>4, <1>6, <1>7

\* An item more was written.
LEMMA AskingMore ==
    ASSUME NEW klvs \in Seq(AnyKlv), NEW k \in AnyKlv
    PROVE  /\ Asking(klvs) \in Nat
           /\ Asking(Append(klvs, k)) = Asking(klvs) + (IF streams[k.stream].len # 0 THEN 1 ELSE 0)
<1> DEFINE m == Len(klvs)
           more == Append(klvs, k)
           Of(q) == {i \in DOMAIN q : streams[q[i].stream].len # 0}
<1>1. /\ m \in Nat /\ DOMAIN klvs = 1 .. m /\ DOMAIN more = 1 .. (m + 1) /\ more[m + 1] = k
      /\ \A i \in 1 .. m : more[i] = klvs[i]
  OBVIOUS
<1> HIDE DEF m, more
<1>2. IsFiniteSet(1 .. m) /\ 1 .. (m + 1) = (1 .. m) \cup {m + 1}
  <2>1. 1 .. (m + 1) = (1 .. m) \cup {m + 1}
    BY <1>1
  <2> QED BY <1>1, <2>1, FS_Interval
<1>3. Of(klvs) \subseteq 1 .. m /\ m + 1 \notin Of(klvs)
  BY <1>1
<1>4. IsFiniteSet(Of(klvs)) /\ Cardinality(Of(klvs)) \in Nat
  BY <1>2, <1>3, FS_Subset, FS_CardinalityType
<1>5. CASE streams[k.stream].len # 0
  <2>1. Of(more) = Of(klvs) \cup {m + 1}
    BY <1>1, <1>2, <1>5
  <2> HIDE DEF Of
  <2>2. Cardinality(Of(more)) = Cardinality(Of(klvs)) + 1
    BY <1>3, <1>4, <2>1, FS_AddElement
  <2> QED BY <1>4, <1>5, <2>2 DEF Of, Asking, more
<1>6. CASE ~(streams[k.stream].len # 0)
  <2>1. Of(more) = Of(klvs)
    BY <1>1, <1>2, <1>6
  <2>2. Asking(klvs) = Cardinality(Of(klvs)) /\ Asking(more) = Cardinality(Of(more))
    BY DEF Asking
  <2> HIDE DEF Of
  <2>3. Asking(more) = Asking(klvs) + 0
    BY <1>4, <2>1, <2>2
  <2> QED BY <1>4, <1>6, <2>2, <2>3 DEF more
<1> QED BY <1>5, <1>6

\* The record of a Flush after a turn of its loop.
LEMMA TurnFields ==
    ASSUME IInv, NEW b \in queue, FlushItem(b), UNCHANGED scene
    PROVE  /\ call'.start = call.start /\ call'.predicted = call.predicted /\ call'.last = TypeIn(b.order)
           /\ call.klvs \in Seq(AnyKlv)
           /\ \E k \in AnyKlv : k.stream = b.stream /\ call'.klvs = Append(call.klvs, k)
<1>1. call # Nothing
  BY DEF FlushItem
<1>2. call = Flushing(call.from, call.start, call.predicted, call.last, call.kl, call.klvs, call.offers, call.error)
  BY <1>1 DEF IInv, CallTrue
<1>3. /\ KlvsNow = call.klvs /\ KlvsNow \in Seq(AnyKlv)
      /\ \E k \in AnyKlv : k.stream = b.stream /\ k.rank = b.rank /\ KlvsNow' = Append(KlvsNow, k)
  BY <1>1, TurnNotes DEF KlvsNow
<1> DEFINE type == TypeIn(b.order)
           at == writer.offset + FillBefore(b)
           where == tell + FillBefore(b)
           value == writer.offset + FillBefore(b) + 16 + LengthSize(b)
           kl == KLSizeOf(b, value)
           klvs == Append(call.klvs, Klv(b, at, where, value, type, type # call.last))
           offers == call.offers \cup Offers(b, at, value, kl)
           error == call.error \/ Outgrown(b)
<1>4. call' = [call EXCEPT !.last = TypeIn(b.order), !.kl = kl, !.error = error, !.klvs = klvs, !.offers = offers]
  BY DEF FlushItem, Klv, KLSizeOf
<1> HIDE DEF kl, klvs, offers, error
<1> DEFINE c == Flushing(call.from, call.start, call.predicted, call.last, call.kl, call.klvs, call.offers, call.error)
           d == [c EXCEPT !.last = TypeIn(b.order), !.kl = kl, !.error = error, !.klvs = klvs, !.offers = offers]
<1>5. d.start = call.start /\ d.predicted = call.predicted /\ d.last = TypeIn(b.order) /\ d.op = "flush"
  BY DEF Flushing
<1>6. call' = d
  <2>1. call = c
    BY <1>2
  <2> HIDE DEF c
  <2> QED BY <1>4, <2>1
<1> HIDE DEF d
<1>7. KlvsNow' = call'.klvs
  BY <1>5, <1>6 DEF KlvsNow, Nothing
<1> QED BY <1>3, <1>5, <1>6, <1>7

\* A turn of the loop keeps SizeInv.
LEMMA FlushItemSize ==
    ASSUME IInv, SizeInv, NEW b \in queue, FlushItem(b), UNCHANGED scene
    PROVE  SizeInv'
<1>1. /\ call # Nothing /\ queue' = queue \ {b} /\ tell' = tell + Behind(b)
      /\ UNCHANGED <<setup, streams, done>> /\ \A c \in queue : b.order <= c.order
  BY DEF FlushItem
<1>2. Outside /\ Typed /\ b \in AnyBlock /\ IsFiniteSet(queue) /\ SoFarTrue /\ LensTrue
  BY DEF IInv, Outside, Typed, QueueTyped, SizeInv
<1>3. Queue(queue) /\ First(queue, b)
  BY <1>1, <1>2 DEF Typed, QueueTyped, Queue, First
<1>4. /\ call'.start = call.start /\ call'.predicted = call.predicted /\ call'.last = TypeIn(b.order)
      /\ call.klvs \in Seq(AnyKlv)
      /\ \E k \in AnyKlv : k.stream = b.stream /\ call'.klvs = Append(call.klvs, k)
  BY TurnFields
<1>5. PICK k \in AnyKlv : k.stream = b.stream /\ call'.klvs = Append(call.klvs, k)
  BY <1>4
<1>6. writer \in AnyWriter /\ tell \in Nat /\ call.start \in Nat
  BY <1>1, <1>2, FileHere DEF SoFarTrue
<1>7. writer'.kag = writer.kag /\ writer'.ber4 = writer.ber4
  BY <1>6 DEF FlushItem, AnyWriter
<1>8. IsFiniteSet(queue') /\ LensTrue'
  BY <1>1, <1>2, FS_RemoveElement DEF LensTrue
<1>9. Predicted'
  <2>1. done = Nothing
    BY <1>1 DEF IInv, CallTrue
  <2> QED BY <1>1, <2>1 DEF Predicted, Nothing
<1>10. MostNow' = MostNow /\ \A klvs : Asking(klvs)' = Asking(klvs)
  BY <1>1, <1>7 DEF MostNow, Asking
<1>11. ASSUME call.predicted # -1
       PROVE  Within(call.predicted, tell' - call.start + ToDo(queue \ {b}, TypeIn(b.order), call.start),
                   (Len(call.klvs) + 1) * MostNow + 5 * Asking(Append(call.klvs, k)))
  <2> DEFINE type == TypeIn(b.order)
             rest == queue \ {b}
             P == call.predicted
             T == tell - call.start
             S == SizeOf(b.ends)
             best == BERSize(SizeOf(b.ends), 0)
             length == LengthSize(b)
             R == BestSizes(rest)
             A == Cardinality(Aligned(rest, type))
             h == IF Aligns(type, call.last) THEN 1 ELSE 0
             F == Filler(call.start)
             G == Filler(tell)
             M == MostNow
             n == Len(call.klvs)
             q == Asking(call.klvs)
             d == IF b.len # 0 THEN 1 ELSE 0
  <2>1. /\ P \in Int /\ ~Fast(b)
        /\ Within(P, T + ToDo(queue, call.last, call.start), Margin(call.klvs))
    BY <1>1, <1>2, <1>11 DEF SoFarTrue
  <2>2. T \in Int /\ S \in Nat
    BY <1>2, <1>6, SizeType DEF AnyBlock
  <2>3. length \in Nat /\ best \in Nat /\ length <= best + 5 * d /\ best <= length + 5 * d /\ d \in {0, 1} /\ b.said = S
    <3> HIDE DEF d
    <3>1. /\ b.said = S /\ LengthSize(b) \in Nat /\ best \in Nat
          /\ LengthSize(b) <= best + (IF b.len # 0 THEN 5 ELSE 0)
          /\ best <= LengthSize(b) + (IF b.len # 0 THEN 5 ELSE 0)
      BY <1>2, <2>1, LengthNear
    <3> QED BY <3>1 DEF d
  <2>4. /\ A \in Nat /\ h \in {0, 1}
        /\ Cardinality(Aligned(queue, call.last)) = A + h
    BY <1>3, OneAligned
  <2>5. R \in Nat /\ BestSizes(queue) = (16 + best + S) + R
    <3>1. Queue(rest)
      BY <1>3, FS_RemoveElement DEF Queue
    <3>2. BestSizes(queue) = BestSize(b) + R
      BY <1>3, OneSize
    <3>3. BestSize(b) = 16 + best + S
      BY <2>3 DEF BestSize
    <3> QED BY <3>1, <3>2, <3>3, OneSize
  <2>6. F \in Nat /\ G \in Nat /\ M \in Nat /\ F <= M /\ G <= M
    BY <1>2, <1>6, ToDoType
  <2>7. n \in Nat /\ q \in Nat /\ Asking(Append(call.klvs, k)) = q + d
    <3>1. streams[k.stream].len = b.len
      BY <1>2, <1>5 DEF LensTrue
    <3> QED BY <1>4, <3>1, AskingMore
  <2>8. tell' - call.start = T + ((IF h = 1 THEN G ELSE 0) + 16 + length + S)
    <3>1. Behind(b) = (IF h = 1 THEN G ELSE 0) + 16 + length + S
      BY DEF Behind, FillBefore
    <3>2. Behind(b) \in Nat
      BY <1>2, BehindType
    <3> HIDE DEF h, G, length, S
    <3> QED BY <1>1, <1>6, <3>1, <3>2
  <2>9. ToDo(queue, call.last, call.start) = (16 + best + S) + R + ((A + h) + 1) * F
    BY <2>4, <2>5 DEF ToDo
  <2>10. ToDo(rest, type, call.start) = R + (A + 1) * F
    BY DEF ToDo
  <2>11. Margin(call.klvs) = n * M + 5 * q
    BY DEF Margin
  <2> HIDE DEF P, T, S, best, length, R, A, h, F, G, M, n, q, d, rest, type
  <2>12. Within(P, T + ((16 + best + S) + R + ((A + h) + 1) * F), n * M + 5 * q)
    BY <2>1, <2>9, <2>11
  <2>13. Within(P, T + ((IF h = 1 THEN G ELSE 0) + 16 + length + S) + (R + (A + 1) * F), (n + 1) * M + 5 * (q + d))
    <3>1. /\ P \in Int /\ T \in Int /\ S \in Nat /\ best \in Nat /\ length \in Nat /\ R \in Nat /\ A \in Nat
          /\ h \in {0, 1} /\ F \in Nat /\ G \in Nat /\ M \in Nat /\ F <= M /\ G <= M /\ n \in Nat /\ q \in Nat
          /\ d \in {0, 1} /\ length <= best + 5 * d /\ best <= length + 5 * d
      BY <2>1, <2>2, <2>3, <2>4, <2>5, <2>6, <2>7
    <3> DEFINE x == (A + 1) * F
               y == n * M
               z == (n + 1) * M
               w == ((A + h) + 1) * F
    <3>2. w = x + (IF h = 1 THEN F ELSE 0)
      <4>1. CASE h = 1
        <5>1. ((A + 1) + 1) * F = (A + 1) * F + F
          BY <3>1
        <5> QED BY <4>1, <5>1
      <4>2. CASE h = 0
        <5>1. (A + 0) + 1 = A + 1 /\ (A + 1) * F \in Nat
          BY <3>1
        <5> QED BY <4>2, <5>1
      <4> QED BY <3>1, <4>1, <4>2
    <3>3. x \in Nat /\ y \in Nat /\ z = y + M
      BY <3>1
    <3>4. Within(P, T + ((16 + best + S) + R + w), y + 5 * q)
      BY <2>12
    <3>5. SUFFICES Within(P, T + ((IF h = 1 THEN G ELSE 0) + 16 + length + S) + (R + x), z + 5 * (q + d))
      OBVIOUS
    <3> HIDE DEF x, y, z, w
    <3>6. CASE d = 0
      BY <3>1, <3>2, <3>3, <3>4, <3>6 DEF Within
    <3>7. CASE d = 1
      BY <3>1, <3>2, <3>3, <3>4, <3>7 DEF Within
    <3> QED BY <3>1, <3>6, <3>7
  <2>14. Within(P, (tell' - call.start) + ToDo(rest, type, call.start), (n + 1) * M + 5 * Asking(Append(call.klvs, k)))
    BY <2>7, <2>8, <2>10, <2>13
  <2> QED BY <2>14 DEF P, M, n, rest, type
<1>12. SoFarTrue'
  <2> SUFFICES ASSUME call.predicted # -1
               PROVE  /\ call.predicted \in Int /\ \A c \in queue' : ~Fast(c)
                      /\ Within(call.predicted, tell' - call.start + ToDo(queue, call.last, call.start)', Margin(call.klvs)')
    BY <1>4, <1>6 DEF SoFarTrue
  <2>1. call.predicted \in Int /\ \A c \in queue' : ~Fast(c)
    BY <1>1, <1>2 DEF SoFarTrue
  <2>2. ToDo(queue, call.last, call.start)' = ToDo(queue \ {b}, TypeIn(b.order), call.start)
    <3>1. PICK items : items = queue \ {b}
      OBVIOUS
    <3>2. PICK last : last = TypeIn(b.order)
      OBVIOUS
    <3>3. PICK start : start = call.start
      OBVIOUS
    <3>4. ToDo(items, last, start)' = ToDo(items, last, start)
      BY <1>1, <1>7, SameToDo
    <3>5. queue' = items /\ call'.last = last /\ call'.start = start
      BY <1>1, <1>4, <3>1, <3>2, <3>3
    <3>6. ToDo(queue, call.last, call.start)' = ToDo(items, last, start)'
      BY <3>5 DEF ToDo, Aligned, LastBefore, BestSizes, BestSize
    <3> QED BY <3>1, <3>2, <3>3, <3>4, <3>6
  <2>3. Margin(call.klvs)' = (Len(call.klvs) + 1) * MostNow + 5 * Asking(Append(call.klvs, k))
    <3>1. PICK klvs : klvs = Append(call.klvs, k)
      OBVIOUS
    <3>2. call'.klvs = klvs /\ Len(klvs) = Len(call.klvs) + 1
      BY <1>4, <1>5, <3>1
    <3>3. Asking(klvs)' = Asking(klvs)
      BY <1>10
    <3>4. Margin(call.klvs)' = Len(klvs) * MostNow' + 5 * Asking(klvs)'
      BY <3>2 DEF Margin, Asking
    <3> QED BY <1>10, <3>1, <3>2, <3>3, <3>4
  <2> QED BY <1>11, <2>1, <2>2, <2>3
<1> QED BY <1>8, <1>9, <1>12 DEF SizeInv

\* Every stream stays and asks for the length it asked for.
LensKept == DOMAIN streams \subseteq DOMAIN streams' /\ \A id \in DOMAIN streams : streams'[id].len = streams[id].len

\* It does when one stream changes otherwise.
LEMMA OneLen ==
    ASSUME Outside, NEW id \in DOMAIN streams, NEW t, t.len = streams[id].len, streams' = [streams EXCEPT ![id] = t]
    PROVE  LensKept
<1>1. streams \in Seq(AnyStream)
  BY DEF Outside, Typed, StreamsTyped
<1>2. DOMAIN streams' = DOMAIN streams /\ streams'[id] = t /\ \A i \in DOMAIN streams : i # id => streams'[i] = streams[i]
  BY <1>1
<1> QED BY <1>2 DEF LensKept

\* What a stream is changed to has its length.
LEMMA ChangedLens ==
    ASSUME NEW s \in AnyStream, NEW i, NEW count, NEW number, NEW told, NEW order, NEW rank
    PROVE  /\ WithIndex(s, i).len = s.len /\ WithTold(s, told).len = s.len /\ WithOrder(s, order, rank).len = s.len
           /\ WithNumbers(s, count, number).len = s.len /\ WithCount(s, count).len = s.len
BY DEF AnyStream, WithIndex, WithTold, WithOrder, WithNumbers, WithCount

\* A stream gets another order.
LEMMA SetOrderLens ==
    ASSUME Outside, NEW id \in DOMAIN streams, NEW order, NEW rank, SetOrder(id, order, rank)
    PROVE  LensKept /\ queue' = queue /\ done' = Nothing
<1> DEFINE s == streams[id]
           t == WithOrder(s, order, rank)
<1>1. s \in AnyStream
  BY StreamThere
<1>2. streams' = [streams EXCEPT ![id] = t]
  BY <1>1 DEF SetOrder, WithOrder
<1>3. t.len = s.len
  <2> HIDE DEF s
  <2> QED BY <1>1, ChangedLens
<1> HIDE DEF t
<1> QED BY <1>2, <1>3, OneLen DEF SetOrder

\* An index is added for a stream.
LEMMA AddStreamIndexLens ==
    ASSUME Outside, NEW id \in DOMAIN streams, AddStreamIndex(id)
    PROVE  LensKept /\ queue' = queue /\ done' = Nothing
<1>1. PICK i \in Indexes : streams' = [streams EXCEPT ![id].index = TRUE, ![id].clip = i.clip, ![id].filler = i.filler]
  BY DEF AddStreamIndex
<1> DEFINE s == streams[id]
           t == WithIndex(s, i)
<1>2. s \in AnyStream
  BY StreamThere
<1>3. streams' = [streams EXCEPT ![id] = t]
  BY <1>1, <1>2 DEF WithIndex
<1>4. t.len = s.len
  <2> HIDE DEF s
  <2> QED BY <1>2, ChangedLens
<1> HIDE DEF t
<1> QED BY <1>3, <1>4, OneLen DEF AddStreamIndex

\* A track number is told.
LEMMA GetTrackNumberLens ==
    ASSUME Outside, NEW id \in DOMAIN streams, GetTrackNumber(id)
    PROVE  LensKept /\ queue' = queue /\ done' = Nothing
<1> DEFINE s == streams[id]
           f == FixForTrackNumber(s)
           t == WithTold(f, TrackNumber(f))
           n == Cardinality(OfType(s.type))
<1>1. s \in AnyStream
  BY StreamThere
<1>2. streams' = [streams EXCEPT ![id] = t] /\ queue' = queue /\ done' = Nothing
  BY DEF GetTrackNumber, WithTold
<1>3. f = IF s.fixed THEN s ELSE WithCount(s, n)
  BY DEF FixForTrackNumber, WithCount
<1>4. n \in Byte
  BY FixedNumbers
<1> HIDE DEF s, f, n
<1>5. f \in AnyStream /\ f.len = s.len
  BY <1>1, <1>3, <1>4, WithCountIs, ChangedLens
<1>6. t.len = s.len
  BY <1>5, ChangedLens
<1> HIDE DEF t
<1> QED BY <1>2, <1>6, OneLen DEF s

\* An item asks for the length that its stream asks for.
LEMMA AddDataLens ==
    ASSUME Outside, IsFiniteSet(queue), LensTrue, NEW id \in DOMAIN streams, NEW item \in Items, AddData(id, item)
    PROVE  IsFiniteSet(queue') /\ LensTrue' /\ done' = Nothing
<1> DEFINE s == streams[id]
           n == Cardinality(OfType(s.type))
           t == IF s.system THEN s ELSE FixForKey(s)
           b == Block(id, t, item)
<1>1. s \in AnyStream
  BY StreamThere
<1>2. streams' = [streams EXCEPT ![id] = t] /\ queue' = Insert(b) /\ done' = Nothing
  BY DEF AddData
<1>3. t = IF s.system \/ s.plain \/ s.fixed THEN s ELSE WithNumbers(s, n, n + setup.base - 1)
  BY DEF FixForKey, WithNumbers
<1> HIDE DEF t
<1>4. t.len = s.len
  <2> DEFINE m == n + setup.base - 1
  <2> HIDE DEF s, n, m
  <2>1. t = IF s.system \/ s.plain \/ s.fixed THEN s ELSE WithNumbers(s, n, m)
    BY <1>3 DEF m
  <2> QED BY <1>1, <2>1, ChangedLens
<1>5. LensKept
  BY <1>2, <1>4, OneLen
<1>6. b.stream = id /\ b.len = s.len
  <2>1. b.stream = id /\ b.len = t.len
    BY DEF Block
  <2> QED BY <1>4, <2>1
<1> HIDE DEF b
<1>7. queue' \subseteq queue \cup {b}
  BY <1>2 DEF Insert
<1>8. IsFiniteSet(queue')
  <2>1. IsFiniteSet(queue \cup {b})
    BY FS_AddElement
  <2> QED BY <1>7, <2>1, FS_Subset
<1>9. \A c \in queue : c.stream \in DOMAIN streams
  BY DEF Outside, KeysTrue, KeyTrue
<1>10. LensTrue'
  <2> SUFFICES ASSUME NEW c \in queue'
               PROVE  c.len = streams'[c.stream].len
    BY DEF LensTrue
  <2>1. CASE c \in queue
    BY <1>5, <1>9, <2>1 DEF LensTrue, LensKept
  <2>2. CASE c = b
    BY <1>5, <1>6, <2>2 DEF LensKept
  <2> QED BY <1>7, <2>1, <2>2
<1> QED BY <1>2, <1>8, <1>10

\* Another stream does not change the others.
LEMMA AddStreamLens ==
    ASSUME Outside, AddStream
    PROVE  LensKept /\ queue' = queue /\ done' = Nothing
<1>1. PICK s : Add(s)
  BY DEF AddStream, AddSystemElement, AddEssenceElement, AddPlainElement, AddNamedElement
<1>2. streams' = Append(streams, s) /\ queue' = queue /\ done' = Nothing
  BY <1>1 DEF Add
<1>3. streams \in Seq(AnyStream)
  BY DEF Outside, Typed, StreamsTyped
<1>4. DOMAIN streams \subseteq DOMAIN streams' /\ \A id \in DOMAIN streams : streams'[id] = streams[id]
  BY <1>2, <1>3
<1> QED BY <1>2, <1>4 DEF LensKept

\* What a package was predicted to differ by at most, in terms of the writer.
LEMMA DoneSize ==
    ASSUME UNCHANGED <<setup, streams>>, NEW klvs, done'.klvs = klvs, done'.kag = writer.kag
    PROVE  AllFillers' = (Len(klvs) + 1) * MostNow /\ AllLengths' = 5 * Asking(klvs)
<1>1. MostFiller' = MostNow
  BY DEF MostFiller, MostNow
<1>2. AllFillers' = (Len(klvs) + 1) * MostNow
  BY <1>1 DEF AllFillers
<1>3. AllLengths' = 5 * Asking(klvs)
  BY DEF AllLengths, Asking
<1> QED BY <1>2, <1>3

\* A raw KLV differs by what the filler behind it does from the one before it.
LEMMA WriteRawSize ==
    ASSUME Outside, NEW size \in Raws, WriteRaw(size)
    PROVE  Predicted'
<1> DEFINE fill == Filler(tell)
           end == tell + fill + 20 + size
           behind == Filler(end)
<1>1. size \in Nat
  <2>1. \A x \in Scenes : x.raws \subseteq Nat
    BY GCWriterAssumption
  <2> QED BY <2>1, FileHere DEF SceneTyped, Raws
<1>2. /\ tell' = end + behind /\ UNCHANGED <<setup, streams>>
      /\ done'.predicted = 2 * fill + 20 + size /\ done'.written = tell' - tell
      /\ done'.klvs = << >> /\ done'.kag = writer.kag
  BY DEF WriteRaw, CalcRawSize
<1>3. tell \in Nat /\ writer \in AnyWriter /\ writer.kag \in Nat
  BY FileHere
<1>4. fill \in Nat /\ fill <= MostNow /\ MostNow \in Nat
  <2>1. fill \in Nat /\ fill <= IF writer.kag > 1 /\ ~setup.blocked THEN writer.kag + 19 ELSE 0
    BY <1>3, FillerSound
  <2>2. MostNow \in Nat
    BY <1>3 DEF MostNow
  <2> QED BY <2>1, <2>2 DEF MostNow
<1>5. end \in Nat
  <2> HIDE DEF fill
  <2> QED BY <1>1, <1>3, <1>4
<1>6. behind \in Nat /\ behind <= MostNow
  <2> HIDE DEF end
  <2>1. behind \in Nat /\ behind <= IF writer.kag > 1 /\ ~setup.blocked THEN writer.kag + 19 ELSE 0
    BY <1>3, <1>5, FillerSound
  <2> QED BY <2>1 DEF MostNow
<1>7. AllFillers' = MostNow /\ AllLengths' = 0
  <2>1. Len(<< >>) = 0 /\ Asking(<< >>) = 0
    <3>1. {i \in DOMAIN << >> : streams[<< >>[i].stream].len # 0} = {}
      OBVIOUS
    <3> QED BY <3>1, FS_EmptySet DEF Asking
  <2>2. AllFillers' = (0 + 1) * MostNow /\ AllLengths' = 5 * 0
    BY <1>2, <2>1, DoneSize
  <2>3. \A m \in Nat : (0 + 1) * m = m
    OBVIOUS
  <2> QED BY <1>4, <2>2, <2>3
<1> HIDE DEF behind
<1>8. done'.written = fill + 20 + size + behind
  <2> HIDE DEF fill
  <2> QED BY <1>1, <1>2, <1>3, <1>4, <1>6
<1> HIDE DEF fill
<1>9. /\ done'.written <= done'.predicted + AllFillers' + AllLengths'
      /\ done'.predicted <= done'.written + AllFillers' + AllLengths'
  BY <1>1, <1>2, <1>4, <1>6, <1>7, <1>8
<1> QED BY <1>9 DEF Predicted

\* Between two calls nothing is predicted but for a raw KLV.
LEMMA CallSize ==
    ASSUME Outside, SizeInv, call' = Nothing, UNCHANGED scene, Call
    PROVE  SizeInv'
<1>1. IsFiniteSet(queue) /\ LensTrue /\ \A b \in queue : b.stream \in DOMAIN streams
  BY DEF SizeInv, Outside, KeysTrue, KeyTrue
<1>2. SoFarTrue'
  BY DEF SoFarTrue
<1>3. done' = Nothing => Predicted'
  BY DEF Predicted, Nothing
<1>4. LensKept /\ queue' = queue => IsFiniteSet(queue') /\ LensTrue'
  BY <1>1 DEF LensKept, LensTrue
<1>5. CASE AddStream
  BY <1>2, <1>3, <1>4, <1>5, AddStreamLens DEF SizeInv
<1>6. CASE \E id \in DOMAIN streams : AddStreamIndex(id)
  BY <1>2, <1>3, <1>4, <1>6, AddStreamIndexLens DEF SizeInv
<1>7. CASE \E id \in DOMAIN streams : SetWriteOrder(id)
  <2>1. PICK id \in DOMAIN streams : SetWriteOrder(id)
    BY <1>7
  <2>2. \E order, rank : SetOrder(id, order, rank)
    BY <2>1 DEF SetWriteOrder
  <2> QED BY <1>2, <1>3, <1>4, <2>2, SetOrderLens DEF SizeInv
<1>8. CASE \E id \in DOMAIN streams : SetRelativeWriteOrder(id)
  <2>1. PICK id \in DOMAIN streams : SetRelativeWriteOrder(id)
    BY <1>8
  <2>2. \E order, rank : SetOrder(id, order, rank)
    BY <2>1 DEF SetRelativeWriteOrder
  <2> QED BY <1>2, <1>3, <1>4, <2>2, SetOrderLens DEF SizeInv
<1>9. CASE \E id \in DOMAIN streams : GetTrackNumber(id)
  BY <1>2, <1>3, <1>4, <1>9, GetTrackNumberLens DEF SizeInv
<1>10. CASE \E id \in DOMAIN streams : \E item \in Items : AddData(id, item)
  BY <1>1, <1>2, <1>3, <1>10, AddDataLens DEF SizeInv
<1>11. CASE SetKAG \/ SetIndexEditUnit \/ \E n \in Packs : OtherWrite(n)
  <2>1. UNCHANGED <<streams, queue>> /\ done' = Nothing
    BY <1>11 DEF SetKAG, SetIndexEditUnit, OtherWrite
  <2>2. LensKept
    BY <2>1 DEF LensKept
  <2> QED BY <1>2, <1>3, <1>4, <2>1, <2>2 DEF SizeInv
<1>12. CASE \E size \in Raws : WriteRaw(size)
  <2>1. PICK size \in Raws : WriteRaw(size)
    BY <1>12
  <2>2. UNCHANGED <<streams, queue>>
    BY <2>1 DEF WriteRaw
  <2>3. LensKept
    BY <2>2 DEF LensKept
  <2> QED BY <1>2, <1>4, <2>1, <2>2, <2>3, WriteRawSize DEF SizeInv
<1> QED BY <1>5, <1>6, <1>7, <1>8, <1>9, <1>10, <1>11, <1>12 DEF Call

\* Before anything is written what is predicted is what is counted.
LEMMA CalcIsToDo ==
    ASSUME Outside, IsFiniteSet(queue)
    PROVE  /\ CalcWriteSize \in Int
           /\ CalcWriteSize # -1
                => /\ CalcWriteSize = ToDo(queue, 255, tell)
                   /\ \A b \in queue : ~Fast(b)
<1>1. Alignments = Cardinality(Aligned(queue, 255))
  <2>1. \A b \in queue : TypeBefore(b) = LastBefore(queue, 255, b)
    BY DEF TypeBefore, LastBefore
  <2>2. {b \in queue : Aligns(TypeIn(b.order), TypeBefore(b))} = Aligned(queue, 255)
    BY <2>1 DEF Aligned
  <2> QED BY <2>2 DEF Alignments
<1>2. SumFunction([b \in queue |-> BestSize(b)]) + (Alignments + 1) * Filler(tell) = ToDo(queue, 255, tell)
  BY <1>1 DEF ToDo, BestSizes
<1>3. ToDo(queue, 255, tell) \in Nat
  BY FileHere, ToDoType
<1>4. CalcWriteSize = IF \E b \in queue : Fast(b) THEN -1 ELSE ToDo(queue, 255, tell)
  BY <1>2 DEF CalcWriteSize
<1> QED BY <1>3, <1>4

\* A Flush begins with what CalcWriteSize says.
LEMMA FlushSize ==
    ASSUME IInv, SizeInv, Flush, UNCHANGED scene
    PROVE  SizeInv'
<1>1. /\ call' = Flushing(writer.offset, tell, CalcWriteSize, 255, writer.offset, << >>, {}, FALSE)
      /\ done' = Nothing /\ UNCHANGED <<setup, writer, streams, queue, tell>>
  BY DEF Flush, Flushing
<1>2. Outside /\ IsFiniteSet(queue) /\ LensTrue
  BY DEF IInv, Outside, SizeInv
<1>3. IsFiniteSet(queue') /\ LensTrue'
  BY <1>1, <1>2 DEF LensTrue
<1>4. Predicted'
  BY <1>1 DEF Predicted, Nothing
<1> DEFINE calc == CalcWriteSize
           c == Flushing(writer.offset, tell, calc, 255, writer.offset, << >>, {}, FALSE)
<1>5. call' = c
  BY <1>1
<1>6. c.start = tell /\ c.predicted = calc /\ c.last = 255 /\ c.klvs = << >>
  <2> HIDE DEF calc
  <2> QED BY SMT DEF Flushing
<1>7. tell \in Nat
  BY <1>2, FileHere
<1>8. calc \in Int /\ (calc # -1 => calc = ToDo(queue, 255, tell) /\ \A b \in queue : ~Fast(b))
  BY <1>2, CalcIsToDo
<1>9. ToDo(queue, 255, tell) \in Nat
  BY <1>2, <1>7, ToDoType
<1>10. ToDo(queue, call.last, call.start)' = ToDo(queue, 255, tell)
  <2>1. PICK items : items = queue
    OBVIOUS
  <2>2. PICK start : start = tell
    OBVIOUS
  <2>3. ToDo(items, 255, start)' = ToDo(items, 255, start)
    BY <1>1, SameToDo
  <2>4. queue' = items /\ call'.last = 255 /\ call'.start = start
    BY <1>1, <1>5, <1>6, <2>1, <2>2
  <2>5. ToDo(queue, call.last, call.start)' = ToDo(items, 255, start)'
    BY <2>4 DEF ToDo, Aligned, LastBefore, BestSizes, BestSize
  <2> QED BY <2>1, <2>2, <2>3, <2>5
<1>11. Margin(call.klvs)' = 0
  <2>1. {i \in DOMAIN << >> : streams'[<< >>[i].stream].len # 0} = {} /\ Len(<< >>) = 0
    OBVIOUS
  <2>2. Asking(<< >>)' = 0
    BY <2>1, FS_EmptySet DEF Asking
  <2>3. call'.klvs = << >>
    BY <1>5, <1>6
  <2>4. Asking(call.klvs)' = Asking(<< >>)'
    BY <2>3 DEF Asking
  <2>5. Margin(call.klvs)' = 0 * MostNow' + 5 * 0
    BY <2>1, <2>2, <2>3, <2>4 DEF Margin
  <2>6. MostNow \in Nat
    BY <1>2, <1>7, ToDoType
  <2>7. MostNow' = MostNow
    BY <1>1 DEF MostNow
  <2> QED BY <2>5, <2>6, <2>7
<1> HIDE DEF c, calc
<1>12. SoFarTrue'
  <2> SUFFICES ASSUME calc # -1
               PROVE  Within(calc, tell - tell + ToDo(queue, 255, tell), 0)
    BY <1>1, <1>5, <1>6, <1>7, <1>8, <1>10, <1>11 DEF SoFarTrue
  <2> DEFINE todo == ToDo(queue, 255, tell)
  <2>1. calc = todo /\ todo \in Nat
    BY <1>8, <1>9
  <2> HIDE DEF todo
  <2>2. Within(calc, tell - tell + todo, 0)
    BY <1>7, <2>1 DEF Within
  <2> QED BY <2>2 DEF todo
<1> QED BY <1>3, <1>4, <1>12 DEF SizeInv

\* At its end the filler behind the package is the last thing that can differ.
LEMMA FlushEndsSize ==
    ASSUME IInv, SizeInv, FlushEnds, UNCHANGED scene
    PROVE  SizeInv'
<1>1. /\ call # Nothing /\ queue = {} /\ tell' = tell + Filler(tell) /\ call' = Nothing
      /\ UNCHANGED <<setup, streams, queue>>
      /\ done'.predicted = call.predicted /\ done'.written = tell' - call.start
      /\ done'.klvs = call.klvs /\ done'.kag = writer.kag
  BY DEF FlushEnds
<1>2. Outside /\ CallTrue /\ IsFiniteSet(queue) /\ SoFarTrue
  BY DEF IInv, Outside, SizeInv
<1>3. IsFiniteSet(queue') /\ LensTrue' /\ SoFarTrue'
  BY <1>1, <1>2 DEF LensTrue, SoFarTrue
<1>4. tell \in Nat /\ call.start \in Nat /\ call.klvs \in Seq(AnyKlv)
  BY <1>1, <1>2, FileHere DEF CallTrue, KlvsTrue, SoFarTrue
<1>5. SUFFICES ASSUME done'.predicted # -1
               PROVE  /\ done'.written <= done'.predicted + AllFillers' + AllLengths'
                      /\ done'.predicted <= done'.written + AllFillers' + AllLengths'
  BY <1>3 DEF SizeInv, Predicted
<1> DEFINE P == call.predicted
           F == Filler(call.start)
           G == Filler(tell)
           M == MostNow
           n == Len(call.klvs)
           q == Asking(call.klvs)
           start == call.start
<1>6. P \in Int /\ Within(P, tell - start + ToDo(queue, call.last, call.start), Margin(call.klvs))
  BY <1>1, <1>2, <1>5 DEF SoFarTrue
<1>7. F \in Nat /\ G \in Nat /\ M \in Nat /\ F <= M /\ G <= M
  BY <1>2, <1>4, ToDoType
<1>8. n \in Nat /\ q \in Nat
  <2>1. n \in Nat
    BY <1>4
  <2>2. IsFiniteSet(1 .. n)
    BY <2>1, FS_Interval
  <2>3. {i \in DOMAIN call.klvs : streams[call.klvs[i].stream].len # 0} \subseteq 1 .. n
    BY <1>4
  <2> QED BY <2>1, <2>2, <2>3, FS_Subset, FS_CardinalityType DEF Asking
<1>9. ToDo(queue, call.last, call.start) = 0 + (0 + 1) * F
  <2>1. Queue({})
    BY FS_EmptySet DEF Queue
  <2>2. BestSizes({}) = 0
    BY <2>1, OneSize
  <2>3. Aligned({}, call.last) = {} /\ Cardinality({}) = 0
    BY FS_EmptySet DEF Aligned
  <2> QED BY <1>1, <2>2, <2>3 DEF ToDo
<1>10. Margin(call.klvs) = n * M + 5 * q
  BY DEF Margin
<1>11. AllFillers' = (n + 1) * M /\ AllLengths' = 5 * q
  BY <1>1, DoneSize
<1>12. done'.predicted = P /\ done'.written = tell' - start /\ tell' = tell + G
  BY <1>1
<1> DEFINE y == n * M
           z == (n + 1) * M
<1>13. start \in Nat
  BY <1>4
<1> HIDE DEF P, F, G, M, n, q, start
<1>14. y \in Nat /\ z = y + M
  BY <1>7, <1>8
<1>15. Within(P, tell - start + F, y + 5 * q)
  <2>1. 0 + (0 + 1) * F = F
    BY <1>7
  <2> QED BY <1>6, <1>9, <1>10, <2>1
<1>16. AllFillers' = z /\ AllLengths' = 5 * q
  BY <1>11
<1> HIDE DEF y, z
<1>17. tell - start + G <= P + z + 5 * q /\ P <= tell - start + G + z + 5 * q
  BY <1>4, <1>6, <1>7, <1>8, <1>13, <1>14, <1>15 DEF Within
<1>18. done'.written = tell - start + G
  BY <1>4, <1>7, <1>12, <1>13
<1> QED BY <1>12, <1>16, <1>17, <1>18

\* What CalcWriteSize and CalcRawSize said is what is then written, but for
\* the fillers, on a file with a KAG, and the lengths that are asked to have a
\* certain size: for any uses of a writer.
THEOREM PredictedAlways == Spec => []Predicted
<1>1. Init => SizeInv
  <2> SUFFICES ASSUME Init
               PROVE  SizeInv
    OBVIOUS
  <2>1. queue = {} /\ call = Nothing /\ done = Nothing
    BY DEF Init
  <2>2. IsFiniteSet(queue) /\ LensTrue /\ SoFarTrue
    BY <2>1, FS_EmptySet DEF LensTrue, SoFarTrue
  <2>3. Predicted
    BY <2>1 DEF Predicted, Nothing
  <2> QED BY <2>2, <2>3 DEF SizeInv
<1>2. IInv /\ SizeInv /\ [Next]_vars => SizeInv'
  <2> SUFFICES ASSUME IInv, SizeInv, [Next]_vars
               PROVE  SizeInv'
    OBVIOUS
  <2>1. CASE UNCHANGED vars
    <3>1. UNCHANGED <<setup, writer, streams, queue, tell, call, done>>
      BY <2>1 DEF vars
    <3>2. IsFiniteSet(queue') /\ LensTrue'
      BY <3>1 DEF SizeInv, LensTrue
    <3>3. Predicted'
      BY <3>1 DEF SizeInv, Predicted, AllFillers, AllLengths, MostFiller
    <3>4. SoFarTrue'
      BY <3>1 DEF SizeInv, SoFarTrue, ToDo, BestSizes, BestSize, Aligned, LastBefore, Aligns, Filler, FillerSize,
                  Margin, MostNow, Asking
    <3> QED BY <3>2, <3>3, <3>4 DEF SizeInv
  <2>2. CASE Step /\ UNCHANGED scene
    <3>1. CASE call = Nothing /\ Call /\ UNCHANGED call
      <4>1. Outside /\ call' = Nothing
        BY <3>1 DEF IInv, Outside
      <4> QED BY <2>2, <3>1, <4>1, CallSize
    <3>2. CASE Flush
      BY <2>2, <3>2, FlushSize
    <3>3. CASE FlushEnds
      BY <2>2, <3>3, FlushEndsSize
    <3>4. CASE \E b \in queue : FlushItem(b)
      BY <2>2, <3>4, FlushItemSize
    <3> QED BY <2>2, <3>1, <3>2, <3>3, <3>4 DEF Step
  <2> QED BY <2>1, <2>2 DEF Next
<1>3. SizeInv => Predicted
  BY DEF SizeInv
<1> QED BY <1>1, <1>2, <1>3, Invariant, PTL DEF Spec

=============================================================================
