-------------------------- MODULE BodyReader_proofs --------------------------
(***************************************************************************)
(* Proofs about BodyReader for any well-written files and any callers.     *)
(***************************************************************************)
EXTENDS BodyReader, FiniteSetTheorems, SequenceTheorems, WellFoundedInduction, TLAPS

\* Where a file ends.
EndIn(f) == f[Len(f)].at + SizeOf(f[Len(f)])

\* A file that the scenes may have.
Sound(f) ==
    /\ f \in Seq(Item) /\ f # << >> /\ f[1].at = 0
    /\ \A i \in 2 .. Len(f) : f[i].at = f[i - 1].at + SizeOf(f[i - 1])
    /\ WellWritten(f) /\ Estimable(f)

Pack(f, i) == i \in DOMAIN f /\ f[i].type = "pack"

PackOf(f, i, sid) == Pack(f, i) /\ f[i].sid = sid

\* A reader is at an item of its stream that it knows the offset of, at a
\* pack, or at the end.
ReaderAt(f, r, sid) ==
    \/ \E j \in DOMAIN f :
          f[j].at = r.file /\ EssenceIn(f, j) /\ f[j].sid = sid /\ r.stream = OffsetIn(f, j)
    \/ \E j \in DOMAIN f : f[j].at = r.file /\ f[j].type = "pack"
    \/ r.file = EndIn(f)

\* What handlers got is essence of their stream, in order, and before p.
SeenTrue(f, seen) ==
    \A n \in DOMAIN seen :
        \E i \in DOMAIN f :
            f[i].at = seen[n].at /\ EssenceIn(f, i) /\ f[i].sid = seen[n].sid /\ seen[n].stream = OffsetIn(f, i)

Ordered(seen) == \A m, n \in DOMAIN seen : m < n => seen[m].at < seen[n].at

Below(seen, p) == \A n \in DOMAIN seen : seen[n].at < p

\* And before p no KLV was left out from the first partition behind from on.
Covered(f, seen, from, p, sids) ==
    \A i \in DOMAIN f :
        (/\ f[i].type = "klv" /\ f[i].sid \in sids /\ f[i].at < p
         /\ \E k \in DOMAIN f : k < i /\ f[k].type = "pack" /\ f[k].at >= from)
          => \E n \in DOMAIN seen : seen[n].at = f[i].at

\* From p on, no partition has anything left that was begun before.
ResumeAt(f, from, p, sids) ==
    \A k \in DOMAIN f : \A i \in DOMAIN f :
        (InPartition(f, k, i) /\ f[i].type = "klv" /\ f[i].sid \in sids /\ f[k].at >= from /\ f[i].at >= p)
          => f[k].at >= p

AnyBody == [pos : Nat, new : BOOLEAN, atPartition : BOOLEAN, atEof : BOOLEAN, sid : Nat]

AnyReader == [file : Nat, stream : Int, push : BOOLEAN]

AnyEntry == [known : BOOLEAN, est : Int, start : Int]

AnySeen == [at : Nat, stream : Int, sid : Nat]

AnyReading == [op : {"read"}, stopNow : BOOLEAN, stopCalled : {FALSE}]

AnyFinding ==
    [op : {"find"}, sid : Nat \ {0}, want : Nat, at : Nat, stream : Int, prev : Nat, end : Int, size : Nat]

AnySeeking == [op : {"seek"}, sid : Nat \ {0}, want : Nat, part : Nat, last : Int]

AnyCall == {Idle} \cup AnyReading \cup AnyFinding \cup AnySeeking

AnyResult ==
    [kind : {"none"}] \cup [kind : {"read"}, ok : BOOLEAN] \cup [kind : {"seek"}, at : Int, sid : Nat, want : Nat]

Typed ==
    /\ scene \in Scenes /\ Usable(scene) /\ file \in Files /\ Sound(file)
    /\ body \in AnyBody /\ gc \in [Sids -> AnyReader] /\ rip \in [Packs -> AnyEntry]
    /\ call \in AnyCall /\ result \in AnyResult
    /\ log \in [from : Nat, seen : Seq(AnySeen)]

Reading == call.op = "read" \/ ~body.new

\* How far the file has been read.
Where == IF Reading THEN gc[body.sid].file ELSE body.pos

ReadingTrue ==
    /\ Reading => body.sid \in Sids /\ ReaderAt(file, gc[body.sid], body.sid)
    /\ Reading /\ call.op # "read" => gc[body.sid].file = body.pos
    /\ call.op = "read" /\ call.stopNow => TRUE \in Modes
    /\ \A s \in Sids : gc[s].push => "push" \in Answers

\* Is every KLV to be handled?
All == Answers = {"ok"} /\ "klv" \in Handled

LogTrue ==
    /\ SeenTrue(file, log.seen) /\ Ordered(log.seen) /\ Below(log.seen, Where)
    /\ All => Covered(file, log.seen, log.from, Where, Sids)
    /\ All /\ ~Reading => ResumeAt(file, log.from, body.pos, Sids)

\* What is known of partitions is true, and guesses are not below it.
RipTrue(f, r) ==
    \A i \in DOMAIN f : f[i].type = "pack" /\ f[i].sid # 0 =>
        /\ r[i].est = -1 \/ r[i].est >= f[i].offset
        /\ r[i].start = -1 \/ r[i].start = HeadEnd(f, i)

\* The partition that FindPartition has come to, and what it knows of it.
FindingTrue(f, c) ==
    /\ c.at \in 0 .. Len(f) /\ c.want % 2 = 0
    /\ c.prev = 0 => c.size = 0 /\ \A k \in 1 .. c.at : ~PackOf(f, k, c.sid)
    /\ c.prev # 0 =>
          /\ PackOf(f, c.prev, c.sid) /\ c.prev <= c.at
          /\ \A k \in c.prev + 1 .. c.at : ~PackOf(f, k, c.sid)
          /\ f[c.prev].offset <= c.stream /\ c.stream <= c.want
          /\ c.size <= f[c.prev].meta + 2
          /\ c.end = -1 => \A k \in c.prev + 1 .. c.at : ~Pack(f, k)
          /\ c.end # -1 => \E n \in c.prev + 1 .. c.at :
                              /\ Pack(f, n) /\ c.end = f[n].at
                              /\ \A k \in c.prev + 1 .. n - 1 : ~Pack(f, k)

\* The partition that the search has come to, which is not behind the offset.
SeekingTrue(f, c) ==
    /\ PackOf(f, c.part, c.sid) /\ f[c.part].offset <= c.want /\ c.want % 2 = 0
    /\ c.last < HeadEnd(f, c.part) + (c.want - f[c.part].offset)

CallTrue ==
    /\ call.op = "find" => FindingTrue(file, call)
    /\ call.op = "seek" => SeekingTrue(file, call)

\* What a seek that has returned said.
ResultTrue(f, r) ==
    r.kind = "seek" /\ r.sid # 0 =>
        /\ r.at > 0 => \E i \in DOMAIN f : f[i].at = r.at /\ f[i].sid = r.sid /\ OffsetIn(f, i) = r.want
        /\ (\E i \in DOMAIN f : EssenceIn(f, i) /\ f[i].sid = r.sid /\ OffsetIn(f, i) = r.want) => r.at > 0

IInv == Typed /\ ReadingTrue /\ LogTrue /\ RipTrue(file, rip) /\ CallTrue /\ ResultTrue(file, result)

-----------------------------------------------------------------------------
(***************************************************************************)
(* 1. Where items are.                                                     *)
(***************************************************************************)
\* A set of natural numbers has a least one.
LEMMA Least ==
    ASSUME NEW S \in SUBSET Nat, S # {}
    PROVE  \E m \in S : \A k \in S : m <= k
<1> DEFINE R == OpToRel(<, Nat)
<1>1. IsWellFoundedOn(R, Nat)
  BY NatLessThanWellFounded
<1>2. \A x, y \in Nat : <<x, y>> \in R <=> x < y
  BY DEF OpToRel
<1> HIDE DEF R
<1>3. PICK m \in S : \A k \in S : ~(<<k, m>> \in R)
  BY <1>1, WFMin
<1>4. m \in Nat /\ \A k \in S : k \in Nat
  OBVIOUS
<1>5. \A k \in S : ~(k < m)
  BY <1>2, <1>3, <1>4
<1> QED BY <1>4, <1>5

\* A bounded set of them has a greatest one.
LEMMA Greatest ==
    ASSUME NEW n \in Nat, NEW S \in SUBSET (0 .. n), S # {}
    PROVE  \E m \in S : \A k \in S : k <= m
<1> DEFINE T == {n - k : k \in S}
<1>1. T \in SUBSET Nat /\ T # {}
  OBVIOUS
<1>2. PICK t \in T : \A k \in T : t <= k
  BY <1>1, Least
<1>3. PICK m \in S : t = n - m
  BY <1>2
<1>4. \A k \in S : n - k \in T
  OBVIOUS
<1>5. ASSUME NEW k \in S PROVE k <= m
  <2>1. n - m <= n - k
    BY <1>2, <1>3, <1>4
  <2>2. n \in Nat /\ m \in Nat /\ k \in Nat
    OBVIOUS
  <2> HIDE DEF T
  <2> QED BY <2>1, <2>2
<1> QED BY <1>5

\* LeastOf is the least.
LEMMA LeastOfIs ==
    ASSUME NEW S \in SUBSET Nat, S # {}
    PROVE  LeastOf(S) \in S /\ \A k \in S : LeastOf(S) <= k
BY Least DEF LeastOf

\* What is in a file.
LEMMA ItemType ==
    ASSUME NEW f, Sound(f), NEW i \in DOMAIN f
    PROVE  /\ f[i] \in Item /\ f[i].at \in Nat /\ f[i].sid \in Nat /\ f[i].offset \in Nat /\ f[i].meta \in Nat
           /\ SizeOf(f[i]) \in {1, 2} /\ (f[i].type # "junk" => SizeOf(f[i]) = 2)
           /\ i \in Nat /\ i >= 1 /\ i <= Len(f)
<1>1. f \in Seq(Item)
  BY DEF Sound
<1>2. f[i] \in Item /\ i \in 1 .. Len(f) /\ Len(f) \in Nat
  BY <1>1
<1> QED BY <1>2 DEF Item, SizeOf

\* Its items, by number.
LEMMA ItemNumbers ==
    ASSUME NEW f, Sound(f)
    PROVE  /\ DOMAIN f = 1 .. Len(f) /\ Len(f) \in Nat /\ Len(f) >= 1 /\ Len(f) \in DOMAIN f
           /\ DOMAIN f \in SUBSET (0 .. Len(f)) /\ DOMAIN f \in SUBSET Nat
<1>1. f \in Seq(Item) /\ f # << >>
  BY DEF Sound
<1> QED BY <1>1

\* An item begins where the one before it ends.
LEMMA NextAt ==
    ASSUME NEW f, Sound(f), NEW i \in DOMAIN f, i + 1 \in DOMAIN f
    PROVE  f[i + 1].at = f[i].at + SizeOf(f[i])
<1>1. i \in Nat /\ i >= 1 /\ i + 1 <= Len(f) /\ Len(f) \in Nat
  BY ItemNumbers, ItemType
<1>2. i + 1 \in 2 .. Len(f) /\ (i + 1) - 1 = i
  BY <1>1
<1>3. f[i + 1].at = f[(i + 1) - 1].at + SizeOf(f[(i + 1) - 1])
  BY <1>2 DEF Sound
<1> QED BY <1>2, <1>3

\* Later items are behind earlier ones.
LEMMA Spaced ==
    ASSUME NEW f, Sound(f), NEW i \in DOMAIN f, NEW j \in DOMAIN f, i < j
    PROVE  f[j].at >= f[i].at + SizeOf(f[i])
<1> DEFINE S == {k \in DOMAIN f : i < k /\ ~(f[k].at >= f[i].at + SizeOf(f[i]))}
<1>1. SUFFICES ASSUME S # {} PROVE FALSE
  OBVIOUS
<1>2. S \in SUBSET Nat
  BY ItemNumbers
<1>3. PICK k \in S : \A m \in S : k <= m
  BY <1>1, <1>2, Least
<1>4. k \in DOMAIN f /\ i < k /\ ~(f[k].at >= f[i].at + SizeOf(f[i]))
  OBVIOUS
<1>5. k \in Nat /\ i \in Nat /\ i >= 1 /\ k <= Len(f) /\ Len(f) \in Nat /\ DOMAIN f = 1 .. Len(f)
  BY <1>4, ItemType, ItemNumbers
<1> DEFINE m == k - 1
<1>6. m \in DOMAIN f /\ m + 1 = k /\ m >= i /\ m < k
  BY <1>4, <1>5
<1>7. f[k].at = f[m].at + SizeOf(f[m])
  BY <1>4, <1>6, NextAt
<1>8. m \notin S
  BY <1>3, <1>5, <1>6
<1>9. f[m].at \in Nat /\ f[i].at \in Nat /\ SizeOf(f[m]) \in {1, 2} /\ SizeOf(f[i]) \in {1, 2}
  BY <1>6, ItemType
<1>10. CASE m = i
  BY <1>4, <1>7, <1>9, <1>10
<1>11. CASE m # i
  <2>1. i < m
    BY <1>5, <1>6, <1>11
  <2>2. f[m].at >= f[i].at + SizeOf(f[i])
    BY <1>6, <1>8, <2>1
  <2> HIDE DEF m
  <2> QED BY <1>4, <1>7, <1>9, <2>2
<1> QED BY <1>10, <1>11

\* The order of items is that of their places.
LEMMA Rising ==
    ASSUME NEW f, Sound(f), NEW i \in DOMAIN f, NEW j \in DOMAIN f
    PROVE  /\ i < j <=> f[i].at < f[j].at
           /\ i <= j <=> f[i].at <= f[j].at
           /\ i = j <=> f[i].at = f[j].at
<1>1. /\ f[i].at \in Nat /\ f[j].at \in Nat /\ i \in Nat /\ j \in Nat
      /\ SizeOf(f[i]) \in {1, 2} /\ SizeOf(f[j]) \in {1, 2}
  BY ItemType
<1>2. i < j => f[j].at >= f[i].at + SizeOf(f[i])
  BY Spaced
<1>3. j < i => f[i].at >= f[j].at + SizeOf(f[j])
  BY Spaced
<1>4. i = j => f[i].at = f[j].at
  OBVIOUS
<1> QED BY <1>1, <1>2, <1>3, <1>4

\* All items are before the end.
LEMMA BeforeEnd ==
    ASSUME NEW f, Sound(f), NEW i \in DOMAIN f
    PROVE  /\ EndIn(f) \in Nat /\ f[i].at + SizeOf(f[i]) <= EndIn(f) /\ f[i].at < EndIn(f)
           /\ i = Len(f) => EndIn(f) = f[i].at + SizeOf(f[i])
<1> DEFINE l == Len(f)
<1>1. l \in DOMAIN f /\ i <= l /\ i \in Nat /\ l \in Nat
  BY ItemNumbers, ItemType
<1>2. /\ f[i].at \in Nat /\ f[l].at \in Nat
      /\ SizeOf(f[i]) \in {1, 2} /\ SizeOf(f[l]) \in {1, 2}
  BY <1>1, ItemType
<1>3. EndIn(f) = f[l].at + SizeOf(f[l])
  BY DEF EndIn
<1>4. i < l => f[l].at >= f[i].at + SizeOf(f[i])
  BY <1>1, Spaced
<1>5. i = l => EndIn(f) = f[i].at + SizeOf(f[i])
  BY <1>3
<1> HIDE DEF l
<1>6. f[i].at + SizeOf(f[i]) <= EndIn(f)
  BY <1>1, <1>2, <1>3, <1>4, <1>5
<1>7. EndIn(f) \in Nat
  BY <1>2, <1>3
<1> QED BY <1>2, <1>5, <1>6, <1>7 DEF l

-----------------------------------------------------------------------------
(***************************************************************************)
(* 2. Offsets.                                                             *)
(***************************************************************************)
\* The essence of a stream before item m, and its bytes.
Stream(f, s, m) == {j \in 1 .. (m - 1) : EssenceIn(f, j) /\ f[j].sid = s}

Bytes(f, s, m) == 2 * Cardinality(Stream(f, s, m))

\* It is finite.
LEMMA StreamType ==
    ASSUME NEW f, NEW s, NEW m \in Nat
    PROVE  IsFiniteSet(Stream(f, s, m)) /\ Cardinality(Stream(f, s, m)) \in Nat
<1>1. IsFiniteSet(1 .. (m - 1))
  <2>1. 1 \in Int /\ m - 1 \in Int
    OBVIOUS
  <2> QED BY <2>1, FS_Interval
<1>2. Stream(f, s, m) \in SUBSET (1 .. (m - 1))
  BY DEF Stream
<1>3. IsFiniteSet(Stream(f, s, m))
  BY <1>1, <1>2, FS_Subset
<1> QED BY <1>3, FS_CardinalityType

\* An even number of bytes is before an item.
LEMMA BytesType ==
    ASSUME NEW f, NEW s, NEW m \in Nat
    PROVE  Bytes(f, s, m) \in Nat /\ Bytes(f, s, m) % 2 = 0
<1>1. Cardinality(Stream(f, s, m)) \in Nat
  BY StreamType
<1> QED BY <1>1 DEF Bytes

\* The offset of an item is the bytes of its stream before it.
LEMMA OffsetIs ==
    ASSUME NEW f, NEW i
    PROVE  OffsetIn(f, i) = Bytes(f, f[i].sid, i)
BY DEF OffsetIn, Bytes, Stream

\* An item of the stream adds its two bytes, another one none.
LEMMA BytesStep ==
    ASSUME NEW f, NEW s, NEW m \in Nat, m >= 1
    PROVE  /\ EssenceIn(f, m) /\ f[m].sid = s => Bytes(f, s, m + 1) = Bytes(f, s, m) + 2
           /\ ~(EssenceIn(f, m) /\ f[m].sid = s) => Bytes(f, s, m + 1) = Bytes(f, s, m)
<1>1. IsFiniteSet(Stream(f, s, m)) /\ Cardinality(Stream(f, s, m)) \in Nat
  BY StreamType
<1>2. ASSUME EssenceIn(f, m) /\ f[m].sid = s
      PROVE  Bytes(f, s, m + 1) = Bytes(f, s, m) + 2
  <2>1. Stream(f, s, m + 1) = Stream(f, s, m) \cup {m}
    BY <1>2 DEF Stream
  <2>2. m \notin Stream(f, s, m)
    BY DEF Stream
  <2>3. Cardinality(Stream(f, s, m + 1)) = Cardinality(Stream(f, s, m)) + 1
    BY <1>1, <2>1, <2>2, FS_AddElement
  <2> QED BY <1>1, <2>3 DEF Bytes
<1>3. ASSUME ~(EssenceIn(f, m) /\ f[m].sid = s)
      PROVE  Bytes(f, s, m + 1) = Bytes(f, s, m)
  <2>1. Stream(f, s, m + 1) = Stream(f, s, m)
    BY <1>3 DEF Stream
  <2> QED BY <2>1 DEF Bytes
<1> QED BY <1>2, <1>3

\* Bytes do not get fewer.
LEMMA BytesMore ==
    ASSUME NEW f, NEW s, NEW m \in Nat, NEW n \in Nat, m <= n
    PROVE  Bytes(f, s, m) <= Bytes(f, s, n)
<1>1. IsFiniteSet(Stream(f, s, n)) /\ Cardinality(Stream(f, s, n)) \in Nat /\ Cardinality(Stream(f, s, m)) \in Nat
  BY StreamType
<1>2. Stream(f, s, m) \in SUBSET Stream(f, s, n)
  BY DEF Stream
<1>3. Cardinality(Stream(f, s, m)) <= Cardinality(Stream(f, s, n))
  BY <1>1, <1>2, FS_Subset
<1> QED BY <1>1, <1>3 DEF Bytes

\* Nor more where there is no essence of the stream.
LEMMA BytesSame ==
    ASSUME NEW f, NEW s, NEW m \in Nat, NEW n \in Nat, m >= 1, m <= n,
           \A j \in m .. (n - 1) : ~(EssenceIn(f, j) /\ f[j].sid = s)
    PROVE  Bytes(f, s, m) = Bytes(f, s, n)
<1>1. Stream(f, s, m) = Stream(f, s, n)
  <2>1. ASSUME NEW j \in Stream(f, s, n) PROVE j \in Stream(f, s, m)
    <3>1. j \in 1 .. (n - 1) /\ EssenceIn(f, j) /\ f[j].sid = s
      BY DEF Stream
    <3>2. j \notin m .. (n - 1)
      BY <3>1
    <3>3. j \in 1 .. (m - 1)
      BY <3>1, <3>2
    <3> QED BY <3>1, <3>3 DEF Stream
  <2>2. ASSUME NEW j \in Stream(f, s, m) PROVE j \in Stream(f, s, n)
    BY DEF Stream
  <2> QED BY <2>1, <2>2
<1> QED BY <1>1 DEF Bytes

\* Essence of a stream is at an offset of its own: later essence is later in the
\* stream.
LEMMA BytesBehind ==
    ASSUME NEW f, NEW s, NEW m \in Nat, NEW n \in Nat, m >= 1, m < n, EssenceIn(f, m), f[m].sid = s
    PROVE  Bytes(f, s, m) + 2 <= Bytes(f, s, n)
<1>1. Bytes(f, s, m + 1) = Bytes(f, s, m) + 2
  BY BytesStep
<1>2. m + 1 \in Nat /\ m + 1 <= n
  OBVIOUS
<1>3. Bytes(f, s, m + 1) <= Bytes(f, s, n)
  BY <1>2, BytesMore
<1> QED BY <1>1, <1>3

\* The bytes of a stream take as many places in the file, if not more.
LEMMA Spread ==
    ASSUME NEW f, Sound(f), NEW s, NEW m \in DOMAIN f, NEW n \in DOMAIN f, m <= n
    PROVE  Bytes(f, s, n) - Bytes(f, s, m) <= f[n].at - f[m].at
<1> DEFINE Good(k) == Bytes(f, s, k) - Bytes(f, s, m) <= f[k].at - f[m].at
           S == {k \in DOMAIN f : m <= k /\ ~Good(k)}
<1>1. SUFFICES ASSUME S # {} PROVE FALSE
  OBVIOUS
<1>2. S \in SUBSET Nat
  BY ItemNumbers
<1>3. PICK k \in S : \A j \in S : k <= j
  BY <1>1, <1>2, Least
<1>4. k \in DOMAIN f /\ m <= k /\ ~Good(k)
  OBVIOUS
<1>5. k \in Nat /\ m \in Nat /\ m >= 1 /\ k <= Len(f) /\ Len(f) \in Nat /\ DOMAIN f = 1 .. Len(f)
  BY <1>4, ItemType, ItemNumbers
<1>6. Bytes(f, s, k) \in Nat /\ Bytes(f, s, m) \in Nat /\ f[k].at \in Nat /\ f[m].at \in Nat
  BY <1>4, <1>5, BytesType, ItemType
<1>7. k # m
  BY <1>4, <1>6
<1> DEFINE j == k - 1
<1>8. j \in DOMAIN f /\ j + 1 = k /\ j >= m /\ j < k /\ j \in Nat /\ j >= 1
  BY <1>4, <1>5, <1>7
<1> HIDE DEF j
<1>9. j \notin S
  BY <1>3, <1>5, <1>8
<1>10. Good(j)
  BY <1>8, <1>9
<1>11. f[k].at = f[j].at + SizeOf(f[j])
  BY <1>8, NextAt
<1>12. /\ Bytes(f, s, j) \in Nat /\ f[j].at \in Nat /\ SizeOf(f[j]) \in {1, 2}
       /\ f[j].type # "junk" => SizeOf(f[j]) = 2
  BY <1>8, BytesType, ItemType
<1>13. CASE EssenceIn(f, j) /\ f[j].sid = s
  <2>1. Bytes(f, s, k) = Bytes(f, s, j) + 2
    BY <1>8, <1>13, BytesStep
  <2>2. SizeOf(f[j]) = 2
    BY <1>12, <1>13 DEF EssenceIn
  <2> QED BY <1>4, <1>6, <1>10, <1>11, <1>12, <2>1, <2>2
<1>14. CASE ~(EssenceIn(f, j) /\ f[j].sid = s)
  <2>1. Bytes(f, s, k) = Bytes(f, s, j)
    BY <1>8, <1>14, BytesStep
  <2> QED BY <1>4, <1>6, <1>10, <1>11, <1>12, <2>1
<1> QED BY <1>13, <1>14

-----------------------------------------------------------------------------
(***************************************************************************)
(* 3. Partitions.                                                          *)
(***************************************************************************)
\* An item is in one partition.
LEMMA OnePartition ==
    ASSUME NEW f, NEW i \in Nat, NEW k \in Nat, NEW j \in Nat, InPartition(f, i, j), InPartition(f, k, j)
    PROVE  i = k
<1>1. i < j /\ k < j /\ f[i].type = "pack" /\ f[k].type = "pack"
  BY DEF InPartition
<1>2. ASSUME i < k PROVE FALSE
  <2>1. k \in (i + 1) .. j
    BY <1>1, <1>2
  <2> QED BY <1>1, <2>1 DEF InPartition
<1>3. ASSUME k < i PROVE FALSE
  <2>1. i \in (k + 1) .. j
    BY <1>1, <1>3
  <2> QED BY <1>1, <2>1 DEF InPartition
<1> QED BY <1>2, <1>3

\* No pack is between the pack of a partition and what is in it.
LEMMA NoPackBetween ==
    ASSUME NEW f, NEW i \in Nat, NEW j \in Nat, InPartition(f, i, j), NEW k \in Nat, i < k, k <= j
    PROVE  f[k].type # "pack"
<1>1. k \in (i + 1) .. j
  OBVIOUS
<1> QED BY <1>1 DEF InPartition

\* The essence of a body partition begins somewhere.
LEMMA Beginning ==
    ASSUME NEW f, Sound(f), NEW i \in DOMAIN f, f[i].type = "pack", f[i].sid # 0
    PROVE  \E e \in DOMAIN f : Begins(f, i, e)
BY DEF Sound, WellWritten

\* And a pack follows, the next of which is behind where the essence begins.
LEMMA NextPack ==
    ASSUME NEW f, Sound(f), NEW i \in DOMAIN f, f[i].type = "pack", NEW k \in DOMAIN f, i < k, f[k].type = "pack"
    PROVE  \E n \in DOMAIN f :
              /\ f[n].type = "pack" /\ i < n /\ n <= k
              /\ \A j \in (i + 1) .. (n - 1) : f[j].type # "pack"
<1> DEFINE S == {n \in DOMAIN f : f[n].type = "pack" /\ i < n}
<1>1. S \in SUBSET Nat /\ k \in S
  BY ItemNumbers
<1>2. PICK n \in S : \A j \in S : n <= j
  BY <1>1, Least
<1>3. n \in DOMAIN f /\ f[n].type = "pack" /\ i < n /\ n <= k
  BY <1>1, <1>2
<1>4. ASSUME NEW j \in (i + 1) .. (n - 1) PROVE f[j].type # "pack"
  <2>1. i \in Nat /\ n \in Nat /\ n <= Len(f) /\ Len(f) \in Nat /\ i >= 1 /\ DOMAIN f = 1 .. Len(f)
    BY <1>3, ItemType, ItemNumbers
  <2>2. j \in DOMAIN f /\ i < j /\ j < n
    BY <2>1
  <2>3. j \notin S
    BY <1>2, <2>1, <2>2
  <2> QED BY <2>2, <2>3
<1> QED BY <1>3, <1>4

\* A body partition is followed by one.
LEMMA Followed ==
    ASSUME NEW f, Sound(f), NEW i \in DOMAIN f, f[i].type = "pack", f[i].sid # 0
    PROVE  \E n \in DOMAIN f :
              /\ f[n].type = "pack" /\ i < n
              /\ \A j \in (i + 1) .. (n - 1) : f[j].type # "pack"
<1>1. PICK k \in DOMAIN f : k > i /\ f[k].type = "pack"
  BY DEF Sound, WellWritten
<1> QED BY <1>1, NextPack

\* From where its essence begins a partition is essence of the stream, one KLV
\* behind the other.
LEMMA Run ==
    ASSUME NEW f, Sound(f), NEW i \in DOMAIN f, NEW e \in DOMAIN f, NEW n \in DOMAIN f, Begins(f, i, e), e <= n,
           \A j \in (i + 1) .. (n - 1) : f[j].type # "pack"
    PROVE  /\ f[n].at = f[e].at + 2 * (n - e)
           /\ Bytes(f, f[i].sid, n) = Bytes(f, f[i].sid, e) + 2 * (n - e)
<1> DEFINE s == f[i].sid
           Good(k) == f[k].at = f[e].at + 2 * (k - e) /\ Bytes(f, s, k) = Bytes(f, s, e) + 2 * (k - e)
           S == {k \in DOMAIN f : e <= k /\ k <= n /\ ~Good(k)}
<1>1. SUFFICES ASSUME S # {} PROVE FALSE
  <2>1. n \in Nat
    BY ItemType
  <2> QED BY <1>1, <2>1
<1>2. S \in SUBSET Nat
  BY ItemNumbers
<1>3. PICK k \in S : \A j \in S : k <= j
  BY <1>1, <1>2, Least
<1>4. k \in DOMAIN f /\ e <= k /\ k <= n /\ ~Good(k)
  OBVIOUS
<1>5. /\ k \in Nat /\ e \in Nat /\ e >= 1 /\ k <= Len(f) /\ Len(f) \in Nat /\ DOMAIN f = 1 .. Len(f)
      /\ i \in Nat /\ n \in Nat
  BY <1>4, ItemType, ItemNumbers
<1>6. Bytes(f, s, k) \in Nat /\ Bytes(f, s, e) \in Nat /\ f[k].at \in Nat /\ f[e].at \in Nat
  BY <1>4, <1>5, BytesType, ItemType
<1>7. k # e
  BY <1>4, <1>5, <1>6
<1> DEFINE j == k - 1
<1>8. j \in DOMAIN f /\ j + 1 = k /\ j >= e /\ j < k /\ j \in Nat /\ j >= 1 /\ j <= n - 1
  BY <1>4, <1>5, <1>7
<1> HIDE DEF j
<1>9. j \notin S
  BY <1>3, <1>5, <1>8
<1>10. Good(j)
  BY <1>5, <1>8, <1>9
<1>11. f[k].at = f[j].at + SizeOf(f[j])
  BY <1>8, NextAt
<1>12. i < e /\ f[i].type = "pack"
  BY DEF Begins, InPartition
<1>13. InPartition(f, i, j)
  <2>1. i < j
    BY <1>5, <1>8, <1>12
  <2>2. ASSUME NEW m \in (i + 1) .. j PROVE f[m].type # "pack"
    <3>1. m \in (i + 1) .. (n - 1)
      BY <1>5, <1>8
    <3> QED BY <3>1
  <2> QED BY <1>12, <2>1, <2>2 DEF InPartition
<1>14. EssenceIn(f, j) /\ f[j].sid = s
  <2>1. j \in e .. Len(f)
    BY <1>5, <1>8
  <2> QED BY <1>13, <2>1 DEF Begins
<1>15. Bytes(f, s, k) = Bytes(f, s, j) + 2
  BY <1>8, <1>14, BytesStep
<1>16. SizeOf(f[j]) = 2
  BY <1>14 DEF EssenceIn, SizeOf
<1>17. f[j].at \in Nat /\ Bytes(f, s, j) \in Nat
  BY <1>8, BytesType, ItemType
<1>18. f[j].at = f[e].at + 2 * (j - e) /\ Bytes(f, s, j) = Bytes(f, s, e) + 2 * (j - e)
  BY <1>10
<1>19. k - e = (j - e) + 1 /\ k - e \in Int /\ j - e \in Int
  BY <1>5, <1>8
<1>20. f[k].at = f[e].at + 2 * (k - e)
  <2> DEFINE x == j - e
             y == k - e
  <2>1. f[k].at = (f[e].at + 2 * x) + 2 /\ y = x + 1 /\ x \in Int
    BY <1>11, <1>16, <1>18, <1>19
  <2> HIDE DEF x, y
  <2>2. f[k].at = f[e].at + 2 * y
    BY <1>6, <2>1
  <2> QED BY <2>2 DEF y
<1>21. Bytes(f, s, k) = Bytes(f, s, e) + 2 * (k - e)
  <2> DEFINE x == j - e
             y == k - e
  <2>1. Bytes(f, s, k) = (Bytes(f, s, e) + 2 * x) + 2 /\ y = x + 1 /\ x \in Int
    BY <1>15, <1>18, <1>19
  <2> HIDE DEF x, y
  <2>2. Bytes(f, s, k) = Bytes(f, s, e) + 2 * y
    BY <1>6, <2>1
  <2> QED BY <2>2 DEF y
<1> QED BY <1>4, <1>20, <1>21

\* A pack says the offset at which the essence behind it begins.
LEMMA PackOffset ==
    ASSUME NEW f, NEW i, NEW e, Begins(f, i, e), e \in DOMAIN f, Sound(f)
    PROVE  /\ f[i].type = "pack" /\ i < e /\ InPartition(f, i, e)
           /\ f[e].at = HeadEnd(f, i) /\ EssenceIn(f, e) /\ f[e].sid = f[i].sid
           /\ f[i].offset = Bytes(f, f[i].sid, e)
<1>1. InPartition(f, i, e) /\ f[e].at = HeadEnd(f, i) /\ f[i].offset = OffsetIn(f, e)
  BY DEF Begins
<1>2. e \in e .. Len(f)
  BY ItemType, ItemNumbers
<1>3. EssenceIn(f, e) /\ f[e].sid = f[i].sid
  BY <1>1, <1>2 DEF Begins
<1> QED BY <1>1, <1>3, OffsetIs DEF InPartition

\* Essence is in a partition of its stream, where it has its offset.
LEMMA Home ==
    ASSUME NEW f, Sound(f), NEW j \in DOMAIN f, EssenceIn(f, j)
    PROVE  \E i \in DOMAIN f :
              /\ InPartition(f, i, j) /\ f[i].type = "pack" /\ f[i].sid = f[j].sid /\ i < j
              /\ f[j].at >= HeadEnd(f, i)
              /\ \E e \in DOMAIN f : Begins(f, i, e) /\ e <= j
              /\ f[j].at - HeadEnd(f, i) = OffsetIn(f, j) - f[i].offset
<1>1. PICK i \in DOMAIN f : InPartition(f, i, j) /\ f[i].sid = f[j].sid /\ f[j].at >= HeadEnd(f, i)
  BY DEF Sound, WellWritten
<1>2. f[i].type = "pack" /\ i < j /\ f[i].sid # 0
  BY <1>1 DEF InPartition, EssenceIn
<1>3. PICK e \in DOMAIN f : Begins(f, i, e)
  BY <1>2, Beginning
<1>4. f[e].at = HeadEnd(f, i) /\ f[i].offset = Bytes(f, f[i].sid, e)
  BY <1>3, PackOffset
<1>5. e <= j
  BY <1>1, <1>4, Rising
<1>6. /\ i \in Nat /\ j \in Nat /\ e \in Nat
      /\ Bytes(f, f[i].sid, e) \in Nat /\ Bytes(f, f[i].sid, j) \in Nat /\ f[e].at \in Nat /\ f[j].at \in Nat
  BY ItemType, BytesType
<1>7. \A k \in (i + 1) .. (j - 1) : f[k].type # "pack"
  <2>1. ASSUME NEW k \in (i + 1) .. (j - 1) PROVE f[k].type # "pack"
    <3>1. k \in (i + 1) .. j
      BY <1>6
    <3> QED BY <1>1, <3>1 DEF InPartition
  <2> QED BY <2>1
<1>8. /\ f[j].at = f[e].at + 2 * (j - e)
      /\ Bytes(f, f[i].sid, j) = Bytes(f, f[i].sid, e) + 2 * (j - e)
  BY <1>3, <1>5, <1>7, Run
<1>9. OffsetIn(f, j) = Bytes(f, f[i].sid, j)
  BY <1>1, OffsetIs
<1>10. f[j].at - HeadEnd(f, i) = OffsetIn(f, j) - f[i].offset
  BY <1>4, <1>6, <1>8, <1>9
<1> QED BY <1>1, <1>2, <1>3, <1>5, <1>10

\* Later partitions of a stream have later offsets, but not as much later as
\* their essence is.
LEMMA PacksApart ==
    ASSUME NEW f, Sound(f), NEW s, s # 0, NEW i \in DOMAIN f, NEW k \in DOMAIN f, i < k, PackOf(f, i, s), PackOf(f, k, s)
    PROVE  /\ f[i].offset <= f[k].offset
           /\ HeadEnd(f, i) - f[i].offset < HeadEnd(f, k) - f[k].offset
<1>1. f[i].type = "pack" /\ f[k].type = "pack" /\ f[i].sid = s /\ f[k].sid = s
  BY DEF PackOf, Pack
<1>2. PICK e \in DOMAIN f : Begins(f, i, e)
  BY <1>1, Beginning
<1>3. PICK b \in DOMAIN f : Begins(f, k, b)
  BY <1>1, Beginning
<1>4. InPartition(f, i, e) /\ f[e].at = HeadEnd(f, i) /\ f[i].offset = Bytes(f, s, e) /\ i < e
  BY <1>1, <1>2, PackOffset
<1>5. f[b].at = HeadEnd(f, k) /\ f[k].offset = Bytes(f, s, b) /\ k < b
  BY <1>1, <1>3, PackOffset
<1>6. /\ i \in Nat /\ k \in Nat /\ e \in Nat /\ b \in Nat /\ k >= 1 /\ b <= Len(f) /\ Len(f) \in Nat
      /\ DOMAIN f = 1 .. Len(f)
  BY ItemType, ItemNumbers
<1>7. e <= k
  BY <1>1, <1>4, <1>6, NoPackBetween
<1>8. k + 1 \in DOMAIN f /\ k + 1 <= b
  BY <1>5, <1>6
<1>9. f[k + 1].at = f[k].at + 2
  BY <1>1, <1>8, NextAt DEF SizeOf
<1>10. Bytes(f, s, k + 1) = Bytes(f, s, k)
  BY <1>1, <1>6, BytesStep DEF EssenceIn
<1>11. Bytes(f, s, k) - Bytes(f, s, e) <= f[k].at - f[e].at
  BY <1>7, Spread
<1>12. Bytes(f, s, b) - Bytes(f, s, k + 1) <= f[b].at - f[k + 1].at
  BY <1>8, Spread
<1>13. /\ Bytes(f, s, k) \in Nat /\ Bytes(f, s, e) \in Nat /\ Bytes(f, s, b) \in Nat
       /\ f[k].at \in Nat /\ f[e].at \in Nat /\ f[b].at \in Nat
  BY <1>6, BytesType, ItemType
<1>14. Bytes(f, s, e) <= Bytes(f, s, b)
  <2>1. e <= b
    BY <1>5, <1>6, <1>7
  <2> QED BY <1>6, <2>1, BytesMore
<1>15. f[e].at - Bytes(f, s, e) < f[b].at - Bytes(f, s, b)
  BY <1>9, <1>10, <1>11, <1>12, <1>13
<1> QED BY <1>4, <1>5, <1>14, <1>15

\* The first partition of a stream from a pack on has the offset that the
\* stream has come to there.
LEMMA OffsetThere ==
    ASSUME NEW f, Sound(f), NEW s, s # 0, NEW h \in DOMAIN f, NEW k \in DOMAIN f, h <= k, Pack(f, h), PackOf(f, k, s),
           \A j \in h .. (k - 1) : ~PackOf(f, j, s)
    PROVE  f[k].offset = Bytes(f, s, h)
<1>1. f[h].type = "pack" /\ f[k].type = "pack" /\ f[k].sid = s
  BY DEF PackOf, Pack
<1>2. PICK b \in DOMAIN f : Begins(f, k, b)
  BY <1>1, Beginning
<1>3. InPartition(f, k, b) /\ f[b].at = HeadEnd(f, k) /\ f[k].offset = Bytes(f, s, b) /\ k < b
  BY <1>1, <1>2, PackOffset
<1>4. h \in Nat /\ k \in Nat /\ b \in Nat /\ h >= 1 /\ b <= Len(f) /\ Len(f) \in Nat /\ DOMAIN f = 1 .. Len(f)
  BY ItemType, ItemNumbers
<1>5. ASSUME NEW j \in h .. (b - 1), EssenceIn(f, j), f[j].sid = s PROVE FALSE
  <2>1. j \in DOMAIN f /\ j \in Nat /\ h <= j /\ j < b
    BY <1>4
  <2>2. PICK q \in DOMAIN f : InPartition(f, q, j) /\ f[q].type = "pack" /\ f[q].sid = s /\ q < j /\ f[j].at >= HeadEnd(f, q)
    BY <1>5, <2>1, Home
  <2>3. q \in Nat /\ f[j].at \in Nat /\ f[b].at \in Nat
    BY <2>1, ItemType
  <2>4. CASE q < h
    BY <1>1, <1>4, <2>1, <2>2, <2>3, <2>4, NoPackBetween
  <2>5. CASE h <= q /\ q < k
    <3>1. q \in h .. (k - 1)
      BY <1>4, <2>3, <2>5
    <3>2. PackOf(f, q, s)
      BY <2>2 DEF PackOf, Pack
    <3> QED BY <3>1, <3>2
  <2>6. CASE q = k
    <3>1. f[b].at <= f[j].at
      BY <1>3, <2>2, <2>3, <2>6
    <3>2. b <= j
      BY <2>1, <3>1, Rising
    <3> QED BY <1>4, <2>1, <3>2
  <2>7. CASE k < q
    <3>1. q <= b
      BY <1>4, <2>1, <2>2, <2>3
    <3> QED BY <1>3, <1>4, <2>2, <2>3, <2>7, <3>1, NoPackBetween
  <2> QED BY <1>4, <2>3, <2>4, <2>5, <2>6, <2>7
<1>6. \A j \in h .. (b - 1) : ~(EssenceIn(f, j) /\ f[j].sid = s)
  BY <1>5
<1>7. h <= b
  BY <1>3, <1>4
<1>8. Bytes(f, s, h) = Bytes(f, s, b)
  BY <1>4, <1>6, <1>7, BytesSame
<1> QED BY <1>3, <1>8

\* The next partition of a stream is as much later in it as the partition
\* before has essence.
LEMMA NextOffset ==
    ASSUME NEW f, Sound(f), NEW s, s # 0, NEW i \in DOMAIN f, NEW n \in DOMAIN f, NEW k \in DOMAIN f,
           PackOf(f, i, s), PackOf(f, k, s), Pack(f, n), i < n, n <= k,
           \A j \in (i + 1) .. (n - 1) : ~Pack(f, j),
           \A j \in (i + 1) .. (k - 1) : ~PackOf(f, j, s)
    PROVE  f[k].offset = f[i].offset + (f[n].at - HeadEnd(f, i))
<1>1. f[i].type = "pack" /\ f[n].type = "pack" /\ f[i].sid = s
  BY DEF PackOf, Pack
<1>2. PICK e \in DOMAIN f : Begins(f, i, e)
  BY <1>1, Beginning
<1>3. InPartition(f, i, e) /\ f[e].at = HeadEnd(f, i) /\ f[i].offset = Bytes(f, s, e) /\ i < e
  BY <1>1, <1>2, PackOffset
<1>4. /\ i \in Nat /\ n \in Nat /\ k \in Nat /\ e \in Nat /\ i >= 1 /\ n <= Len(f) /\ Len(f) \in Nat
      /\ DOMAIN f = 1 .. Len(f)
  BY ItemType, ItemNumbers
<1>5. e <= n
  BY <1>1, <1>3, <1>4, NoPackBetween
<1>6. \A j \in (i + 1) .. (n - 1) : f[j].type # "pack"
  <2>1. ASSUME NEW j \in (i + 1) .. (n - 1) PROVE f[j].type # "pack"
    <3>1. j \in DOMAIN f /\ ~Pack(f, j)
      BY <1>4
    <3> QED BY <3>1 DEF Pack
  <2> QED BY <2>1
<1>7. f[n].at = f[e].at + 2 * (n - e) /\ Bytes(f, s, n) = Bytes(f, s, e) + 2 * (n - e)
  BY <1>1, <1>2, <1>5, <1>6, Run
<1>8. f[k].offset = Bytes(f, s, n)
  <2>1. \A j \in n .. (k - 1) : ~PackOf(f, j, s)
    <3>1. ASSUME NEW j \in n .. (k - 1) PROVE ~PackOf(f, j, s)
      <4>1. j \in (i + 1) .. (k - 1)
        BY <1>4
      <4> QED BY <4>1
    <3> QED BY <3>1
  <2> QED BY <2>1, OffsetThere
<1>9. Bytes(f, s, e) \in Nat /\ Bytes(f, s, n) \in Nat /\ f[e].at \in Nat /\ f[n].at \in Nat
  BY <1>4, BytesType, ItemType
<1>10. Bytes(f, s, n) = Bytes(f, s, e) + (f[n].at - f[e].at)
  <2> DEFINE x == 2 * (n - e)
  <2>1. x \in Int /\ f[n].at = f[e].at + x /\ Bytes(f, s, n) = Bytes(f, s, e) + x
    BY <1>4, <1>7
  <2> HIDE DEF x
  <2> QED BY <1>9, <2>1
<1> QED BY <1>3, <1>8, <1>10

-----------------------------------------------------------------------------
(***************************************************************************)
(* 4. Where a seek leads to.                                               *)
(***************************************************************************)
\* Where an offset is if it is in the partition of pack i.
Place(f, i, want) == HeadEnd(f, i) + (want - f[i].offset)

\* The head of a partition ends behind what its pack counts.
LEMMA HeadType ==
    ASSUME NEW f, Sound(f), NEW i \in DOMAIN f
    PROVE  HeadEnd(f, i) \in Nat /\ HeadEnd(f, i) >= f[i].at + 2 + f[i].meta
<1> DEFINE x == IF i < Len(f) /\ f[i + 1].type = "fill" THEN 2 ELSE 0
<1>1. f[i].at \in Nat /\ f[i].meta \in Nat
  BY ItemType
<1>2. x \in {0, 2} /\ HeadEnd(f, i) = f[i].at + 2 + f[i].meta + x
  BY DEF HeadEnd
<1> HIDE DEF x
<1> QED BY <1>1, <1>2

\* It is a place behind the beginning of the essence.
LEMMA PlaceType ==
    ASSUME NEW f, Sound(f), NEW i \in DOMAIN f, NEW want \in Nat, f[i].offset <= want
    PROVE  /\ HeadEnd(f, i) \in Nat /\ HeadEnd(f, i) >= f[i].at + 2 + f[i].meta
           /\ Place(f, i, want) \in Nat /\ Place(f, i, want) >= HeadEnd(f, i)
<1>1. f[i].at \in Nat /\ f[i].meta \in Nat /\ f[i].offset \in Nat
  BY ItemType
<1>2. HeadEnd(f, i) \in Nat /\ HeadEnd(f, i) >= f[i].at + 2 + f[i].meta
  BY HeadType
<1> QED BY <1>1, <1>2 DEF Place

\* The item at a place, if the partition goes that far.
Lands(f, sid, want, p) ==
    \E j \in DOMAIN f : f[j].at = p /\ EssenceIn(f, j) /\ f[j].sid = sid /\ OffsetIn(f, j) = want

\* If the next pack is behind the place, then what is sought is there.
LEMMA PlaceTrue ==
    ASSUME NEW f, Sound(f), NEW s, s # 0, NEW i \in DOMAIN f, PackOf(f, i, s),
           NEW want \in Nat, want % 2 = 0, f[i].offset <= want,
           \A k \in DOMAIN f : Pack(f, k) /\ i < k => f[k].at > Place(f, i, want)
    PROVE  Lands(f, s, want, Place(f, i, want))
<1> DEFINE p == Place(f, i, want)
<1>1. f[i].type = "pack" /\ f[i].sid = s
  BY DEF PackOf, Pack
<1>2. PICK e \in DOMAIN f : Begins(f, i, e)
  BY <1>1, Beginning
<1>3. InPartition(f, i, e) /\ f[e].at = HeadEnd(f, i) /\ f[i].offset = Bytes(f, s, e) /\ i < e
  BY <1>1, <1>2, PackOffset
<1>4. PICK n \in DOMAIN f : f[n].type = "pack" /\ i < n /\ \A j \in (i + 1) .. (n - 1) : f[j].type # "pack"
  BY <1>1, Followed
<1>5. /\ i \in Nat /\ n \in Nat /\ e \in Nat /\ e >= 1 /\ n <= Len(f) /\ Len(f) \in Nat
      /\ DOMAIN f = 1 .. Len(f)
  BY ItemType, ItemNumbers
<1>6. e < n
  <2>1. ~(n <= e)
    BY <1>3, <1>4, <1>5, NoPackBetween
  <2> QED BY <1>5, <2>1
<1>7. f[n].at = f[e].at + 2 * (n - e)
  <2>1. e <= n
    BY <1>5, <1>6
  <2> QED BY <1>2, <1>4, <2>1, Run
<1>8. p < f[n].at
  BY <1>4 DEF Pack
<1>9. Bytes(f, s, e) \in Nat /\ Bytes(f, s, e) % 2 = 0 /\ f[e].at \in Nat /\ f[n].at \in Nat
  BY <1>5, BytesType, ItemType
<1>10. p = f[e].at + (want - Bytes(f, s, e)) /\ Bytes(f, s, e) <= want
  BY <1>3 DEF Place
<1>11. PICK d \in Nat : want - Bytes(f, s, e) = 2 * d
  <2> DEFINE b == Bytes(f, s, e)
  <2>1. b \in Nat /\ b % 2 = 0 /\ want \in Nat /\ want % 2 = 0 /\ b <= want
    BY <1>9, <1>10
  <2> HIDE DEF b
  <2>2. \E d \in Nat : want - b = 2 * d
    <3>1. (want - b) \div 2 \in Nat /\ want - b = 2 * ((want - b) \div 2)
      BY <2>1
    <3> QED BY <3>1
  <2> QED BY <2>2 DEF b
<1> DEFINE j == e + d
<1>12. e + d < n
  <2>1. f[e].at + 2 * d < f[e].at + 2 * (n - e)
    BY <1>7, <1>8, <1>10, <1>11
  <2> QED BY <2>1, <1>5, <1>9
<1>13. j \in DOMAIN f /\ j \in Nat /\ e <= j /\ j < n /\ j - e = d /\ i < j
  BY <1>3, <1>5, <1>12
<1> HIDE DEF j, p
<1>14. \A k \in (i + 1) .. (j - 1) : f[k].type # "pack"
  <2>1. ASSUME NEW k \in (i + 1) .. (j - 1) PROVE f[k].type # "pack"
    <3>1. k \in (i + 1) .. (n - 1)
      BY <1>5, <1>13
    <3> QED BY <1>4, <3>1
  <2> QED BY <2>1
<1>15. f[j].at = f[e].at + 2 * d /\ Bytes(f, s, j) = Bytes(f, s, e) + 2 * d
  BY <1>1, <1>2, <1>13, <1>14, Run
<1>16. EssenceIn(f, j) /\ f[j].sid = s
  <2>1. InPartition(f, i, j)
    <3>1. ASSUME NEW k \in (i + 1) .. j PROVE f[k].type # "pack"
      <4>1. k \in (i + 1) .. (n - 1)
        BY <1>5, <1>13
      <4> QED BY <1>4, <4>1
    <3> QED BY <1>1, <1>13, <3>1 DEF InPartition
  <2>2. j \in e .. Len(f)
    BY <1>5, <1>13
  <2> QED BY <1>1, <1>2, <2>1, <2>2 DEF Begins
<1>17. OffsetIn(f, j) = want
  <2>1. OffsetIn(f, j) = Bytes(f, s, j)
    BY <1>16, OffsetIs
  <2> QED BY <1>9, <1>10, <1>11, <1>15, <2>1
<1>18. f[j].at = p
  BY <1>10, <1>11, <1>15
<1> QED BY <1>13, <1>16, <1>17, <1>18 DEF Lands, p

\* Where an offset is that the stream has: in a partition that is not before i,
\* nor before any pack at or before the place, and a pack is behind that.
LEMMA PlaceFound ==
    ASSUME NEW f, Sound(f), NEW s, s # 0, NEW i \in DOMAIN f, PackOf(f, i, s),
           NEW want \in Nat, f[i].offset <= want,
           NEW j \in DOMAIN f, EssenceIn(f, j), f[j].sid = s, OffsetIn(f, j) = want
    PROVE  /\ \E k \in DOMAIN f : Pack(f, k) /\ f[k].at > Place(f, i, want)
           /\ \E k \in DOMAIN f :
                 /\ PackOf(f, k, s) /\ i <= k
                 /\ \A h \in DOMAIN f : Pack(f, h) /\ f[h].at <= Place(f, i, want) => h <= k
<1> DEFINE p == Place(f, i, want)
<1>1. f[i].type = "pack" /\ f[i].sid = s
  BY DEF PackOf, Pack
<1>2. PICK q \in DOMAIN f :
         /\ InPartition(f, q, j) /\ f[q].type = "pack" /\ f[q].sid = s /\ q < j
         /\ f[j].at - HeadEnd(f, q) = want - f[q].offset
  BY Home
<1>3. PICK n \in DOMAIN f : f[n].type = "pack" /\ q < n /\ \A k \in (q + 1) .. (n - 1) : f[k].type # "pack"
  BY <1>1, <1>2, Followed
<1>4. PICK e \in DOMAIN f : Begins(f, i, e)
  BY <1>1, Beginning
<1>5. InPartition(f, i, e) /\ f[i].offset = Bytes(f, s, e) /\ i < e
  BY <1>1, <1>4, PackOffset
<1>6. /\ i \in Nat /\ j \in Nat /\ q \in Nat /\ n \in Nat /\ e \in Nat /\ j >= 1
      /\ f[j].at \in Nat /\ f[n].at \in Nat /\ f[q].offset \in Nat /\ f[i].offset \in Nat
  BY ItemType
<1>7. i <= q
  <2>1. SUFFICES ASSUME q < i PROVE FALSE
    BY <1>6
  <2>2. j < e
    <3>1. ~(i <= j)
      BY <1>1, <1>2, <1>6, <2>1, NoPackBetween
    <3> QED BY <1>5, <1>6, <3>1
  <2>3. Bytes(f, s, j) + 2 <= Bytes(f, s, e)
    BY <1>6, <2>2, BytesBehind
  <2>4. OffsetIn(f, j) = Bytes(f, s, j)
    BY OffsetIs
  <2> QED BY <1>5, <1>6, <2>3, <2>4
<1>8. p <= f[j].at
  <2>1. HeadEnd(f, i) - f[i].offset <= HeadEnd(f, q) - f[q].offset
    <3>1. CASE i = q
      <4>1. HeadEnd(f, i) \in Nat
        BY HeadType
      <4> QED BY <1>6, <3>1, <4>1
    <3>2. CASE i # q
      <4>1. i < q
        BY <1>6, <1>7, <3>2
      <4>2. PackOf(f, q, s)
        BY <1>2 DEF PackOf, Pack
      <4>3. HeadEnd(f, i) - f[i].offset < HeadEnd(f, q) - f[q].offset
        BY <4>1, <4>2, PacksApart
      <4>4. HeadEnd(f, i) \in Nat /\ HeadEnd(f, q) \in Nat
        BY HeadType
      <4> QED BY <1>6, <4>3, <4>4
    <3> QED BY <3>1, <3>2
  <2>2. HeadEnd(f, i) \in Nat /\ HeadEnd(f, q) \in Nat
    BY HeadType
  <2> QED BY <1>2, <1>6, <2>1, <2>2 DEF Place
<1>9. j < n
  <2>1. ~(n <= j)
    BY <1>2, <1>3, <1>6, NoPackBetween
  <2> QED BY <1>6, <2>1
<1>10. p \in Nat
  BY PlaceType
<1> HIDE DEF p
<1>11. f[n].at > p
  <2>1. f[j].at < f[n].at
    BY <1>9, Rising
  <2> QED BY <1>6, <1>8, <1>10, <2>1
<1>12. ASSUME NEW h \in DOMAIN f, Pack(f, h), f[h].at <= p PROVE h <= q
  <2>1. h \in Nat /\ f[h].at \in Nat
    BY ItemType
  <2>2. f[h].at <= f[j].at
    BY <1>6, <1>8, <1>10, <1>12, <2>1
  <2>3. h <= j
    BY <2>2, Rising
  <2>4. ~(q < h)
    BY <1>2, <1>6, <1>12, <2>1, <2>3, NoPackBetween DEF Pack
  <2> QED BY <1>6, <2>1, <2>4
<1>13. PackOf(f, q, s) /\ Pack(f, n)
  BY <1>2, <1>3 DEF PackOf, Pack
<1> QED BY <1>7, <1>11, <1>12, <1>13 DEF p

\* From the next partition of the stream behind the place the search goes on:
\* it is not behind the offset, and its place is a later one.
LEMMA PlaceLater ==
    ASSUME NEW f, Sound(f), NEW s, s # 0, NEW i \in DOMAIN f, PackOf(f, i, s),
           NEW want \in Nat, f[i].offset <= want,
           NEW h \in DOMAIN f, Pack(f, h), i < h, f[h].at <= Place(f, i, want),
           NEW k \in DOMAIN f, PackOf(f, k, s), h <= k, \A j \in h .. (k - 1) : ~PackOf(f, j, s)
    PROVE  f[k].offset <= want /\ Place(f, i, want) < Place(f, k, want)
<1>1. f[i].type = "pack" /\ f[i].sid = s /\ f[h].type = "pack"
  BY DEF PackOf, Pack
<1>2. PICK e \in DOMAIN f : Begins(f, i, e)
  BY <1>1, Beginning
<1>3. InPartition(f, i, e) /\ f[e].at = HeadEnd(f, i) /\ f[i].offset = Bytes(f, s, e) /\ i < e
  BY <1>1, <1>2, PackOffset
<1>4. /\ i \in Nat /\ h \in Nat /\ k \in Nat /\ e \in Nat
      /\ f[h].at \in Nat /\ f[e].at \in Nat /\ f[k].offset \in Nat /\ f[i].offset \in Nat
  BY ItemType
<1>5. e <= h
  <2>1. ~(h <= e)
    BY <1>1, <1>3, <1>4, NoPackBetween
  <2> QED BY <1>4, <2>1
<1>6. f[k].offset = Bytes(f, s, h)
  BY OffsetThere
<1>7. Bytes(f, s, h) - Bytes(f, s, e) <= f[h].at - f[e].at
  BY <1>5, Spread
<1>8. Bytes(f, s, h) \in Nat /\ Bytes(f, s, e) \in Nat
  BY <1>4, BytesType
<1>9. Place(f, i, want) = f[e].at + (want - Bytes(f, s, e))
  BY <1>3 DEF Place
<1>10. f[k].offset <= want
  BY <1>4, <1>6, <1>7, <1>8, <1>9
<1>11. i < k
  BY <1>4
<1>12. HeadEnd(f, i) - f[i].offset < HeadEnd(f, k) - f[k].offset
  BY <1>11, PacksApart
<1>13. HeadEnd(f, i) \in Nat /\ HeadEnd(f, k) \in Nat
  BY <1>10, PlaceType
<1>14. Place(f, i, want) < Place(f, k, want)
  BY <1>4, <1>12, <1>13 DEF Place
<1> QED BY <1>10, <1>14

-----------------------------------------------------------------------------
(***************************************************************************)
(* 5. What has been read.                                                  *)
(***************************************************************************)
\* The partition of essence, if one of the packs before it is not before from.
LEMMA HomeBehind ==
    ASSUME NEW f, Sound(f), NEW i \in DOMAIN f, EssenceIn(f, i), NEW from \in Nat,
           NEW k \in DOMAIN f, k < i, f[k].type = "pack", f[k].at >= from
    PROVE  \E q \in DOMAIN f :
              /\ InPartition(f, q, i) /\ f[q].type = "pack" /\ f[q].sid = f[i].sid /\ q < i
              /\ f[i].at >= HeadEnd(f, q) /\ f[q].at >= from
<1>1. PICK q \in DOMAIN f :
         InPartition(f, q, i) /\ f[q].type = "pack" /\ f[q].sid = f[i].sid /\ q < i /\ f[i].at >= HeadEnd(f, q)
  BY Home
<1>2. k \in Nat /\ q \in Nat /\ i \in Nat /\ f[k].at \in Nat /\ f[q].at \in Nat
  BY ItemType
<1>3. k <= q
  <2>1. ~(q < k)
    BY <1>1, <1>2, NoPackBetween
  <2> QED BY <1>2, <2>1
<1>4. f[k].at <= f[q].at
  BY <1>3, Rising
<1> QED BY <1>1, <1>2, <1>4

\* Where there is no pack nothing is missed.
LEMMA SkipCovers ==
    ASSUME NEW f, Sound(f), NEW seen, NEW from \in Nat, NEW sids \in SUBSET (Nat \ {0}),
           NEW p \in Nat, NEW q \in Nat, p <= q,
           \A k \in DOMAIN f : ~(f[k].type = "pack" /\ f[k].at >= p /\ f[k].at < q),
           Covered(f, seen, from, p, sids), ResumeAt(f, from, p, sids)
    PROVE  Covered(f, seen, from, q, sids) /\ ResumeAt(f, from, q, sids)
<1>1. ASSUME NEW i \in DOMAIN f, f[i].type = "klv", f[i].sid \in sids, f[i].at < q,
             NEW k \in DOMAIN f, k < i, f[k].type = "pack", f[k].at >= from
      PROVE  \E n \in DOMAIN seen : seen[n].at = f[i].at
  <2>1. f[i].at \in Nat
    BY ItemType
  <2>2. CASE f[i].at < p
    BY <1>1, <2>2 DEF Covered
  <2>3. CASE f[i].at >= p
    <3>1. EssenceIn(f, i)
      BY <1>1 DEF EssenceIn
    <3>2. PICK h \in DOMAIN f : InPartition(f, h, i) /\ f[h].type = "pack" /\ h < i /\ f[h].at >= from
      BY <1>1, <3>1, HomeBehind
    <3>3. f[h].at >= p
      BY <1>1, <2>3, <3>2 DEF ResumeAt
    <3>4. f[h].at < f[i].at
      BY <3>2, Rising
    <3>5. f[h].at \in Nat
      BY ItemType
    <3> QED BY <1>1, <2>1, <3>2, <3>3, <3>4, <3>5
  <2> QED BY <2>1, <2>2, <2>3
<1>2. ASSUME NEW k \in DOMAIN f, NEW i \in DOMAIN f, InPartition(f, k, i), f[i].type = "klv", f[i].sid \in sids,
             f[k].at >= from, f[i].at >= q
      PROVE  f[k].at >= q
  <2>1. f[i].at \in Nat /\ f[k].at \in Nat
    BY ItemType
  <2>2. f[i].at >= p
    BY <1>2, <2>1
  <2>3. f[k].at >= p
    BY <1>2, <2>2 DEF ResumeAt
  <2>4. f[k].type = "pack"
    BY <1>2 DEF InPartition
  <2> QED BY <2>1, <2>3, <2>4
<1>3. Covered(f, seen, from, q, sids)
  BY <1>1 DEF Covered
<1>4. ResumeAt(f, from, q, sids)
  BY <1>2 DEF ResumeAt
<1> QED BY <1>3, <1>4

\* At a pack a partition begins.
LEMMA ResumeAtPack ==
    ASSUME NEW f, Sound(f), NEW from, NEW sids, NEW n \in DOMAIN f, f[n].type = "pack"
    PROVE  ResumeAt(f, from, f[n].at, sids)
<1>1. ASSUME NEW k \in DOMAIN f, NEW i \in DOMAIN f, InPartition(f, k, i), f[i].at >= f[n].at
      PROVE  f[k].at >= f[n].at
  <2>1. k \in Nat /\ i \in Nat /\ n \in Nat /\ f[k].at \in Nat /\ f[i].at \in Nat /\ f[n].at \in Nat
    BY ItemType
  <2>2. n <= i
    BY <1>1, <2>1, Rising
  <2>3. ~(k < n)
    BY <1>1, <2>1, <2>2, NoPackBetween
  <2>4. ~(f[k].at < f[n].at)
    BY <2>3, Rising
  <2> QED BY <2>1, <2>4
<1> QED BY <1>1 DEF ResumeAt

\* At the end there is nothing.
LEMMA ResumeAtEnd ==
    ASSUME NEW f, Sound(f), NEW from, NEW sids, NEW p \in Nat, p >= EndIn(f)
    PROVE  ResumeAt(f, from, p, sids)
<1>1. ASSUME NEW i \in DOMAIN f PROVE ~(f[i].at >= p)
  <2>1. EndIn(f) \in Nat /\ f[i].at < EndIn(f) /\ f[i].at \in Nat
    BY BeforeEnd, ItemType
  <2> QED BY <2>1
<1> QED BY <1>1 DEF ResumeAt

\* Between a pack and the essence behind it nothing is missed, nor in the
\* partition of a stream that nobody reads.
LEMMA HeadCovers ==
    ASSUME NEW f, Sound(f), NEW seen, NEW from \in Nat, NEW sids \in SUBSET (Nat \ {0}),
           NEW n \in DOMAIN f, f[n].type = "pack", Covered(f, seen, from, f[n].at, sids),
           NEW p \in Nat, f[n].at < p, \A k \in DOMAIN f : f[k].type = "pack" /\ n < k => p <= f[k].at,
           f[n].sid \notin sids \/ p = HeadEnd(f, n)
    PROVE  Covered(f, seen, from, p, sids)
<1>1. ASSUME NEW i \in DOMAIN f, f[i].type = "klv", f[i].sid \in sids, f[i].at < p,
             NEW k \in DOMAIN f, k < i, f[k].type = "pack", f[k].at >= from
      PROVE  \E m \in DOMAIN seen : seen[m].at = f[i].at
  <2>1. f[i].at \in Nat /\ f[n].at \in Nat /\ i \in Nat /\ n \in Nat
    BY ItemType
  <2>2. CASE f[i].at < f[n].at
    BY <1>1, <2>2 DEF Covered
  <2>3. CASE f[i].at >= f[n].at
    <3>1. EssenceIn(f, i)
      BY <1>1 DEF EssenceIn
    <3>2. PICK h \in DOMAIN f :
             InPartition(f, h, i) /\ f[h].type = "pack" /\ f[h].sid = f[i].sid /\ h < i /\ f[i].at >= HeadEnd(f, h)
      BY <1>1, <3>1, HomeBehind
    <3>3. h \in Nat /\ f[h].at \in Nat
      BY ItemType
    <3>4. n <= i
      BY <2>1, <2>3, Rising
    <3>5. CASE h < n
      BY <2>1, <3>2, <3>3, <3>4, <3>5, NoPackBetween
    <3>6. CASE h = n
      <4>1. p = HeadEnd(f, n)
        BY <1>1, <3>2, <3>6
      <4>2. f[i].at >= p
        BY <3>2, <3>6, <4>1
      <4> QED BY <1>1, <2>1, <4>2
    <3>7. CASE n < h
      <4>1. p <= f[h].at
        BY <3>2, <3>7
      <4>2. f[h].at < f[i].at
        BY <3>2, Rising
      <4> QED BY <1>1, <2>1, <3>3, <4>1, <4>2
    <3> QED BY <2>1, <3>3, <3>5, <3>6, <3>7
  <2> QED BY <2>1, <2>2, <2>3
<1> QED BY <1>1 DEF Covered

\* Behind the pack of a stream that nobody reads, nothing is left of it.
LEMMA ResumeInside ==
    ASSUME NEW f, Sound(f), NEW from, NEW sids \in SUBSET (Nat \ {0}),
           NEW n \in DOMAIN f, f[n].type = "pack", f[n].sid \notin sids,
           NEW p \in Nat, f[n].at < p, \A k \in DOMAIN f : f[k].type = "pack" /\ n < k => p <= f[k].at
    PROVE  ResumeAt(f, from, p, sids)
<1>1. ASSUME NEW k \in DOMAIN f, NEW i \in DOMAIN f, InPartition(f, k, i), f[i].type = "klv", f[i].sid \in sids,
             f[i].at >= p
      PROVE  f[k].at >= p
  <2>1. /\ k \in Nat /\ i \in Nat /\ n \in Nat /\ f[k].at \in Nat /\ f[i].at \in Nat /\ f[n].at \in Nat
        /\ f[k].type = "pack"
    BY <1>1, ItemType DEF InPartition
  <2>2. n <= i
    BY <1>1, <2>1, Rising
  <2>3. ~(k < n)
    BY <1>1, <2>1, <2>2, NoPackBetween
  <2>4. k # n
    <3>1. EssenceIn(f, i)
      BY <1>1 DEF EssenceIn
    <3>2. PICK h \in DOMAIN f : InPartition(f, h, i) /\ f[h].sid = f[i].sid
      BY <3>1, Home
    <3>3. h = k
      BY <1>1, <2>1, <3>2, OnePartition, ItemType
    <3> QED BY <1>1, <3>2, <3>3
  <2>5. n < k
    BY <2>1, <2>3, <2>4
  <2> QED BY <2>1, <2>5
<1> QED BY <1>1 DEF ResumeAt

\* Behind a KLV the next one of the partition follows, or a pack, or the end.
LEMMA NextItem ==
    ASSUME NEW f, Sound(f), NEW j \in DOMAIN f, EssenceIn(f, j), NEW r,
           r.file = f[j].at + 2, r.stream = OffsetIn(f, j) + 2
    PROVE  ReaderAt(f, r, f[j].sid)
<1> DEFINE s == f[j].sid
<1>1. SizeOf(f[j]) = 2
  BY DEF EssenceIn, SizeOf
<1>2. j \in Nat /\ j >= 1 /\ j <= Len(f) /\ Len(f) \in Nat /\ DOMAIN f = 1 .. Len(f)
  BY ItemType, ItemNumbers
<1>3. CASE j = Len(f)
  <2>1. r.file = EndIn(f)
    BY <1>1, <1>3, BeforeEnd
  <2> QED BY <2>1 DEF ReaderAt
<1>4. CASE j # Len(f)
  <2>1. j + 1 \in DOMAIN f /\ j + 1 \in Nat
    BY <1>2, <1>4
  <2>2. f[j + 1].at = r.file
    BY <1>1, <2>1, NextAt
  <2>3. CASE f[j + 1].type = "pack"
    BY <2>1, <2>2, <2>3 DEF ReaderAt
  <2>4. CASE f[j + 1].type # "pack"
    <3>1. PICK i \in DOMAIN f :
             /\ InPartition(f, i, j) /\ f[i].type = "pack" /\ f[i].sid = s /\ i < j
             /\ \E e \in DOMAIN f : Begins(f, i, e) /\ e <= j
      BY Home
    <3>2. PICK e \in DOMAIN f : Begins(f, i, e) /\ e <= j
      BY <3>1
    <3>3. i \in Nat /\ e \in Nat
      BY ItemType
    <3>4. InPartition(f, i, j + 1)
      <4>1. ASSUME NEW k \in (i + 1) .. (j + 1) PROVE f[k].type # "pack"
        <5>1. CASE k = j + 1
          BY <2>4, <5>1
        <5>2. CASE k # j + 1
          <6>1. k \in (i + 1) .. j
            BY <1>2, <3>3, <5>2
          <6> QED BY <3>1, <6>1 DEF InPartition
        <5> QED BY <5>1, <5>2
      <4>2. i < j + 1
        BY <1>2, <3>1, <3>3
      <4> QED BY <3>1, <4>1, <4>2 DEF InPartition
    <3>5. j + 1 \in e .. Len(f)
      BY <1>2, <2>1, <3>2, <3>3
    <3>6. EssenceIn(f, j + 1) /\ f[j + 1].sid = s
      BY <3>1, <3>2, <3>4, <3>5 DEF Begins
    <3>7. OffsetIn(f, j + 1) = OffsetIn(f, j) + 2
      <4>1. OffsetIn(f, j + 1) = Bytes(f, s, j + 1) /\ OffsetIn(f, j) = Bytes(f, s, j)
        BY <3>6, OffsetIs
      <4>2. Bytes(f, s, j + 1) = Bytes(f, s, j) + 2
        BY <1>2, BytesStep
      <4> QED BY <4>1, <4>2
    <3> QED BY <2>1, <2>2, <3>6, <3>7 DEF ReaderAt
  <2> QED BY <2>3, <2>4
<1> QED BY <1>3, <1>4

\* Having handled a KLV, or passed one that is none, a reader has covered what
\* is before the next item.
LEMMA PassCovers ==
    ASSUME NEW f, Sound(f), NEW seen, NEW more, NEW from, NEW sids, NEW j \in DOMAIN f, SizeOf(f[j]) = 2,
           Covered(f, seen, from, f[j].at, sids),
           \A n \in DOMAIN seen : \E m \in DOMAIN more : more[m].at = seen[n].at,
           f[j].type = "klv" => \E m \in DOMAIN more : more[m].at = f[j].at
    PROVE  Covered(f, more, from, f[j].at + 2, sids)
<1>1. ASSUME NEW i \in DOMAIN f, f[i].type = "klv", f[i].sid \in sids, f[i].at < f[j].at + 2,
             \E k \in DOMAIN f : k < i /\ f[k].type = "pack" /\ f[k].at >= from
      PROVE  \E m \in DOMAIN more : more[m].at = f[i].at
  <2>1. f[i].at \in Nat /\ f[j].at \in Nat /\ i \in Nat /\ j \in Nat
    BY ItemType
  <2>2. CASE f[i].at < f[j].at
    <3>1. \E n \in DOMAIN seen : seen[n].at = f[i].at
      BY <1>1, <2>2 DEF Covered
    <3> QED BY <3>1
  <2>3. CASE f[i].at >= f[j].at
    <3>1. ~(j < i)
      BY <1>1, <2>1, Spaced
    <3>2. i = j
      BY <2>1, <2>3, <3>1, Rising
    <3> QED BY <1>1, <3>2
  <2> QED BY <2>1, <2>2, <2>3
<1> QED BY <1>1 DEF Covered

\* What a handler got was somewhere.
LEMMA SeenType ==
    ASSUME NEW seen \in Seq(AnySeen), NEW n \in DOMAIN seen
    PROVE  seen[n].at \in Nat
<1>1. seen[n] \in AnySeen
  OBVIOUS
<1> QED BY <1>1 DEF AnySeen

\* A handler gets another KLV.
LEMMA LogGrows ==
    ASSUME NEW f, Sound(f), NEW seen \in Seq(AnySeen), NEW j \in DOMAIN f, EssenceIn(f, j), NEW klv \in AnySeen,
           klv.at = f[j].at, klv.stream = OffsetIn(f, j), klv.sid = f[j].sid,
           SeenTrue(f, seen), Ordered(seen), Below(seen, f[j].at)
    PROVE  LET more == Append(seen, klv)
           IN /\ more \in Seq(AnySeen)
              /\ SeenTrue(f, more) /\ Ordered(more) /\ Below(more, f[j].at + 2)
              /\ \A n \in DOMAIN seen : \E m \in DOMAIN more : more[m].at = seen[n].at
              /\ \E m \in DOMAIN more : more[m].at = f[j].at
<1> DEFINE more == Append(seen, klv)
           l == Len(seen)
<1>1. /\ l \in Nat /\ DOMAIN seen = 1 .. l /\ DOMAIN more = 1 .. (l + 1)
      /\ more[l + 1] = klv /\ \A n \in 1 .. l : more[n] = seen[n]
      /\ more \in Seq(AnySeen)
  OBVIOUS
<1>2. f[j].at \in Nat
  BY ItemType
<1>3. \A n \in DOMAIN seen : seen[n].at \in Nat
  BY SeenType
<1> HIDE DEF more, l
<1>4. ASSUME NEW n \in DOMAIN more PROVE n = l + 1 \/ n \in DOMAIN seen
  BY <1>1
<1>5. SeenTrue(f, more)
  <2>1. ASSUME NEW n \in DOMAIN more
        PROVE  \E i \in DOMAIN f :
                  f[i].at = more[n].at /\ EssenceIn(f, i) /\ f[i].sid = more[n].sid /\ more[n].stream = OffsetIn(f, i)
    <3>1. CASE n = l + 1
      BY <1>1, <3>1
    <3>2. CASE n \in DOMAIN seen
      <4>1. more[n] = seen[n]
        BY <1>1, <3>2
      <4> QED BY <3>2, <4>1 DEF SeenTrue
    <3> QED BY <1>4, <3>1, <3>2
  <2> QED BY <2>1 DEF SeenTrue
<1>6. Ordered(more)
  <2>1. ASSUME NEW m \in DOMAIN more, NEW n \in DOMAIN more, m < n PROVE more[m].at < more[n].at
    <3>1. m \in DOMAIN seen /\ more[m] = seen[m]
      BY <1>1, <2>1
    <3>2. CASE n = l + 1
      <4>1. seen[m].at < f[j].at
        BY <3>1 DEF Below
      <4> QED BY <1>1, <3>1, <3>2, <4>1
    <3>3. CASE n \in DOMAIN seen
      <4>1. more[n] = seen[n]
        BY <1>1, <3>3
      <4> QED BY <2>1, <3>1, <3>3, <4>1 DEF Ordered
    <3> QED BY <1>4, <3>2, <3>3
  <2> QED BY <2>1 DEF Ordered
<1>7. Below(more, f[j].at + 2)
  <2>1. ASSUME NEW n \in DOMAIN more PROVE more[n].at < f[j].at + 2
    <3>1. CASE n = l + 1
      BY <1>1, <1>2, <3>1
    <3>2. CASE n \in DOMAIN seen
      <4>1. more[n] = seen[n]
        BY <1>1, <3>2
      <4>2. seen[n].at < f[j].at
        BY <3>2 DEF Below
      <4> QED BY <1>2, <1>3, <3>2, <4>1, <4>2
    <3> QED BY <1>4, <3>1, <3>2
  <2> QED BY <2>1 DEF Below
<1>8. \A n \in DOMAIN seen : \E m \in DOMAIN more : more[m].at = seen[n].at
  <2>1. ASSUME NEW n \in DOMAIN seen PROVE \E m \in DOMAIN more : more[m].at = seen[n].at
    <3>1. n \in DOMAIN more /\ more[n] = seen[n]
      BY <1>1
    <3> QED BY <3>1
  <2> QED BY <2>1
<1>9. \E m \in DOMAIN more : more[m].at = f[j].at
  <2>1. l + 1 \in DOMAIN more
    BY <1>1
  <2> QED BY <1>1, <2>1
<1> QED BY <1>1, <1>5, <1>6, <1>7, <1>8, <1>9 DEF more

\* Reading on does not bring back what was seen.
LEMMA BelowMore ==
    ASSUME NEW seen \in Seq(AnySeen), NEW p \in Nat, NEW q \in Nat, p <= q, Below(seen, p)
    PROVE  Below(seen, q)
<1>1. \A n \in DOMAIN seen : seen[n].at \in Nat
  BY SeenType
<1> QED BY <1>1 DEF Below

-----------------------------------------------------------------------------
(***************************************************************************)
(* 6. Looking for packs.                                                   *)
(***************************************************************************)
\* The first item of some types is the first of them, if there is one.
LEMMA FirstFromIs ==
    ASSUME Sound(file), NEW p \in Nat, NEW types
    PROVE  /\ FirstFrom(p, types) \in Nat
           /\ FirstFrom(p, types) = FileEnd \/ FirstFrom(p, types) >= p
           /\ FirstFrom(p, types) <= FileEnd
           /\ \A j \in Items : file[j].at >= p /\ file[j].type \in types => FirstFrom(p, types) <= file[j].at
<1> DEFINE S == {i \in Items : file[i].at >= p /\ file[i].type \in types}
           q == FirstFrom(p, types)
<1>1. FileEnd = EndIn(file) /\ FileEnd \in Nat
  <2>1. Len(file) \in DOMAIN file
    BY ItemNumbers
  <2>2. EndIn(file) \in Nat
    BY <2>1, BeforeEnd
  <2> QED BY <2>2 DEF FileEnd, EndIn
<1>2. CASE S = {}
  <2>1. ~\E i \in Items : file[i].at >= p /\ file[i].type \in types
    BY <1>2
  <2>2. q = FileEnd
    BY <2>1 DEF FirstFrom
  <2> QED BY <1>1, <2>1, <2>2
<1>3. CASE S # {}
  <2>1. \E i \in Items : file[i].at >= p /\ file[i].type \in types
    BY <1>3
  <2>2. S \in SUBSET Nat
    BY ItemNumbers DEF Items
  <2>3. PICK m \in S : \A k \in S : m <= k
    BY <1>3, <2>2, Least
  <2>4. Items = 1 .. Len(file) /\ Len(file) \in Nat
    BY ItemNumbers DEF Items
  <2> DEFINE First(i) == /\ file[i].at >= p /\ file[i].type \in types
                         /\ \A j \in 1 .. (i - 1) : file[j].at < p \/ file[j].type \notin types
             i == CHOOSE i \in Items : First(i)
  <2>5. First(m)
    <3>1. ASSUME NEW j \in 1 .. (m - 1) PROVE file[j].at < p \/ file[j].type \notin types
      <4>1. m \in 1 .. Len(file)
        BY <2>4
      <4>2. j \in Items /\ ~(m <= j)
        BY <2>4, <4>1
      <4>3. j \notin S
        BY <2>3, <4>2
      <4>4. file[j].at \in Nat
        BY <4>2, ItemType DEF Items
      <4> QED BY <4>2, <4>3, <4>4
    <3> QED BY <3>1
  <2>6. i \in Items /\ First(i)
    <3> HIDE DEF First
    <3> QED BY <2>5
  <2>7. q = file[i].at
    BY <2>1 DEF FirstFrom
  <2> HIDE DEF i
  <2>8. q \in Nat /\ q <= FileEnd /\ q >= p
    <3>1. file[i].at \in Nat /\ file[i].at < EndIn(file) /\ EndIn(file) \in Nat
      BY <2>6, ItemType, BeforeEnd DEF Items
    <3> QED BY <1>1, <2>6, <2>7, <3>1
  <2>9. ASSUME NEW j \in Items, file[j].at >= p, file[j].type \in types PROVE q <= file[j].at
    <3>1. i \in Nat /\ j \in Nat /\ j >= 1 /\ file[j].at \in Nat /\ i \in DOMAIN file /\ j \in DOMAIN file
      BY <2>6, ItemType DEF Items
    <3>2. ~(j < i)
      <4>1. ASSUME j < i PROVE FALSE
        <5>1. j \in 1 .. (i - 1)
          BY <3>1, <4>1
        <5> QED BY <2>6, <2>9, <3>1, <5>1
      <4> QED BY <4>1
    <3>3. i <= j
      BY <3>1, <3>2
    <3>4. file[i].at <= file[j].at
      BY <3>1, <3>3, Rising
    <3> QED BY <2>7, <3>4
  <2> HIDE DEF q
  <2> QED BY <2>8, <2>9 DEF q
<1> QED BY <1>2, <1>3

\* Where a file ends.
LEMMA FileEndIs ==
    ASSUME Sound(file)
    PROVE  FileEnd = EndIn(file) /\ FileEnd \in Nat /\ \A i \in Items : file[i].at < FileEnd
<1>1. Len(file) \in DOMAIN file
  BY ItemNumbers
<1>2. EndIn(file) \in Nat
  BY <1>1, BeforeEnd
<1>3. FileEnd = EndIn(file)
  BY DEF FileEnd, EndIn
<1>4. \A i \in DOMAIN file : file[i].at < EndIn(file)
  BY BeforeEnd
<1> QED BY <1>2, <1>3, <1>4 DEF Items

\* Skipping KLVs goes forward, and over no pack.
LEMMA SkipIs ==
    ASSUME Sound(file), NEW p \in Nat
    PROVE  /\ SkipKLVs(p) \in Nat /\ p <= SkipKLVs(p)
           /\ \A k \in Items : ~(file[k].type = "pack" /\ file[k].at >= p /\ file[k].at < SkipKLVs(p))
<1>1. \A k \in Items : file[k].at \in Nat
  BY ItemType DEF Items
<1>2. CASE IsKey(p)
  <2> DEFINE q == FirstFrom(p, {"pack", "junk"})
  <2>1. /\ q \in Nat /\ (q = FileEnd \/ q >= p)
        /\ \A j \in Items : file[j].at >= p /\ file[j].type \in {"pack", "junk"} => q <= file[j].at
    BY FirstFromIs
  <2>2. SkipKLVs(p) = q
    BY <1>2 DEF SkipKLVs
  <2>3. PICK i \in Items : file[i].at = p
    BY <1>2 DEF IsKey
  <2>4. p < FileEnd /\ FileEnd \in Nat
    BY <2>3, FileEndIs
  <2> HIDE DEF q
  <2>5. p <= q
    BY <2>1, <2>4
  <2>6. ASSUME NEW k \in Items, file[k].type = "pack", file[k].at >= p, file[k].at < q PROVE FALSE
    <3>1. q <= file[k].at
      BY <2>1, <2>6
    <3> QED BY <1>1, <2>1, <2>6, <3>1
  <2> QED BY <2>1, <2>2, <2>5, <2>6
<1>3. CASE ~IsKey(p)
  <2>1. SkipKLVs(p) = p
    BY <1>3 DEF SkipKLVs
  <2> QED BY <1>1, <2>1
<1> QED BY <1>2, <1>3

\* So does scanning bytes from something else on.
LEMMA ScanIs ==
    ASSUME Sound(file), NEW p \in Nat, CanReadKey(p), ~IsPartitionKey(p)
    PROVE  /\ ScanBytes(p).ok \in BOOLEAN /\ ScanBytes(p).pos \in Nat /\ p <= ScanBytes(p).pos
           /\ \A k \in Items : ~(file[k].type = "pack" /\ file[k].at >= p /\ file[k].at < ScanBytes(p).pos)
<1> DEFINE q == FirstFrom(p + 1, {"pack"})
           s == ScanBytes(p)
<1>1. p + 1 \in Nat
  OBVIOUS
<1>2. /\ q \in Nat /\ (q = FileEnd \/ q >= p + 1)
      /\ \A j \in Items : file[j].at >= p + 1 /\ file[j].type \in {"pack"} => q <= file[j].at
  BY <1>1, FirstFromIs
<1>3. FileEnd \in Nat /\ p < FileEnd
  BY FileEndIs DEF CanReadKey
<1>4. s = IF q = FileEnd THEN [ok |-> FALSE, pos |-> q] ELSE [ok |-> TRUE, pos |-> q - 1]
  BY DEF ScanBytes
<1>5. s.ok \in BOOLEAN /\ (s.pos = q \/ s.pos = q - 1)
  BY <1>4
<1>6. q >= p + 1
  BY <1>2, <1>3
<1> HIDE DEF q, s
<1>7. s.pos \in Nat /\ p <= s.pos /\ s.pos <= q
  BY <1>2, <1>5, <1>6
<1>8. ASSUME NEW k \in Items, file[k].type = "pack", file[k].at >= p, file[k].at < s.pos PROVE FALSE
  <2>1. file[k].at \in Nat
    BY ItemType DEF Items
  <2>2. file[k].at # p
    BY <1>8 DEF IsPartitionKey, IsA
  <2>3. file[k].at >= p + 1
    BY <1>8, <2>1, <2>2
  <2>4. q <= file[k].at
    BY <1>2, <1>8, <2>3
  <2> QED BY <1>2, <1>7, <1>8, <2>1, <2>4
<1> QED BY <1>5, <1>7, <1>8 DEF s

\* What ReSync does to a BodyReader that is to start anew.
Resynced(f, b, r) ==
    /\ r.ok \in BOOLEAN /\ r.body \in AnyBody /\ r.body.new /\ r.body.sid = b.sid
    /\ r.body.pos \in Nat /\ b.pos <= r.body.pos
    /\ \A k \in DOMAIN f : ~(f[k].type = "pack" /\ f[k].at >= b.pos /\ f[k].at < r.body.pos)

\* It goes forward, and over no pack.
LEMMA ReSyncIs ==
    ASSUME Sound(file), NEW b \in AnyBody, b.new
    PROVE  Resynced(file, b, ReSyncOf(b))
<1> DEFINE p == SkipKLVs(b.pos)
           r == ReSyncOf(b)
           s == IF IsPartitionKey(p) THEN [ok |-> TRUE, pos |-> p] ELSE ScanBytes(p)
<1>1. b.pos \in Nat /\ b.sid \in Nat /\ \A k \in Items : file[k].at \in Nat
  BY ItemType DEF AnyBody, Items
<1>2. /\ p \in Nat /\ b.pos <= p
      /\ \A k \in Items : ~(file[k].type = "pack" /\ file[k].at >= b.pos /\ file[k].at < p)
  BY <1>1, SkipIs
<1>3. CASE b.atPartition \/ (CanReadKey(b.pos) /\ IsPartitionKey(b.pos))
  <2>1. r = [ok |-> TRUE, body |-> b]
    BY <1>3 DEF ReSyncOf
  <2>2. r.ok = TRUE /\ r.body = b
    BY <2>1
  <2> HIDE DEF r
  <2>3. r.ok \in BOOLEAN /\ r.body \in AnyBody /\ r.body.new /\ r.body.sid = b.sid /\ r.body.pos = b.pos
    BY <2>2
  <2> QED BY <1>1, <2>3 DEF Resynced, r, Items
<1>4. CASE ~(b.atPartition \/ (CanReadKey(b.pos) /\ IsPartitionKey(b.pos))) /\ ~CanReadKey(p)
  <2>1. r = [ok |-> FALSE, body |-> [b EXCEPT !.pos = p, !.atEof = TRUE]]
    BY <1>4 DEF ReSyncOf
  <2> HIDE DEF p
  <2>2. r.ok = FALSE /\ r.body = [b EXCEPT !.pos = p, !.atEof = TRUE]
    BY <2>1
  <2> HIDE DEF r
  <2>3. r.body \in AnyBody /\ r.body.new = b.new /\ r.body.sid = b.sid /\ r.body.pos = p
    BY <1>2, <2>2 DEF AnyBody
  <2> QED BY <1>2, <2>2, <2>3 DEF Resynced, r, Items
<1>5. CASE ~(b.atPartition \/ (CanReadKey(b.pos) /\ IsPartitionKey(b.pos))) /\ CanReadKey(p)
  <2>1. /\ s.ok \in BOOLEAN /\ s.pos \in Nat /\ p <= s.pos
        /\ \A k \in Items : ~(file[k].type = "pack" /\ file[k].at >= p /\ file[k].at < s.pos)
    <3>1. CASE IsPartitionKey(p)
      <4>1. s = [ok |-> TRUE, pos |-> p]
        BY <3>1
      <4>2. s.ok = TRUE /\ s.pos = p
        BY <4>1
      <4> HIDE DEF s, p
      <4>3. ASSUME NEW k \in Items PROVE ~(file[k].type = "pack" /\ file[k].at >= p /\ file[k].at < s.pos)
        <5>1. file[k].at \in Nat
          BY <1>1
        <5> QED BY <1>2, <4>2, <5>1
      <4>4. s.ok \in BOOLEAN
        BY <4>2, Zenon
      <4>5. p \in Nat
        BY <1>2
      <4>6. s.pos \in Nat /\ p <= s.pos
        BY <4>2, <4>5
      <4> QED BY <4>3, <4>4, <4>6
    <3>2. CASE ~IsPartitionKey(p)
      <4>1. s = ScanBytes(p)
        BY <3>2
      <4> HIDE DEF s, p
      <4> QED BY <1>2, <1>5, <3>2, <4>1, ScanIs DEF p
    <3> QED BY <3>1, <3>2
  <2>2. r = IF s.ok THEN [ok |-> TRUE, body |-> [b EXCEPT !.pos = s.pos, !.atPartition = TRUE, !.new = TRUE]]
            ELSE [ok |-> FALSE, body |-> [b EXCEPT !.pos = s.pos]]
    BY <1>5 DEF ReSyncOf
  <2> HIDE DEF s, p
  <2>3. /\ r.ok \in BOOLEAN /\ r.body \in AnyBody /\ r.body.new /\ r.body.sid = b.sid /\ r.body.pos = s.pos
    <3>1. CASE s.ok
      <4>1. r.ok = TRUE /\ r.body = [b EXCEPT !.pos = s.pos, !.atPartition = TRUE, !.new = TRUE]
        BY <2>2, <3>1
      <4> HIDE DEF r
      <4> QED BY <2>1, <4>1 DEF AnyBody
    <3>2. CASE ~s.ok
      <4>1. r.ok = FALSE /\ r.body = [b EXCEPT !.pos = s.pos]
        BY <2>2, <3>2
      <4> HIDE DEF r
      <4> QED BY <2>1, <4>1 DEF AnyBody
    <3> QED BY <3>1, <3>2
  <2> HIDE DEF r
  <2>4. ASSUME NEW k \in DOMAIN file, file[k].type = "pack", file[k].at >= b.pos, file[k].at < s.pos PROVE FALSE
    <3>1. k \in Items /\ file[k].at \in Nat
      BY <1>1 DEF Items
    <3>2. ~(file[k].at < p) /\ ~(file[k].at >= p)
      BY <1>2, <2>1, <2>4, <3>1
    <3> QED BY <1>2, <3>1, <3>2
  <2>5. b.pos <= s.pos
    BY <1>1, <1>2, <2>1
  <2> QED BY <2>1, <2>3, <2>4, <2>5 DEF Resynced, r
<1> QED BY <1>3, <1>4, <1>5

\* Behind a pack and its filler there is no other pack, and none is before the
\* end of the head.
LEMMA PackAlone ==
    ASSUME NEW f, Sound(f), NEW i \in DOMAIN f, f[i].type = "pack", NEW k \in DOMAIN f, i < k, f[k].type = "pack"
    PROVE  f[k].at >= HeadEnd(f, i) /\ k # i + 1 /\ ~(k = i + 2 /\ f[i + 1].type = "fill")
<1>1. k > i
  BY ItemType
<1> QED BY <1>1 DEF Sound, WellWritten

\* Where the essence behind a pack is.
LEMMA SeekEssenceIs ==
    ASSUME Sound(file), NEW i \in DOMAIN file, file[i].type = "pack"
    PROVE  /\ SeekEssence(i).tell \in Nat /\ file[i].at < SeekEssence(i).tell
           /\ \A k \in DOMAIN file : file[k].type = "pack" /\ i < k => SeekEssence(i).tell <= file[k].at
           /\ file[i].sid # 0 => SeekEssence(i).ok /\ SeekEssence(i).tell = HeadEnd(file, i)
<1> DEFINE behind == StartOf(i) + 2
           filled == IF IsA(behind, "fill") THEN behind + 2 ELSE behind
           s == SeekEssence(i)
<1>1. s = IF ~CanReadKey(behind) \/ ~CanReadKey(filled) THEN [ok |-> FALSE, tell |-> FileEnd]
          ELSE IF IsPartitionKey(filled) THEN [ok |-> FALSE, tell |-> filled + 1]
          ELSE [ok |-> TRUE, tell |-> filled + file[i].meta]
  BY DEF SeekEssence
<1>2. /\ i \in Nat /\ i >= 1 /\ i <= Len(file) /\ Len(file) \in Nat /\ DOMAIN file = 1 .. Len(file)
      /\ file[i].at \in Nat /\ file[i].meta \in Nat /\ SizeOf(file[i]) = 2
  BY ItemType, ItemNumbers DEF SizeOf
<1>3. behind = file[i].at + 2 /\ behind \in Nat
  BY <1>2 DEF StartOf
<1>4. filled = (IF IsA(behind, "fill") THEN behind + 2 ELSE behind)
  OBVIOUS
<1> HIDE DEF behind, filled, s
<1>5. i + 1 \in DOMAIN file => file[i + 1].at = behind
  <2>1. ASSUME i + 1 \in DOMAIN file PROVE file[i + 1].at = file[i].at + SizeOf(file[i])
    BY <2>1, NextAt
  <2> QED BY <1>2, <1>3, <2>1
<1>6. ASSUME NEW k \in DOMAIN file, file[k].at = behind PROVE k = i + 1 /\ i + 1 \in DOMAIN file
  <2>1. i < k
    BY <1>2, <1>3, <1>6, Rising
  <2>2. i + 1 \in DOMAIN file
    BY <1>2, <2>1, ItemType
  <2> QED BY <1>5, <1>6, <2>2, Rising
<1>7. IsA(behind, "fill") <=> (i < Len(file) /\ file[i + 1].type = "fill")
  <2>1. ASSUME IsA(behind, "fill") PROVE i < Len(file) /\ file[i + 1].type = "fill"
    <3>1. PICK k \in DOMAIN file : file[k].at = behind /\ file[k].type = "fill"
      BY <2>1 DEF IsA, Items
    <3>2. k = i + 1 /\ i + 1 \in DOMAIN file
      BY <1>6, <3>1
    <3> QED BY <1>2, <3>1, <3>2
  <2>2. ASSUME i < Len(file), file[i + 1].type = "fill" PROVE IsA(behind, "fill")
    <3>1. i + 1 \in DOMAIN file
      BY <1>2, <2>2
    <3> QED BY <1>5, <2>2, <3>1 DEF IsA, Items
  <2> QED BY <2>1, <2>2
<1>8. filled \in Nat /\ behind <= filled /\ HeadEnd(file, i) = filled + file[i].meta
  <2>1. CASE IsA(behind, "fill")
    <3>1. filled = behind + 2 /\ HeadEnd(file, i) = file[i].at + 2 + file[i].meta + 2
      BY <1>4, <1>7, <2>1 DEF HeadEnd
    <3> QED BY <1>2, <1>3, <3>1
  <2>2. CASE ~IsA(behind, "fill")
    <3>1. filled = behind /\ HeadEnd(file, i) = file[i].at + 2 + file[i].meta + 0
      BY <1>4, <1>7, <2>2 DEF HeadEnd
    <3> QED BY <1>2, <1>3, <3>1
  <2> QED BY <2>1, <2>2
<1>9. FileEnd \in Nat /\ \A k \in DOMAIN file : file[k].at < FileEnd /\ file[k].at \in Nat
  BY FileEndIs, ItemType DEF Items
<1>10. ASSUME NEW k \in DOMAIN file, file[k].type = "pack", i < k PROVE HeadEnd(file, i) <= file[k].at
  <2>1. file[k].at >= HeadEnd(file, i)
    BY <1>10, PackAlone
  <2> QED BY <1>2, <1>8, <1>9, <2>1
<1>11. ~IsPartitionKey(filled)
  <2>1. SUFFICES ASSUME NEW k \in DOMAIN file, file[k].at = filled, file[k].type = "pack" PROVE FALSE
    BY DEF IsPartitionKey, IsA, Items
  <2>2. i < k
    BY <1>2, <1>3, <1>8, <2>1, Rising
  <2>3. k # i + 1 /\ ~(k = i + 2 /\ file[i + 1].type = "fill")
    BY <2>1, <2>2, PackAlone
  <2>4. CASE IsA(behind, "fill")
    <3>1. file[i + 1].type = "fill" /\ i + 1 \in DOMAIN file /\ filled = behind + 2
      BY <1>2, <1>4, <1>7, <2>4
    <3>2. k \in Nat /\ k <= Len(file)
      BY ItemType
    <3>3. i + 2 \in DOMAIN file /\ (i + 1) + 1 = i + 2
      BY <1>2, <2>2, <2>3, <3>2
    <3>4. SizeOf(file[i + 1]) = 2
      BY <3>1 DEF SizeOf
    <3>5. file[i + 2].at = file[i + 1].at + 2
      <4>1. (i + 1) + 1 \in DOMAIN file
        BY <3>3
      <4>2. file[(i + 1) + 1].at = file[i + 1].at + SizeOf(file[i + 1])
        BY <3>1, <4>1, NextAt
      <4> QED BY <3>3, <3>4, <4>2
    <3>6. file[i + 2].at = file[k].at
      BY <1>5, <2>1, <3>1, <3>5
    <3>7. k = i + 2
      BY <3>3, <3>6, Rising
    <3> QED BY <2>3, <3>1, <3>7
  <2>5. CASE ~IsA(behind, "fill")
    <3>1. file[k].at = behind
      BY <1>4, <2>1, <2>5
    <3> QED BY <1>6, <2>3, <3>1
  <2> QED BY <2>4, <2>5
<1>12. CASE ~CanReadKey(behind) \/ ~CanReadKey(filled)
  <2>1. s.tell = FileEnd
    BY <1>1, <1>12
  <2>2. ASSUME NEW k \in DOMAIN file, file[k].type = "pack", i < k PROVE FALSE
    <3>1. HeadEnd(file, i) <= file[k].at /\ file[k].at < FileEnd
      BY <1>9, <1>10, <2>2
    <3>2. behind < FileEnd /\ filled < FileEnd
      BY <1>2, <1>3, <1>8, <1>9, <3>1
    <3> QED BY <1>12, <3>2 DEF CanReadKey
  <2>3. file[i].sid = 0
    <3>1. ASSUME file[i].sid # 0 PROVE FALSE
      <4>1. PICK k \in DOMAIN file : file[k].type = "pack" /\ i < k
        BY <3>1, Followed
      <4> QED BY <2>2, <4>1
    <3> QED BY <3>1
  <2> QED BY <1>9, <2>1, <2>2, <2>3 DEF s
<1>13. CASE ~(~CanReadKey(behind) \/ ~CanReadKey(filled))
  <2>1. s.tell = filled + file[i].meta /\ s.ok = TRUE
    BY <1>1, <1>11, <1>13
  <2>2. s.tell = HeadEnd(file, i) /\ s.tell \in Nat /\ file[i].at < s.tell
    BY <1>2, <1>3, <1>8, <2>1
  <2> QED BY <1>10, <2>1, <2>2 DEF s
<1> QED BY <1>12, <1>13

-----------------------------------------------------------------------------
(***************************************************************************)
(* 7. The invariant: what the operations share.                            *)
(***************************************************************************)
\* What a scene says.
LEMMA Setting ==
    ASSUME Typed
    PROVE  /\ Sids \in SUBSET (Nat \ {0}) /\ Starts \in SUBSET Nat /\ Modes \in SUBSET BOOLEAN
           /\ Answers \in SUBSET {"ok", "fail", "stop", "push"}
           /\ \A t \in Targets : t[1] \in Nat \ {0} /\ t[2] \in Nat /\ t[2] % 2 = 0
           /\ "push" \in Answers => TRUE \notin Modes
<1>1. scene \in Scenes /\ Usable(scene)
  BY DEF Typed
<1>2. /\ scene.answers \subseteq {"ok", "fail", "stop", "push"} /\ scene.modes \subseteq BOOLEAN
      /\ scene.sids \subseteq Nat \ {0} /\ scene.starts \subseteq Nat
      /\ \A t \in scene.targets : t[1] \in Nat \ {0} /\ t[2] \in Nat
  BY <1>1, ReaderAssumption
<1>3. (\A t \in scene.targets : t[2] % 2 = 0) /\ ("push" \in scene.answers => TRUE \notin scene.modes)
  BY <1>1 DEF Usable
<1> QED BY <1>2, <1>3 DEF Sids, Starts, Modes, Answers, Targets

\* What a scene says stays.
SameScene ==
    /\ Files' = Files /\ Sids' = Sids /\ Modes' = Modes /\ Answers' = Answers /\ Handled' = Handled /\ All' = All

\* It does when the scene does.
LEMMA Stays ==
    ASSUME scene' = scene
    PROVE  SameScene
BY DEF SameScene, Files, Sids, Modes, Answers, Handled, All

\* The calls in progress.
LEMMA CallType ==
    ASSUME Typed
    PROVE  /\ call.op = "read" => call \in AnyReading
           /\ call.op = "find" => call \in AnyFinding
           /\ call.op = "seek" => call \in AnySeeking
           /\ call = Idle => call.op # "read" /\ call.op # "find" /\ call.op # "seek"
<1>1. call \in AnyCall
  BY DEF Typed
<1>2. Idle.op = "idle"
  BY DEF Idle
<1>3. CASE call = Idle
  BY <1>2, <1>3
<1>4. CASE call \in AnyReading
  BY <1>2, <1>4 DEF AnyReading
<1>5. CASE call \in AnyFinding
  BY <1>2, <1>5 DEF AnyFinding
<1>6. CASE call \in AnySeeking
  BY <1>2, <1>6 DEF AnySeeking
<1> QED BY <1>1, <1>3, <1>4, <1>5, <1>6 DEF AnyCall

\* What is returned.
LEMMA Returns ==
    ASSUME NEW at \in Int, NEW sid \in Nat, NEW want \in Nat, NEW ok \in BOOLEAN
    PROVE  /\ Idle \in AnyCall
           /\ [kind |-> "seek", at |-> at, sid |-> sid, want |-> want] \in AnyResult
           /\ [kind |-> "read", ok |-> ok] \in AnyResult /\ [kind |-> "none"] \in AnyResult
BY DEF AnyCall, AnyResult

\* A turn of a search changes nothing about what is read.
LEMMA Quiet ==
    ASSUME IInv, scene' = scene, UNCHANGED <<file, body, gc, log>>, call.op # "read", call'.op # "read"
    PROVE  ReadingTrue' /\ LogTrue'
<1>1. SameScene
  BY Stays
<1>2. file' = file /\ body' = body /\ gc' = gc /\ log' = log
  OBVIOUS
<1>3. Reading' = Reading /\ Where' = Where
  BY <1>2 DEF Reading, Where
<1>4. ReadingTrue /\ LogTrue
  BY DEF IInv
<1>5. ReadingTrue'
  BY <1>1, <1>2, <1>3, <1>4 DEF ReadingTrue, SameScene
<1>6. LogTrue'
  BY <1>1, <1>2, <1>3, <1>4 DEF LogTrue, SameScene
<1> QED BY <1>5, <1>6

\* What is typed after a step is what it changed.
LEMMA TypedStep ==
    ASSUME Typed, scene' = scene, file' = file, body' \in AnyBody, gc' \in [Sids -> AnyReader],
           rip' \in [Packs -> AnyEntry], call' \in AnyCall, result' \in AnyResult,
           log' \in [from : Nat, seen : Seq(AnySeen)]
    PROVE  Typed'
<1>1. SameScene /\ Packs' = Packs
  BY Stays DEF Packs, Items
<1> QED BY <1>1 DEF Typed, SameScene

\* The beginning.
LEMMA InitHolds ==
    ASSUME Init, \A x \in Scenes : Usable(x)
    PROVE  IInv
<1>1. scene \in Scenes /\ Usable(scene) /\ file \in Files /\ file \in scene.files
  BY DEF Init, Files
<1>2. Sound(file)
  <2>1. /\ file \in Seq(Item) /\ file # << >> /\ file[1].at = 0
        /\ \A i \in 2 .. Len(file) : file[i].at = file[i - 1].at + SizeOf(file[i - 1])
    BY <1>1, ReaderAssumption
  <2>2. WellWritten(file) /\ Estimable(file)
    BY <1>1 DEF Usable
  <2> QED BY <2>1, <2>2 DEF Sound
<1>3. /\ body = [pos |-> 0, new |-> TRUE, atPartition |-> FALSE, atEof |-> FALSE, sid |-> 0]
      /\ gc = [s \in Sids |-> NewReader] /\ call = Idle /\ result = [kind |-> "none"]
      /\ log = [from |-> 0, seen |-> <<>>]
  BY DEF Init
<1>4. PICK known \in BOOLEAN : rip = [i \in Packs |-> [known |-> known, est |-> -1, start |-> -1]]
  BY DEF Init
<1>5. Typed
  <2>1. body \in AnyBody
    BY <1>3 DEF AnyBody
  <2>2. gc \in [Sids -> AnyReader]
    BY <1>3 DEF AnyReader, NewReader
  <2>3. rip \in [Packs -> AnyEntry]
    BY <1>4 DEF AnyEntry
  <2>4. call \in AnyCall /\ result \in AnyResult
    BY <1>3 DEF AnyCall, AnyResult
  <2>5. log \in [from : Nat, seen : Seq(AnySeen)]
    BY <1>3
  <2> QED BY <1>1, <1>2, <2>1, <2>2, <2>3, <2>4, <2>5 DEF Typed
<1>6. ~Reading /\ Where = 0 /\ body.pos = 0
  BY <1>3 DEF Reading, Where, Idle
<1>7. ReadingTrue
  BY <1>3, <1>6 DEF ReadingTrue, Idle, NewReader
<1>8. LogTrue
  <2>1. log.from = 0 /\ log.seen = <<>>
    BY <1>3
  <2>2. \A i \in DOMAIN file : file[i].at \in Nat
    BY <1>2, ItemType
  <2>3. SeenTrue(file, <<>>) /\ Ordered(<<>>) /\ Below(<<>>, 0)
    BY DEF SeenTrue, Ordered, Below
  <2>4. Covered(file, <<>>, 0, 0, Sids)
    BY <2>2 DEF Covered
  <2>5. ResumeAt(file, 0, 0, Sids)
    BY DEF ResumeAt
  <2> QED BY <1>6, <2>1, <2>3, <2>4, <2>5 DEF LogTrue
<1>9. RipTrue(file, rip)
  <2>1. ASSUME NEW i \in DOMAIN file, file[i].type = "pack" PROVE rip[i].est = -1 /\ rip[i].start = -1
    <3>1. i \in Packs
      BY <2>1 DEF Packs, Items
    <3> QED BY <1>4, <3>1
  <2> QED BY <2>1 DEF RipTrue
<1>10. CallTrue /\ ResultTrue(file, result)
  BY <1>3 DEF CallTrue, ResultTrue, Idle
<1> QED BY <1>5, <1>7, <1>8, <1>9, <1>10 DEF IInv

-----------------------------------------------------------------------------
(***************************************************************************)
(* 8. The invariant: seeks.                                                *)
(***************************************************************************)
\* A seek to a place begins anew.
LEMMA SeekKeeps ==
    ASSUME IInv, scene' = scene, NEW p \in Starts, Seek(p)
    PROVE  IInv'
<1>1. Typed /\ ReadingTrue /\ LogTrue /\ RipTrue(file, rip) /\ Sound(file)
  BY DEF IInv, Typed
<1>2. p \in Nat
  BY <1>1, Setting
<1>3. SameScene
  BY Stays
<1>4. /\ body' = [pos |-> p, new |-> TRUE, atPartition |-> FALSE, atEof |-> FALSE, sid |-> 0]
      /\ log' = [from |-> p, seen |-> <<>>]
      /\ call' = Idle /\ result' = [kind |-> "seek", at |-> p, sid |-> 0, want |-> p]
      /\ file' = file /\ gc' = gc /\ rip' = rip
  BY DEF Seek, Return
<1>5. Typed'
  <2>1. body' \in AnyBody
    BY <1>2, <1>4 DEF AnyBody
  <2>2. log' \in [from : Nat, seen : Seq(AnySeen)]
    BY <1>2, <1>4
  <2>3. call' \in AnyCall
    BY <1>4 DEF AnyCall
  <2>4. result' \in AnyResult
    BY <1>2, <1>4 DEF AnyResult
  <2>5. gc' \in [Sids -> AnyReader] /\ rip' \in [Packs -> AnyEntry]
    BY <1>1, <1>4 DEF Typed
  <2> QED BY <1>1, <1>4, <2>1, <2>2, <2>3, <2>4, <2>5, TypedStep
<1>6. Reading' = FALSE /\ Where' = p /\ body'.pos = p /\ call'.op = "idle"
  BY <1>4 DEF Reading, Where, Idle
<1>7. ReadingTrue'
  BY <1>1, <1>3, <1>4, <1>6 DEF ReadingTrue, SameScene
<1>8. LogTrue'
  <2>1. log'.from = p /\ log'.seen = <<>>
    BY <1>4
  <2>2. \A i \in DOMAIN file : file[i].at \in Nat
    BY <1>1, ItemType
  <2>3. SeenTrue(file, <<>>) /\ Ordered(<<>>) /\ Below(<<>>, p)
    BY DEF SeenTrue, Ordered, Below
  <2>4. Covered(file, <<>>, p, p, Sids)
    <3>1. ASSUME NEW i \in DOMAIN file, NEW k \in DOMAIN file, file[i].at < p, k < i, file[k].at >= p
          PROVE  FALSE
      <4>1. file[k].at < file[i].at
        BY <1>1, <3>1, Rising
      <4> QED BY <1>2, <2>2, <3>1, <4>1
    <3> QED BY <3>1 DEF Covered
  <2>5. ResumeAt(file, p, p, Sids)
    BY DEF ResumeAt
  <2> QED BY <1>3, <1>4, <1>6, <2>1, <2>3, <2>4, <2>5 DEF LogTrue, SameScene
<1>9. RipTrue(file, rip)'
  BY <1>1, <1>4
<1>10. CallTrue'
  BY <1>6 DEF CallTrue
<1>11. ResultTrue(file, result)'
  BY <1>4 DEF ResultTrue
<1> QED BY <1>5, <1>7, <1>8, <1>9, <1>10, <1>11 DEF IInv

\* A seek to an offset begins with the first partition.
LEMMA SeekStreamKeeps ==
    ASSUME IInv, scene' = scene, NEW t \in Targets, SeekStream(t[1], t[2])
    PROVE  IInv'
<1>1. Typed /\ ReadingTrue /\ LogTrue /\ RipTrue(file, rip) /\ Sound(file) /\ ResultTrue(file, result)
  BY DEF IInv, Typed
<1>2. PICK sid \in Nat \ {0} : sid = t[1]
  BY <1>1, Setting
<1>3. PICK want \in Nat : want = t[2] /\ want % 2 = 0
  BY <1>1, Setting
<1>4. /\ call = Idle /\ call' = Finding(sid, want)
      /\ file' = file /\ gc' = gc /\ rip' = rip /\ body' = body /\ log' = log /\ result' = result
  BY <1>2, <1>3 DEF SeekStream
<1>5. PICK c : c = Finding(sid, want)
  OBVIOUS
<1>6. /\ c.op = "find" /\ c.sid = sid /\ c.want = want /\ c.at = 0 /\ c.prev = 0 /\ c.size = 0
      /\ c \in AnyCall
  <2>1. c = [op |-> "find", sid |-> sid, want |-> want, at |-> 0, stream |-> 0, prev |-> 0, end |-> -1, size |-> 0]
    BY <1>5 DEF Finding
  <2>2. c.op = "find" /\ c.sid = sid /\ c.want = want /\ c.at = 0 /\ c.prev = 0 /\ c.size = 0
    BY <2>1
  <2>3. c \in AnyFinding
    BY <2>1 DEF AnyFinding
  <2> QED BY <2>2, <2>3 DEF AnyCall
<1>7. Typed'
  <2>1. body' \in AnyBody /\ gc' \in [Sids -> AnyReader] /\ rip' \in [Packs -> AnyEntry] /\ result' \in AnyResult
    BY <1>1, <1>4 DEF Typed
  <2>2. log' \in [from : Nat, seen : Seq(AnySeen)]
    BY <1>1, <1>4 DEF Typed
  <2> QED BY <1>1, <1>4, <1>5, <1>6, <2>1, <2>2, TypedStep
<1>8. ReadingTrue' /\ LogTrue'
  <2>1. call.op # "read" /\ call'.op # "read"
    BY <1>4, <1>5, <1>6 DEF Idle
  <2> QED BY <1>4, <2>1, Quiet
<1>9. CallTrue'
  <2>1. FindingTrue(file, c)
    <3>1. Len(file) \in Nat
      BY <1>1, ItemNumbers
    <3>2. c.at \in 0 .. Len(file) /\ c.want % 2 = 0
      BY <1>3, <1>6, <3>1
    <3>3. \A k \in 1 .. c.at : ~PackOf(file, k, c.sid)
      BY <1>6
    <3> QED BY <1>6, <3>2, <3>3 DEF FindingTrue
  <2> QED BY <1>4, <1>5, <1>6, <2>1 DEF CallTrue
<1>10. RipTrue(file, rip)' /\ ResultTrue(file, result)'
  BY <1>1, <1>4
<1> QED BY <1>7, <1>8, <1>9, <1>10 DEF IInv

\* The next pack that FindPartition looks at.
NextLook(f, c, i) == Pack(f, i) /\ c.at < i /\ \A k \in c.at + 1 .. i - 1 : ~Pack(f, k)

\* It is the least that is left.
LEMMA NextLookIs ==
    ASSUME Typed, call \in AnyFinding, NEW later, later = {j \in Packs : j > call.at}
    PROVE  /\ later # {} => NextLook(file, call, LeastOf(later))
           /\ later = {} => \A k \in DOMAIN file : Pack(file, k) => k <= call.at
<1>1. call.at \in Nat /\ Sound(file)
  BY DEF AnyFinding, Typed
<1>2. \A k \in DOMAIN file : k \in Nat /\ k >= 1 /\ k <= Len(file)
  BY <1>1, ItemType
<1>3. Len(file) \in Nat /\ DOMAIN file = 1 .. Len(file)
  BY <1>1, ItemNumbers
<1>4. ASSUME later # {} PROVE NextLook(file, call, LeastOf(later))
  <2>1. later \in SUBSET Nat
    BY <1>2 DEF Packs, Items
  <2>2. LeastOf(later) \in later /\ \A k \in later : LeastOf(later) <= k
    BY <1>4, <2>1, LeastOfIs
  <2>3. PICK i : i = LeastOf(later)
    OBVIOUS
  <2>4. i \in DOMAIN file /\ file[i].type = "pack" /\ i > call.at
    BY <2>2, <2>3 DEF Packs, Items
  <2>5. ASSUME NEW k \in call.at + 1 .. i - 1, Pack(file, k) PROVE FALSE
    <3>1. k \in later
      BY <1>1, <2>5 DEF Pack, Packs, Items
    <3>2. i <= k
      BY <2>2, <2>3, <3>1
    <3> QED BY <1>1, <1>2, <2>4, <3>2
  <2>6. call.at < i
    BY <1>1, <1>2, <2>4
  <2> QED BY <2>3, <2>4, <2>5, <2>6 DEF NextLook, Pack
<1>5. ASSUME later = {}, NEW k \in DOMAIN file, Pack(file, k) PROVE k <= call.at
  <2>1. k \notin later /\ k \in Packs
    BY <1>5 DEF Pack, Packs, Items
  <2> QED BY <1>1, <1>2, <2>1
<1> QED BY <1>4, <1>5

\* A stream has nothing at an offset before that of all its partitions.
LEMMA NotBefore ==
    ASSUME NEW f, Sound(f), NEW s, s # 0, NEW want \in Nat, NEW j \in DOMAIN f, EssenceIn(f, j), f[j].sid = s,
           OffsetIn(f, j) = want
    PROVE  \E q \in DOMAIN f : PackOf(f, q, s) /\ f[q].offset <= want
<1>1. PICK q \in DOMAIN f :
         /\ f[q].type = "pack" /\ f[q].sid = s /\ f[j].at >= HeadEnd(f, q)
         /\ f[j].at - HeadEnd(f, q) = want - f[q].offset
  BY Home
<1>2. f[j].at \in Nat /\ f[q].offset \in Nat /\ f[q].at \in Nat /\ f[q].meta \in Nat
  BY ItemType
<1>3. HeadEnd(f, q) \in Nat
  BY HeadType
<1>4. f[q].offset <= want
  BY <1>1, <1>2, <1>3
<1> QED BY <1>1, <1>4 DEF PackOf, Pack

\* The first partition of a stream has offset 0.
LEMMA FirstOffset ==
    ASSUME NEW f, Sound(f), NEW s, s # 0, NEW i \in DOMAIN f, PackOf(f, i, s), \A k \in 1 .. (i - 1) : ~PackOf(f, k, s)
    PROVE  f[i].offset = 0
<1>1. i \in Nat /\ i >= 1 /\ i <= Len(f) /\ Len(f) \in Nat /\ DOMAIN f = 1 .. Len(f)
  BY ItemType, ItemNumbers
<1>2. f[i].offset = Bytes(f, s, i)
  <2>1. Pack(f, i) /\ i <= i
    BY <1>1 DEF PackOf
  <2>2. \A j \in i .. (i - 1) : ~PackOf(f, j, s)
    BY <1>1
  <2> QED BY <2>1, <2>2, OffsetThere
<1>3. ASSUME NEW j \in 1 .. (i - 1), EssenceIn(f, j), f[j].sid = s PROVE FALSE
  <2>1. j \in DOMAIN f
    BY <1>1
  <2>2. PICK q \in DOMAIN f : f[q].type = "pack" /\ f[q].sid = s /\ q < j
    BY <1>3, <2>1, Home
  <2>3. q \in Nat /\ q >= 1
    BY ItemType
  <2>4. q \in 1 .. (i - 1)
    BY <1>1, <2>2, <2>3
  <2> QED BY <2>2, <2>4 DEF PackOf, Pack
<1>4. Stream(f, s, i) = {}
  BY <1>3 DEF Stream
<1> QED BY <1>2, <1>4, FS_EmptySet DEF Bytes

\* A pack of another stream: the partition before ends at the first.
LEMMA FindOther ==
    ASSUME NEW f, Sound(f), NEW c \in AnyFinding, FindingTrue(f, c), NEW i, NextLook(f, c, i), f[i].sid # c.sid,
           NEW end, end = IF c.prev # 0 /\ c.end = -1 THEN f[i].at ELSE c.end,
           NEW d, d = [c EXCEPT !.at = i, !.end = end]
    PROVE  d \in AnyFinding /\ FindingTrue(f, d)
<1>1. /\ c.sid \in Nat \ {0} /\ c.want \in Nat /\ c.at \in Nat /\ c.stream \in Int
      /\ c.prev \in Nat /\ c.end \in Int /\ c.size \in Nat
  BY DEF AnyFinding
<1>2. i \in DOMAIN f /\ c.at < i /\ \A k \in c.at + 1 .. i - 1 : ~Pack(f, k)
  BY DEF NextLook, Pack
<1>3. i \in Nat /\ i >= 1 /\ i <= Len(f) /\ f[i].at \in Nat /\ Len(f) \in Nat
  BY <1>2, ItemType, ItemNumbers
<1>4. end \in Int
  BY <1>1, <1>3
<1>5. /\ d.sid = c.sid /\ d.want = c.want /\ d.at = i /\ d.stream = c.stream /\ d.prev = c.prev /\ d.end = end
      /\ d.size = c.size /\ d \in AnyFinding
  BY <1>3, <1>4 DEF AnyFinding
<1>6. d.at \in 0 .. Len(f) /\ d.want % 2 = 0
  BY <1>3, <1>5 DEF FindingTrue
<1>7. \A k : PackOf(f, k, c.sid) => Pack(f, k) /\ k # i
  BY DEF PackOf
<1>8. ASSUME c.prev = 0 PROVE c.size = 0 /\ \A k \in 1 .. i : ~PackOf(f, k, c.sid)
  <2>1. c.size = 0 /\ \A k \in 1 .. c.at : ~PackOf(f, k, c.sid)
    BY <1>8 DEF FindingTrue
  <2>2. ASSUME NEW k \in 1 .. i PROVE ~PackOf(f, k, c.sid)
    <3>1. k \in 1 .. c.at \/ k \in c.at + 1 .. i - 1 \/ k = i
      BY <1>1, <1>3
    <3> QED BY <1>2, <1>7, <2>1, <3>1
  <2> QED BY <2>1, <2>2
<1>9. ASSUME c.prev # 0
      PROVE  /\ PackOf(f, c.prev, c.sid) /\ c.prev <= i
             /\ \A k \in c.prev + 1 .. i : ~PackOf(f, k, c.sid)
             /\ f[c.prev].offset <= c.stream /\ c.stream <= c.want
             /\ c.size <= f[c.prev].meta + 2
             /\ end # -1
             /\ \E n \in c.prev + 1 .. i : Pack(f, n) /\ end = f[n].at /\ \A k \in c.prev + 1 .. n - 1 : ~Pack(f, k)
  <2>1. /\ PackOf(f, c.prev, c.sid) /\ c.prev <= c.at
        /\ \A k \in c.prev + 1 .. c.at : ~PackOf(f, k, c.sid)
        /\ f[c.prev].offset <= c.stream /\ c.stream <= c.want
        /\ c.size <= f[c.prev].meta + 2
    BY <1>9 DEF FindingTrue
  <2>2. c.prev <= i
    BY <1>1, <1>2, <1>3, <2>1
  <2>3. ASSUME NEW k \in c.prev + 1 .. i PROVE ~PackOf(f, k, c.sid)
    <3>1. k \in c.prev + 1 .. c.at \/ k \in c.at + 1 .. i - 1 \/ k = i
      BY <1>1, <1>3
    <3> QED BY <1>2, <1>7, <2>1, <3>1
  <2>4. CASE c.end = -1
    <3>1. end = f[i].at
      BY <1>9, <2>4
    <3>2. end # -1
      BY <1>3, <3>1
    <3>3. i \in c.prev + 1 .. i
      BY <1>1, <1>2, <1>3, <2>1
    <3>4. ASSUME NEW k \in c.prev + 1 .. i - 1 PROVE ~Pack(f, k)
      <4>1. k \in c.prev + 1 .. c.at \/ k \in c.at + 1 .. i - 1
        BY <1>1, <1>3
      <4>2. \A m \in c.prev + 1 .. c.at : ~Pack(f, m)
        BY <1>9, <2>4 DEF FindingTrue
      <4> QED BY <1>2, <4>1, <4>2
    <3>5. Pack(f, i)
      BY DEF NextLook
    <3>6. \E n \in c.prev + 1 .. i : Pack(f, n) /\ end = f[n].at /\ \A k \in c.prev + 1 .. n - 1 : ~Pack(f, k)
      BY <3>1, <3>3, <3>4, <3>5
    <3> QED BY <2>1, <2>2, <2>3, <3>2, <3>6
  <2>5. CASE c.end # -1
    <3>1. end = c.end
      BY <2>5
    <3>2. PICK n \in c.prev + 1 .. c.at : Pack(f, n) /\ c.end = f[n].at /\ \A k \in c.prev + 1 .. n - 1 : ~Pack(f, k)
      BY <1>9, <2>5 DEF FindingTrue
    <3>3. n \in c.prev + 1 .. i
      BY <1>1, <1>2, <1>3
    <3>4. \E m \in c.prev + 1 .. i : Pack(f, m) /\ end = f[m].at /\ \A k \in c.prev + 1 .. m - 1 : ~Pack(f, k)
      BY <3>1, <3>2, <3>3
    <3> QED BY <2>1, <2>2, <2>3, <2>5, <3>1, <3>4
  <2> QED BY <2>4, <2>5
<1> QED BY <1>5, <1>6, <1>8, <1>9 DEF FindingTrue

\* A pack of the stream whose offset is not beyond what is sought.
LEMMA FindOwn ==
    ASSUME NEW f, Sound(f), NEW c \in AnyFinding, FindingTrue(f, c), NEW i, NextLook(f, c, i), f[i].sid = c.sid,
           NEW stream \in Int, f[i].offset <= stream, stream <= c.want,
           NEW size \in Nat, size <= f[i].meta + 2,
           NEW d, d = [c EXCEPT !.at = i, !.stream = stream, !.prev = i, !.end = -1, !.size = size]
    PROVE  d \in AnyFinding /\ FindingTrue(f, d)
<1>1. /\ c.sid \in Nat \ {0} /\ c.want \in Nat /\ c.at \in Nat /\ c.stream \in Int
      /\ c.prev \in Nat /\ c.end \in Int /\ c.size \in Nat
  BY DEF AnyFinding
<1>2. i \in DOMAIN f /\ Pack(f, i)
  BY DEF NextLook, Pack
<1>3. i \in Nat /\ i >= 1 /\ i <= Len(f) /\ Len(f) \in Nat
  BY <1>2, ItemType, ItemNumbers
<1>4. /\ d.sid = c.sid /\ d.want = c.want /\ d.at = i /\ d.stream = stream /\ d.prev = i /\ d.end = -1
      /\ d.size = size /\ d \in AnyFinding
  <2>1. PICK none \in Int : none = -1
    OBVIOUS
  <2>2. d = [c EXCEPT !.at = i, !.stream = stream, !.prev = i, !.end = none, !.size = size]
    BY <2>1
  <2>3. d \in AnyFinding
    BY <1>3, <2>2 DEF AnyFinding
  <2>4. /\ d.sid = c.sid /\ d.want = c.want /\ d.at = i /\ d.stream = stream /\ d.prev = i /\ d.end = none
        /\ d.size = size
    BY <2>2 DEF AnyFinding
  <2> QED BY <2>1, <2>3, <2>4
<1>5. d.at \in 0 .. Len(f) /\ d.want % 2 = 0 /\ d.prev # 0 /\ i <= i
  BY <1>3, <1>4 DEF FindingTrue
<1>6. PackOf(f, i, c.sid)
  BY <1>2 DEF PackOf
<1>7. \A k \in i + 1 .. i : FALSE
  BY <1>3
<1> QED BY <1>4, <1>5, <1>6, <1>7 DEF FindingTrue

\* The end of a search for a partition: there is none, and so nothing at the
\* offset, or the last one found is looked into.
LEMMA FindEnds ==
    ASSUME NEW f, Sound(f), NEW c \in AnyFinding, FindingTrue(f, c),
           c.prev = 0 => \A k \in DOMAIN f : PackOf(f, k, c.sid) => f[k].offset > c.want
    PROVE  /\ c.prev = 0 => ResultTrue(f, [kind |-> "seek", at |-> -1, sid |-> c.sid, want |-> c.want])
           /\ c.prev # 0 => LET d == [op |-> "seek", sid |-> c.sid, want |-> c.want, part |-> c.prev, last |-> -1]
                            IN d \in AnySeeking /\ SeekingTrue(f, d)
<1>1. /\ c.sid \in Nat \ {0} /\ c.want \in Nat /\ c.at \in Nat /\ c.stream \in Int
      /\ c.prev \in Nat /\ c.end \in Int /\ c.size \in Nat
  BY DEF AnyFinding
<1>2. ASSUME c.prev = 0
      PROVE  ResultTrue(f, [kind |-> "seek", at |-> -1, sid |-> c.sid, want |-> c.want])
  <2> DEFINE r == [kind |-> "seek", at |-> -1, sid |-> c.sid, want |-> c.want]
  <2>1. r.at = -1 /\ r.sid = c.sid /\ r.want = c.want
    OBVIOUS
  <2>2. ASSUME NEW j \in DOMAIN f, EssenceIn(f, j), f[j].sid = c.sid, OffsetIn(f, j) = c.want PROVE FALSE
    <3>1. PICK q \in DOMAIN f : PackOf(f, q, c.sid) /\ f[q].offset <= c.want
      BY <1>1, <2>2, NotBefore
    <3>2. f[q].offset > c.want /\ f[q].offset \in Nat
      BY <1>2, <3>1, ItemType
    <3> QED BY <1>1, <3>1, <3>2
  <2>3. ~(r.at > 0)
    BY <2>1
  <2> HIDE DEF r
  <2> QED BY <2>1, <2>2, <2>3 DEF ResultTrue, r
<1>3. ASSUME c.prev # 0
      PROVE  LET d == [op |-> "seek", sid |-> c.sid, want |-> c.want, part |-> c.prev, last |-> -1]
             IN d \in AnySeeking /\ SeekingTrue(f, d)
  <2> DEFINE d == [op |-> "seek", sid |-> c.sid, want |-> c.want, part |-> c.prev, last |-> -1]
  <2>1. d.sid = c.sid /\ d.want = c.want /\ d.part = c.prev /\ d.last = -1
    OBVIOUS
  <2>2. d \in AnySeeking
    BY <1>1 DEF AnySeeking
  <2>3. /\ PackOf(f, c.prev, c.sid) /\ f[c.prev].offset <= c.stream /\ c.stream <= c.want /\ c.want % 2 = 0
    BY <1>3 DEF FindingTrue
  <2>4. c.prev \in DOMAIN f
    BY <2>3 DEF PackOf, Pack
  <2>5. f[c.prev].offset \in Nat
    BY <2>4, ItemType
  <2>6. f[c.prev].offset <= c.want
    BY <1>1, <2>3, <2>5
  <2>7. -1 < HeadEnd(f, c.prev) + (c.want - f[c.prev].offset)
    <3>1. Place(f, c.prev, c.want) \in Nat
      BY <1>1, <2>4, <2>6, PlaceType
    <3>2. -1 < Place(f, c.prev, c.want)
      BY <3>1
    <3> QED BY <3>2 DEF Place
  <2> HIDE DEF d
  <2> QED BY <2>1, <2>2, <2>3, <2>6, <2>7 DEF SeekingTrue, d
<1> QED BY <1>2, <1>3

\* What is guessed of a partition is not below its offset.
LEMMA EstimateTrue ==
    ASSUME NEW f, Sound(f), NEW c \in AnyFinding, FindingTrue(f, c), NEW i, NextLook(f, c, i), f[i].sid = c.sid,
           c.prev # 0,
           NEW end, end = IF c.prev # 0 /\ c.end = -1 THEN f[i].at ELSE c.end
    PROVE  /\ c.stream + (end - (f[c.prev].at + c.size)) \in Int
           /\ f[i].offset <= c.stream + (end - (f[c.prev].at + c.size))
           /\ c.size <= f[i].meta + 2
<1>1. /\ c.sid \in Nat \ {0} /\ c.want \in Nat /\ c.at \in Nat /\ c.stream \in Int
      /\ c.prev \in Nat /\ c.end \in Int /\ c.size \in Nat
  BY DEF AnyFinding
<1> DEFINE p == c.prev
<1>2. /\ PackOf(f, p, c.sid) /\ p <= c.at
      /\ \A k \in p + 1 .. c.at : ~PackOf(f, k, c.sid)
      /\ f[p].offset <= c.stream /\ c.size <= f[p].meta + 2
  BY DEF FindingTrue
<1>3. i \in DOMAIN f /\ Pack(f, i) /\ c.at < i /\ \A k \in c.at + 1 .. i - 1 : ~Pack(f, k)
  BY DEF NextLook, Pack
<1>4. PackOf(f, i, c.sid)
  BY <1>3 DEF PackOf
<1>5. p \in DOMAIN f
  BY <1>2 DEF PackOf, Pack
<1>6. /\ i \in Nat /\ p \in Nat /\ f[i].at \in Nat /\ f[p].at \in Nat /\ f[p].meta \in Nat /\ f[p].offset \in Nat
      /\ f[i].meta \in Nat
  BY <1>3, <1>5, ItemType
<1>7. p < i
  BY <1>1, <1>2, <1>3, <1>6
<1>8. \A k \in p + 1 .. i - 1 : ~PackOf(f, k, c.sid)
  <2>1. ASSUME NEW k \in p + 1 .. i - 1 PROVE ~PackOf(f, k, c.sid)
    <3>1. k \in p + 1 .. c.at \/ k \in c.at + 1 .. i - 1
      BY <1>1, <1>6
    <3> QED BY <1>2, <1>3, <3>1 DEF PackOf
  <2> QED BY <2>1
<1>9. PICK n \in DOMAIN f : Pack(f, n) /\ p < n /\ n <= i /\ end = f[n].at /\ \A k \in p + 1 .. n - 1 : ~Pack(f, k)
  <2>1. CASE c.end = -1
    <3>1. \A k \in p + 1 .. c.at : ~Pack(f, k)
      BY <2>1 DEF FindingTrue
    <3>2. \A k \in p + 1 .. i - 1 : ~Pack(f, k)
      <4>1. ASSUME NEW k \in p + 1 .. i - 1 PROVE ~Pack(f, k)
        <5>1. k \in p + 1 .. c.at \/ k \in c.at + 1 .. i - 1
          BY <1>1, <1>6
        <5> QED BY <1>3, <3>1, <5>1
      <4> QED BY <4>1
    <3>3. end = f[i].at /\ i <= i
      BY <1>6, <2>1
    <3> QED BY <1>3, <1>7, <3>2, <3>3
  <2>2. CASE c.end # -1
    <3>1. PICK n \in p + 1 .. c.at : Pack(f, n) /\ c.end = f[n].at /\ \A k \in p + 1 .. n - 1 : ~Pack(f, k)
      BY <2>2 DEF FindingTrue
    <3>2. n \in DOMAIN f /\ p < n /\ n <= i
      BY <1>1, <1>3, <1>6, <3>1 DEF Pack
    <3>3. end = f[n].at
      BY <2>2, <3>1
    <3> QED BY <3>1, <3>2, <3>3
  <2> QED BY <2>1, <2>2
<1>10. f[i].offset = f[p].offset + (f[n].at - HeadEnd(f, p))
  <2> HIDE DEF p
  <2> QED BY <1>1, <1>2, <1>3, <1>4, <1>5, <1>8, <1>9, NextOffset
<1>11. HeadEnd(f, p) \in Nat /\ HeadEnd(f, p) >= f[p].at + 2 + f[p].meta
  <2> HIDE DEF p
  <2> QED BY <1>5, HeadType
<1>12. f[n].at \in Nat
  BY <1>9, ItemType
<1>13. f[i].offset <= c.stream + (end - (f[p].at + c.size))
  <2> HIDE DEF p
  <2> QED BY <1>1, <1>2, <1>6, <1>9, <1>10, <1>11, <1>12
<1>14. c.stream + (end - (f[p].at + c.size)) \in Int
  <2> HIDE DEF p
  <2> QED BY <1>1, <1>6, <1>9, <1>12
<1>15. c.size <= f[i].meta + 2
  <2>1. f[p].meta <= f[i].meta
    <3>1. f[p].type = "pack" /\ f[p].sid = c.sid /\ f[i].type = "pack" /\ f[i].sid = c.sid
      BY <1>2, <1>4 DEF PackOf, Pack
    <3> HIDE DEF p
    <3> QED BY <1>1, <1>3, <1>5, <1>7, <3>1 DEF Sound, Estimable
  <2> HIDE DEF p
  <2> QED BY <1>1, <1>2, <1>6, <2>1
<1> QED BY <1>13, <1>14, <1>15

\* What a turn of a search may leave behind.
SearchTrue(f, c, r) ==
    /\ c \in AnyCall /\ r \in AnyResult /\ c.op # "read"
    /\ c.op = "find" => FindingTrue(f, c)
    /\ c.op = "seek" => SeekingTrue(f, c)
    /\ ResultTrue(f, r)

\* Such a turn keeps the invariant.
LEMMA TurnKeeps ==
    ASSUME IInv, scene' = scene, UNCHANGED <<file, body, gc, log>>, call.op # "read",
           SearchTrue(file, call', result'), rip' \in [Packs -> AnyEntry], RipTrue(file, rip')
    PROVE  IInv'
<1>1. Typed
  BY DEF IInv
<1>2. file' = file /\ body' = body /\ gc' = gc /\ log' = log
  OBVIOUS
<1>3. call' \in AnyCall /\ result' \in AnyResult /\ call'.op # "read" /\ ResultTrue(file, result')
  BY DEF SearchTrue
<1>4. Typed'
  <2>1. body' \in AnyBody /\ gc' \in [Sids -> AnyReader] /\ log' \in [from : Nat, seen : Seq(AnySeen)]
    BY <1>1, <1>2 DEF Typed
  <2> QED BY <1>1, <1>2, <1>3, <2>1, TypedStep
<1>5. ReadingTrue' /\ LogTrue'
  BY <1>3, Quiet
<1>6. CallTrue'
  BY <1>2 DEF CallTrue, SearchTrue
<1>7. RipTrue(file, rip)' /\ ResultTrue(file, result)'
  BY <1>2, <1>3
<1> QED BY <1>4, <1>5, <1>6, <1>7 DEF IInv

\* A guess that is not below the offset may be noted.
LEMMA RipGuess ==
    ASSUME Typed, RipTrue(file, rip), NEW i \in DOMAIN file, Pack(file, i), NEW est \in Int, file[i].offset <= est,
           NEW next, next = [rip EXCEPT ![i].est = est]
    PROVE  next \in [Packs -> AnyEntry] /\ RipTrue(file, next)
<1>1. i \in Packs /\ rip \in [Packs -> AnyEntry]
  BY DEF Pack, Packs, Items, Typed
<1>2. rip[i] \in AnyEntry
  BY <1>1
<1> DEFINE e == [rip[i] EXCEPT !.est = est]
<1>3. e \in AnyEntry /\ e.est = est /\ e.start = rip[i].start
  BY <1>2 DEF AnyEntry
<1>4. next = [rip EXCEPT ![i] = e]
  OBVIOUS
<1> HIDE DEF e
<1>5. next \in [Packs -> AnyEntry] /\ \A k \in Packs : next[k] = IF k = i THEN e ELSE rip[k]
  BY <1>1, <1>3, <1>4
<1>6. ASSUME NEW k \in DOMAIN file, file[k].type = "pack", file[k].sid # 0
      PROVE  (next[k].est = -1 \/ next[k].est >= file[k].offset) /\ (next[k].start = -1 \/ next[k].start = HeadEnd(file, k))
  <2>1. k \in Packs
    BY <1>6 DEF Packs, Items
  <2>2. (rip[k].est = -1 \/ rip[k].est >= file[k].offset) /\ (rip[k].start = -1 \/ rip[k].start = HeadEnd(file, k))
    BY <1>6 DEF RipTrue
  <2>3. CASE k = i
    <3>1. next[k].est = est /\ next[k].start = rip[k].start
      BY <1>3, <1>5, <2>1, <2>3
    <3>2. file[k].offset \in Nat
      BY <1>6, ItemType DEF Typed
    <3>3. next[k].est >= file[k].offset
      BY <2>3, <3>1, <3>2
    <3> QED BY <2>2, <3>1, <3>3
  <2>4. CASE k # i
    <3>1. next[k] = rip[k]
      BY <1>5, <2>1, <2>4
    <3> QED BY <2>2, <3>1
  <2> QED BY <2>3, <2>4
<1> QED BY <1>5, <1>6 DEF RipTrue

\* The end of FindPartition.
LEMMA FoundTrue ==
    ASSUME IInv, call \in AnyFinding, Found,
           call.prev = 0 => \A k \in DOMAIN file : PackOf(file, k, call.sid) => file[k].offset > call.want
    PROVE  SearchTrue(file, call', result')
<1>1. Sound(file) /\ FindingTrue(file, call) /\ result \in AnyResult /\ ResultTrue(file, result)
  <2>1. call.op = "find"
    BY DEF AnyFinding
  <2> QED BY <2>1 DEF IInv, Typed, CallTrue
<1>2. call.sid \in Nat /\ call.want \in Nat
  BY DEF AnyFinding
<1>3. CASE call.prev = 0
  <2>1. call' = Idle /\ result' = [kind |-> "seek", at |-> -1, sid |-> call.sid, want |-> call.want]
    BY <1>3 DEF Found, SeekReturn, Return
  <2>2. ResultTrue(file, [kind |-> "seek", at |-> -1, sid |-> call.sid, want |-> call.want])
    BY <1>1, <1>3, FindEnds
  <2>3. PICK none \in Int : none = -1
    OBVIOUS
  <2>4. Idle \in AnyCall /\ [kind |-> "seek", at |-> none, sid |-> call.sid, want |-> call.want] \in AnyResult
    BY <1>2, Returns
  <2>5. Idle.op = "idle"
    BY DEF Idle
  <2> QED BY <2>1, <2>2, <2>3, <2>4, <2>5 DEF SearchTrue
<1>4. CASE call.prev # 0
  <2>1. PICK d : d = [op |-> "seek", sid |-> call.sid, want |-> call.want, part |-> call.prev, last |-> -1]
    OBVIOUS
  <2>2. call' = d /\ result' = result
    BY <1>4, <2>1 DEF Found
  <2>3. d \in AnySeeking /\ SeekingTrue(file, d)
    BY <1>1, <1>4, <2>1, FindEnds
  <2>4. d.op = "seek"
    BY <2>3 DEF AnySeeking
  <2>5. d \in AnyCall
    BY <2>3 DEF AnyCall
  <2> QED BY <1>1, <2>2, <2>3, <2>4, <2>5 DEF SearchTrue
<1> QED BY <1>3, <1>4

\* A partition that the search goes on from.
LEMMA ContinueTrue ==
    ASSUME IInv, call \in AnyFinding, NEW i, NextLook(file, call, i), file[i].sid = call.sid,
           NEW stream \in Int, file[i].offset <= stream, stream <= call.want,
           NEW size \in Nat, size <= file[i].meta + 2, Continue(i, stream, size)
    PROVE  SearchTrue(file, call', result')
<1>1. Sound(file) /\ FindingTrue(file, call) /\ result \in AnyResult /\ ResultTrue(file, result)
  <2>1. call.op = "find"
    BY DEF AnyFinding
  <2> QED BY <2>1 DEF IInv, Typed, CallTrue
<1>2. PICK d : d = [call EXCEPT !.at = i, !.stream = stream, !.prev = i, !.end = -1, !.size = size]
  OBVIOUS
<1>3. call' = d /\ result' = result
  BY <1>2 DEF Continue
<1>4. d \in AnyFinding /\ FindingTrue(file, d)
  BY <1>1, <1>2, FindOwn
<1>5. d.op = "find"
  BY <1>4 DEF AnyFinding
<1>6. d \in AnyCall
  BY <1>4 DEF AnyCall
<1> QED BY <1>1, <1>3, <1>4, <1>5, <1>6 DEF SearchTrue

\* A turn of FindPartition.
LEMMA FindRoundKeeps ==
    ASSUME IInv, scene' = scene, FindRound
    PROVE  IInv'
<1> DEFINE later == {j \in Packs : j > call.at}
           i == LeastOf(later)
<1>1. /\ Typed /\ Sound(file) /\ RipTrue(file, rip) /\ rip \in [Packs -> AnyEntry]
      /\ result \in AnyResult /\ ResultTrue(file, result) /\ call.op = "find"
  BY DEF IInv, Typed, FindRound
<1>2. call \in AnyFinding /\ FindingTrue(file, call)
  BY <1>1, CallType DEF IInv, CallTrue
<1>3. UNCHANGED <<file, body, gc, log>>
  BY DEF FindRound
<1>4. \/ later = {} /\ Found /\ UNCHANGED rip
      \/ /\ later # {} /\ file[i].sid # call.sid
         /\ call' = [call EXCEPT !.at = i, !.end = EndBefore(i)]
         /\ UNCHANGED <<rip, result>>
      \/ /\ later # {} /\ file[i].sid = call.sid /\ rip[i].known
         /\ rip' = [rip EXCEPT ![i].est = file[i].offset]
         /\ \/ file[i].offset > call.want /\ Found
            \/ file[i].offset <= call.want /\ Continue(i, file[i].offset, file[i].meta + 2)
      \/ /\ later # {} /\ file[i].sid = call.sid /\ ~rip[i].known /\ call.prev = 0
         /\ Continue(i, 0, call.size) /\ UNCHANGED rip
      \/ /\ later # {} /\ file[i].sid = call.sid /\ ~rip[i].known /\ call.prev # 0
         /\ rip' = [rip EXCEPT ![i].est = Estimate(i)]
         /\ \/ Estimate(i) > call.want /\ Found
            \/ Estimate(i) <= call.want /\ Continue(i, Estimate(i), call.size)
  BY Zenon DEF FindRound
<1>5. /\ later # {} => NextLook(file, call, i)
      /\ later = {} => \A k \in DOMAIN file : Pack(file, k) => k <= call.at
  BY <1>1, <1>2, NextLookIs
<1> HIDE DEF i, later
<1>6. /\ call.sid \in Nat \ {0} /\ call.want \in Nat /\ call.at \in Nat /\ call.stream \in Int
      /\ call.prev \in Nat /\ call.end \in Int /\ call.size \in Nat
  BY <1>2 DEF AnyFinding
<1>7. call.prev = 0 => \A k \in 1 .. call.at : ~PackOf(file, k, call.sid)
  BY <1>2 DEF FindingTrue
<1>8. \A k \in DOMAIN file : k \in Nat /\ k >= 1
  BY <1>1, ItemType
<1>9. later # {} => /\ i \in DOMAIN file /\ Pack(file, i) /\ file[i].type = "pack"
                    /\ file[i].at \in Nat /\ file[i].offset \in Nat /\ file[i].meta \in Nat
  BY <1>1, <1>5, ItemType DEF NextLook, Pack
<1>10. ASSUME later # {}, file[i].sid = call.sid, call.prev = 0
       PROVE  \A k \in 1 .. (i - 1) : ~PackOf(file, k, call.sid)
  <2>1. ASSUME NEW k \in 1 .. (i - 1) PROVE ~PackOf(file, k, call.sid)
    <3>1. i \in Nat
      BY <1>8, <1>9, <1>10
    <3>2. k \in 1 .. call.at \/ k \in call.at + 1 .. i - 1
      BY <1>6, <3>1
    <3>3. \A m \in call.at + 1 .. i - 1 : ~Pack(file, m)
      BY <1>5, <1>10 DEF NextLook
    <3> QED BY <1>7, <1>10, <3>2, <3>3 DEF PackOf
  <2> QED BY <2>1
<1>11. CASE later = {} /\ Found /\ UNCHANGED rip
  <2>1. ASSUME call.prev = 0, NEW k \in DOMAIN file, PackOf(file, k, call.sid) PROVE FALSE
    <3>1. k <= call.at
      BY <1>5, <1>11, <2>1 DEF PackOf
    <3>2. k \in 1 .. call.at
      BY <1>6, <1>8, <3>1
    <3> QED BY <1>7, <2>1, <3>2
  <2>2. SearchTrue(file, call', result')
    BY <1>2, <1>11, <2>1, FoundTrue
  <2> QED BY <1>1, <1>3, <1>11, <2>2, TurnKeeps
<1>12. CASE /\ later # {} /\ file[i].sid # call.sid
            /\ call' = [call EXCEPT !.at = i, !.end = EndBefore(i)]
            /\ UNCHANGED <<rip, result>>
  <2>1. PICK end : end = IF call.prev # 0 /\ call.end = -1 THEN file[i].at ELSE call.end
    OBVIOUS
  <2>2. EndBefore(i) = end
    BY <2>1 DEF EndBefore, StartOf
  <2>3. PICK d : d = [call EXCEPT !.at = i, !.end = end]
    OBVIOUS
  <2>4. call' = d
    BY <1>12, <2>2, <2>3
  <2>5. d \in AnyFinding /\ FindingTrue(file, d)
    BY <1>1, <1>2, <1>5, <1>12, <2>1, <2>3, FindOther
  <2>6. d.op = "find" /\ d \in AnyCall
    BY <2>5 DEF AnyFinding, AnyCall
  <2>7. SearchTrue(file, call', result')
    BY <1>1, <1>12, <2>4, <2>5, <2>6 DEF SearchTrue
  <2> QED BY <1>1, <1>3, <1>12, <2>7, TurnKeeps
<1>13. CASE /\ later # {} /\ file[i].sid = call.sid /\ rip[i].known
            /\ rip' = [rip EXCEPT ![i].est = file[i].offset]
            /\ \/ file[i].offset > call.want /\ Found
               \/ file[i].offset <= call.want /\ Continue(i, file[i].offset, file[i].meta + 2)
  <2>1. rip' \in [Packs -> AnyEntry] /\ RipTrue(file, rip')
    <3>1. file[i].offset \in Int /\ file[i].offset <= file[i].offset
      BY <1>9, <1>13
    <3> QED BY <1>1, <1>9, <1>13, <3>1, RipGuess
  <2>2. CASE file[i].offset > call.want /\ Found
    <3>1. ASSUME call.prev = 0, NEW k \in DOMAIN file, PackOf(file, k, call.sid) PROVE file[k].offset > call.want
      <4>1. file[k].offset \in Nat
        BY <1>1, ItemType
      <4>2. PackOf(file, i, call.sid)
        BY <1>9, <1>13 DEF PackOf
      <4>3. k \notin 1 .. (i - 1)
        BY <1>10, <1>13, <3>1
      <4>4. k = i \/ i < k
        BY <1>8, <1>9, <1>13, <4>3
      <4>5. i < k => file[i].offset <= file[k].offset
        BY <1>1, <1>6, <1>9, <1>13, <3>1, <4>2, PacksApart
      <4> QED BY <1>6, <1>9, <1>13, <2>2, <4>1, <4>4, <4>5
    <3>2. SearchTrue(file, call', result')
      BY <1>2, <2>2, <3>1, FoundTrue
    <3> QED BY <1>1, <1>3, <2>1, <3>2, TurnKeeps
  <2>3. CASE file[i].offset <= call.want /\ Continue(i, file[i].offset, file[i].meta + 2)
    <3>1. PICK x \in Nat : x = file[i].offset
      BY <1>9, <1>13
    <3>2. PICK y \in Nat : y = file[i].meta + 2
      BY <1>9, <1>13
    <3>3. x \in Int /\ file[i].offset <= x /\ x <= call.want /\ y <= file[i].meta + 2
      BY <1>9, <1>13, <2>3, <3>1, <3>2
    <3>4. SearchTrue(file, call', result')
      BY <1>2, <1>5, <1>13, <2>3, <3>1, <3>2, <3>3, ContinueTrue
    <3> QED BY <1>1, <1>3, <2>1, <3>4, TurnKeeps
  <2> QED BY <1>13, <2>2, <2>3
<1>14. CASE /\ later # {} /\ file[i].sid = call.sid /\ ~rip[i].known /\ call.prev = 0
            /\ Continue(i, 0, call.size) /\ UNCHANGED rip
  <2>1. PICK x \in Int : x = 0
    OBVIOUS
  <2>2. PackOf(file, i, call.sid)
    BY <1>9, <1>14 DEF PackOf
  <2>3. file[i].offset = 0
    BY <1>1, <1>6, <1>9, <1>10, <1>14, <2>2, FirstOffset
  <2>4. call.size = 0
    BY <1>2, <1>14 DEF FindingTrue
  <2>5. file[i].offset <= x /\ x <= call.want /\ call.size \in Nat /\ call.size <= file[i].meta + 2
    BY <1>6, <1>9, <1>14, <2>1, <2>3, <2>4
  <2>6. SearchTrue(file, call', result')
    BY <1>2, <1>5, <1>14, <2>1, <2>5, ContinueTrue
  <2> QED BY <1>1, <1>3, <1>14, <2>6, TurnKeeps
<1>15. CASE /\ later # {} /\ file[i].sid = call.sid /\ ~rip[i].known /\ call.prev # 0
            /\ rip' = [rip EXCEPT ![i].est = Estimate(i)]
            /\ \/ Estimate(i) > call.want /\ Found
               \/ Estimate(i) <= call.want /\ Continue(i, Estimate(i), call.size)
  <2>1. PICK end : end = IF call.prev # 0 /\ call.end = -1 THEN file[i].at ELSE call.end
    OBVIOUS
  <2>2. EndBefore(i) = end
    BY <2>1 DEF EndBefore, StartOf
  <2>3. PICK guess : guess = call.stream + (end - (file[call.prev].at + call.size))
    OBVIOUS
  <2>4. guess \in Int /\ file[i].offset <= guess /\ call.size <= file[i].meta + 2
    BY <1>1, <1>2, <1>5, <1>15, <2>1, <2>3, EstimateTrue
  <2>5. Estimate(i) = IF rip[i].est # -1 THEN rip[i].est ELSE guess
    BY <2>2, <2>3 DEF Estimate, StartOf
  <2>6. rip[i].est \in Int /\ (rip[i].est = -1 \/ rip[i].est >= file[i].offset)
    <3>1. i \in Packs
      BY <1>9, <1>15 DEF Packs, Items
    <3>2. rip[i] \in AnyEntry
      BY <1>1, <3>1
    <3>3. file[i].sid # 0
      BY <1>6, <1>15
    <3> QED BY <1>1, <1>9, <1>15, <3>2, <3>3 DEF AnyEntry, RipTrue
  <2>7. PICK x : x = Estimate(i)
    OBVIOUS
  <2>8. x \in Int /\ file[i].offset <= x
    <3>1. CASE rip[i].est # -1
      <4>1. x = rip[i].est
        BY <2>5, <2>7, <3>1
      <4> QED BY <1>9, <1>15, <2>6, <3>1, <4>1
    <3>2. CASE rip[i].est = -1
      <4>1. x = guess
        BY <2>5, <2>7, <3>2
      <4> QED BY <2>4, <4>1
    <3> QED BY <3>1, <3>2
  <2>9. rip' \in [Packs -> AnyEntry] /\ RipTrue(file, rip')
    BY <1>1, <1>9, <1>15, <2>7, <2>8, RipGuess
  <2>10. CASE x > call.want /\ Found
    <3>1. SearchTrue(file, call', result')
      BY <1>2, <1>15, <2>10, FoundTrue
    <3> QED BY <1>1, <1>3, <2>9, <3>1, TurnKeeps
  <2>11. CASE x <= call.want /\ Continue(i, x, call.size)
    <3>1. SearchTrue(file, call', result')
      BY <1>2, <1>5, <1>6, <1>15, <2>4, <2>8, <2>11, ContinueTrue
    <3> QED BY <1>1, <1>3, <2>9, <3>1, TurnKeeps
  <2> QED BY <1>15, <2>7, <2>10, <2>11
<1> QED BY <1>4, <1>11, <1>12, <1>13, <1>14, <1>15

\* The partition at or before a place is the last such.
LEMMA PartitionOfIs ==
    ASSUME Sound(file), NEW p, NEW i \in DOMAIN file, Pack(file, i), file[i].at <= p
    PROVE  /\ Pack(file, PartitionOf(p)) /\ file[PartitionOf(p)].at <= p
           /\ \A j \in DOMAIN file : Pack(file, j) /\ file[j].at <= p => j <= PartitionOf(p)
<1> DEFINE before == {k \in Packs : StartOf(k) <= p}
           here == CHOOSE k \in before : \A j \in before : j <= k
<1>1. \A k : k \in before <=> (k \in DOMAIN file /\ Pack(file, k) /\ file[k].at <= p)
  BY DEF Packs, Items, Pack, StartOf
<1>2. i \in before
  BY <1>1
<1>3. before \in SUBSET (0 .. Len(file)) /\ Len(file) \in Nat
  BY <1>1, ItemNumbers
<1>4. PartitionOf(p) = here
  BY <1>2 DEF PartitionOf
<1> HIDE DEF before
<1>5. \E k \in before : \A j \in before : j <= k
  BY <1>2, <1>3, Greatest
<1>6. here \in before /\ \A j \in before : j <= here
  BY <1>5
<1> HIDE DEF here
<1> QED BY <1>1, <1>4, <1>6

\* A log that begins anew.
LEMMA EmptyLog ==
    ASSUME NEW f, Sound(f), NEW p \in Nat, NEW sids
    PROVE  /\ SeenTrue(f, <<>>) /\ Ordered(<<>>) /\ Below(<<>>, p)
           /\ Covered(f, <<>>, p, p, sids) /\ ResumeAt(f, p, p, sids)
<1>1. SeenTrue(f, <<>>) /\ Ordered(<<>>) /\ Below(<<>>, p)
  BY DEF SeenTrue, Ordered, Below
<1>2. ASSUME NEW i \in DOMAIN f, NEW k \in DOMAIN f, f[i].at < p, k < i, f[k].at >= p
      PROVE  FALSE
  <2>1. f[k].at < f[i].at
    BY <1>2, Rising
  <2>2. f[i].at \in Nat /\ f[k].at \in Nat
    BY ItemType
  <2> QED BY <1>2, <2>1, <2>2
<1>3. Covered(f, <<>>, p, p, sids)
  BY <1>2 DEF Covered
<1>4. ResumeAt(f, p, p, sids)
  BY DEF ResumeAt
<1> QED BY <1>1, <1>3, <1>4

\* What is known of where essence starts may be noted.
LEMMA RipStart ==
    ASSUME Typed, RipTrue(file, rip), NEW i \in DOMAIN file, Pack(file, i), NEW start \in Nat, start = HeadEnd(file, i),
           NEW next, next = [rip EXCEPT ![i].known = TRUE, ![i].start = start]
    PROVE  next \in [Packs -> AnyEntry] /\ RipTrue(file, next)
<1>1. i \in Packs /\ rip \in [Packs -> AnyEntry]
  BY DEF Pack, Packs, Items, Typed
<1>2. rip[i] \in AnyEntry
  BY <1>1
<1> DEFINE e == [rip[i] EXCEPT !.known = TRUE, !.start = start]
<1>3. e \in AnyEntry /\ e.est = rip[i].est /\ e.start = start
  <2>1. PICK yes \in BOOLEAN : yes = TRUE
    OBVIOUS
  <2>2. PICK old \in AnyEntry : old = rip[i]
    BY <1>2
  <2>3. e = [old EXCEPT !.known = yes, !.start = start]
    BY <2>1, <2>2
  <2> HIDE DEF e
  <2>4. e \in AnyEntry
    <3>1. PICK mid : mid = [old EXCEPT !.known = yes]
      OBVIOUS
    <3>2. mid \in AnyEntry
      BY <3>1 DEF AnyEntry
    <3>3. e = [mid EXCEPT !.start = start]
      BY <2>3, <3>1
    <3> QED BY <3>2, <3>3 DEF AnyEntry
  <2>5. e.est = old.est /\ e.start = start
    BY <2>3 DEF AnyEntry
  <2> QED BY <2>2, <2>4, <2>5
<1>4. next = [rip EXCEPT ![i] = e]
  BY <1>1
<1> HIDE DEF e
<1>5. next \in [Packs -> AnyEntry] /\ \A k \in Packs : next[k] = IF k = i THEN e ELSE rip[k]
  BY <1>1, <1>3, <1>4
<1>6. ASSUME NEW k \in DOMAIN file, file[k].type = "pack", file[k].sid # 0
      PROVE  (next[k].est = -1 \/ next[k].est >= file[k].offset) /\ (next[k].start = -1 \/ next[k].start = HeadEnd(file, k))
  <2>1. k \in Packs
    BY <1>6 DEF Packs, Items
  <2>2. (rip[k].est = -1 \/ rip[k].est >= file[k].offset) /\ (rip[k].start = -1 \/ rip[k].start = HeadEnd(file, k))
    BY <1>6 DEF RipTrue
  <2>3. CASE k = i
    <3>1. next[k].est = rip[k].est /\ next[k].start = HeadEnd(file, k)
      BY <1>3, <1>5, <2>1, <2>3
    <3> QED BY <2>2, <3>1
  <2>4. CASE k # i
    <3>1. next[k] = rip[k]
      BY <1>5, <2>1, <2>4
    <3> QED BY <2>2, <3>1
  <2> QED BY <2>3, <2>4
<1> QED BY <1>5, <1>6 DEF RipTrue

\* Arriving at the place of an offset.
LEMMA ArriveKeeps ==
    ASSUME IInv, scene' = scene, file' = file, call \in AnySeeking, NEW p \in Nat, p > 0,
           Lands(file, call.sid, call.want, p), Arrive(p), rip' \in [Packs -> AnyEntry], RipTrue(file, rip')
    PROVE  IInv'
<1>1. Typed /\ ReadingTrue /\ Sound(file) /\ body \in AnyBody /\ gc \in [Sids -> AnyReader]
  BY DEF IInv, Typed
<1>2. SameScene
  BY Stays
<1>3. PICK sid \in Nat \ {0} : sid = call.sid
  BY DEF AnySeeking
<1>4. PICK want \in Nat : want = call.want
  BY DEF AnySeeking
<1>5. PICK new \in BOOLEAN : new = (sid \notin Sids)
  OBVIOUS
<1>6. /\ body' = [body EXCEPT !.pos = p, !.sid = sid, !.new = new]
      /\ gc' = [s \in Sids |-> IF s = sid THEN [gc[s] EXCEPT !.file = p, !.stream = want] ELSE gc[s]]
      /\ log' = [from |-> p, seen |-> <<>>]
      /\ call' = Idle /\ result' = [kind |-> "seek", at |-> p, sid |-> sid, want |-> want]
  BY <1>3, <1>4, <1>5 DEF Arrive, SeekReturn, Return
<1>7. body' \in AnyBody /\ body'.pos = p /\ body'.sid = sid /\ body'.new = new
  BY <1>1, <1>6 DEF AnyBody
<1>8. gc' \in [Sids -> AnyReader]
  <2>1. ASSUME NEW s \in Sids PROVE gc[s] \in AnyReader /\ [gc[s] EXCEPT !.file = p, !.stream = want] \in AnyReader
    <3>1. gc[s] \in AnyReader
      BY <1>1
    <3>2. PICK r : r = [gc[s] EXCEPT !.file = p]
      OBVIOUS
    <3>3. r \in AnyReader
      BY <3>1, <3>2 DEF AnyReader
    <3>4. [r EXCEPT !.stream = want] \in AnyReader
      BY <3>3 DEF AnyReader
    <3>5. [gc[s] EXCEPT !.file = p, !.stream = want] = [r EXCEPT !.stream = want]
      BY <3>2
    <3>6. [gc[s] EXCEPT !.file = p, !.stream = want] \in AnyReader
      BY <3>4, <3>5
    <3> QED BY <3>1, <3>6
  <2>2. \A s \in Sids : (IF s = sid THEN [gc[s] EXCEPT !.file = p, !.stream = want] ELSE gc[s]) \in AnyReader
    BY <2>1
  <2>3. gc' = [s \in Sids |-> IF s = sid THEN [gc[s] EXCEPT !.file = p, !.stream = want] ELSE gc[s]]
    BY <1>6
  <2> QED BY <2>2, <2>3, Zenon
<1>9. ASSUME NEW s \in Sids
      PROVE  gc'[s].push = gc[s].push /\ (s = sid => gc'[s].file = p /\ gc'[s].stream = want)
  <2>1. gc[s] \in AnyReader
    BY <1>1
  <2>2. CASE s = sid
    <3>1. gc'[s] = [gc[s] EXCEPT !.file = p, !.stream = want]
      BY <1>6, <2>2
    <3> QED BY <2>1, <3>1 DEF AnyReader
  <2>3. CASE s # sid
    <3>1. gc'[s] = gc[s]
      BY <1>6, <2>3
    <3> QED BY <2>3, <3>1
  <2> QED BY <2>2, <2>3
<1>10. Typed'
  <2>1. log' \in [from : Nat, seen : Seq(AnySeen)]
    <3>1. log' = [from |-> p, seen |-> <<>>]
      BY <1>6
    <3>2. <<>> \in Seq(AnySeen)
      OBVIOUS
    <3> QED BY <3>1, <3>2
  <2>2. Idle \in AnyCall /\ [kind |-> "seek", at |-> p, sid |-> sid, want |-> want] \in AnyResult
    <3>1. p \in Int /\ sid \in Nat
      OBVIOUS
    <3> QED BY <3>1, Returns
  <2>3. rip' \in [Packs -> AnyEntry] /\ call' = Idle /\ result' = [kind |-> "seek", at |-> p, sid |-> sid, want |-> want]
    BY <1>6
  <2> QED BY <1>1, <1>7, <1>8, <2>1, <2>2, <2>3, TypedStep
<1>11. call'.op = "idle"
  BY <1>6 DEF Idle
<1>12. Reading' <=> sid \in Sids
  BY <1>5, <1>7, <1>11 DEF Reading
<1>13. Where' = p
  <2>1. CASE sid \in Sids
    BY <1>7, <1>9, <1>12, <2>1 DEF Where
  <2>2. CASE sid \notin Sids
    BY <1>7, <1>12, <2>2 DEF Where
  <2> QED BY <2>1, <2>2
<1>14. ReadingTrue'
  <2>1. ASSUME Reading' PROVE body'.sid \in Sids /\ ReaderAt(file, gc'[body'.sid], body'.sid) /\ gc'[body'.sid].file = p
    <3>1. sid \in Sids
      BY <1>12, <2>1
    <3>2. gc'[sid].file = p /\ gc'[sid].stream = want
      BY <1>9, <3>1
    <3>3. PICK j \in DOMAIN file : file[j].at = p /\ EssenceIn(file, j) /\ file[j].sid = sid /\ OffsetIn(file, j) = want
      BY <1>3, <1>4 DEF Lands
    <3>4. ReaderAt(file, gc'[sid], sid)
      BY <3>2, <3>3 DEF ReaderAt
    <3> QED BY <1>7, <3>1, <3>2, <3>4
  <2>2. \A s \in Sids : gc'[s].push => "push" \in Answers
    BY <1>1, <1>9 DEF ReadingTrue
  <2> QED BY <1>2, <1>7, <1>11, <2>1, <2>2 DEF ReadingTrue, SameScene
<1>15. LogTrue'
  <2>1. log'.from = p /\ log'.seen = <<>>
    BY <1>6
  <2>2. /\ SeenTrue(file, <<>>) /\ Ordered(<<>>) /\ Below(<<>>, p)
        /\ Covered(file, <<>>, p, p, Sids) /\ ResumeAt(file, p, p, Sids)
    BY <1>1, EmptyLog
  <2> QED BY <1>2, <1>7, <1>13, <2>1, <2>2 DEF LogTrue, SameScene
<1>16. RipTrue(file, rip)'
  OBVIOUS
<1>17. CallTrue'
  BY <1>11 DEF CallTrue
<1>18. ResultTrue(file, result)'
  <2>1. result'.at = p /\ result'.sid = sid /\ result'.want = want
    BY <1>6
  <2>2. \E i \in DOMAIN file : file[i].at = p /\ file[i].sid = sid /\ OffsetIn(file, i) = want
    BY <1>3, <1>4 DEF Lands
  <2>3. ResultTrue(file, result')
    BY <2>1, <2>2 DEF ResultTrue
  <2> QED BY <2>3
<1> QED BY <1>10, <1>14, <1>15, <1>16, <1>17, <1>18 DEF IInv

\* A seek that says that there is nothing is right if there is nothing.
LEMMA NothingTrue ==
    ASSUME NEW f, NEW c \in AnySeeking, NEW at \in Int, at <= 0,
           ~\E j \in DOMAIN f : EssenceIn(f, j) /\ f[j].sid = c.sid /\ OffsetIn(f, j) = c.want
    PROVE  SearchTrue(f, Idle, [kind |-> "seek", at |-> at, sid |-> c.sid, want |-> c.want])
<1>1. PICK r : r = [kind |-> "seek", at |-> at, sid |-> c.sid, want |-> c.want]
  OBVIOUS
<1>2. c.sid \in Nat /\ c.want \in Nat
  BY DEF AnySeeking
<1>3. Idle \in AnyCall /\ r \in AnyResult
  BY <1>1, <1>2, Returns
<1>4. r.at = at /\ r.sid = c.sid /\ r.want = c.want
  BY <1>1
<1>5. ResultTrue(f, r)
  <2>1. ~(r.at > 0)
    BY <1>4
  <2> QED BY <1>4, <2>1 DEF ResultTrue
<1>6. Idle.op = "idle"
  BY DEF Idle
<1> QED BY <1>1, <1>3, <1>5, <1>6 DEF SearchTrue

\* A turn of the search.
LEMMA SeekRoundKeeps ==
    ASSUME IInv, scene' = scene, SeekRound
    PROVE  IInv'
<1> DEFINE i == call.part
           essence == SeekEssence(i)
           start == IF rip[i].start # -1 THEN rip[i].start ELSE essence.tell
           p == Predicted(start)
           here == PartitionOf(p)
           later == {j \in Packs : j >= here /\ file[j].sid = call.sid}
<1>1. /\ rip' = [rip EXCEPT ![i].known = TRUE, ![i].start = IF essence.ok THEN start ELSE @]
      /\ \/ /\ \/ rip[i].start = -1 /\ ~essence.ok
               \/ p = call.last
               \/ p < 0 /\ here = i
            /\ SeekReturn(-1) /\ UNCHANGED <<body, gc, log>>
         \/ /\ rip[i].start # -1 \/ essence.ok
            /\ p # call.last
            /\ \/ /\ \A j \in Packs : StartOf(j) <= p
                  /\ SeekReturn(0) /\ UNCHANGED <<body, gc, log>>
               \/ /\ \E j \in Packs : StartOf(j) > p
                  /\ \/ here = i /\ p >= 0 /\ Arrive(p)
                     \/ /\ here # i /\ later = {}
                        /\ SeekReturn(-1) /\ UNCHANGED <<body, gc, log>>
                     \/ /\ here # i /\ later # {}
                        /\ call' = [call EXCEPT !.part = LeastOf(later), !.last = p]
                        /\ UNCHANGED <<body, gc, result, log>>
  BY Zenon DEF SeekRound
<1>2. file' = file /\ call.op = "seek"
  BY DEF SeekRound
<1>3. /\ Typed /\ Sound(file) /\ RipTrue(file, rip) /\ rip \in [Packs -> AnyEntry]
      /\ result \in AnyResult /\ ResultTrue(file, result)
  BY DEF IInv, Typed
<1>4. call \in AnySeeking /\ SeekingTrue(file, call)
  BY <1>2, <1>3, CallType DEF IInv, CallTrue
<1>5. call.sid \in Nat \ {0} /\ call.want \in Nat /\ call.part \in Nat /\ call.last \in Int
  BY <1>4 DEF AnySeeking
<1>6. /\ PackOf(file, i, call.sid) /\ i \in DOMAIN file /\ file[i].type = "pack" /\ file[i].sid = call.sid
      /\ file[i].offset <= call.want /\ call.want % 2 = 0 /\ call.last < Place(file, i, call.want)
      /\ Pack(file, i) /\ i \in Packs
  BY <1>4 DEF SeekingTrue, PackOf, Pack, Place, Packs, Items
<1>7. essence.ok /\ essence.tell = HeadEnd(file, i)
  <2> HIDE DEF i
  <2> QED BY <1>3, <1>5, <1>6, SeekEssenceIs
<1>8. start = HeadEnd(file, i)
  <2>1. rip[i].start = -1 \/ rip[i].start = HeadEnd(file, i)
    BY <1>3, <1>5, <1>6 DEF RipTrue
  <2> QED BY <1>7, <2>1
<1>9. p = Place(file, i, call.want)
  BY <1>8 DEF Predicted, Place
<1>10. /\ HeadEnd(file, i) \in Nat /\ HeadEnd(file, i) >= file[i].at + 2 + file[i].meta
       /\ p \in Nat /\ p >= HeadEnd(file, i)
  <2>1. /\ HeadEnd(file, i) \in Nat /\ HeadEnd(file, i) >= file[i].at + 2 + file[i].meta
        /\ Place(file, i, call.want) \in Nat /\ Place(file, i, call.want) >= HeadEnd(file, i)
    <3> HIDE DEF i
    <3> QED BY <1>3, <1>5, <1>6, PlaceType
  <2> HIDE DEF p
  <2> QED BY <1>9, <2>1
<1>11. rip' = [rip EXCEPT ![i].known = TRUE, ![i].start = start]
  BY <1>1, <1>7
<1> HIDE DEF i, essence, start, p, here, later
<1>12. rip' \in [Packs -> AnyEntry] /\ RipTrue(file, rip')
  BY <1>3, <1>6, <1>8, <1>10, <1>11, RipStart
<1>13. /\ file[i].at \in Nat /\ file[i].meta \in Nat /\ i \in Nat /\ p > 0 /\ file[i].at <= p
  <2>1. file[i].at \in Nat /\ file[i].meta \in Nat /\ i \in Nat
    BY <1>3, <1>6, ItemType
  <2> QED BY <1>10, <2>1
<1>14. p # call.last /\ ~(p < 0)
  <2>1. call.last < p
    BY <1>6, <1>9
  <2> QED BY <1>5, <1>10, <2>1
<1>15. /\ Pack(file, here) /\ file[here].at <= p
       /\ \A j \in DOMAIN file : Pack(file, j) /\ file[j].at <= p => j <= here
  BY <1>3, <1>6, <1>13, PartitionOfIs DEF here
<1>16. here \in DOMAIN file /\ here \in Nat /\ i <= here
  BY <1>3, <1>6, <1>13, <1>15, ItemType DEF Pack
<1>17. call.op # "read"
  BY <1>2
<1>18. ASSUME NEW j \in DOMAIN file, EssenceIn(file, j), file[j].sid = call.sid, OffsetIn(file, j) = call.want
       PROVE  /\ \E k \in DOMAIN file : Pack(file, k) /\ file[k].at > p
              /\ \E k \in DOMAIN file : PackOf(file, k, call.sid) /\ here <= k
  <2>1. /\ \E k \in DOMAIN file : Pack(file, k) /\ file[k].at > p
        /\ \E k \in DOMAIN file :
              /\ PackOf(file, k, call.sid) /\ i <= k
              /\ \A h \in DOMAIN file : Pack(file, h) /\ file[h].at <= p => h <= k
    BY <1>3, <1>5, <1>6, <1>9, <1>18, PlaceFound
  <2> QED BY <1>15, <1>16, <2>1
<1>19. ASSUME NEW at \in Int, at <= 0, SeekReturn(at), UNCHANGED <<body, gc, log>>,
              ~\E j \in DOMAIN file : EssenceIn(file, j) /\ file[j].sid = call.sid /\ OffsetIn(file, j) = call.want
       PROVE  IInv'
  <2>1. call' = Idle /\ result' = [kind |-> "seek", at |-> at, sid |-> call.sid, want |-> call.want]
    BY <1>19 DEF SeekReturn, Return
  <2>2. SearchTrue(file, call', result')
    BY <1>4, <1>19, <2>1, NothingTrue
  <2> QED BY <1>2, <1>12, <1>17, <1>19, <2>2, TurnKeeps
<1>20. CASE /\ \A j \in Packs : StartOf(j) <= p
            /\ SeekReturn(0) /\ UNCHANGED <<body, gc, log>>
  <2>1. ASSUME NEW k \in DOMAIN file, Pack(file, k), file[k].at > p PROVE FALSE
    <3>1. file[k].at <= p
      BY <1>20, <2>1 DEF Pack, Packs, Items, StartOf
    <3>2. file[k].at \in Nat
      BY <1>3, ItemType
    <3> QED BY <1>10, <2>1, <3>1, <3>2
  <2>2. ~\E j \in DOMAIN file : EssenceIn(file, j) /\ file[j].sid = call.sid /\ OffsetIn(file, j) = call.want
    BY <1>18, <2>1
  <2>3. PICK zero \in Int : zero = 0
    OBVIOUS
  <2>4. zero <= 0 /\ SeekReturn(zero)
    BY <1>20, <2>3
  <2> QED BY <1>19, <1>20, <2>2, <2>4
<1>21. CASE here = i /\ p >= 0 /\ Arrive(p)
  <2>1. ASSUME NEW k \in DOMAIN file, Pack(file, k), i < k PROVE file[k].at > p
    <3>1. k \in Nat /\ file[k].at \in Nat
      BY <1>3, ItemType
    <3>2. ~(file[k].at <= p)
      BY <1>13, <1>15, <1>21, <2>1, <3>1
    <3> QED BY <1>10, <3>1, <3>2
  <2>2. Lands(file, call.sid, call.want, p)
    BY <1>3, <1>5, <1>6, <1>9, <2>1, PlaceTrue
  <2> QED BY <1>2, <1>4, <1>10, <1>12, <1>13, <1>21, <2>2, ArriveKeeps
<1>22. CASE /\ here # i /\ later = {}
            /\ SeekReturn(-1) /\ UNCHANGED <<body, gc, log>>
  <2>1. ASSUME NEW k \in DOMAIN file, PackOf(file, k, call.sid), here <= k PROVE FALSE
    <3>1. k \in Nat
      BY <1>3, ItemType
    <3>2. k \in later
      BY <1>16, <2>1, <3>1 DEF later, PackOf, Pack, Packs, Items
    <3> QED BY <1>22, <3>2
  <2>2. ~\E j \in DOMAIN file : EssenceIn(file, j) /\ file[j].sid = call.sid /\ OffsetIn(file, j) = call.want
    BY <1>18, <2>1
  <2>3. PICK none \in Int : none = -1
    OBVIOUS
  <2>4. none <= 0 /\ SeekReturn(none)
    BY <1>22, <2>3
  <2> QED BY <1>19, <1>22, <2>2, <2>4
<1>23. CASE /\ here # i /\ later # {}
            /\ call' = [call EXCEPT !.part = LeastOf(later), !.last = p]
            /\ UNCHANGED <<body, gc, result, log>>
  <2>1. later \in SUBSET Nat
    <3>1. \A k \in DOMAIN file : k \in Nat
      BY <1>3, ItemType
    <3> QED BY <3>1 DEF later, Packs, Items
  <2>2. PICK k : k = LeastOf(later)
    OBVIOUS
  <2>3. k \in later /\ \A j \in later : k <= j
    BY <1>23, <2>1, <2>2, LeastOfIs
  <2>4. k \in DOMAIN file /\ PackOf(file, k, call.sid) /\ k \in Nat /\ here <= k
    BY <1>16, <2>1, <2>3 DEF later, Packs, Items, PackOf, Pack
  <2>5. ASSUME NEW j \in here .. (k - 1), PackOf(file, j, call.sid) PROVE FALSE
    <3>1. j \in later
      BY <1>16, <2>4, <2>5 DEF later, Packs, Items, PackOf, Pack
    <3>2. k <= j
      BY <2>3, <3>1
    <3> QED BY <1>16, <2>4, <3>2
  <2>6. i < here
    BY <1>13, <1>16, <1>23
  <2>7. file[k].offset <= call.want /\ p < Place(file, k, call.want)
    BY <1>3, <1>5, <1>6, <1>9, <1>15, <1>16, <2>4, <2>5, <2>6, PlaceLater
  <2>8. PICK d : d = [call EXCEPT !.part = k, !.last = p]
    OBVIOUS
  <2>9. d \in AnySeeking
    <3>1. PICK mid : mid = [call EXCEPT !.part = k]
      OBVIOUS
    <3>2. mid \in AnySeeking
      BY <1>4, <2>4, <3>1 DEF AnySeeking
    <3>3. d = [mid EXCEPT !.last = p] /\ p \in Int
      BY <1>10, <2>8, <3>1
    <3> QED BY <3>2, <3>3 DEF AnySeeking
  <2>10. d.op = "seek" /\ d.sid = call.sid /\ d.want = call.want /\ d.part = k /\ d.last = p
    BY <1>2, <1>4, <2>8 DEF AnySeeking
  <2>11. SeekingTrue(file, d)
    BY <1>6, <2>4, <2>7, <2>10 DEF SeekingTrue, Place
  <2>12. call' = d /\ result' = result
    BY <1>23, <2>2, <2>8
  <2>13. d \in AnyCall
    BY <2>9 DEF AnyCall
  <2>14. SearchTrue(file, call', result')
    BY <1>3, <2>10, <2>11, <2>12, <2>13 DEF SearchTrue
  <2> QED BY <1>2, <1>12, <1>17, <1>23, <2>14, TurnKeeps
<1> QED BY <1>1, <1>7, <1>14, <1>20, <1>21, <1>22, <1>23

-----------------------------------------------------------------------------
(***************************************************************************)
(* 9. The invariant: reading.                                              *)
(***************************************************************************)
\* A read goes on where the reader is.
LEMMA ReadOnKeeps ==
    ASSUME IInv, scene' = scene, NEW single \in Modes, ReadOn(single)
    PROVE  IInv'
<1>1. /\ Typed /\ ReadingTrue /\ LogTrue /\ RipTrue(file, rip) /\ ResultTrue(file, result)
      /\ body \in AnyBody /\ gc \in [Sids -> AnyReader] /\ rip \in [Packs -> AnyEntry] /\ result \in AnyResult
      /\ log \in [from : Nat, seen : Seq(AnySeen)]
  BY DEF IInv, Typed
<1>2. SameScene
  BY Stays
<1>3. /\ call = Idle /\ ~body.new
      /\ call' = [op |-> "read", stopNow |-> single, stopCalled |-> FALSE]
      /\ file' = file /\ body' = body /\ gc' = gc /\ rip' = rip /\ result' = result /\ log' = log
  BY DEF ReadOn, StartReading
<1>4. single \in BOOLEAN
  BY <1>1, Setting
<1>5. call'.op = "read" /\ call'.stopNow = single /\ call' \in AnyReading
  BY <1>3, <1>4 DEF AnyReading
<1>6. call' \in AnyCall
  BY <1>5 DEF AnyCall
<1>7. Typed'
  BY <1>1, <1>3, <1>6, TypedStep
<1>8. Reading /\ Reading' /\ Where' = Where /\ call.op # "read"
  BY <1>3, <1>5 DEF Reading, Where, Idle
<1>9. ReadingTrue'
  <2>1. call'.op = "read" /\ call'.stopNow => TRUE \in Modes
    BY <1>4, <1>5
  <2>2. body.sid \in Sids /\ ReaderAt(file, gc[body.sid], body.sid)
    BY <1>1, <1>8 DEF ReadingTrue
  <2>3. \A s \in Sids : gc[s].push => "push" \in Answers
    BY <1>1 DEF ReadingTrue
  <2> QED BY <1>2, <1>3, <1>5, <2>1, <2>2, <2>3 DEF ReadingTrue, SameScene
<1>10. LogTrue'
  BY <1>1, <1>2, <1>3, <1>8 DEF LogTrue, SameScene
<1>11. CallTrue'
  BY <1>5 DEF CallTrue
<1>12. RipTrue(file, rip)' /\ ResultTrue(file, result)'
  BY <1>1, <1>3
<1> QED BY <1>7, <1>9, <1>10, <1>11, <1>12 DEF IInv

\* The end of the file is noted.
LEMMA IsAtPartitionKeeps ==
    ASSUME IInv, scene' = scene, IsAtPartition
    PROVE  IInv'
<1>1. /\ Typed /\ ReadingTrue /\ LogTrue /\ RipTrue(file, rip) /\ ResultTrue(file, result)
      /\ body \in AnyBody /\ gc \in [Sids -> AnyReader] /\ rip \in [Packs -> AnyEntry] /\ result \in AnyResult
      /\ log \in [from : Nat, seen : Seq(AnySeen)]
  BY DEF IInv, Typed
<1>2. SameScene
  BY Stays
<1>3. PICK eof \in BOOLEAN : eof = (body.atEof \/ (~body.atPartition /\ ~CanReadKey(body.pos)))
  OBVIOUS
<1>4. /\ call = Idle /\ body' = [body EXCEPT !.atEof = eof]
      /\ file' = file /\ gc' = gc /\ rip' = rip /\ call' = call /\ result' = result /\ log' = log
  BY <1>3 DEF IsAtPartition
<1>5. body' \in AnyBody
  BY <1>1, <1>4 DEF AnyBody
<1>6. body'.pos = body.pos /\ body'.new = body.new /\ body'.sid = body.sid
  BY <1>1, <1>4 DEF AnyBody
<1>7. Typed'
  <2>1. call' \in AnyCall
    BY <1>1, <1>4 DEF Typed
  <2> QED BY <1>1, <1>4, <1>5, <2>1, TypedStep
<1>8. Reading' = Reading /\ Where' = Where
  BY <1>4, <1>6 DEF Reading, Where
<1>9. ReadingTrue'
  <2>1. call.op # "read" /\ call'.op # "read"
    BY <1>4 DEF Idle
  <2>2. Reading => body.sid \in Sids /\ ReaderAt(file, gc[body.sid], body.sid) /\ gc[body.sid].file = body.pos
    BY <1>1, <2>1 DEF ReadingTrue
  <2>3. \A s \in Sids : gc[s].push => "push" \in Answers
    BY <1>1 DEF ReadingTrue
  <2>4. Reading' => /\ body'.sid \in Sids' /\ ReaderAt(file', gc'[body'.sid], body'.sid)
                    /\ gc'[body'.sid].file = body'.pos
    BY <1>2, <1>4, <1>6, <1>8, <2>2 DEF SameScene
  <2>5. \A s \in Sids' : gc'[s].push => "push" \in Answers'
    BY <1>2, <1>4, <2>3 DEF SameScene
  <2> QED BY <2>1, <2>4, <2>5 DEF ReadingTrue
<1>10. LogTrue'
  BY <1>1, <1>2, <1>4, <1>6, <1>8 DEF LogTrue, SameScene
<1>11. CallTrue'
  BY <1>4 DEF CallTrue, Idle
<1>12. RipTrue(file, rip)' /\ ResultTrue(file, result)'
  BY <1>1, <1>4
<1> QED BY <1>7, <1>9, <1>10, <1>11, <1>12 DEF IInv

\* A read that found nothing to read, further on.
LEMMA SettledKeeps ==
    ASSUME IInv, scene' = scene, UNCHANGED <<file, gc, rip, log>>, call = Idle, body.new,
           body' \in AnyBody, body'.new, body.pos <= body'.pos,
           All => Covered(file, log.seen, log.from, body'.pos, Sids) /\ ResumeAt(file, log.from, body'.pos, Sids),
           NEW ok \in BOOLEAN, ReadReturn(ok)
    PROVE  IInv'
<1>1. /\ Typed /\ ReadingTrue /\ LogTrue /\ RipTrue(file, rip)
      /\ body \in AnyBody /\ gc \in [Sids -> AnyReader] /\ rip \in [Packs -> AnyEntry]
      /\ log \in [from : Nat, seen : Seq(AnySeen)]
  BY DEF IInv, Typed
<1>2. SameScene
  BY Stays
<1>3. /\ file' = file /\ gc' = gc /\ rip' = rip /\ log' = log
      /\ call' = Idle /\ result' = [kind |-> "read", ok |-> ok]
  BY DEF ReadReturn, Return
<1>4. Typed'
  <2>1. Idle \in AnyCall /\ [kind |-> "read", ok |-> ok] \in AnyResult
    <3>1. \E x \in Int : TRUE
      OBVIOUS
    <3>2. \E x \in Nat : TRUE
      OBVIOUS
    <3> QED BY <3>1, <3>2, Returns
  <2> QED BY <1>1, <1>3, <2>1, TypedStep
<1>5. ~Reading /\ ~Reading' /\ Where = body.pos /\ Where' = body'.pos /\ call'.op = "idle"
  BY <1>3 DEF Reading, Where, Idle
<1>6. ReadingTrue'
  <2>1. \A s \in Sids : gc[s].push => "push" \in Answers
    BY <1>1 DEF ReadingTrue
  <2> QED BY <1>2, <1>3, <1>5, <2>1 DEF ReadingTrue, SameScene
<1>7. LogTrue'
  <2>1. SeenTrue(file, log.seen) /\ Ordered(log.seen) /\ Below(log.seen, body.pos)
    BY <1>1, <1>5 DEF LogTrue
  <2>2. Below(log.seen, body'.pos)
    <3>1. log.seen \in Seq(AnySeen)
      BY <1>1
    <3>2. body.pos \in Nat /\ body'.pos \in Nat
      BY <1>1 DEF AnyBody
    <3>3. PICK p \in Nat : p = body.pos
      BY <3>2
    <3>4. PICK q \in Nat : q = body'.pos
      BY <3>2
    <3> QED BY <2>1, <3>1, <3>3, <3>4, BelowMore
  <2> QED BY <1>2, <1>3, <1>5, <2>1, <2>2 DEF LogTrue, SameScene
<1>8. CallTrue'
  BY <1>5 DEF CallTrue
<1>9. RipTrue(file, rip)'
  BY <1>1, <1>3
<1>10. ResultTrue(file, result)'
  BY <1>3 DEF ResultTrue
<1> QED BY <1>4, <1>6, <1>7, <1>8, <1>9, <1>10 DEF IInv

\* Only a pack is where a pack is.
LEMMA PackThere ==
    ASSUME Sound(file), NEW p, NEW i \in ItemsAt(p), IsPartitionKey(p)
    PROVE  i \in DOMAIN file /\ file[i].at = p /\ file[i].type = "pack"
<1>1. i \in DOMAIN file /\ file[i].at = p
  BY DEF ItemsAt, Items, StartOf
<1>2. PICK k \in DOMAIN file : file[k].at = p /\ file[k].type = "pack"
  BY DEF IsPartitionKey, IsA, Items
<1>3. i = k
  BY <1>1, <1>2, Rising
<1> QED BY <1>1, <1>2, <1>3

\* A read begins in a partition of a stream that has a reader.
LEMMA EnterKeeps ==
    ASSUME IInv, scene' = scene, UNCHANGED <<file, rip, log, result>>, call = Idle, body.new,
           NEW b \in AnyBody, body.pos <= b.pos,
           All => Covered(file, log.seen, log.from, b.pos, Sids),
           NEW i \in DOMAIN file, file[i].at = b.pos, file[i].type = "pack", file[i].sid \in Sids,
           body' = [b EXCEPT !.sid = file[i].sid],
           gc' = [gc EXCEPT ![file[i].sid] = [@ EXCEPT !.file = SeekEssence(i).tell, !.stream = file[i].offset]],
           NEW single \in Modes, StartReading(single)
    PROVE  IInv'
<1>1. /\ Typed /\ Sound(file) /\ ReadingTrue /\ LogTrue /\ RipTrue(file, rip) /\ ResultTrue(file, result)
      /\ body \in AnyBody /\ gc \in [Sids -> AnyReader] /\ rip \in [Packs -> AnyEntry] /\ result \in AnyResult
      /\ log \in [from : Nat, seen : Seq(AnySeen)] /\ log.seen \in Seq(AnySeen) /\ log.from \in Nat
  BY DEF IInv, Typed
<1>2. SameScene /\ Sids \in SUBSET (Nat \ {0})
  BY <1>1, Stays, Setting
<1>3. /\ file' = file /\ rip' = rip /\ result' = result /\ log' = log
      /\ call' = [op |-> "read", stopNow |-> single, stopCalled |-> FALSE]
  BY DEF StartReading
<1>4. PICK sid \in Nat \ {0} : sid = file[i].sid /\ sid \in Sids
  BY <1>2
<1>5. /\ file[i].offset \in Nat /\ file[i].at \in Nat /\ SeekEssence(i).tell \in Nat
      /\ file[i].at < SeekEssence(i).tell /\ SeekEssence(i).tell = HeadEnd(file, i)
      /\ \A k \in DOMAIN file : file[k].type = "pack" /\ i < k => SeekEssence(i).tell <= file[k].at
  BY <1>1, <1>4, SeekEssenceIs, ItemType
<1>6. PICK p \in Nat : p = SeekEssence(i).tell
  BY <1>5
<1>7. PICK offset \in Int : offset = file[i].offset
  BY <1>5
<1>8. body' \in AnyBody /\ body'.sid = sid
  <2>1. body' = [b EXCEPT !.sid = sid]
    BY <1>4
  <2> QED BY <2>1 DEF AnyBody
<1> DEFINE r == [gc[sid] EXCEPT !.file = p, !.stream = offset]
<1>9. r \in AnyReader /\ r.file = p /\ r.stream = offset /\ r.push = gc[sid].push
  <2>1. PICK old \in AnyReader : old = gc[sid]
    BY <1>1, <1>4
  <2>2. PICK mid : mid = [old EXCEPT !.file = p]
    OBVIOUS
  <2>3. mid \in AnyReader /\ mid.file = p /\ mid.push = old.push
    BY <2>2 DEF AnyReader
  <2>4. r = [mid EXCEPT !.stream = offset]
    BY <2>1, <2>2
  <2> HIDE DEF r
  <2>5. r \in AnyReader /\ r.file = p /\ r.stream = offset /\ r.push = old.push
    BY <2>3, <2>4 DEF AnyReader
  <2> QED BY <2>1, <2>5
<1>10. gc' = [gc EXCEPT ![sid] = r]
  BY <1>4, <1>6, <1>7
<1> HIDE DEF r
<1>11. gc' \in [Sids -> AnyReader] /\ \A s \in Sids : gc'[s] = IF s = sid THEN r ELSE gc[s]
  BY <1>1, <1>4, <1>9, <1>10
<1>12. single \in BOOLEAN
  BY <1>1, Setting
<1>13. call'.op = "read" /\ call'.stopNow = single /\ call' \in AnyCall
  <2>1. call'.op = "read" /\ call'.stopNow = single /\ call' \in AnyReading
    BY <1>3, <1>12 DEF AnyReading
  <2> QED BY <2>1 DEF AnyCall
<1>14. Typed'
  BY <1>1, <1>3, <1>8, <1>11, <1>13, TypedStep
<1>15. Reading' /\ Where' = p
  BY <1>4, <1>8, <1>9, <1>11, <1>13 DEF Reading, Where
<1>16. PICK e \in DOMAIN file : Begins(file, i, e)
  BY <1>1, <1>4, Beginning
<1>17. ReaderAt(file, r, sid)
  <2>1. file[e].at = HeadEnd(file, i) /\ EssenceIn(file, e) /\ file[e].sid = sid /\ file[i].offset = OffsetIn(file, e)
    <3>1. file[i].offset = OffsetIn(file, e)
      BY <1>16 DEF Begins
    <3> QED BY <1>1, <1>4, <1>16, <3>1, PackOffset
  <2> QED BY <1>5, <1>6, <1>7, <1>9, <1>16, <2>1 DEF ReaderAt
<1>18. ReadingTrue'
  <2>1. \A s \in Sids : gc'[s].push => "push" \in Answers
    <3>1. \A s \in Sids : gc[s].push => "push" \in Answers
      BY <1>1 DEF ReadingTrue
    <3>2. ASSUME NEW s \in Sids PROVE gc'[s].push = gc[s].push
      <4>1. CASE s = sid
        BY <1>9, <1>11, <4>1
      <4>2. CASE s # sid
        BY <1>11, <4>2
      <4> QED BY <4>1, <4>2
    <3> QED BY <3>1, <3>2
  <2>2. gc'[sid] = r
    BY <1>4, <1>11
  <2>3. call'.stopNow => TRUE \in Modes
    BY <1>12, <1>13
  <2>4. body'.sid \in Sids' /\ ReaderAt(file', gc'[body'.sid], body'.sid)
    BY <1>2, <1>3, <1>4, <1>8, <1>17, <2>2 DEF SameScene
  <2>5. \A s \in Sids' : gc'[s].push => "push" \in Answers'
    BY <1>2, <2>1 DEF SameScene
  <2>6. call'.stopNow => TRUE \in Modes'
    BY <1>2, <2>3 DEF SameScene
  <2> QED BY <1>13, <2>4, <2>5, <2>6 DEF ReadingTrue
<1>19. LogTrue'
  <2>1. Where = body.pos
    BY DEF Where, Reading, Idle
  <2>2. SeenTrue(file, log.seen) /\ Ordered(log.seen) /\ Below(log.seen, body.pos)
    BY <1>1, <2>1 DEF LogTrue
  <2>3. Below(log.seen, p)
    <3>1. body.pos \in Nat /\ body.pos <= p
      <4>1. body.pos \in Nat /\ b.pos \in Nat
        BY <1>1 DEF AnyBody
      <4> QED BY <1>5, <1>6, <4>1
    <3>2. PICK q \in Nat : q = body.pos
      BY <3>1
    <3> QED BY <1>1, <2>2, <3>1, <3>2, BelowMore
  <2>4. ASSUME All PROVE Covered(file, log.seen, log.from, p, Sids)
    <3>1. Covered(file, log.seen, log.from, file[i].at, Sids)
      BY <2>4
    <3>2. PICK seen : seen = log.seen
      OBVIOUS
    <3>3. PICK from \in Nat : from = log.from
      BY <1>1
    <3> QED BY <1>1, <1>2, <1>5, <1>6, <3>1, <3>2, <3>3, HeadCovers
  <2> QED BY <1>2, <1>3, <1>15, <2>2, <2>3, <2>4 DEF LogTrue, SameScene
<1>20. CallTrue'
  BY <1>13 DEF CallTrue
<1>21. RipTrue(file, rip)' /\ ResultTrue(file, result)'
  BY <1>1, <1>3
<1> QED BY <1>14, <1>18, <1>19, <1>20, <1>21 DEF IInv

\* A read begins with the next pack.
LEMMA ReadAnewKeeps ==
    ASSUME IInv, scene' = scene, NEW single \in Modes, ReadAnew(single)
    PROVE  IInv'
<1>1. /\ Typed /\ Sound(file) /\ LogTrue /\ body \in AnyBody
      /\ log.seen \in Seq(AnySeen) /\ log.from \in Nat
  BY DEF IInv, Typed
<1>2. Sids \in SUBSET (Nat \ {0})
  BY <1>1, Setting
<1>3. PICK seen : seen = log.seen
  OBVIOUS
<1>4. PICK from \in Nat : from = log.from
  BY <1>1
<1>5. PICK r : r = ReSyncOf(body)
  OBVIOUS
<1>6. /\ call = Idle /\ body.new /\ UNCHANGED <<file, rip, log>>
      /\ \/ /\ ~r.ok \/ ~IsPartitionKey(r.body.pos)
            /\ body' = r.body
            /\ ReadReturn(FALSE) /\ UNCHANGED gc
         \/ \E i \in ItemsAt(r.body.pos) :
            /\ r.ok /\ IsPartitionKey(r.body.pos) /\ file[i].sid \in Sids
            /\ body' = [r.body EXCEPT !.sid = file[i].sid]
            /\ gc' = [gc EXCEPT ![file[i].sid] = [@ EXCEPT !.file = SeekEssence(i).tell, !.stream = file[i].offset]]
            /\ StartReading(single) /\ UNCHANGED result
         \/ \E i \in ItemsAt(r.body.pos) :
            /\ r.ok /\ IsPartitionKey(r.body.pos) /\ file[i].sid \notin Sids
            /\ \E next \in {ReSyncOf([r.body EXCEPT !.sid = file[i].sid, !.pos = SeekEssence(i).tell,
                                                     !.atPartition = FALSE])} :
                  body' = next.body /\ ReadReturn(next.ok)
            /\ UNCHANGED gc
  BY <1>5 DEF ReadAnew
<1>7. Resynced(file, body, r)
  BY <1>1, <1>5, <1>6, ReSyncIs
<1>8. PICK b \in AnyBody : b = r.body
  BY <1>7 DEF Resynced
<1>9. /\ b.new /\ b.pos \in Nat /\ body.pos <= b.pos /\ body.pos \in Nat
      /\ \A k \in DOMAIN file : ~(file[k].type = "pack" /\ file[k].at >= body.pos /\ file[k].at < b.pos)
  <2>1. body.pos \in Nat
    BY <1>1 DEF AnyBody
  <2> QED BY <1>7, <1>8, <2>1 DEF Resynced
<1>10. ~Reading /\ Where = body.pos
  BY <1>6 DEF Reading, Where, Idle
<1>11. ASSUME All
       PROVE  Covered(file, seen, from, b.pos, Sids) /\ ResumeAt(file, from, b.pos, Sids)
  <2>1. Covered(file, seen, from, body.pos, Sids) /\ ResumeAt(file, from, body.pos, Sids)
    BY <1>1, <1>3, <1>4, <1>10, <1>11 DEF LogTrue
  <2>2. PICK p \in Nat : p = body.pos
    BY <1>9
  <2>3. PICK q \in Nat : q = b.pos
    BY <1>9
  <2> QED BY <1>1, <1>2, <1>9, <2>1, <2>2, <2>3, SkipCovers
<1>12. CASE /\ ~r.ok \/ ~IsPartitionKey(r.body.pos)
            /\ body' = r.body
            /\ ReadReturn(FALSE) /\ UNCHANGED gc
  <2>1. PICK no \in BOOLEAN : no = FALSE
    OBVIOUS
  <2>2. ReadReturn(no)
    BY <1>12, <2>1
  <2>3. body' \in AnyBody /\ body'.new /\ body.pos <= body'.pos
    BY <1>8, <1>9, <1>12
  <2>4. All => Covered(file, log.seen, log.from, body'.pos, Sids) /\ ResumeAt(file, log.from, body'.pos, Sids)
    BY <1>3, <1>4, <1>8, <1>11, <1>12
  <2> QED BY <1>6, <1>12, <2>2, <2>3, <2>4, SettledKeeps
<1>13. ASSUME NEW i \in ItemsAt(r.body.pos),
              /\ r.ok /\ IsPartitionKey(r.body.pos) /\ file[i].sid \in Sids
              /\ body' = [r.body EXCEPT !.sid = file[i].sid]
              /\ gc' = [gc EXCEPT ![file[i].sid] = [@ EXCEPT !.file = SeekEssence(i).tell, !.stream = file[i].offset]]
              /\ StartReading(single) /\ UNCHANGED result
       PROVE  IInv'
  <2>1. i \in DOMAIN file /\ file[i].at = b.pos /\ file[i].type = "pack"
    BY <1>1, <1>8, <1>13, PackThere
  <2>2. All => Covered(file, log.seen, log.from, b.pos, Sids)
    BY <1>3, <1>4, <1>11
  <2>3. body' = [b EXCEPT !.sid = file[i].sid]
    BY <1>8, <1>13
  <2> QED BY <1>6, <1>9, <1>13, <2>1, <2>2, <2>3, EnterKeeps
<1>14. ASSUME NEW i \in ItemsAt(r.body.pos),
              /\ r.ok /\ IsPartitionKey(r.body.pos) /\ file[i].sid \notin Sids
              /\ \E next \in {ReSyncOf([r.body EXCEPT !.sid = file[i].sid, !.pos = SeekEssence(i).tell,
                                                       !.atPartition = FALSE])} :
                    body' = next.body /\ ReadReturn(next.ok)
              /\ UNCHANGED gc
       PROVE  IInv'
  <2>1. i \in DOMAIN file /\ file[i].at = b.pos /\ file[i].type = "pack"
    BY <1>1, <1>8, <1>14, PackThere
  <2>2. /\ SeekEssence(i).tell \in Nat /\ file[i].at < SeekEssence(i).tell /\ file[i].sid \in Nat
        /\ \A k \in DOMAIN file : file[k].type = "pack" /\ i < k => SeekEssence(i).tell <= file[k].at
    BY <1>1, <2>1, SeekEssenceIs, ItemType
  <2>3. PICK p \in Nat : p = SeekEssence(i).tell
    BY <2>2
  <2>4. PICK sid \in Nat : sid = file[i].sid
    BY <2>2
  <2>5. PICK no \in BOOLEAN : no = FALSE
    OBVIOUS
  <2>6. PICK c : c = [b EXCEPT !.sid = sid, !.pos = p, !.atPartition = no]
    OBVIOUS
  <2>7. c \in AnyBody /\ c.pos = p /\ c.new
    <3>1. PICK x : x = [b EXCEPT !.sid = sid]
      OBVIOUS
    <3>2. x \in AnyBody /\ x.new = b.new
      BY <3>1 DEF AnyBody
    <3>3. PICK y : y = [x EXCEPT !.pos = p]
      OBVIOUS
    <3>4. y \in AnyBody /\ y.new = b.new /\ y.pos = p
      BY <3>2, <3>3 DEF AnyBody
    <3>5. c = [y EXCEPT !.atPartition = no]
      BY <2>6, <3>1, <3>3
    <3> QED BY <1>9, <3>4, <3>5 DEF AnyBody
  <2>8. PICK next : next = ReSyncOf(c)
    OBVIOUS
  <2>9. body' = next.body /\ ReadReturn(next.ok)
    BY <1>8, <1>14, <2>3, <2>4, <2>5, <2>6, <2>8
  <2>10. Resynced(file, c, next)
    BY <1>1, <2>7, <2>8, ReSyncIs
  <2>11. /\ body' \in AnyBody /\ body'.new /\ body'.pos \in Nat /\ p <= body'.pos /\ next.ok \in BOOLEAN
         /\ \A k \in DOMAIN file : ~(file[k].type = "pack" /\ file[k].at >= p /\ file[k].at < body'.pos)
    BY <2>7, <2>9, <2>10 DEF Resynced
  <2>12. ASSUME All
         PROVE  Covered(file, seen, from, body'.pos, Sids) /\ ResumeAt(file, from, body'.pos, Sids)
    <3>1. Covered(file, seen, from, file[i].at, Sids)
      BY <1>11, <2>1, <2>12
    <3>2. Covered(file, seen, from, p, Sids)
      BY <1>1, <1>2, <1>14, <2>1, <2>2, <2>3, <3>1, HeadCovers
    <3>3. ResumeAt(file, from, p, Sids)
      BY <1>1, <1>2, <1>14, <2>1, <2>2, <2>3, ResumeInside
    <3>4. PICK q \in Nat : q = body'.pos
      BY <2>11
    <3> QED BY <1>1, <1>2, <2>11, <3>2, <3>3, <3>4, SkipCovers
  <2>13. body.pos <= body'.pos
    BY <1>9, <2>1, <2>2, <2>3, <2>11
  <2>14. All => Covered(file, log.seen, log.from, body'.pos, Sids) /\ ResumeAt(file, log.from, body'.pos, Sids)
    BY <1>3, <1>4, <2>12
  <2>15. PICK ok \in BOOLEAN : ok = next.ok
    BY <2>11
  <2> QED BY <1>6, <1>14, <2>9, <2>11, <2>13, <2>14, <2>15, SettledKeeps
<1> QED BY <1>6, <1>12, <1>13, <1>14

\* What a reader r may have got to, and what handlers have got then.
Advanced(r, g, l) ==
    /\ r \in AnyReader /\ ReaderAt(file, r, body.sid)
    /\ g \in [Sids -> AnyReader] /\ g[body.sid] = r /\ \A s \in Sids : g[s].push => "push" \in Answers
    /\ l \in [from : Nat, seen : Seq(AnySeen)]
    /\ SeenTrue(file, l.seen) /\ Ordered(l.seen) /\ Below(l.seen, r.file)
    /\ All => Covered(file, l.seen, l.from, r.file, Sids)

\* The loop of a read goes on.
LEMMA LoopKeeps ==
    ASSUME IInv, scene' = scene, UNCHANGED <<file, rip, body, call, result>>, call.op = "read",
           NEW r, Advanced(r, gc', log')
    PROVE  IInv'
<1>1. /\ Typed /\ ReadingTrue /\ RipTrue(file, rip) /\ ResultTrue(file, result)
      /\ body \in AnyBody /\ rip \in [Packs -> AnyEntry] /\ call \in AnyCall /\ result \in AnyResult
  BY DEF IInv, Typed
<1>2. SameScene
  BY Stays
<1>3. file' = file /\ rip' = rip /\ body' = body /\ call' = call /\ result' = result
  OBVIOUS
<1>4. /\ gc' \in [Sids -> AnyReader] /\ gc'[body.sid] = r /\ \A s \in Sids : gc'[s].push => "push" \in Answers
      /\ log' \in [from : Nat, seen : Seq(AnySeen)] /\ ReaderAt(file, r, body.sid)
      /\ SeenTrue(file, log'.seen) /\ Ordered(log'.seen) /\ Below(log'.seen, r.file)
      /\ All => Covered(file, log'.seen, log'.from, r.file, Sids)
  BY DEF Advanced
<1>5. Typed'
  BY <1>1, <1>3, <1>4, TypedStep
<1>6. Reading /\ Reading' /\ Where' = r.file
  BY <1>3, <1>4 DEF Reading, Where
<1>7. ReadingTrue'
  <2>1. body.sid \in Sids /\ (call.stopNow => TRUE \in Modes)
    BY <1>1, <1>6 DEF ReadingTrue
  <2>2. body'.sid \in Sids' /\ ReaderAt(file', gc'[body'.sid], body'.sid)
    BY <1>2, <1>3, <1>4, <2>1 DEF SameScene
  <2>3. \A s \in Sids' : gc'[s].push => "push" \in Answers'
    BY <1>2, <1>4 DEF SameScene
  <2>4. call'.stopNow => TRUE \in Modes'
    BY <1>2, <1>3, <2>1 DEF SameScene
  <2> QED BY <1>3, <2>2, <2>3, <2>4 DEF ReadingTrue
<1>8. LogTrue'
  BY <1>2, <1>3, <1>4, <1>6 DEF LogTrue, SameScene
<1>9. CallTrue'
  BY <1>3 DEF CallTrue
<1>10. RipTrue(file, rip)' /\ ResultTrue(file, result)'
  BY <1>1, <1>3
<1> QED BY <1>5, <1>7, <1>8, <1>9, <1>10 DEF IInv

\* A read returns, to go on or to begin anew at a pack or the end.
LEMMA ReturnedKeeps ==
    ASSUME IInv, scene' = scene, UNCHANGED <<file, rip>>, call.op = "read",
           NEW r, Advanced(r, gc', log'),
           NEW ret \in BOOLEAN, All => ret \/ r.file >= EndIn(file), Returned(r, ret)
    PROVE  IInv'
<1>1. /\ Typed /\ Sound(file) /\ ReadingTrue /\ RipTrue(file, rip) /\ body \in AnyBody /\ rip \in [Packs -> AnyEntry]
  BY DEF IInv, Typed
<1>2. SameScene
  BY Stays
<1>3. file' = file /\ rip' = rip /\ call' = Idle /\ result' = [kind |-> "read", ok |-> ret]
  BY DEF Returned, ReadReturn, Return
<1>4. /\ gc' \in [Sids -> AnyReader] /\ gc'[body.sid] = r /\ \A s \in Sids : gc'[s].push => "push" \in Answers
      /\ log' \in [from : Nat, seen : Seq(AnySeen)] /\ ReaderAt(file, r, body.sid)
      /\ SeenTrue(file, log'.seen) /\ Ordered(log'.seen) /\ Below(log'.seen, r.file)
      /\ All => Covered(file, log'.seen, log'.from, r.file, Sids)
      /\ r \in AnyReader
  BY DEF Advanced
<1>5. PICK p \in Nat : p = r.file
  BY <1>4 DEF AnyReader
<1>6. PICK no \in BOOLEAN : no = FALSE
  OBVIOUS
<1>7. PICK eof \in BOOLEAN : eof = (body.atEof \/ (ret /\ ~CanReadKey(p)))
  OBVIOUS
<1>8. PICK new \in BOOLEAN : new = (~ret \/ (CanReadKey(p) /\ IsPartitionKey(p)))
  OBVIOUS
<1>9. body' = [body EXCEPT !.pos = p, !.atPartition = no, !.atEof = eof, !.new = new]
  BY <1>5, <1>6, <1>7, <1>8 DEF Returned
<1>10. body' \in AnyBody /\ body'.pos = p /\ body'.new = new /\ body'.sid = body.sid
  <2>1. PICK x : x = [body EXCEPT !.pos = p]
    OBVIOUS
  <2>2. x \in AnyBody /\ x.pos = p /\ x.sid = body.sid
    BY <1>1, <2>1 DEF AnyBody
  <2>3. PICK y : y = [x EXCEPT !.atPartition = no]
    OBVIOUS
  <2>4. y \in AnyBody /\ y.pos = p /\ y.sid = body.sid
    BY <2>2, <2>3 DEF AnyBody
  <2>5. PICK z : z = [y EXCEPT !.atEof = eof]
    OBVIOUS
  <2>6. z \in AnyBody /\ z.pos = p /\ z.sid = body.sid
    BY <2>4, <2>5 DEF AnyBody
  <2>7. body' = [z EXCEPT !.new = new]
    BY <1>9, <2>1, <2>3, <2>5
  <2> QED BY <2>6, <2>7 DEF AnyBody
<1>11. Typed'
  <2>1. Idle \in AnyCall /\ [kind |-> "read", ok |-> ret] \in AnyResult
    <3>1. \E x \in Int : TRUE
      OBVIOUS
    <3>2. \E x \in Nat : TRUE
      OBVIOUS
    <3> QED BY <3>1, <3>2, Returns
  <2> QED BY <1>1, <1>3, <1>4, <1>10, <2>1, TypedStep
<1>12. Reading /\ call'.op = "idle" /\ (Reading' <=> ~new)
  BY <1>3, <1>10 DEF Reading, Idle
<1>13. Where' = p
  <2>1. CASE new
    BY <1>10, <1>12, <2>1 DEF Where
  <2>2. CASE ~new
    BY <1>4, <1>5, <1>10, <1>12, <2>2 DEF Where
  <2> QED BY <2>1, <2>2
<1>14. ReadingTrue'
  <2>1. body.sid \in Sids
    BY <1>1, <1>12 DEF ReadingTrue
  <2>2. body'.sid \in Sids' /\ ReaderAt(file', gc'[body'.sid], body'.sid) /\ gc'[body'.sid].file = body'.pos
    BY <1>2, <1>3, <1>4, <1>5, <1>10, <2>1 DEF SameScene
  <2>3. \A s \in Sids' : gc'[s].push => "push" \in Answers'
    BY <1>2, <1>4 DEF SameScene
  <2> QED BY <1>12, <2>2, <2>3 DEF ReadingTrue
<1>15. LogTrue'
  <2>1. ASSUME All, ~Reading' PROVE ResumeAt(file, log'.from, p, Sids)
    <3>1. CASE ~ret
      <4>1. p >= EndIn(file)
        BY <1>5, <2>1, <3>1
      <4> QED BY <1>1, <4>1, ResumeAtEnd
    <3>2. CASE CanReadKey(p) /\ IsPartitionKey(p)
      <4>1. PICK k \in DOMAIN file : file[k].at = p /\ file[k].type = "pack"
        BY <3>2 DEF IsPartitionKey, IsA, Items
      <4>2. ResumeAt(file, log'.from, file[k].at, Sids)
        BY <1>1, <4>1, ResumeAtPack
      <4> QED BY <4>1, <4>2
    <3> QED BY <1>8, <1>12, <2>1, <3>1, <3>2
  <2> QED BY <1>2, <1>3, <1>4, <1>5, <1>10, <1>13, <2>1 DEF LogTrue, SameScene
<1>16. CallTrue'
  BY <1>12 DEF CallTrue
<1>17. RipTrue(file, rip)'
  BY <1>1, <1>3
<1>18. ResultTrue(file, result)'
  BY <1>3 DEF ResultTrue
<1> QED BY <1>11, <1>14, <1>15, <1>16, <1>17, <1>18 DEF IInv

\* A reader in the loop is at essence of its stream, at a pack or at the end.
LEMMA ReaderIs ==
    ASSUME IInv, call.op = "read"
    PROVE  /\ body.sid \in Sids /\ body.sid \in Nat /\ Reader \in AnyReader /\ Where = Reader.file
           /\ Advanced(Reader, gc, log)
           /\ IsPartitionKey(Reader.file) => CanReadKey(Reader.file + 1)
           /\ ~CanReadKey(Reader.file + 1) => Reader.file = EndIn(file)
           /\ CanReadKey(Reader.file + 1) /\ ~IsPartitionKey(Reader.file)
              => \E j \in DOMAIN file : /\ file[j].at = Reader.file /\ EssenceIn(file, j) /\ file[j].sid = body.sid
                                        /\ Reader.stream = OffsetIn(file, j)
<1>1. /\ Typed /\ Sound(file) /\ ReadingTrue /\ LogTrue /\ body \in AnyBody /\ gc \in [Sids -> AnyReader]
      /\ log \in [from : Nat, seen : Seq(AnySeen)]
  BY DEF IInv, Typed
<1>2. Reading
  BY DEF Reading
<1>3. body.sid \in Sids /\ ReaderAt(file, gc[body.sid], body.sid)
  BY <1>1, <1>2 DEF ReadingTrue
<1>4. PICK r \in AnyReader : r = gc[body.sid]
  BY <1>1, <1>3
<1>5. Reader = r /\ Where = r.file
  BY <1>2, <1>4 DEF Reader, Where
<1>6. FileEnd = EndIn(file) /\ EndIn(file) \in Nat
  BY <1>1, FileEndIs
<1>7. body.sid \in Nat /\ r.file \in Nat
  BY <1>1, <1>4 DEF AnyBody, AnyReader
<1>8. Advanced(r, gc, log)
  BY <1>1, <1>3, <1>4, <1>5 DEF Advanced, LogTrue, ReadingTrue
<1>9. ASSUME NEW j \in DOMAIN file, file[j].at = r.file, file[j].type # "junk" PROVE CanReadKey(r.file + 1)
  <2>1. file[j].at + SizeOf(file[j]) <= EndIn(file) /\ SizeOf(file[j]) = 2
    BY <1>1, <1>9, BeforeEnd, ItemType
  <2> QED BY <1>6, <1>7, <1>9, <2>1 DEF CanReadKey
<1>10. IsPartitionKey(r.file) => CanReadKey(r.file + 1)
  BY <1>9 DEF IsPartitionKey, IsA, Items
<1>11. CASE \E j \in DOMAIN file : file[j].at = r.file /\ EssenceIn(file, j) /\ file[j].sid = body.sid
                                   /\ r.stream = OffsetIn(file, j)
  <2>1. CanReadKey(r.file + 1)
    BY <1>9, <1>11 DEF EssenceIn
  <2> QED BY <1>3, <1>5, <1>7, <1>8, <1>10, <1>11, <2>1
<1>12. CASE \E j \in DOMAIN file : file[j].at = r.file /\ file[j].type = "pack"
  <2>1. IsPartitionKey(r.file)
    BY <1>12 DEF IsPartitionKey, IsA, Items
  <2> QED BY <1>3, <1>5, <1>7, <1>8, <1>10, <2>1
<1>13. CASE r.file = EndIn(file)
  <2>1. ~CanReadKey(r.file + 1)
    BY <1>6, <1>7, <1>13 DEF CanReadKey
  <2> QED BY <1>3, <1>5, <1>7, <1>8, <1>10, <1>13, <2>1
<1> QED BY <1>3, <1>4, <1>11, <1>12, <1>13 DEF ReaderAt

\* The end of the partition or of the file.
LEMMA ReachEndKeeps ==
    ASSUME IInv, scene' = scene, ReachEnd
    PROVE  IInv'
<1>1. /\ call.op = "read" /\ UNCHANGED <<file, rip>> /\ gc' = gc /\ log' = log
      /\ Returned(Reader, CanReadKey(Reader.file + 1))
  BY DEF ReachEnd
<1>2. /\ Advanced(Reader, gc, log) /\ Reader \in AnyReader
      /\ ~CanReadKey(Reader.file + 1) => Reader.file = EndIn(file)
  BY <1>1, ReaderIs
<1>3. PICK r \in AnyReader : r = Reader
  BY <1>2
<1>4. PICK ret \in BOOLEAN : ret = CanReadKey(Reader.file + 1)
  <2>1. FileEnd \in Nat /\ r.file \in Nat
    BY FileEndIs DEF IInv, Typed, AnyReader
  <2>2. PICK x \in Nat : x = r.file + 1
    BY <2>1
  <2>3. PICK e \in Nat : e = FileEnd
    BY <2>1
  <2>4. (x < e) \in BOOLEAN
    OBVIOUS
  <2>5. CanReadKey(Reader.file + 1) = (x < e)
    BY <1>3, <2>2, <2>3 DEF CanReadKey
  <2> QED BY <2>4, <2>5
<1>5. Advanced(r, gc', log')
  <2>1. Advanced(r, gc, log)
    BY <1>2, <1>3
  <2> QED BY <1>1, <2>1
<1>6. ret \/ r.file >= EndIn(file)
  <2>1. r.file \in Nat
    BY DEF AnyReader
  <2> QED BY <1>2, <1>3, <1>4, <2>1
<1>7. Returned(r, ret)
  BY <1>1, <1>3, <1>4
<1> QED BY <1>1, <1>5, <1>6, <1>7, ReturnedKeeps

\* A KLV that was not handled, where every one is to be, is a filler.
LEMMA NotTaken ==
    ASSUME Sound(file), NEW j \in DOMAIN file, EssenceIn(file, j), ~Taken(file[j].at), All
    PROVE  file[j].type # "klv"
<1>1. IsA(file[j].at, "fill")
  BY DEF Taken, All
<1>2. PICK k \in DOMAIN file : file[k].at = file[j].at /\ file[k].type = "fill"
  BY <1>1 DEF IsA, Items
<1>3. k = j
  BY <1>2, Rising
<1> QED BY <1>2, <1>3

\* A handler answers.
LEMMA HandleDataKeeps ==
    ASSUME IInv, scene' = scene, NEW answer \in Answers, HandleData(answer)
    PROVE  IInv'
<1> DEFINE stop == answer \in {"stop", "push"}
           push == IF stop THEN answer = "push" ELSE Reader.push
           stopNow == call.stopNow \/ stop
           n == KLVSize(Reader.file)
           r == IF stopNow /\ push THEN [Reader EXCEPT !.push = push]
                ELSE [file |-> Reader.file + n, stream |-> Reader.stream + n, push |-> push]
           klv == [at |-> Reader.file, stream |-> Reader.stream, sid |-> body.sid]
<1>1. /\ call.op = "read" /\ UNCHANGED <<file, rip>>
      /\ CanReadKey(Reader.file + 1) /\ ~IsPartitionKey(Reader.file)
      /\ gc' = [gc EXCEPT ![body.sid] = r]
      /\ log' = IF answer # "push" /\ Taken(Reader.file) THEN [log EXCEPT !.seen = Append(@, klv)] ELSE log
      /\ \/ answer = "fail" /\ Returned(r, FALSE)
         \/ answer # "fail" /\ stopNow /\ Returned(r, ~(call.stopCalled \/ stop))
         \/ answer # "fail" /\ ~stopNow /\ UNCHANGED <<body, call, result>>
  BY Zenon DEF HandleData
<1>2. /\ Typed /\ Sound(file) /\ ReadingTrue /\ LogTrue /\ gc \in [Sids -> AnyReader]
      /\ log \in [from : Nat, seen : Seq(AnySeen)]
  BY DEF IInv, Typed
<1>3. /\ body.sid \in Sids /\ body.sid \in Nat /\ Reader \in AnyReader /\ Where = Reader.file
      /\ Advanced(Reader, gc, log)
  BY <1>1, ReaderIs
<1>4. PICK j \in DOMAIN file : /\ file[j].at = Reader.file /\ EssenceIn(file, j) /\ file[j].sid = body.sid
                               /\ Reader.stream = OffsetIn(file, j)
  BY <1>1, ReaderIs
<1>5. Reader.file \in Nat /\ Reader.stream \in Int /\ Reader.push \in BOOLEAN
  BY <1>3 DEF AnyReader
<1>6. call.stopNow \in BOOLEAN /\ call.stopCalled = FALSE /\ (call.stopNow => TRUE \in Modes)
  <2>1. call \in AnyReading
    BY <1>1, <1>2, CallType
  <2> QED BY <1>1, <1>2, <2>1 DEF AnyReading, ReadingTrue
<1>7. /\ Reader.push => "push" \in Answers
      /\ "push" \in Answers => TRUE \notin Modes
  BY <1>2, <1>3, Setting DEF ReadingTrue, Reader
<1>8. n = 2
  <2>1. IsKey(Reader.file)
    BY <1>4 DEF IsKey, Items, EssenceIn
  <2> QED BY <2>1 DEF KLVSize
<1>9. stop \in BOOLEAN /\ push \in BOOLEAN /\ stopNow \in BOOLEAN
  <2>1. stop \in BOOLEAN
    OBVIOUS
  <2>2. push \in BOOLEAN
    <3>1. (answer = "push") \in BOOLEAN
      OBVIOUS
    <3>2. push = (answer = "push") \/ push = Reader.push
      OBVIOUS
    <3> HIDE DEF push
    <3> QED BY Zenon, <1>5, <3>1, <3>2
  <2>3. stopNow \in BOOLEAN
    OBVIOUS
  <2> QED BY <2>1, <2>2, <2>3
<1>10. push => "push" \in Answers
  BY <1>7
<1>11. stopNow /\ push => answer = "push"
  BY <1>6, <1>7
<1>12. answer = "push" => stopNow /\ push
  OBVIOUS
<1>13. stopNow /\ push => r = [Reader EXCEPT !.push = push]
  OBVIOUS
<1>14. ~(stopNow /\ push) => r = [file |-> Reader.file + 2, stream |-> Reader.stream + 2, push |-> push]
  BY <1>8
<1>15. klv = [at |-> Reader.file, stream |-> Reader.stream, sid |-> body.sid]
  OBVIOUS
<1>16. stop <=> answer \in {"stop", "push"}
  OBVIOUS
<1>17. stopNow <=> call.stopNow \/ stop
  OBVIOUS
<1> HIDE DEF stop, push, stopNow, n, r, klv
<1>18. r \in AnyReader /\ r.push = push
  <2>1. CASE stopNow /\ push
    <3>1. r = [Reader EXCEPT !.push = push]
      BY <1>13, <2>1
    <3> QED BY <1>3, <1>9, <3>1 DEF AnyReader
  <2>2. CASE ~(stopNow /\ push)
    <3>1. PICK x \in Nat : x = Reader.file + 2
      BY <1>5
    <3>2. PICK y \in Int : y = Reader.stream + 2
      BY <1>5
    <3>3. r = [file |-> x, stream |-> y, push |-> push]
      BY <1>14, <2>2, <3>1, <3>2
    <3> QED BY <1>9, <3>3 DEF AnyReader
  <2> QED BY <2>1, <2>2
<1>19. gc' \in [Sids -> AnyReader] /\ \A s \in Sids : gc'[s] = IF s = body.sid THEN r ELSE gc[s]
  BY <1>1, <1>2, <1>3, <1>18
<1>20. ASSUME NEW s \in Sids, gc'[s].push PROVE "push" \in Answers
  <2>1. CASE s = body.sid
    BY <1>10, <1>18, <1>19, <1>20, <2>1
  <2>2. CASE s # body.sid
    BY <1>2, <1>19, <1>20, <2>2 DEF ReadingTrue
  <2> QED BY <2>1, <2>2
<1>21. /\ ReaderAt(file, Reader, body.sid)
       /\ SeenTrue(file, log.seen) /\ Ordered(log.seen) /\ Below(log.seen, Reader.file)
       /\ All => Covered(file, log.seen, log.from, Reader.file, Sids)
  BY <1>3 DEF Advanced
<1>22. PICK seen \in Seq(AnySeen) : seen = log.seen
  BY <1>2
<1>23. PICK from \in Nat : from = log.from
  BY <1>2
<1>24. PICK at \in Nat : at = Reader.file
  BY <1>5
<1>25. Advanced(r, gc', log')
  <2>1. CASE stopNow /\ push
    <3>1. r = [Reader EXCEPT !.push = push]
      BY <1>13, <2>1
    <3>2. r.file = Reader.file /\ r.stream = Reader.stream
      BY <1>3, <3>1 DEF AnyReader
    <3>3. log' = log
      BY <1>1, <1>11, <2>1
    <3>4. ReaderAt(file, r, body.sid)
      BY <1>21, <3>2 DEF ReaderAt
    <3> QED BY <1>2, <1>3, <1>18, <1>19, <1>20, <1>21, <3>2, <3>3, <3>4 DEF Advanced
  <2>2. CASE ~(stopNow /\ push)
    <3>1. r = [file |-> Reader.file + 2, stream |-> Reader.stream + 2, push |-> push]
      BY <1>14, <2>2
    <3>2. r.file = file[j].at + 2 /\ r.stream = OffsetIn(file, j) + 2
      BY <1>4, <3>1
    <3>3. ReaderAt(file, r, body.sid)
      BY <1>2, <1>4, <3>2, NextItem
    <3>4. answer # "push"
      BY <1>12, <2>2
    <3>5. SizeOf(file[j]) = 2
      BY <1>4 DEF EssenceIn, SizeOf
    <3>6. CASE Taken(Reader.file)
      <4>1. log' = [log EXCEPT !.seen = Append(@, klv)]
        BY <1>1, <3>4, <3>6
      <4>2. log'.from = from /\ log'.seen = Append(seen, klv)
        BY <1>2, <1>22, <1>23, <4>1
      <4>3. klv \in AnySeen /\ klv.at = file[j].at /\ klv.stream = OffsetIn(file, j) /\ klv.sid = file[j].sid
        <5>1. klv \in AnySeen
          BY <1>3, <1>5, <1>15 DEF AnySeen
        <5>2. klv.at = Reader.file /\ klv.stream = Reader.stream /\ klv.sid = body.sid
          BY <1>15
        <5> QED BY <1>4, <5>1, <5>2
      <4>4. PICK more : more = Append(seen, klv)
        OBVIOUS
      <4>5. /\ more \in Seq(AnySeen)
            /\ SeenTrue(file, more) /\ Ordered(more) /\ Below(more, file[j].at + 2)
            /\ \A k \in DOMAIN seen : \E m \in DOMAIN more : more[m].at = seen[k].at
            /\ \E m \in DOMAIN more : more[m].at = file[j].at
        <5>1. SeenTrue(file, seen) /\ Ordered(seen) /\ Below(seen, file[j].at)
          BY <1>4, <1>21, <1>22
        <5> QED BY <1>2, <1>4, <4>3, <4>4, <5>1, LogGrows
      <4>6. All => Covered(file, more, from, file[j].at + 2, Sids)
        <5>1. All => Covered(file, seen, from, file[j].at, Sids)
          BY <1>4, <1>21, <1>22, <1>23
        <5> QED BY <1>2, <3>5, <4>5, <5>1, PassCovers
      <4>7. log' \in [from : Nat, seen : Seq(AnySeen)]
        <5>1. log' = [log EXCEPT !.seen = more]
          BY <1>22, <4>1, <4>4
        <5> QED BY <1>2, <4>5, <5>1
      <4> QED BY <1>3, <1>18, <1>19, <1>20, <3>2, <3>3, <4>2, <4>4, <4>5, <4>6, <4>7 DEF Advanced
    <3>7. CASE ~Taken(Reader.file)
      <4>1. log' = log
        BY <1>1, <3>7
      <4>2. Below(seen, file[j].at + 2)
        <5>1. at <= at + 2 /\ at + 2 \in Nat /\ Below(seen, at)
          BY <1>21, <1>22, <1>24
        <5>2. Below(seen, at + 2)
          BY <5>1, BelowMore
        <5> QED BY <1>4, <1>24, <5>2
      <4>3. ASSUME All PROVE Covered(file, seen, from, file[j].at + 2, Sids)
        <5>1. Covered(file, seen, from, file[j].at, Sids)
          BY <1>4, <1>21, <1>22, <1>23, <4>3
        <5>2. file[j].type # "klv"
          BY <1>2, <1>4, <3>7, <4>3, NotTaken
        <5>3. \A k \in DOMAIN seen : \E m \in DOMAIN seen : seen[m].at = seen[k].at
          OBVIOUS
        <5> QED BY <1>2, <3>5, <5>1, <5>2, <5>3, PassCovers
      <4> QED BY <1>2, <1>3, <1>18, <1>19, <1>20, <1>21, <1>22, <1>23, <3>2, <3>3, <4>1, <4>2, <4>3 DEF Advanced
    <3> QED BY <3>6, <3>7
  <2> QED BY <2>1, <2>2
<1>26. PICK q \in AnyReader : q = r
  BY <1>18
<1>27. All => answer = "ok"
  BY DEF All
<1>28. CASE answer = "fail" /\ Returned(r, FALSE)
  <2>1. PICK no \in BOOLEAN : no = FALSE
    OBVIOUS
  <2>2. Returned(q, no) /\ Advanced(q, gc', log') /\ ~All
    BY <1>25, <1>26, <1>27, <1>28, <2>1
  <2> QED BY <1>1, <2>2, ReturnedKeeps
<1>29. CASE answer # "fail" /\ stopNow /\ Returned(r, ~(call.stopCalled \/ stop))
  <2>1. PICK ret \in BOOLEAN : ret = ~(call.stopCalled \/ stop)
    BY <1>6, <1>9
  <2>2. All => ret
    BY <1>6, <1>16, <1>27, <2>1
  <2>3. Returned(q, ret) /\ Advanced(q, gc', log')
    BY <1>25, <1>26, <1>29, <2>1
  <2> QED BY <1>1, <2>2, <2>3, ReturnedKeeps
<1>30. CASE answer # "fail" /\ ~stopNow /\ UNCHANGED <<body, call, result>>
  BY <1>1, <1>25, <1>30, LoopKeeps
<1> QED BY <1>1, <1>28, <1>29, <1>30

-----------------------------------------------------------------------------
(***************************************************************************)
(* 10. Every step, and what follows.                                       *)
(***************************************************************************)
\* Nothing happens.
LEMMA StutterKeeps ==
    ASSUME IInv, UNCHANGED vars
    PROVE  IInv'
<1>1. /\ scene' = scene /\ file' = file /\ body' = body /\ gc' = gc /\ rip' = rip
      /\ call' = call /\ result' = result /\ log' = log
  BY DEF vars
<1>2. /\ Typed /\ ReadingTrue /\ LogTrue /\ RipTrue(file, rip) /\ CallTrue /\ ResultTrue(file, result)
  BY DEF IInv
<1>3. SameScene /\ Reading' = Reading /\ Where' = Where
  BY <1>1, Stays DEF Reading, Where
<1>4. Typed'
  <2>1. /\ body \in AnyBody /\ gc \in [Sids -> AnyReader] /\ rip \in [Packs -> AnyEntry]
        /\ call \in AnyCall /\ result \in AnyResult /\ log \in [from : Nat, seen : Seq(AnySeen)]
    BY <1>2 DEF Typed
  <2> QED BY <1>1, <1>2, <2>1, TypedStep
<1>5. ReadingTrue'
  BY <1>1, <1>2, <1>3 DEF ReadingTrue, SameScene
<1>6. LogTrue'
  BY <1>1, <1>2, <1>3 DEF LogTrue, SameScene
<1>7. CallTrue'
  BY <1>1, <1>2 DEF CallTrue
<1>8. RipTrue(file, rip)' /\ ResultTrue(file, result)'
  BY <1>1, <1>2
<1> QED BY <1>4, <1>5, <1>6, <1>7, <1>8 DEF IInv

\* A read keeps the invariant.
LEMMA ReadKeeps ==
    ASSUME IInv, scene' = scene, Read
    PROVE  IInv'
BY ReadAnewKeeps, ReadOnKeeps DEF Read

\* So does a step of a call in progress.
LEMMA InCallKeeps ==
    ASSUME IInv, scene' = scene, Step
    PROVE  IInv'
BY FindRoundKeeps, SeekRoundKeeps, ReachEndKeeps, HandleDataKeeps DEF Step

\* Every step keeps it, of any caller.
LEMMA StepKeeps ==
    ASSUME IInv, [Next]_vars
    PROVE  IInv'
<1>1. CASE Loop
  <2>1. scene' = scene
    BY <1>1 DEF Loop
  <2>2. CASE Read
    BY <2>1, <2>2, ReadKeeps
  <2>3. CASE Step
    BY <2>1, <2>3, InCallKeeps
  <2>4. CASE UNCHANGED vars
    BY <2>4, StutterKeeps
  <2> QED BY <1>1, <2>2, <2>3, <2>4 DEF Loop
<1>2. CASE Freely /\ UNCHANGED scene
  <2>1. ASSUME NEW p \in Starts, Seek(p) PROVE IInv'
    BY <1>2, <2>1, SeekKeeps
  <2>2. ASSUME NEW t \in Targets, SeekStream(t[1], t[2]) PROVE IInv'
    BY <1>2, <2>2, SeekStreamKeeps
  <2>3. CASE Read
    BY <1>2, <2>3, ReadKeeps
  <2>4. CASE Step
    BY <1>2, <2>4, InCallKeeps
  <2>5. CASE IsAtPartition
    BY <1>2, <2>5, IsAtPartitionKeeps
  <2> QED BY <1>2, <2>1, <2>2, <2>3, <2>4, <2>5 DEF Freely
<1>3. CASE UNCHANGED vars
  BY <1>3, StutterKeeps
<1> QED BY <1>1, <1>2, <1>3 DEF Next

\* The inductive invariant: where the readers are, what handlers got and what
\* a search knows are true of the file, for any well-written files, streams,
\* handlers and callers.
THEOREM Invariant ==
    ASSUME \A x \in Scenes : Usable(x)
    PROVE  Spec => []IInv
<1>1. Init => IInv
  BY InitHolds
<1>2. IInv /\ [Next]_vars => IInv'
  BY StepKeeps
<1> QED BY <1>1, <1>2, PTL DEF Spec

\* What handlers get is the essence of their streams, in order and once, at
\* the offset they are told (GCReader::ReadFromFile and HandleData).
THEOREM DeliveredAlways ==
    ASSUME \A x \in Scenes : Usable(x)
    PROVE  Spec => []Delivered
<1>1. IInv => TypeOK
  <2> SUFFICES ASSUME IInv PROVE TypeOK
    OBVIOUS
  <2>1. /\ Typed /\ file \in Files /\ body \in AnyBody /\ gc \in [Sids -> AnyReader]
        /\ call \in AnyCall /\ result \in AnyResult
    BY DEF IInv, Typed
  <2>2. call.op \in {"idle", "read", "find", "seek"}
    <3>1. CASE call = Idle
      BY <3>1 DEF Idle
    <3>2. CASE call \in AnyReading
      BY <3>2 DEF AnyReading
    <3>3. CASE call \in AnyFinding
      BY <3>3 DEF AnyFinding
    <3>4. CASE call \in AnySeeking
      BY <3>4 DEF AnySeeking
    <3> QED BY <2>1, <3>1, <3>2, <3>3, <3>4 DEF AnyCall
  <2>3. result.kind \in {"none", "read", "seek"}
    BY <2>1 DEF AnyResult
  <2> QED BY <2>1, <2>2, <2>3 DEF TypeOK, AnyBody, AnyReader
<1>2. IInv => RightStream
  <2> SUFFICES ASSUME IInv, NEW n \in DOMAIN log.seen
               PROVE  \E i \in ItemsAt(log.seen[n].at) :
                         /\ IsEssence(i) /\ file[i].sid = log.seen[n].sid
                         /\ log.seen[n].stream = TrueOffset(i)
    BY DEF RightStream
  <2>1. PICK i \in DOMAIN file : /\ file[i].at = log.seen[n].at /\ EssenceIn(file, i)
                                 /\ file[i].sid = log.seen[n].sid /\ log.seen[n].stream = OffsetIn(file, i)
    BY DEF IInv, LogTrue, SeenTrue
  <2> QED BY <2>1 DEF ItemsAt, Items, StartOf, IsEssence, TrueOffset
<1>3. IInv => InOrder
  BY DEF IInv, LogTrue, Ordered, InOrder
<1>4. IInv => Delivered
  BY <1>1, <1>2, <1>3 DEF Delivered
<1> QED BY <1>4, Invariant, PTL

\* Nothing that a handler takes is left out when the end of the file is
\* reached (BodyReader::ReadFromFile and ReSync).
THEOREM CompleteAlways ==
    ASSUME \A x \in Scenes : Usable(x)
    PROVE  Spec => []Complete
<1>1. IInv => Complete
  <2> SUFFICES ASSUME IInv, Answers = {"ok"}, call = Idle, body.atEof, body.pos >= FileEnd,
                      NEW i \in Items, file[i].type = "klv", file[i].sid \in Sids, "klv" \in Handled,
                      NEW k \in Packs, k < i, StartOf(k) >= log.from
               PROVE  \E n \in DOMAIN log.seen : log.seen[n].at = StartOf(i)
    BY DEF Complete
  <2>1. /\ Typed /\ Sound(file) /\ body \in AnyBody /\ call.op # "read"
    BY CallType DEF IInv, Typed
  <2>2. Where = body.pos
    BY <2>1 DEF IInv, ReadingTrue, Where
  <2>3. Covered(file, log.seen, log.from, body.pos, Sids)
    BY <2>2 DEF IInv, LogTrue, All
  <2>4. file[i].at < body.pos
    <3>1. file[i].at < FileEnd /\ FileEnd \in Nat
      BY <2>1, FileEndIs
    <3>2. file[i].at \in Nat /\ body.pos \in Nat
      BY <2>1, ItemType DEF AnyBody, Items
    <3> QED BY <3>1, <3>2
  <2>5. k \in DOMAIN file /\ i \in DOMAIN file /\ file[k].type = "pack" /\ file[k].at >= log.from
    BY DEF Packs, Items, StartOf
  <2> QED BY <2>3, <2>4, <2>5 DEF Covered, StartOf
<1> QED BY <1>1, Invariant, PTL

\* A seek to an offset leads there, and finds it if the stream has it,
\* whichever of the partitions are known (BodyReader::Seek and FindPartition),
\* in files in which guesses from earlier partitions do not mislead (Estimable).
THEOREM SeekTrueAlways ==
    ASSUME \A x \in Scenes : Usable(x)
    PROVE  Spec => []SeekTrue
<1>1. IInv => Arrived
  <2> SUFFICES ASSUME IInv, Sought, result.at > 0
               PROVE  \E i \in ItemsAt(result.at) : file[i].sid = result.sid /\ TrueOffset(i) = result.want
    BY DEF Arrived
  <2>1. PICK i \in DOMAIN file : /\ file[i].at = result.at /\ file[i].sid = result.sid
                                 /\ OffsetIn(file, i) = result.want
    BY DEF IInv, ResultTrue, Sought
  <2> QED BY <2>1 DEF ItemsAt, Items, StartOf, TrueOffset
<1>2. IInv => SeekFinds
  BY DEF IInv, ResultTrue, SeekFinds, Sought, IsEssence, TrueOffset, Items
<1>3. IInv => SeekTrue
  BY <1>1, <1>2 DEF SeekTrue
<1> QED BY <1>3, Invariant, PTL

=============================================================================
