------------------------ MODULE EncryptedKLV_proofs ------------------------
(***************************************************************************)
(* Proofs about KLVEObject for any size of the blocks, any lengths, chunks *)
(* and requests within what the code needs (Writable, Readable).  What is  *)
(* in the file and what waits is a function of the byte that WriteRaw has  *)
(* come to (EncryptorAt); what a reader holds is told by the byte it has   *)
(* come to and the blocks it has decrypted (Behind).                       *)
(*                                                                         *)
(* 1. Quotients.                                                           *)
(* 2. Bytes and cells.                                                     *)
(* 3. WriteChunk keeps Writer.                                             *)
(* 4. Read keeps Reader.                                                   *)
(* 5. The theorems.                                                        *)
(***************************************************************************)
EXTENDS EncryptedKLV, SequenceTheorems, TLAPS

\* Bytes a, a + 1, ... of a value.
Bytes(a, n) == [i \in 1 .. n |-> a + i - 1]

PlainOf(v) == IF v.plain > v.length THEN v.length ELSE v.plain

\* The blocks of a value, with the padding.
BlocksOf(v) == ((v.length - PlainOf(v)) \div Granularity) + 1

\* The cells in the file when n blocks have been written or read.
Place(v, n) == PlainOf(v) + n * Granularity

Cell(v, i) ==
    [block |-> IF i <= PlainOf(v) THEN 0 ELSE 1 + (i - PlainOf(v) - 1) \div Granularity,
     byte |-> IF i <= v.length THEN i - 1 ELSE Pad]

Cells(v, n) == [i \in 1 .. n |-> Cell(v, i)]

HashOf(v, n) == <<Start>> \o Cells(v, n)

\* The blocks that are in the file when WriteRaw has come to a byte, and the cells.
Blocks(v, at) ==
    IF at < PlainOf(v) THEN 0
    ELSE IF at < v.length THEN (at - PlainOf(v)) \div Granularity ELSE BlocksOf(v)

Count(v, at) == IF at < PlainOf(v) THEN at ELSE Place(v, Blocks(v, at))

Waiting(v, at) ==
    IF PlainOf(v) <= at /\ at < v.length THEN Bytes(Count(v, at), at - Count(v, at)) ELSE << >>

\* The fields of an encryptor.
Fields(o, w, k, q, t, f) == [offset |-> o, awaiting |-> w, block |-> k, hash |-> q, at |-> t, done |-> f]

\* The encryptor when WriteRaw has come to a byte.
EncryptorAt(v, at, done) ==
    Fields(at, Waiting(v, at), Blocks(v, at) + 1,
           IF v.hashing /\ at > 0 THEN HashOf(v, Count(v, at)) ELSE << >>, at, done)

WriterAt(v, at, done, e, file, hash) ==
    /\ e = EncryptorAt(v, at, done)
    /\ file = Cells(v, Count(v, at))
    /\ at < v.length => \E k \in Nat : at = k * v.chunk
    /\ done => at = v.length
    /\ hash = IF v.hashing /\ at = v.length THEN HashOf(v, Count(v, at)) ELSE Null

Writer == \E at \in 0 .. klv.length, done \in BOOLEAN : WriterAt(klv, at, done, encryptor, cells, mic)

DecryptorType ==
    [offset : Nat, buffer : [1 .. Granularity -> Int], pre : Nat, block : Nat, hash : Seq([block : Nat, byte : Int]),
     data : Seq(Int), at : Nat, ended : BOOLEAN]

\* d has read the value to byte a, in the plaintext, behind it, or all.
InPlain(v, d, a) ==
    /\ a < PlainOf(v) /\ d.offset = a /\ d.block = 1 /\ d.pre = 0
    /\ v.hashing => d.hash = IF a = 0 THEN << >> ELSE HashOf(v, a)

Behind(v, d, a) ==
    /\ PlainOf(v) <= a /\ a < v.length /\ d.offset = a
    /\ d.block \in 1 .. BlocksOf(v) + 1
    /\ d.pre \in 0 .. Granularity - 1 /\ a + d.pre = Place(v, d.block - 1)
    /\ \A i \in 1 .. d.pre : d.buffer[i] = Cell(v, a + i).byte
    /\ v.hashing => d.hash = IF a = 0 THEN << >> ELSE HashOf(v, a + d.pre)

AtEnd(v, d, a) ==
    /\ a = v.length /\ a <= d.offset
    /\ d.block = 1 => d.pre = 0 /\ d.offset <= PlainOf(v)

Reading(v, d) ==
    /\ d \in DecryptorType
    /\ d.data = Bytes(d.at, Len(d.data))
    /\ IF d.ended THEN d.data = << >> /\ d.at = v.length
       ELSE LET a == d.at + Len(d.data) IN InPlain(v, d, a) \/ Behind(v, d, a) \/ AtEnd(v, d, a)

Reader == Reading(klv, decryptor) /\ (~encryptor.done => decryptor = NewDecryptor)

WInv == klv \in Values /\ Writer

IInv == WInv /\ Reader

-----------------------------------------------------------------------------
(***************************************************************************)
(* 1. Quotients.                                                           *)
(***************************************************************************)
\* A quotient is known by its remainder.
LEMMA DivUnique ==
    ASSUME NEW G \in Nat \ {0}, NEW q \in Int, NEW j \in 0 .. G - 1
    PROVE  (q * G + j) \div G = q
<1> DEFINE n == q * G + j
           p == n \div G
           r == n % G
<1>1. n \in Int
  OBVIOUS
<1>2. p \in Int /\ r \in 0 .. G - 1 /\ p * G + r = n
  BY <1>1
<1> HIDE DEF p, r
<1>3. p * G + r = q * G + j
  BY <1>2
<1>4. p = q
  BY <1>2, <1>3
<1> QED BY <1>4 DEF p

\* Whole blocks in front move a quotient.
LEMMA DivShift ==
    ASSUME NEW G \in Nat \ {0}, NEW k \in Nat, NEW n \in Nat
    PROVE  /\ (k * G + n) \div G = k + n \div G
           /\ (k * G) \div G = k
<1> DEFINE p == n \div G
           r == n % G
<1>1. p \in Nat /\ r \in 0 .. G - 1 /\ p * G + r = n
  OBVIOUS
<1> HIDE DEF p, r
<1>2. ((k + p) * G + r) \div G = k + p
  BY <1>1, DivUnique
<1>3. (k + p) * G + r = k * G + n
  BY <1>1
<1>4. (k * G + 0) \div G = k
  BY DivUnique
<1> QED BY <1>2, <1>3, <1>4 DEF p

\* One block more.
LEMMA DivNext ==
    ASSUME NEW G \in Nat \ {0}, NEW n \in Nat
    PROVE  (n + G) \div G = n \div G + 1
<1> DEFINE p == n \div G
           r == n % G
<1>1. p \in Nat /\ r \in 0 .. G - 1 /\ p * G + r = n
  OBVIOUS
<1> HIDE DEF p, r
<1>2. ((p + 1) * G + r) \div G = p + 1
  BY <1>1, DivUnique
<1>3. (p + 1) * G + r = n + G
  BY <1>1
<1> QED BY <1>2, <1>3 DEF p

\* A quotient and what is left.
LEMMA DivBounds ==
    ASSUME NEW G \in Nat \ {0}, NEW n \in Nat
    PROVE  /\ n \div G \in Nat
           /\ (n \div G) * G \in Nat
           /\ (n \div G) * G <= n
           /\ n < (n \div G) * G + G
OBVIOUS

\* What is left of it is the remainder.
LEMMA DivMod ==
    ASSUME NEW G \in Nat \ {0}, NEW n \in Nat, n % G # 0
    PROVE  (n \div G) * G < n
<1> DEFINE p == n \div G
           r == n % G
<1>1. p \in Nat /\ r \in 0 .. G - 1 /\ p * G + r = n /\ r # 0
  OBVIOUS
<1> HIDE DEF p, r
<1>2. p * G \in Int
  BY <1>1
<1>3. p * G < n
  BY <1>1, <1>2
<1> QED BY <1>3 DEF p

\* Fewer blocks are fewer bytes.
LEMMA Cancel ==
    ASSUME NEW G \in Nat \ {0}, NEW x \in Int, NEW y \in Int
    PROVE  /\ x * G < y * G => x < y
           /\ x * G < y * G + G => x <= y
           /\ x <= y => x * G <= y * G
           /\ x < y => x * G + G <= y * G
           /\ (y - x) * G = y * G - x * G
           /\ (y + x) * G = y * G + x * G
           /\ (x + 1) * G = x * G + G
           /\ x * G \in Int
           /\ x \in Nat => x * G \in Nat /\ x <= x * G
OBVIOUS

-----------------------------------------------------------------------------
(***************************************************************************)
(* 2. Bytes and cells.                                                     *)
(***************************************************************************)
CellType == [block : Nat, byte : Int]

\* Bytes is a sequence.
LEMMA BytesSeq ==
    ASSUME NEW a \in Int, NEW n \in Nat
    PROVE  /\ Bytes(a, n) \in Seq(Int)
           /\ Len(Bytes(a, n)) = n
           /\ DOMAIN Bytes(a, n) = 1 .. n
           /\ \A i \in 1 .. n : Bytes(a, n)[i] = a + i - 1
BY DEF Bytes

\* A sequence that counts on is Bytes.
LEMMA BytesAre ==
    ASSUME NEW a \in Int, NEW s \in Seq(Int), \A i \in 1 .. Len(s) : s[i] = a + i - 1
    PROVE  s = Bytes(a, Len(s))
<1>1. Len(s) \in Nat
  OBVIOUS
<1>2. /\ Bytes(a, Len(s)) \in Seq(Int) /\ Len(Bytes(a, Len(s))) = Len(s)
      /\ \A i \in 1 .. Len(s) : Bytes(a, Len(s))[i] = a + i - 1
  BY <1>1, BytesSeq
<1> QED BY <1>2, SeqEqual

\* Bytes that follow each other.
LEMMA BytesJoin ==
    ASSUME NEW a \in Int, NEW m \in Nat, NEW n \in Nat
    PROVE  Bytes(a, m) \o Bytes(a + m, n) = Bytes(a, m + n)
<1> DEFINE s == Bytes(a, m)
           t == Bytes(a + m, n)
<1>1. s \in Seq(Int) /\ Len(s) = m /\ \A i \in 1 .. m : s[i] = a + i - 1
  BY BytesSeq
<1>2. a + m \in Int
  OBVIOUS
<1>3. t \in Seq(Int) /\ Len(t) = n /\ \A i \in 1 .. n : t[i] = (a + m) + i - 1
  BY <1>2, BytesSeq
<1> HIDE DEF s, t
<1>4. /\ s \o t \in Seq(Int) /\ Len(s \o t) = m + n
      /\ \A i \in 1 .. m + n : (s \o t)[i] = IF i <= m THEN s[i] ELSE t[i - m]
  BY <1>1, <1>3, ConcatProperties
<1>5. \A i \in 1 .. m + n : (s \o t)[i] = a + i - 1
  BY <1>1, <1>3, <1>4
<1>6. s \o t = Bytes(a, m + n)
  BY <1>4, <1>5, BytesAre
<1> QED BY <1>6 DEF s, t

\* The first bytes, and the others (FirstOf, Back).
LEMMA BytesCut ==
    ASSUME NEW a \in Int, NEW n \in Nat, NEW m \in 0 .. n
    PROVE  /\ FirstOf(Bytes(a, n), m) = Bytes(a, m)
           /\ Back(Bytes(a, n), m) = Bytes(a + m, n - m)
<1> DEFINE s == Bytes(a, n)
<1>1. s \in Seq(Int) /\ Len(s) = n /\ \A i \in 1 .. n : s[i] = a + i - 1
  BY BytesSeq
<1> HIDE DEF s
<1>2. \A i \in 1 .. m : s[i] \in Int
  BY <1>1
<1>3. /\ SubSeq(s, 1, m) \in Seq(Int) /\ Len(SubSeq(s, 1, m)) = m
      /\ \A i \in 1 .. m : SubSeq(s, 1, m)[i] = s[1 + i - 1]
  BY <1>2, SubSeqProperties
<1>4. \A i \in 1 .. m : SubSeq(s, 1, m)[i] = a + i - 1
  BY <1>1, <1>3
<1>5. SubSeq(s, 1, m) = Bytes(a, m)
  BY <1>3, <1>4, BytesAre
<1>6. /\ m + 1 \in Int /\ \A i \in m + 1 .. n : s[i] \in Int
      /\ n - (m + 1) + 1 = n - m /\ \A i \in 1 .. n - m : (m + 1) + i - 1 = m + i
  BY <1>1
<1>7. /\ SubSeq(s, m + 1, n) \in Seq(Int)
      /\ Len(SubSeq(s, m + 1, n)) = IF m + 1 <= n THEN n - (m + 1) + 1 ELSE 0
      /\ \A i \in 1 .. n - (m + 1) + 1 : SubSeq(s, m + 1, n)[i] = s[(m + 1) + i - 1]
  BY <1>6, SubSeqProperties
<1>8. Len(SubSeq(s, m + 1, n)) = n - m
  BY <1>7
<1>9. \A i \in 1 .. n - m : SubSeq(s, m + 1, n)[i] = (a + m) + i - 1
  BY <1>1, <1>6, <1>7
<1>10. SubSeq(s, m + 1, n) = Bytes(a + m, n - m)
  <2> DEFINE t == SubSeq(s, m + 1, n)
  <2>1. a + m \in Int /\ t \in Seq(Int) /\ Len(t) = n - m /\ \A i \in 1 .. Len(t) : t[i] = (a + m) + i - 1
    BY <1>7, <1>8, <1>9
  <2> HIDE DEF t
  <2>2. t = Bytes(a + m, Len(t))
    BY <2>1, BytesAre
  <2> QED BY <2>1, <2>2 DEF t
<1>11. FirstOf(s, m) = SubSeq(s, 1, m) /\ Back(s, m) = SubSeq(s, m + 1, n)
  BY <1>1 DEF FirstOf, Back
<1> QED BY <1>5, <1>10, <1>11 DEF s

\* A value that can be written.
Fits(v) ==
    /\ Granularity \in Nat \ {0}
    /\ v.length \in Nat /\ v.plain \in Nat /\ v.hashing \in BOOLEAN /\ v.chunk \in Nat \ {0}
    /\ v.requests \subseteq (Nat \ {0}) \cup {All}
    /\ Writable(v)

\* The lengths of a value in the file.
LEMMA Lengths ==
    ASSUME NEW v, Fits(v)
    PROVE  /\ PlainOf(v) \in 0 .. v.length /\ v.length \in Nat \ {0}
           /\ BlocksOf(v) \in Nat \ {0}
           /\ \A n \in Nat : Place(v, n) \in Nat /\ PlainOf(v) <= Place(v, n)
           /\ Place(v, 0) = PlainOf(v)
           /\ v.length < Place(v, BlocksOf(v))
           /\ Place(v, BlocksOf(v)) - Granularity <= v.length
           /\ Place(v, BlocksOf(v)) - Granularity = Place(v, BlocksOf(v) - 1)
<1> DEFINE P == PlainOf(v)
           G == Granularity
           q == (v.length - P) \div G
<1>1. G \in Nat \ {0} /\ v.length \in Nat \ {0} /\ P \in 0 .. v.length
  BY DEF Fits, Writable, PlainOf
<1>2. v.length - P \in Nat
  BY <1>1
<1>3. q \in Nat /\ q * G \in Nat /\ q * G <= v.length - P /\ v.length - P < q * G + G
  BY <1>1, <1>2, DivBounds
<1>4. BlocksOf(v) = q + 1 /\ \A n : Place(v, n) = P + n * G
  BY DEF BlocksOf, Place
<1> HIDE DEF P, G, q
<1>5. \A n \in Nat : n * G \in Nat
  BY <1>1, Cancel
<1>6. (q + 1) * G = q * G + G /\ (q + 1) - 1 = q /\ 0 * G = 0
  BY <1>1, <1>3
<1>7. \A n \in Nat : Place(v, n) \in Nat /\ P <= Place(v, n)
  BY <1>1, <1>4, <1>5
<1>70. /\ Place(v, q + 1) = P + (q + 1) * G /\ Place(v, q) = P + q * G /\ Place(v, 0) = P + 0 * G
       /\ BlocksOf(v) = q + 1 /\ BlocksOf(v) - 1 = q
  BY <1>3, <1>4, <1>6
<1>8. /\ v.length < Place(v, BlocksOf(v)) /\ Place(v, BlocksOf(v)) - G <= v.length
      /\ Place(v, BlocksOf(v)) - G = Place(v, BlocksOf(v) - 1) /\ Place(v, 0) = P
      /\ BlocksOf(v) \in Nat \ {0}
  BY <1>1, <1>3, <1>6, <1>70
<1>9. P = PlainOf(v) /\ G = Granularity
  BY DEF P, G
<1>10. PlainOf(v) \in 0 .. v.length /\ \A n \in Nat : Place(v, n) \in Nat /\ PlainOf(v) <= Place(v, n)
  BY <1>1, <1>7, <1>9
<1>11. /\ v.length < Place(v, BlocksOf(v)) /\ Place(v, BlocksOf(v)) - Granularity <= v.length
       /\ Place(v, BlocksOf(v)) - Granularity = Place(v, BlocksOf(v) - 1) /\ Place(v, 0) = PlainOf(v)
  BY <1>8, <1>9
<1> QED BY <1>1, <1>8, <1>10, <1>11

\* The names of the specification.
LEMMA Names ==
    ASSUME Fits(klv)
    PROVE  /\ ValueLength = klv.length /\ PlaintextOffset = PlainOf(klv)
           /\ EncryptedLength = Place(klv, BlocksOf(klv))
<1> DEFINE n == klv.length - PlainOf(klv)
<1>0. PlainOf(klv) \in 0 .. klv.length /\ klv.length \in Nat /\ Granularity \in Nat \ {0}
  BY Lengths DEF Fits
<1>1. n \in Nat
  BY <1>0
<1> HIDE DEF n
<1>4. (n + Granularity) \div Granularity = n \div Granularity + 1
  BY <1>0, <1>1, DivNext
<1>5. ValueLength = klv.length /\ PlaintextOffset = PlainOf(klv)
  BY DEF ValueLength, PlaintextOffset, PlainOf
<1>6. EncryptedLength = PlainOf(klv) + ((n + Granularity) \div Granularity) * Granularity
  BY <1>5 DEF EncryptedLength, n
<1>7. Place(klv, BlocksOf(klv)) = PlainOf(klv) + (n \div Granularity + 1) * Granularity
  BY DEF Place, BlocksOf, n
<1> QED BY <1>4, <1>5, <1>6, <1>7

\* What is in the file when WriteRaw has come to a byte behind the plaintext.
LEMMA Counts ==
    ASSUME NEW v, Fits(v), NEW at \in 0 .. v.length
    PROVE  /\ Blocks(v, at) \in 0 .. BlocksOf(v)
           /\ Count(v, at) \in Nat
           /\ PlainOf(v) <= at /\ at < v.length =>
                /\ Blocks(v, at) < BlocksOf(v)
                /\ Count(v, at) = Place(v, Blocks(v, at))
                /\ Count(v, at) <= at /\ at < Count(v, at) + Granularity
           /\ at = v.length => Blocks(v, at) = BlocksOf(v) /\ Count(v, at) = Place(v, BlocksOf(v))
           /\ at < PlainOf(v) => Blocks(v, at) = 0 /\ Count(v, at) = at
<1> DEFINE P == PlainOf(v)
           G == Granularity
           b == (at - P) \div G
<1>1. /\ G \in Nat \ {0} /\ P \in 0 .. v.length /\ v.length \in Nat \ {0} /\ BlocksOf(v) \in Nat \ {0}
      /\ Place(v, BlocksOf(v)) \in Nat /\ v.length < Place(v, BlocksOf(v))
  BY Lengths DEF Fits
<1>2. CASE at < P
  <2>1. Blocks(v, at) = 0 /\ Count(v, at) = at
    BY <1>2 DEF Blocks, Count
  <2> QED BY <1>1, <1>2, <2>1
<1>3. CASE at = v.length
  <2>1. Blocks(v, at) = BlocksOf(v) /\ Count(v, at) = Place(v, BlocksOf(v))
    BY <1>1, <1>3 DEF Blocks, Count
  <2> QED BY <1>1, <1>3, <2>1
<1>4. CASE P <= at /\ at < v.length
  <2>1. at - P \in Nat
    BY <1>1, <1>4
  <2>2. b \in Nat /\ b * G \in Nat /\ b * G <= at - P /\ at - P < b * G + G
    BY <1>1, <2>1, DivBounds
  <2>3. Blocks(v, at) = b /\ Count(v, at) = P + b * G /\ Place(v, b) = P + b * G
    BY <1>1, <1>4 DEF Blocks, Count, Place
  <2>4. Place(v, BlocksOf(v)) = P + BlocksOf(v) * G
    BY DEF Place
  <2> HIDE DEF P, G, b
  <2>5. BlocksOf(v) * G \in Int /\ BlocksOf(v) \in Int
    BY <1>1, Cancel
  <2>6. b * G < BlocksOf(v) * G
    BY <1>1, <1>4, <2>2, <2>4, <2>5
  <2>7. b < BlocksOf(v)
    BY <1>1, <2>2, <2>5, <2>6, Cancel
  <2>8. b \in 0 .. BlocksOf(v) /\ P + b * G \in Nat /\ P + b * G <= at /\ at < (P + b * G) + G
    BY <1>1, <2>1, <2>2, <2>7
  <2>9. ~(at < P) /\ at # v.length
    BY <1>1, <1>4
  <2> QED BY <2>3, <2>7, <2>8, <2>9 DEF P, G
<1>5. at < P \/ at = v.length \/ (P <= at /\ at < v.length)
  BY <1>1
<1> QED BY <1>2, <1>3, <1>4, <1>5

\* A cell, by the number of its block.
LEMMA CellOf ==
    ASSUME NEW v, Fits(v), NEW b \in Nat, NEW i \in Nat \ {0}, NEW c \in Nat, c = Place(v, b) + i
    PROVE  Cell(v, c) =
             [block |-> (b + 1) + (i - 1) \div Granularity, byte |-> IF c <= v.length THEN c - 1 ELSE Pad]
<1> DEFINE P == PlainOf(v)
           G == Granularity
<1>0. PlainOf(v) \in 0 .. v.length /\ v.length \in Nat /\ Granularity \in Nat \ {0}
  BY Lengths DEF Fits
<1>1. G \in Nat \ {0} /\ P \in Nat /\ i - 1 \in Nat
  BY <1>0
<1>2. Place(v, b) = P + b * G
  BY DEF Place
<1> HIDE DEF G, P
<1>3. b * G \in Nat
  BY <1>1, Cancel
<1>4. (b * G + (i - 1)) \div G = b + (i - 1) \div G /\ (i - 1) \div G \in Nat
  BY <1>1, DivShift, DivBounds
<1>5. ~(c <= P) /\ c - P - 1 = b * G + (i - 1)
  BY <1>1, <1>2, <1>3
<1>6. (c - P - 1) \div G = b + (i - 1) \div G
  BY <1>4, <1>5
<1>7. Cell(v, c) = [block |-> 1 + (c - P - 1) \div G, byte |-> IF c <= v.length THEN c - 1 ELSE Pad]
  BY <1>5 DEF Cell, G, P
<1>8. 1 + (c - P - 1) \div G = (b + 1) + (i - 1) \div G
  BY <1>4, <1>6
<1> QED BY <1>7, <1>8 DEF G

\* A cell of the plaintext.
LEMMA CellPlain ==
    ASSUME NEW v, Fits(v), NEW i \in 1 .. PlainOf(v)
    PROVE  Cell(v, i) = [block |-> 0, byte |-> i - 1]
<1>1. i <= PlainOf(v) /\ i <= v.length
  BY Lengths
<1> QED BY <1>1 DEF Cell

\* Cells is a sequence.
LEMMA CellsSeq ==
    ASSUME NEW v, Fits(v), NEW n \in Nat
    PROVE  /\ Cells(v, n) \in Seq(CellType)
           /\ Len(Cells(v, n)) = n
           /\ DOMAIN Cells(v, n) = 1 .. n
           /\ \A i \in 1 .. n : Cells(v, n)[i] = Cell(v, i)
<1> DEFINE P == PlainOf(v)
<1>1. ASSUME NEW i \in 1 .. n PROVE Cell(v, i) \in CellType
  <2>1. P \in Nat /\ v.length \in Nat /\ Granularity \in Nat \ {0}
    BY Lengths DEF Fits
  <2>2. CASE i <= P
    BY <2>1, <2>2 DEF Cell, CellType, Pad
  <2>3. CASE ~(i <= P)
    <3>1. i - P - 1 \in Nat
      BY <2>1, <2>3
    <3>2. (i - P - 1) \div Granularity \in Nat
      BY <2>1, <3>1, DivBounds
    <3>3. 1 + (i - P - 1) \div Granularity \in Nat
      BY <3>2
    <3>4. (IF i <= v.length THEN i - 1 ELSE Pad) \in Int
      BY <2>1 DEF Pad
    <3>5. Cell(v, i) = [block |-> 1 + (i - P - 1) \div Granularity, byte |-> IF i <= v.length THEN i - 1 ELSE Pad]
      BY <2>3 DEF Cell
    <3> QED BY <3>3, <3>4, <3>5 DEF CellType
  <2> QED BY <2>2, <2>3
<1>2. Cells(v, n) = [i \in 1 .. n |-> Cell(v, i)]
  BY DEF Cells
<1> QED BY <1>1, <1>2

\* A sequence of the right cells is Cells.
LEMMA CellsAre ==
    ASSUME NEW v, Fits(v), NEW s \in Seq(CellType), \A i \in 1 .. Len(s) : s[i] = Cell(v, i)
    PROVE  s = Cells(v, Len(s))
<1>1. Len(s) \in Nat
  OBVIOUS
<1>2. /\ Cells(v, Len(s)) \in Seq(CellType) /\ Len(Cells(v, Len(s))) = Len(s)
      /\ \A i \in 1 .. Len(s) : Cells(v, Len(s))[i] = Cell(v, i)
  BY <1>1, CellsSeq
<1> QED BY <1>2, SeqEqual

\* The next cells behind those there are.
LEMMA CellsJoin ==
    ASSUME NEW v, Fits(v), NEW n \in Nat, NEW s \in Seq(CellType),
           \A i \in 1 .. Len(s) : s[i] = Cell(v, n + i)
    PROVE  Cells(v, n) \o s = Cells(v, n + Len(s))
<1> DEFINE t == Cells(v, n)
           u == t \o s
<1>1. t \in Seq(CellType) /\ Len(t) = n /\ \A i \in 1 .. n : t[i] = Cell(v, i)
  BY CellsSeq
<1> HIDE DEF t
<1>2. /\ u \in Seq(CellType) /\ Len(u) = n + Len(s)
      /\ \A i \in 1 .. n + Len(s) : u[i] = IF i <= n THEN t[i] ELSE s[i - n]
  BY <1>1, ConcatProperties
<1> HIDE DEF u
<1>3. Len(s) \in Nat
  OBVIOUS
<1>4. \A i \in 1 .. n + Len(s) : u[i] = Cell(v, i)
  <2> TAKE i \in 1 .. n + Len(s)
  <2>1. CASE i <= n
    <3>1. i \in 1 .. n
      BY <2>1, <1>3
    <3> QED BY <1>1, <1>2, <2>1, <3>1
  <2>2. CASE ~(i <= n)
    <3>1. i - n \in 1 .. Len(s) /\ n + (i - n) = i
      BY <2>2, <1>3
    <3>2. s[i - n] = Cell(v, n + (i - n))
      BY <3>1
    <3> QED BY <1>2, <2>2, <3>1, <3>2
  <2> QED BY <2>1, <2>2
<1>5. u = Cells(v, Len(u))
  BY <1>2, <1>4, CellsAre
<1> QED BY <1>2, <1>5 DEF u, t

\* A hash that goes on.
LEMMA HashJoin ==
    ASSUME NEW v, Fits(v), NEW n \in Nat, NEW s \in Seq(CellType),
           \A i \in 1 .. Len(s) : s[i] = Cell(v, n + i)
    PROVE  /\ HashOf(v, n) \o s = HashOf(v, n + Len(s))
           /\ HashOf(v, n) \in Seq([block : Nat, byte : Int])
<1>1. Cells(v, n) \in Seq(CellType)
  BY CellsSeq
<1>2. <<Start>> \in Seq(CellType)
  BY DEF Start, CellType
<1>3. (<<Start>> \o Cells(v, n)) \o s = <<Start>> \o (Cells(v, n) \o s)
  BY <1>1, <1>2, ConcatAssociative
<1>4. Cells(v, n) \o s = Cells(v, n + Len(s))
  BY CellsJoin
<1>5. <<Start>> \o Cells(v, n) \in Seq(CellType)
  BY <1>1, <1>2, ConcatProperties
<1> QED BY <1>3, <1>4, <1>5 DEF HashOf, CellType

\* Base_WriteDataTo at the end of what is there.
LEMMA PutNext ==
    ASSUME NEW S, cells \in Seq(S), NEW s \in Seq(S)
    PROVE  Put(s, Len(cells)) = cells \o s
<1> DEFINE n == Len(cells)
           m == Len(s)
           t == cells \o s
           p == Put(s, n)
<1>1. n \in Nat /\ m \in Nat
  OBVIOUS
<1>2. t \in Seq(S) /\ Len(t) = n + m /\ \A i \in 1 .. n + m : t[i] = IF i <= n THEN cells[i] ELSE s[i - n]
  BY ConcatProperties
<1>3. DOMAIN t = 1 .. n + m /\ t = [i \in 1 .. n + m |-> t[i]]
  BY <1>1, <1>2, LenProperties
<1> HIDE DEF t
<1>4. (IF n > n + m THEN n ELSE n + m) = n + m /\ Least(n, n) = n
  BY <1>1 DEF Least
<1>5. p = [i \in 1 .. n + m |->
             CASE i \in n + 1 .. n + m -> s[i - n]
               [] i \in 1 .. n -> cells[i]
               [] i > n + m -> cells[i]
               [] OTHER -> [block |-> 0, byte |-> Noise]]
  BY <1>4 DEF Put
<1> HIDE DEF p
<1>6. \A i \in 1 .. n + m : p[i] = t[i]
  <2> TAKE i \in 1 .. n + m
  <2>1. CASE i <= n
    <3>1. i \in 1 .. n /\ ~(i \in n + 1 .. n + m) /\ ~(i > n + m)
      BY <1>1, <2>1
    <3>2. p[i] = cells[i]
      BY <1>5, <3>1
    <3> QED BY <1>2, <2>1, <3>2
  <2>2. CASE ~(i <= n)
    <3>1. ~(i \in 1 .. n) /\ (i \in n + 1 .. n + m) /\ ~(i > n + m)
      BY <1>1, <2>2
    <3>2. p[i] = s[i - n]
      BY <1>5, <3>1
    <3> QED BY <1>2, <2>2, <3>2
  <2> QED BY <2>1, <2>2
<1>7. p = [i \in 1 .. n + m |-> p[i]]
  BY <1>5
<1>8. p = t
  BY <1>3, <1>6, <1>7
<1> QED BY <1>8 DEF p, t

-----------------------------------------------------------------------------
(***************************************************************************)
(* 3. WriteChunk keeps Writer.                                             *)
(***************************************************************************)
\* What a block is made of: bytes of the value, and the padding behind them.
Padded(v, i) == IF i <= v.length THEN i - 1 ELSE Pad

\* The cipher goes on with the block that is next.
LEMMA EncryptNext ==
    ASSUME NEW v, Fits(v), NEW b \in Nat, NEW c \in Nat, c = Place(v, b), NEW s \in Seq(Int),
           \A i \in 1 .. Len(s) : s[i] = Padded(v, c + i)
    PROVE  /\ Encrypt(s, b + 1) \in Seq(CellType)
           /\ Len(Encrypt(s, b + 1)) = Len(s)
           /\ \A i \in 1 .. Len(s) : Encrypt(s, b + 1)[i] = Cell(v, c + i)
<1> DEFINE f(i) == [block |-> (b + 1) + ((i - 1) \div Granularity), byte |-> s[i]]
<1>1. Len(s) \in Nat /\ Granularity \in Nat \ {0}
  BY DEF Fits
<1>2. ASSUME NEW i \in 1 .. Len(s) PROVE f(i) = Cell(v, c + i) /\ f(i) \in CellType
  <2>1. i \in Nat \ {0} /\ i - 1 \in Nat /\ c + i \in Nat
    BY <1>1
  <2>2. Cell(v, c + i) =
          [block |-> (b + 1) + (i - 1) \div Granularity, byte |-> IF c + i <= v.length THEN c + i - 1 ELSE Pad]
    BY <2>1, CellOf
  <2>3. s[i] = IF c + i <= v.length THEN c + i - 1 ELSE Pad
    <3>1. s[i] = Padded(v, c + i)
      OBVIOUS
    <3> QED BY <3>1 DEF Padded
  <2>4. s[i] \in Int
    OBVIOUS
  <2>5. (i - 1) \div Granularity \in Nat
    BY <1>1, <2>1, DivBounds
  <2>6. (b + 1) + (i - 1) \div Granularity \in Nat
    BY <2>5
  <2> QED BY <2>2, <2>3, <2>4, <2>6 DEF CellType
<1>3. Encrypt(s, b + 1) = [i \in 1 .. Len(s) |-> f(i)]
  BY DEF Encrypt
<1> HIDE DEF f
<1>4. Encrypt(s, b + 1) \in [1 .. Len(s) -> CellType]
  BY <1>2, <1>3
<1>5. \A i \in 1 .. Len(s) : Encrypt(s, b + 1)[i] = Cell(v, c + i)
  BY <1>2, <1>3
<1>6. Encrypt(s, b + 1) \in Seq(CellType) /\ Len(Encrypt(s, b + 1)) = Len(s)
  BY <1>1, <1>4
<1> QED BY <1>5, <1>6

\* The file, when plaintext is put behind what is there.
LEMMA FileSame ==
    ASSUME Fits(klv), NEW c \in Nat, NEW plain \in Seq(CellType), cells \in Seq(CellType),
           cells \o plain = Cells(klv, c)
    PROVE  c - Len(plain) = Len(cells) /\ Put(plain, c - Len(plain)) = Cells(klv, c)
<1>1. Len(cells) \in Nat /\ Len(plain) \in Nat /\ Len(cells) + Len(plain) = Len(cells \o plain)
  BY ConcatProperties
<1>2. Len(Cells(klv, c)) = c
  BY CellsSeq
<1>3. c - Len(plain) = Len(cells)
  BY <1>1, <1>2
<1>4. Put(plain, Len(cells)) = cells \o plain
  BY PutNext
<1> QED BY <1>3, <1>4

\* The file and the hash, when plaintext and what was encrypted are put behind
\* what is there.
LEMMA FileGrows ==
    ASSUME Fits(klv), NEW c \in Nat, NEW plain \in Seq(CellType), NEW crypt \in Seq(CellType),
           cells \in Seq(CellType), cells \o plain = Cells(klv, c),
           \A i \in 1 .. Len(crypt) : crypt[i] = Cell(klv, c + i)
    PROVE  /\ Put(plain \o crypt, c - Len(plain)) = Cells(klv, c + Len(crypt))
           /\ HashOf(klv, c) \o crypt = HashOf(klv, c + Len(crypt))
<1>3. c - Len(plain) = Len(cells)
  BY FileSame
<1>4. plain \o crypt \in Seq(CellType)
  BY ConcatProperties
<1>5. Put(plain \o crypt, Len(cells)) = cells \o (plain \o crypt)
  BY <1>4, PutNext
<1>6. cells \o (plain \o crypt) = (cells \o plain) \o crypt
  <2>1. PICK s : s = cells
    OBVIOUS
  <2>2. s \in Seq(CellType)
    BY <2>1
  <2>3. (s \o plain) \o crypt = s \o (plain \o crypt)
    BY <2>2, ConcatAssociative
  <2> QED BY <2>1, <2>3
<1>7. Cells(klv, c) \o crypt = Cells(klv, c + Len(crypt))
  BY CellsJoin
<1>8. HashOf(klv, c) \o crypt = HashOf(klv, c + Len(crypt))
  BY HashJoin
<1> QED BY <1>3, <1>5, <1>6, <1>7, <1>8

\* The changes of an object.
Moved(e, offset, at) == [e EXCEPT !.offset = offset, !.at = at]
Grown(e, block, awaiting, hash) == [e EXCEPT !.block = block, !.awaiting = awaiting, !.hash = hash]
Hashing(e, hash) == [e EXCEPT !.hash = hash]
HashingTo(e, hash, offset) == [e EXCEPT !.hash = hash, !.offset = offset]
HashingAt(e, hash, offset, at) == [e EXCEPT !.hash = hash, !.offset = offset, !.at = at]
Done(e, done) == [e EXCEPT !.done = done]

\* An object that has come on.
LEMMA MovedIs ==
    ASSUME NEW o, NEW w, NEW k, NEW q, NEW t, NEW f, NEW y, NEW z
    PROVE  Moved(Fields(o, w, k, q, t, f), y, z) = Fields(y, w, k, q, z, f)
<1>1. [Fields(o, w, k, q, t, f) EXCEPT !.offset = y] = Fields(y, w, k, q, t, f)
  BY DEF Fields
<1>2. [Fields(y, w, k, q, t, f) EXCEPT !.at = z] = Fields(y, w, k, q, z, f)
  BY DEF Fields
<1> QED BY <1>1, <1>2 DEF Moved

\* An object that has encrypted blocks.
LEMMA GrownIs ==
    ASSUME NEW o, NEW w, NEW k, NEW q, NEW t, NEW f, NEW y, NEW z, NEW u
    PROVE  Grown(Fields(o, w, k, q, t, f), y, z, u) = Fields(o, z, y, u, t, f)
<1>1. [Fields(o, w, k, q, t, f) EXCEPT !.block = y] = Fields(o, w, y, q, t, f)
  BY DEF Fields
<1>2. [Fields(o, w, y, q, t, f) EXCEPT !.awaiting = z] = Fields(o, z, y, q, t, f)
  BY DEF Fields
<1>3. [Fields(o, z, y, q, t, f) EXCEPT !.hash = u] = Fields(o, z, y, u, t, f)
  BY DEF Fields
<1> QED BY <1>1, <1>2, <1>3 DEF Grown

\* An object with another hash.
LEMMA HashingIs ==
    ASSUME NEW o, NEW w, NEW k, NEW q, NEW t, NEW f, NEW y
    PROVE  Hashing(Fields(o, w, k, q, t, f), y) = Fields(o, w, k, y, t, f)
BY DEF Fields, Hashing

\* The same, and another offset.
LEMMA HashingToIs ==
    ASSUME NEW o, NEW w, NEW k, NEW q, NEW t, NEW f, NEW y, NEW z
    PROVE  HashingTo(Fields(o, w, k, q, t, f), y, z) = Fields(z, w, k, y, t, f)
<1>1. [Fields(o, w, k, q, t, f) EXCEPT !.hash = y] = Fields(o, w, k, y, t, f)
  BY DEF Fields
<1>2. [Fields(o, w, k, y, t, f) EXCEPT !.offset = z] = Fields(z, w, k, y, t, f)
  BY DEF Fields
<1> QED BY <1>1, <1>2 DEF HashingTo

\* The same, of WriteRaw too.
LEMMA HashingAtIs ==
    ASSUME NEW o, NEW w, NEW k, NEW q, NEW t, NEW f, NEW y, NEW z, NEW u
    PROVE  HashingAt(Fields(o, w, k, q, t, f), y, z, u) = Fields(z, w, k, y, u, f)
<1>1. [Fields(o, w, k, q, t, f) EXCEPT !.hash = y] = Fields(o, w, k, y, t, f)
  BY DEF Fields
<1>2. [Fields(o, w, k, y, t, f) EXCEPT !.offset = z] = Fields(z, w, k, y, t, f)
  BY DEF Fields
<1>3. [Fields(z, w, k, y, t, f) EXCEPT !.at = u] = Fields(z, w, k, y, u, f)
  BY DEF Fields
<1> QED BY <1>1, <1>2, <1>3 DEF HashingAt

\* An object that is done.
LEMMA DoneIs ==
    ASSUME NEW o, NEW w, NEW k, NEW q, NEW t, NEW f, NEW y
    PROVE  Done(Fields(o, w, k, q, t, f), y) = Fields(o, w, k, q, t, y)
BY DEF Fields, Done

\* The fields of a record.
LEMMA FieldsAre ==
    ASSUME NEW o, NEW w, NEW k, NEW q, NEW t, NEW f
    PROVE  /\ Fields(o, w, k, q, t, f).offset = o /\ Fields(o, w, k, q, t, f).awaiting = w
           /\ Fields(o, w, k, q, t, f).block = k /\ Fields(o, w, k, q, t, f).hash = q
           /\ Fields(o, w, k, q, t, f).at = t /\ Fields(o, w, k, q, t, f).done = f
BY DEF Fields

\* An encryptor that has come to byte x, of which all to cell c is in the file.
At(v, x, b, c, to, f) ==
    Fields(x, Bytes(c, x - c), b + 1, IF v.hashing THEN HashOf(v, c) ELSE << >>, to, f)

\* The bytes from x to y, behind plain, come up to the end, or to a block, or are
\* none; the cells up to c are in the file, with plain.
Comes(b, c, x, y, plain) ==
    /\ b < BlocksOf(klv) /\ c = Place(klv, b)
    /\ c <= x /\ x <= y /\ y <= klv.length /\ 0 < y /\ x < c + Granularity
    /\ plain \in Seq(CellType) /\ cells \in Seq(CellType) /\ cells \o plain = Cells(klv, c)
    /\ y = klv.length \/ y >= x + Granularity \/ (y = x /\ x = c)

\* WriteCryptoDataTo.
LEMMA CryptoWrites ==
    ASSUME Fits(klv), NEW b \in Nat, NEW c \in Nat, NEW x \in Nat, NEW y \in Nat, NEW n \in Nat, NEW plain, NEW to, NEW f,
           NEW e, Comes(b, c, x, y, plain), y = x + n, e = At(klv, x, b, c, to, f),
           WriteCryptoDataTo(e, plain, Bytes(x, n), x)
    PROVE  /\ cells' = Cells(klv, Count(klv, y))
           /\ encryptor' = EncryptorAt(klv, y, f)
<1> DEFINE G == Granularity
           P == PlainOf(klv)
           B == BlocksOf(klv)
           L == klv.length
           j == x - c
           m == y - c
           all == Bytes(c, m)
           h == IF klv.hashing THEN HashOf(klv, c) ELSE << >>
           next == Moved(e, y, y)
<1>0. /\ G \in Nat \ {0} /\ B \in Nat \ {0} /\ L \in Nat \ {0}
      /\ ValueLength = L /\ PlaintextOffset = P /\ EncryptedLength = Place(klv, B)
  BY Lengths, Names DEF Fits
<1>1. /\ b < B /\ c = Place(klv, b) /\ c <= x /\ x <= y /\ y <= L /\ 0 < y /\ x < c + G
      /\ y = L \/ y >= x + G \/ (y = x /\ x = c)
  BY DEF Comes
<1>2. P \in Nat /\ P <= c
  <2>1. P \in 0 .. L /\ P <= Place(klv, b)
    BY Lengths
  <2> QED BY <1>1, <2>1
<1>3. m \in Nat /\ j \in Nat /\ n \in Nat /\ c + j = x /\ j + n = m /\ x + n = y /\ c \in Int
  BY <1>1
<1> HIDE DEF G, P, B, L, j, m
<1>4. /\ Len(Bytes(x, n)) = n /\ Len(Bytes(c, j)) = j
      /\ Bytes(c, j) \o Bytes(x, n) = all /\ Len(all) = m
  <2>1. Bytes(c, j) \o Bytes(c + j, n) = Bytes(c, j + n)
    BY <1>3, BytesJoin
  <2>2. Bytes(c, j) \o Bytes(x, n) = all
    BY <1>3, <2>1
  <2>3. Len(Bytes(c, j)) = j /\ Len(Bytes(c, m)) = m
    BY <1>3, BytesSeq
  <2>4. Len(Bytes(x, n)) = n
    BY <1>3, BytesSeq
  <2> QED BY <2>2, <2>3, <2>4
<1>5. e = Fields(x, Bytes(c, j), b + 1, h, to, f) /\ next = Fields(y, Bytes(c, j), b + 1, h, y, f)
  <2>1. e = Fields(x, Bytes(c, j), b + 1, h, to, f)
    BY DEF At, j
  <2> HIDE DEF h
  <2>2. Moved(Fields(x, Bytes(c, j), b + 1, h, to, f), y, y) = Fields(y, Bytes(c, j), b + 1, h, y, f)
    BY MovedIs
  <2>3. next = Fields(y, Bytes(c, j), b + 1, h, y, f)
    BY <2>1, <2>2
  <2> QED BY <2>1, <2>3
<1>6. FromAwaiting(x, Bytes(c, j)) = c
  BY <1>3, <1>4 DEF FromAwaiting
<1>7. \A crypt \in Seq(CellType) : (\A i \in 1 .. Len(crypt) : crypt[i] = Cell(klv, c + i)) =>
        /\ Put(plain \o crypt, c - Len(plain)) = Cells(klv, c + Len(crypt))
        /\ Hashed(h, crypt) = IF klv.hashing THEN HashOf(klv, c + Len(crypt)) ELSE << >>
  BY FileGrows DEF Hashed, Comes
<1> HIDE DEF all, h, next
<1>9. CASE y = L
  <2> DEFINE w == Place(klv, B) - (G + c)
             k == (B - 1) - b
             rest == Back(all, w)
             padded == [i \in 1 .. G |-> IF i <= Len(rest) THEN rest[i] ELSE Pad]
             u == FirstOf(all, w) \o padded
             crypt == Encrypt(u, b + 1)
  <2>1. /\ k \in Nat /\ w = k * G /\ w + G = (k + 1) * G /\ w \in 0 .. m /\ m - w < G
        /\ c + (w + G) = Place(klv, B)
    <3>1. /\ L < Place(klv, B) /\ Place(klv, B) - G <= L /\ Place(klv, B) - G = Place(klv, B - 1)
          /\ Place(klv, B) \in Nat
      BY <1>0, Lengths DEF G, B, L
    <3>2. Place(klv, B - 1) = P + (B - 1) * G /\ Place(klv, b) = P + b * G
      BY DEF Place, P, G
    <3>3. k \in Nat /\ B - 1 \in Int /\ (B - 1) * G \in Int /\ b * G \in Int
      BY <1>0, <1>1, Cancel
    <3>4. ((B - 1) - b) * G = (B - 1) * G - b * G
      BY <1>0, <3>3, Cancel
    <3> HIDE DEF k
    <3>5. k * G = (B - 1) * G - b * G
      BY <3>4 DEF k
    <3>6. k * G \in Nat /\ (k + 1) * G = k * G + G
      BY <1>0, <3>3, Cancel
    <3>7. w = k * G
      BY <1>0, <1>1, <1>2, <3>1, <3>2, <3>3, <3>5
    <3>8. w \in 0 .. m /\ m - w < G
      BY <1>0, <1>1, <1>9, <3>1, <3>6, <3>7 DEF m
    <3> QED BY <1>0, <3>1, <3>3, <3>6, <3>7, <3>8
  <2> HIDE DEF w, k
  <2> DEFINE q == c + w
             r == m - w
  <2>2. /\ q \in Int /\ r \in Nat /\ r < G /\ w \in Nat /\ w <= m /\ c + m = y
        /\ \A i \in 1 .. r : q + i - 1 = (c + (w + i)) - 1
    BY <1>0, <1>3, <2>1 DEF m
  <2> HIDE DEF q, r
  <2>3. FirstOf(all, w) = Bytes(c, w) /\ rest = Bytes(q, r)
    <3>1. FirstOf(Bytes(c, m), w) = Bytes(c, w) /\ Back(Bytes(c, m), w) = Bytes(c + w, m - w)
      BY <1>3, <2>1, BytesCut
    <3> QED BY <3>1 DEF all, q, r
  <2>30. Bytes(c, w) \in Seq(Int) /\ Len(Bytes(c, w)) = w /\ \A i \in 1 .. w : Bytes(c, w)[i] = c + i - 1
    BY <1>3, <2>2, BytesSeq
  <2>31. Len(Bytes(q, r)) = r /\ \A i \in 1 .. r : Bytes(q, r)[i] = q + i - 1
    BY <2>2, BytesSeq
  <2> HIDE DEF rest
  <2>4. \A i \in 1 .. G : padded[i] = Padded(klv, c + (w + i)) /\ padded[i] \in Int
    <3> TAKE i \in 1 .. G
    <3>0. padded[i] = IF i <= r THEN q + i - 1 ELSE Pad
      <4>1. CASE i <= r
        <5>1. i \in 1 .. r
          BY <1>0, <2>2, <4>1
        <5> QED BY <2>3, <2>31, <4>1, <5>1
      <4>2. CASE ~(i <= r)
        BY <2>3, <2>31, <4>2
      <4> QED BY <4>1, <4>2
    <3> HIDE DEF padded
    <3>1. i <= r <=> c + (w + i) <= L
      <4>1. G \in Nat /\ i \in Int /\ w \in Int /\ m \in Int /\ c + m = L /\ r = m - w
        BY <1>0, <1>3, <1>9, <2>2 DEF r
      <4> QED BY <4>1
    <3>2. i <= r => q + i - 1 = (c + (w + i)) - 1
      BY <1>0, <2>2
    <3>3. q + i - 1 \in Int /\ Pad \in Int
      BY <1>0, <2>2 DEF Pad
    <3>4. \A z : Padded(klv, z) = IF z <= L THEN z - 1 ELSE Pad
      BY DEF Padded, L
    <3>40. Padded(klv, c + (w + i)) = IF c + (w + i) <= L THEN (c + (w + i)) - 1 ELSE Pad
      BY <3>4, Zenon
    <3>5. CASE i <= r
      <4>1. Padded(klv, c + (w + i)) = (c + (w + i)) - 1
        BY <3>1, <3>5, <3>40
      <4>2. padded[i] = q + i - 1
        BY <3>0, <3>5
      <4> QED BY <3>2, <3>3, <3>5, <4>1, <4>2
    <3>6. CASE ~(i <= r)
      <4>1. Padded(klv, c + (w + i)) = Pad
        BY <3>1, <3>6, <3>40
      <4>2. padded[i] = Pad
        BY <3>0, <3>6
      <4> QED BY <3>3, <4>1, <4>2
    <3> QED BY <3>5, <3>6
  <2>5. padded \in Seq(Int) /\ Len(padded) = G
    BY <1>0, <2>4
  <2> HIDE DEF padded
  <2>6. /\ u \in Seq(Int) /\ Len(u) = w + G
        /\ \A i \in 1 .. w + G : u[i] = IF i <= w THEN Bytes(c, w)[i] ELSE padded[i - w]
    <3>1. Bytes(c, w) \o padded \in Seq(Int) /\ Len(Bytes(c, w) \o padded) = Len(Bytes(c, w)) + Len(padded)
          /\ \A i \in 1 .. Len(Bytes(c, w)) + Len(padded) : (Bytes(c, w) \o padded)[i] =
                IF i <= Len(Bytes(c, w)) THEN Bytes(c, w)[i] ELSE padded[i - Len(Bytes(c, w))]
      BY <2>30, <2>5, ConcatProperties
    <3>2. u = Bytes(c, w) \o padded
      BY <2>3
    <3> HIDE DEF u
    <3> QED BY <2>30, <2>5, <3>1, <3>2
  <2> HIDE DEF u
  <2>7. \A i \in 1 .. Len(u) : u[i] = Padded(klv, c + i)
    <3> TAKE i \in 1 .. Len(u)
    <3>1. i \in 1 .. w + G
      BY <2>6
    <3>2. CASE i <= w
      <4>1. i \in 1 .. w /\ c + i <= L
        BY <1>0, <1>3, <1>9, <2>1, <3>1, <3>2 DEF m
      <4>2. u[i] = c + i - 1
        BY <2>30, <2>6, <3>1, <3>2, <4>1
      <4> QED BY <4>1, <4>2 DEF Padded, L
    <3>3. CASE ~(i <= w)
      <4>1. i - w \in 1 .. G /\ w + (i - w) = i
        BY <1>0, <2>1, <3>1, <3>3
      <4>2. padded[i - w] = Padded(klv, c + (w + (i - w)))
        BY <2>4, <4>1
      <4> QED BY <2>6, <3>1, <3>3, <4>1, <4>2
    <3> QED BY <3>2, <3>3
  <2>8. /\ crypt \in Seq(CellType) /\ Len(crypt) = w + G
        /\ \A i \in 1 .. Len(crypt) : crypt[i] = Cell(klv, c + i)
    BY <1>1, <2>6, <2>7, EncryptNext
  <2> HIDE DEF crypt
  <2>9. /\ cells' = Put(plain \o crypt, c - Len(plain))
        /\ encryptor' = Grown(next, next.block + Len(crypt) \div G, << >>, Hashed(next.hash, crypt))
    <3>1. x + Len(Bytes(x, n)) >= ValueLength /\ x + Len(Bytes(x, n)) = y
      BY <1>0, <1>3, <1>4, <1>9
    <3>2. e.awaiting = Bytes(c, j) /\ e.offset = x /\ e.block = b + 1
      BY <1>5, FieldsAre
    <3>3. all = e.awaiting \o Bytes(x, n) /\ c = FromAwaiting(x, e.awaiting)
      BY <1>4, <1>6, <3>2
    <3>4. w = EncryptedLength - (Granularity + c)
      BY <1>0 DEF w, G
    <3>5. next = Moved(e, e.offset + Len(Bytes(x, n)), x + Len(Bytes(x, n)))
      BY <3>1, <3>2 DEF next
    <3>6. padded = [i \in 1 .. Granularity |-> IF i <= Len(rest) THEN rest[i] ELSE Pad] /\ rest = Back(all, w)
      BY DEF padded, G, rest
    <3>7. crypt = Encrypt(FirstOf(all, w) \o padded, e.block)
      BY <3>2 DEF crypt, u
    <3>8. /\ cells' = Put(plain \o crypt, c - Len(plain))
          /\ encryptor' = Grown(next, next.block + Len(crypt) \div Granularity, << >>, Hashed(next.hash, crypt))
      BY <3>1, <3>3, <3>4, <3>5, <3>6, <3>7, Zenon DEF WriteCryptoDataTo, Moved, Grown
    <3> QED BY <3>8 DEF G
  <2>10. Len(crypt) \div G = k + 1 /\ (b + 1) + (k + 1) = B + 1
    <3>1. k + 1 \in Nat /\ Len(crypt) = (k + 1) * G
      BY <2>1, <2>8
    <3>2. Len(crypt) \div G = k + 1
      BY <1>0, <3>1, DivShift
    <3> QED BY <1>0, <3>2 DEF k
  <2>11. Count(klv, y) = Place(klv, B) /\ Blocks(klv, y) = B /\ Waiting(klv, y) = << >>
    <3>1. y \in 0 .. klv.length /\ y = klv.length
      BY <1>0, <1>9 DEF L
    <3>2. Count(klv, y) = Place(klv, B) /\ Blocks(klv, y) = B
      BY <3>1, Counts DEF B
    <3>3. ~(y < klv.length)
      BY <1>0, <3>1 DEF L
    <3> QED BY <3>2, <3>3 DEF Waiting
  <2>12. Put(plain \o crypt, c - Len(plain)) = Cells(klv, Count(klv, y))
    BY <1>7, <2>1, <2>8, <2>11
  <2>13. Hashed(h, crypt) = IF klv.hashing /\ y > 0 THEN HashOf(klv, Count(klv, y)) ELSE << >>
    <3>1. y > 0
      BY <1>1
    <3> QED BY <1>7, <2>1, <2>8, <2>11, <3>1
  <2>14. next.block = b + 1 /\ next.hash = h
    BY <1>5, FieldsAre
  <2>15. encryptor' = Fields(y, << >>, B + 1, Hashed(h, crypt), y, f)
    <3>1. encryptor' = Grown(Fields(y, Bytes(c, j), b + 1, h, y, f), B + 1, << >>, Hashed(h, crypt))
      BY <1>0, <1>5, <2>9, <2>10, <2>14
    <3> QED BY <3>1, GrownIs
  <2>16. EncryptorAt(klv, y, f) = Fields(y, << >>, B + 1, Hashed(h, crypt), y, f)
    BY <2>11, <2>13 DEF EncryptorAt
  <2> QED BY <2>9, <2>12, <2>15, <2>16
<1>10. CASE y < L /\ y >= x + G
  <2> DEFINE k == m \div G
             w == k * G
             q == c + w
             r == m - w
             crypt == Encrypt(Bytes(c, w), b + 1)
  <2>1. k \in Nat /\ w \in Nat /\ w <= m /\ m < w + G
    BY <1>0, <1>3, DivBounds
  <2> HIDE DEF k, w
  <2>2. /\ q \in Nat /\ r \in Nat /\ c + m = y /\ q <= y /\ r = y - q /\ w \in 0 .. m
    BY <1>0, <1>3, <2>1 DEF m
  <2>3. FirstOf(all, w) = Bytes(c, w) /\ Back(all, w) = Bytes(q, r)
    <3>1. FirstOf(Bytes(c, m), w) = Bytes(c, w) /\ Back(Bytes(c, m), w) = Bytes(c + w, m - w)
      BY <1>3, <2>2, BytesCut
    <3> QED BY <3>1 DEF all, q, r
  <2> HIDE DEF q, r
  <2>4. Bytes(c, w) \in Seq(Int) /\ Len(Bytes(c, w)) = w /\ \A i \in 1 .. w : Bytes(c, w)[i] = c + i - 1
    BY <1>3, <2>1, BytesSeq
  <2>5. \A i \in 1 .. Len(Bytes(c, w)) : Bytes(c, w)[i] = Padded(klv, c + i)
    <3> TAKE i \in 1 .. Len(Bytes(c, w))
    <3>1. i \in 1 .. w /\ Bytes(c, w)[i] = c + i - 1
      BY <2>4
    <3>2. c + i <= L /\ c + i - 1 = (c + i) - 1
      <4>1. c + w <= y /\ i <= w /\ i \in Nat
        BY <1>0, <2>1, <2>2, <3>1 DEF q
      <4> QED BY <1>0, <1>10, <2>1, <4>1
    <3>3. \A z : z <= L => Padded(klv, z) = z - 1
      BY DEF Padded, L
    <3>4. Padded(klv, c + i) = (c + i) - 1
      BY <3>2, <3>3
    <3> QED BY <3>1, <3>2, <3>4
  <2>6. /\ crypt \in Seq(CellType) /\ Len(crypt) = w
        /\ \A i \in 1 .. Len(crypt) : crypt[i] = Cell(klv, c + i)
    BY <1>1, <2>4, <2>5, EncryptNext
  <2> HIDE DEF crypt
  <2>7. /\ cells' = Put(plain \o crypt, c - Len(plain))
        /\ encryptor' = Grown(next, next.block + Len(crypt) \div G, Bytes(q, r), Hashed(next.hash, crypt))
    <3>1. ~(x + Len(Bytes(x, n)) >= ValueLength) /\ x + Len(Bytes(x, n)) = y
      BY <1>0, <1>3, <1>4, <1>10
    <3>2. e.awaiting = Bytes(c, j) /\ e.offset = x /\ e.block = b + 1
      BY <1>5, FieldsAre
    <3>3. ~(Len(Bytes(x, n)) < Granularity - Len(e.awaiting))
      <4>1. Len(Bytes(x, n)) = n /\ Len(e.awaiting) = j /\ n >= G
        BY <1>0, <1>3, <1>4, <1>10, <3>2
      <4>2. ~(n < G - j)
        BY <1>0, <1>3, <4>1
      <4> QED BY <4>1, <4>2 DEF G
    <3>4. all = e.awaiting \o Bytes(x, n) /\ c = FromAwaiting(x, e.awaiting)
      BY <1>4, <1>6, <3>2
    <3>5. w = (Len(all) \div Granularity) * Granularity
      BY <1>4 DEF w, k, G
    <3>6. next = Moved(e, e.offset + Len(Bytes(x, n)), x + Len(Bytes(x, n)))
      BY <3>1, <3>2 DEF next
    <3>7. crypt = Encrypt(FirstOf(all, w), e.block)
      BY <2>3, <3>2 DEF crypt
    <3>8. /\ cells' = Put(plain \o crypt, c - Len(plain))
          /\ encryptor' = Grown(next, next.block + Len(crypt) \div Granularity, Back(all, w), Hashed(next.hash, crypt))
      BY <3>1, <3>3, <3>4, <3>5, <3>6, <3>7, Zenon DEF WriteCryptoDataTo, Moved, Grown
    <3> QED BY <2>3, <3>8 DEF G
  <2>8. Len(crypt) \div G = k /\ (b + 1) + k = (b + k) + 1
    <3>1. (k * G) \div G = k
      BY <1>0, <2>1, DivShift
    <3> QED BY <2>1, <2>6, <3>1 DEF w
  <2>9. Blocks(klv, y) = b + k /\ Count(klv, y) = q /\ Waiting(klv, y) = Bytes(q, r)
    <3>1. b * G \in Nat /\ c = P + b * G
      BY <1>0, <1>1, Cancel DEF Place, P, G
    <3>2. y - P = b * G + m /\ ~(y < P) /\ P <= y
      BY <1>2, <1>3, <2>2, <3>1
    <3>3. (b * G + m) \div G = b + k
      <4>1. G \in Nat \ {0} /\ m \in Nat
        BY <1>0, <1>3
      <4>2. (b * G + m) \div G = b + m \div G
        BY <4>1, DivShift
      <4> QED BY <4>2 DEF k
    <3>4. Blocks(klv, y) = b + k
      BY <1>10, <3>2, <3>3 DEF Blocks, P, L, G
    <3>5. (b + k) * G = b * G + k * G
      BY <1>0, <2>1, Cancel
    <3>6. Count(klv, y) = P + (b + k) * G
      BY <3>2, <3>4 DEF Count, Place, P, G
    <3>7. Count(klv, y) = q
      BY <1>2, <2>1, <3>1, <3>5, <3>6 DEF q, w
    <3>8. Waiting(klv, y) = Bytes(Count(klv, y), y - Count(klv, y))
      BY <1>10, <3>2 DEF Waiting, P, L
    <3> QED BY <2>2, <3>4, <3>7, <3>8
  <2>10. Put(plain \o crypt, c - Len(plain)) = Cells(klv, Count(klv, y))
    BY <1>7, <2>6, <2>9 DEF q
  <2>11. Hashed(h, crypt) = IF klv.hashing /\ y > 0 THEN HashOf(klv, Count(klv, y)) ELSE << >>
    <3>1. y > 0
      BY <1>1
    <3> QED BY <1>7, <2>6, <2>9, <3>1 DEF q
  <2>12. next.block = b + 1 /\ next.hash = h
    BY <1>5, FieldsAre
  <2>13. encryptor' = Fields(y, Bytes(q, r), (b + k) + 1, Hashed(h, crypt), y, f)
    <3>1. encryptor' = Grown(Fields(y, Bytes(c, j), b + 1, h, y, f), (b + k) + 1, Bytes(q, r), Hashed(h, crypt))
      BY <1>5, <2>7, <2>8, <2>12
    <3> QED BY <3>1, GrownIs
  <2>14. EncryptorAt(klv, y, f) = Fields(y, Bytes(q, r), (b + k) + 1, Hashed(h, crypt), y, f)
    BY <2>9, <2>11 DEF EncryptorAt
  <2> QED BY <2>7, <2>10, <2>13, <2>14
<1>11. CASE y < L /\ y = x /\ x = c
  <2>1. n = 0 /\ j = 0 /\ x + n = y
    BY <1>3, <1>11 DEF j
  <2>2. cells' = Put(plain, c - Len(plain)) /\ encryptor' = next
    <3>1. ~(x + Len(Bytes(x, n)) >= ValueLength) /\ x + Len(Bytes(x, n)) = y
      BY <1>0, <1>3, <1>4, <1>11
    <3>2. e.awaiting = Bytes(c, j) /\ e.offset = x
      BY <1>5, FieldsAre
    <3>3. Len(Bytes(x, n)) < Granularity - Len(e.awaiting)
      <4>1. Len(Bytes(x, n)) = 0 /\ Len(e.awaiting) = 0
        BY <1>4, <2>1, <3>2
      <4>2. 0 < G - 0
        BY <1>0
      <4> QED BY <4>1, <4>2 DEF G
    <3>4. next = Moved(e, e.offset + Len(Bytes(x, n)), x + Len(Bytes(x, n)))
      BY <3>1, <3>2 DEF next
    <3>5. cells' = Put(plain, x - Len(plain)) /\ encryptor' = next
      BY <3>1, <3>3, <3>4, Zenon DEF WriteCryptoDataTo, Moved
    <3> QED BY <1>11, <3>5
  <2>3. Put(plain, c - Len(plain)) = Cells(klv, c)
    <3>1. plain \in Seq(CellType) /\ cells \in Seq(CellType) /\ cells \o plain = Cells(klv, c)
      BY DEF Comes
    <3> QED BY <3>1, FileSame
  <2>4. Blocks(klv, y) = b /\ Count(klv, y) = c /\ Waiting(klv, y) = Bytes(c, j)
    <3>1. b * G \in Nat /\ c = P + b * G
      BY <1>0, <1>1, Cancel DEF Place, P, G
    <3>2. y - P = b * G /\ ~(y < P) /\ P <= y
      BY <1>2, <1>11, <3>1
    <3>3. (b * G) \div G = b
      BY <1>0, DivShift
    <3>4. Blocks(klv, y) = b
      BY <1>11, <3>2, <3>3 DEF Blocks, P, L, G
    <3>5. Count(klv, y) = c
      BY <1>1, <3>2, <3>4 DEF Count, P
    <3>6. Waiting(klv, y) = Bytes(Count(klv, y), y - Count(klv, y))
      BY <1>11, <3>2 DEF Waiting, P, L
    <3> QED BY <1>11, <3>4, <3>5, <3>6 DEF j
  <2>5. h = IF klv.hashing /\ y > 0 THEN HashOf(klv, Count(klv, y)) ELSE << >>
    <3>1. y > 0
      BY <1>1
    <3> QED BY <2>4, <3>1 DEF h
  <2>6. EncryptorAt(klv, y, f) = Fields(y, Bytes(c, j), b + 1, h, y, f)
    BY <2>4, <2>5 DEF EncryptorAt
  <2> QED BY <1>5, <2>2, <2>3, <2>4, <2>6
<1>12. y < L \/ y = L
  BY <1>0, <1>1
<1> QED BY <1>1, <1>9, <1>10, <1>11, <1>12

\* Plaintext in the file.
LEMMA ClearIs ==
    ASSUME NEW v, Fits(v), NEW a \in Nat, NEW m \in Nat, a + m <= PlainOf(v)
    PROVE  /\ Clear(Bytes(a, m)) \in Seq(CellType)
           /\ Len(Clear(Bytes(a, m))) = m
           /\ \A i \in 1 .. m : Clear(Bytes(a, m))[i] = Cell(v, a + i)
<1> DEFINE s == Bytes(a, m)
           f(i) == [block |-> 0, byte |-> s[i]]
           P == PlainOf(v)
<1>1. P \in Nat
  <2>1. PlainOf(v) \in 0 .. v.length /\ v.length \in Nat
    BY Lengths
  <2> QED BY <2>1
<1>2. Len(s) = m /\ \A i \in 1 .. m : s[i] = a + i - 1
  BY BytesSeq
<1> HIDE DEF s, P
<1>3. Clear(s) = [i \in 1 .. m |-> f(i)]
  BY <1>2 DEF Clear
<1>4. ASSUME NEW i \in 1 .. m PROVE f(i) = Cell(v, a + i) /\ f(i) \in CellType
  <2>1. a + i \in 1 .. P /\ a + i - 1 = (a + i) - 1 /\ a + i - 1 \in Int
    BY <1>1 DEF P
  <2>2. Cell(v, a + i) = [block |-> 0, byte |-> (a + i) - 1]
    BY <2>1, CellPlain DEF P
  <2>3. s[i] = a + i - 1
    BY <1>2
  <2> QED BY <2>1, <2>2, <2>3 DEF CellType
<1> HIDE DEF f
<1>5. Clear(s) \in [1 .. m -> CellType] /\ \A i \in 1 .. m : Clear(s)[i] = Cell(v, a + i)
  BY <1>3, <1>4
<1>6. Clear(s) \in Seq(CellType) /\ Len(Clear(s)) = m
  BY <1>5
<1> QED BY <1>5, <1>6 DEF s

\* The hash begins with the IV and the check value.
LEMMA HashBegins ==
    ASSUME NEW v, Fits(v)
    PROVE  HashOf(v, 0) = <<Start>> /\ Cells(v, 0) = << >>
<1>1. Cells(v, 0) \in Seq(CellType) /\ Len(Cells(v, 0)) = 0
  BY CellsSeq
<1>2. Cells(v, 0) = << >>
  BY <1>1
<1>3. <<Start>> \in Seq(CellType)
  BY DEF Start, CellType
<1>4. <<Start>> \o << >> = <<Start>>
  BY <1>3, ConcatEmptySeq
<1> QED BY <1>2, <1>4 DEF HashOf

\* The chunk that reaches the end of the plaintext (Writable).
LEMMA Crossing ==
    ASSUME NEW v, Fits(v), NEW C \in Nat \ {0}, C = v.chunk, NEW L \in Nat, L = v.length, NEW T \in Nat, T = v.plain,
           NEW P \in Nat, P = PlainOf(v), NEW G \in Nat \ {0}, G = Granularity,
           NEW k \in Nat, NEW at \in Nat, at = k * C, at < P,
           NEW n \in Nat, n = Least(C, L - at), NEW y \in Nat, y = at + n, P <= y
    PROVE  /\ y = L \/ y >= P + G \/ y = P
           /\ v.hashing => y = P
<1>1. P = IF T > L THEN L ELSE T
  BY DEF PlainOf
<1>2. n = IF C < L - at THEN C ELSE L - at
  BY DEF Least
<1>3. (k + 1) * C = k * C + C /\ k <= k * C /\ k + 1 \in Nat
  BY Cancel
<1>4. CASE T >= L
  <2>0. T > L \/ T = L
    BY <1>4
  <2>1. P = L
    BY <1>1, <2>0, Zenon
  <2>2. y = L
    BY <1>2, <2>1
  <2> QED BY <2>1, <2>2
<1>5. CASE T < L
  <2> DEFINE r == (at + C) - T
  <2>0. P = T
    BY <1>1, <1>5
  <2>1. r \in 0 .. C - 1 /\ k + 1 \in 1 .. T /\ T + r = (k + 1) * C
    BY <1>2, <1>3, <1>5, <2>0
  <2> HIDE DEF r
  <2>2. r \in BehindPlain(v)
    BY <2>1 DEF BehindPlain
  <2>3. r = 0 \/ r >= G \/ T + r >= L
    BY <2>2 DEF Fits, Writable
  <2>4. v.hashing => r = 0
    <3>1. v.hashing => r = 0 \/ T >= L
      BY <2>2 DEF Fits, Writable
    <3> QED BY <1>5, <3>1
  <2>5. CASE n = C
    <3>1. y = T + r
      BY <2>5 DEF r
    <3>2. y <= L
      BY <1>2
    <3>3. y = L \/ y >= P + G \/ y = P
      BY <2>0, <2>1, <2>3, <3>1, <3>2
    <3>4. r = 0 => y = P
      BY <2>0, <3>1
    <3> QED BY <2>4, <3>3, <3>4
  <2>6. CASE n # C
    <3>1. y = L /\ L <= at + C
      BY <1>2, <2>6
    <3>2. r # 0
      BY <1>5, <3>1 DEF r
    <3> QED BY <2>4, <3>1, <3>2
  <2> QED BY <2>5, <2>6
<1> QED BY <1>4, <1>5

\* One chunk more, or the end.
LEMMA WriteChunkStep ==
    ASSUME Fits(klv), Writer, WriteChunk
    PROVE  \E at \in 0 .. klv.length, done \in BOOLEAN : WriterAt(klv, at, done, encryptor', cells', mic')
<1> DEFINE G == Granularity
           P == PlainOf(klv)
           L == klv.length
           C == klv.chunk
           H == klv.hashing
<1>1. /\ G \in Nat \ {0} /\ L \in Nat \ {0} /\ C \in Nat \ {0} /\ G <= C /\ P \in 0 .. L /\ H \in BOOLEAN
      /\ klv.plain \in Nat
  <2>1. G \in Nat \ {0} /\ C \in Nat \ {0} /\ G <= C /\ H \in BOOLEAN /\ klv.plain \in Nat
    BY DEF Fits, Writable
  <2>2. L \in Nat \ {0} /\ P \in 0 .. L
    BY Lengths
  <2> QED BY <2>1, <2>2
<1>2. ValueLength = L /\ PlaintextOffset = P
  BY Names
<1>3. PICK at \in 0 .. klv.length, done \in BOOLEAN : WriterAt(klv, at, done, encryptor, cells, mic)
  BY DEF Writer
<1>4. PICK e : e = encryptor
  OBVIOUS
<1> DEFINE c == Count(klv, at)
           b == Blocks(klv, at)
           g == IF H /\ at > 0 THEN HashOf(klv, c) ELSE << >>
           n == Least(C, L - at)
           y == at + n
           bytes == Bytes(at, n)
<1>5. /\ e = Fields(at, Waiting(klv, at), b + 1, g, at, done)
      /\ e.at = at /\ e.offset = at /\ e.awaiting = Waiting(klv, at) /\ e.block = b + 1 /\ e.hash = g /\ e.done = done
  BY <1>3, <1>4, FieldsAre DEF WriterAt, EncryptorAt
<1>6. cells = Cells(klv, c) /\ mic = IF H /\ at = L THEN HashOf(klv, c) ELSE Null
  BY <1>3 DEF WriterAt
<1>60. at < L => \E k \in Nat : at = k * C
  BY <1>3 DEF WriterAt
<1>7. /\ ~done
      /\ \/ n > 0 /\ WriteDataTo(bytes)
         \/ n = 0 /\ encryptor' = Done(encryptor, TRUE) /\ cells' = cells /\ mic' = mic
  <2>1. [i \in 1 .. n |-> encryptor.at + i - 1] = bytes
    BY <1>4, <1>5 DEF Bytes
  <2> QED BY <1>2, <1>4, <1>5, <2>1 DEF WriteChunk, Done
<1>8. at \in 0 .. L /\ n \in Nat /\ y \in at .. L /\ (n = 0 => at = L) /\ (n > 0 => at < L) /\ (y < L => n = C)
  BY <1>1 DEF Least
<1> HIDE DEF G, P, L, C, H, c, b, g, n, y, bytes
<1>9. CASE n = 0 /\ encryptor' = Done(encryptor, TRUE) /\ cells' = cells /\ mic' = mic
  <2>1. PICK d : d = TRUE
    OBVIOUS
  <2>2. encryptor' = Done(Fields(at, Waiting(klv, at), b + 1, g, at, done), d)
    BY <1>4, <1>5, <1>9, <2>1
  <2>3. encryptor' = Fields(at, Waiting(klv, at), b + 1, g, at, d)
    BY <2>2, DoneIs
  <2>4. EncryptorAt(klv, at, d) = Fields(at, Waiting(klv, at), b + 1, g, at, d)
    BY DEF EncryptorAt, b, g, H, c
  <2>5. at = L
    BY <1>8, <1>9
  <2>6. WriterAt(klv, at, d, encryptor', cells', mic')
    <3>1. ~(at < klv.length) /\ at = klv.length
      BY <1>1, <2>5 DEF L
    <3>2. encryptor' = EncryptorAt(klv, at, d)
      BY <2>3, <2>4
    <3>3. cells' = Cells(klv, Count(klv, at)) /\ mic' = IF klv.hashing /\ at = klv.length THEN HashOf(klv, Count(klv, at)) ELSE Null
      BY <1>6, <1>9 DEF c, H, L
    <3> QED BY <3>1, <3>2, <3>3 DEF WriterAt
  <2> QED BY <2>1, <2>6
<1>10. CASE n > 0 /\ WriteDataTo(bytes)
  <2>1. (y < L => \E k \in Nat : y = k * C) /\ y > 0 /\ at < L
    <3>1. y > 0 /\ at < L
      BY <1>8, <1>10 DEF y
    <3>2. PICK k \in Nat : at = k * C
      BY <1>60, <3>1
    <3>3. (k + 1) * C = k * C + C /\ k + 1 \in Nat
      BY <1>1, Cancel
    <3>4. CASE y < L
      <4>1. y = (k + 1) * C
        BY <1>1, <1>8, <3>2, <3>3, <3>4 DEF y
      <4> QED BY <3>1, <3>3, <4>1
    <3> QED BY <3>1, <3>4
  <2>2. SUFFICES cells' = Cells(klv, Count(klv, y)) /\ encryptor' = EncryptorAt(klv, y, done)
    <3>1. encryptor'.offset = y /\ encryptor'.hash = IF H /\ y > 0 THEN HashOf(klv, Count(klv, y)) ELSE << >>
      BY <2>2, FieldsAre DEF EncryptorAt, H
    <3>2. mic' = IF H /\ encryptor'.offset >= L THEN encryptor'.hash ELSE mic
      BY <1>2, <1>10 DEF WriteDataTo, WriteFooter, H
    <3>3. y >= L <=> y = L
      BY <1>1, <1>8
    <3>4. mic = Null
      BY <1>6, <2>1, <1>1, <1>8
    <3>5. mic' = IF H /\ y = L THEN HashOf(klv, Count(klv, y)) ELSE Null
      BY <2>1, <3>1, <3>2, <3>3, <3>4
    <3>6. WriterAt(klv, y, done, encryptor', cells', mic')
      BY <1>7, <2>1, <2>2, <3>5 DEF WriterAt, H, L, C
    <3>7. y \in 0 .. klv.length
      BY <1>1, <1>8 DEF L
    <3> QED BY <3>6, <3>7
  <2> DEFINE g1 == IF at = 0 THEN Hashed(g, <<Start>>) ELSE g
             first == Hashing(e, g1)
             plain == P - at
  <2>3. /\ first = Fields(at, Waiting(klv, at), b + 1, g1, at, done) /\ first.hash = g1
        /\ ~H => g1 = << >>
        /\ H => g1 = HashOf(klv, c)
    <3>1. first = Fields(at, Waiting(klv, at), b + 1, g1, at, done)
      <4> HIDE DEF g1
      <4>1. Hashing(Fields(at, Waiting(klv, at), b + 1, g, at, done), g1) = Fields(at, Waiting(klv, at), b + 1, g1, at, done)
        BY HashingIs
      <4> QED BY <1>5, <4>1
    <3>2. ~H => g1 = << >>
      BY DEF g, H, Hashed
    <3>3. CASE at = 0
      <4>1. c = 0
        BY <1>1, <1>8, <2>1, <3>3, Counts DEF c, L, P
      <4>2. H => g1 = << >> \o <<Start>>
        BY <3>3 DEF g, H, Hashed
      <4>3. << >> \o <<Start>> = <<Start>>
        BY ConcatEmptySeq DEF Start
      <4>4. HashOf(klv, 0) = <<Start>>
        BY HashBegins
      <4> QED BY <3>1, <3>2, <4>1, <4>2, <4>3, <4>4, FieldsAre
    <3>4. CASE at # 0
      <4>1. at > 0
        BY <1>8, <3>4
      <4>2. H => g1 = HashOf(klv, c)
        BY <3>4, <4>1 DEF g
      <4> QED BY <3>1, <3>2, <4>2, FieldsAre
    <3> QED BY <3>3, <3>4
  <2>40. Len(bytes) = n /\ at + Len(bytes) = y
    <3>1. at \in Int /\ n \in Nat
      BY <1>1, <1>8
    <3>2. Len(Bytes(at, n)) = n
      BY <3>1, BytesSeq
    <3> QED BY <3>2 DEF bytes, y
  <2>4. \/ at >= P /\ WriteCryptoDataTo(first, << >>, bytes, at)
        \/ /\ y < P
           /\ cells' = Put(Clear(bytes), at)
           /\ encryptor' = HashingAt(first, Hashed(first.hash, Clear(bytes)), y, y)
        \/ /\ at < P /\ y >= P
           /\ WriteCryptoDataTo(HashingTo(first, Hashed(first.hash, Clear(bytes)), P), Clear(FirstOf(bytes, plain)), Back(bytes, plain), P)
    <3>1. e = encryptor /\ encryptor.at = at /\ encryptor.offset = at /\ encryptor.hash = g
      BY <1>4, <1>5
    <3>2. first = [encryptor EXCEPT !.hash = IF encryptor.offset = 0 THEN Hashed(@, <<Start>>) ELSE @]
      BY <3>1 DEF first, g1, Hashing
    <3> HIDE DEF first, g1
    <3> QED BY <1>2, <1>10, <2>40, <3>1, <3>2, Zenon DEF WriteDataTo, HashingTo, HashingAt, plain
  <2> HIDE DEF g1, first, plain
  <2>50. /\ b \in Nat /\ c \in Nat /\ Cells(klv, c) \in Seq(CellType) /\ Len(Cells(klv, c)) = c
         /\ \A i \in 1 .. c : Cells(klv, c)[i] = Cell(klv, i)
    <3>1. b \in 0 .. BlocksOf(klv) /\ c \in Nat
      BY <1>8, Counts DEF b, c, L
    <3> QED BY <3>1, CellsSeq
  <2>5. CASE at >= P /\ WriteCryptoDataTo(first, << >>, bytes, at)
    <3>1. P <= at /\ at < L
      BY <1>1, <1>8, <2>1, <2>5
    <3>2. b < BlocksOf(klv) /\ c = Place(klv, b) /\ c <= at /\ at < c + G
      BY <1>8, <3>1, Counts DEF b, c, L, P, G
    <3>3. Waiting(klv, at) = Bytes(c, at - c)
      BY <3>1 DEF Waiting, P, L, c
    <3>4. g1 = IF klv.hashing THEN HashOf(klv, c) ELSE << >>
      BY <2>3 DEF H
    <3>5. first = At(klv, at, b, c, at, done)
      BY <2>3, <3>3, <3>4 DEF At
    <3>6. y = L \/ y >= at + G
      BY <1>1, <1>8 DEF y
    <3>7. cells \o << >> = Cells(klv, c) /\ << >> \in Seq(CellType) /\ cells \in Seq(CellType)
      BY <1>6, <2>50, ConcatEmptySeq
    <3>8. at <= y /\ y <= L /\ 0 < y
      BY <1>1, <1>8, <2>1
    <3>9. Comes(b, c, at, y, << >>)
      BY <3>2, <3>6, <3>7, <3>8 DEF Comes, L, G
    <3>10. WriteCryptoDataTo(first, << >>, Bytes(at, n), at)
      BY <2>5 DEF bytes
    <3>11. at \in Nat /\ y \in Nat /\ y = at + n
      BY <1>8 DEF y
    <3> QED BY <1>8, <2>50, <3>5, <3>9, <3>10, <3>11, CryptoWrites
  <2>6. CASE y < P /\ cells' = Put(Clear(bytes), at) /\ encryptor' = HashingAt(first, Hashed(first.hash, Clear(bytes)), y, y)
    <3>1. at < P /\ y < P /\ y <= P /\ at \in Nat /\ y \in 0 .. L /\ y = at + n
      BY <1>1, <1>8, <2>6 DEF y
    <3>2. b = 0 /\ c = at /\ Waiting(klv, at) = << >>
      BY <1>1, <1>8, <3>1 DEF b, c, Blocks, Count, Waiting, P
    <3>3. Blocks(klv, y) = 0 /\ Count(klv, y) = y /\ Waiting(klv, y) = << >>
      BY <1>1, <3>1 DEF Blocks, Count, Waiting, P
    <3>4. /\ Clear(bytes) \in Seq(CellType) /\ Len(Clear(bytes)) = n
          /\ \A i \in 1 .. n : Clear(bytes)[i] = Cell(klv, at + i)
      <4>1. at + n <= PlainOf(klv)
        BY <3>1 DEF P
      <4> QED BY <1>8, <3>1, <4>1, ClearIs DEF bytes
    <3>5. cells = Cells(klv, at) /\ cells \in Seq(CellType) /\ Len(cells) = at
      BY <1>6, <2>50, <3>2
    <3>6. Put(Clear(bytes), at) = cells \o Clear(bytes)
      BY <3>4, <3>5, PutNext
    <3>7. Cells(klv, at) \o Clear(bytes) = Cells(klv, y) /\ HashOf(klv, at) \o Clear(bytes) = HashOf(klv, y)
      BY <3>1, <3>4, CellsJoin, HashJoin
    <3>8. Hashed(g1, Clear(bytes)) = IF klv.hashing /\ y > 0 THEN HashOf(klv, y) ELSE << >>
      BY <2>1, <2>3, <3>2, <3>7 DEF Hashed, H
    <3>9. encryptor' = Fields(y, << >>, 0 + 1, Hashed(g1, Clear(bytes)), y, done)
      <4>1. HashingAt(Fields(at, << >>, 0 + 1, g1, at, done), Hashed(g1, Clear(bytes)), y, y)
              = Fields(y, << >>, 0 + 1, Hashed(g1, Clear(bytes)), y, done)
        BY HashingAtIs
      <4>2. first = Fields(at, << >>, 0 + 1, g1, at, done) /\ first.hash = g1
        BY <2>3, <3>2
      <4> QED BY <2>6, <4>1, <4>2
    <3>10. EncryptorAt(klv, y, done) = Fields(y, << >>, 0 + 1, Hashed(g1, Clear(bytes)), y, done)
      BY <3>3, <3>8 DEF EncryptorAt
    <3> QED BY <2>6, <3>3, <3>5, <3>6, <3>7, <3>9, <3>10
  <2>7. CASE at < P /\ y >= P
           /\ WriteCryptoDataTo(HashingTo(first, Hashed(first.hash, Clear(bytes)), P), Clear(FirstOf(bytes, plain)), Back(bytes, plain), P)
    <3> DEFINE t == Clear(Bytes(at, plain))
               mixed == HashingTo(first, Hashed(first.hash, Clear(bytes)), P)
    <3>1. at < P /\ P <= y /\ at \in Nat /\ y = at + n /\ plain \in Nat /\ at + plain = P /\ plain \in 0 .. n
          /\ n - plain \in Nat /\ y = P + (n - plain) /\ y \in Nat /\ P \in Nat
      BY <1>1, <1>8, <2>7 DEF y, plain
    <3>2. b = 0 /\ c = at /\ Waiting(klv, at) = << >>
      BY <1>1, <1>8, <3>1 DEF b, c, Blocks, Count, Waiting, P
    <3>3. FirstOf(bytes, plain) = Bytes(at, plain) /\ Back(bytes, plain) = Bytes(P, n - plain)
      <4>1. FirstOf(Bytes(at, n), plain) = Bytes(at, plain) /\ Back(Bytes(at, n), plain) = Bytes(at + plain, n - plain)
        <5>1. at \in Int /\ n \in Nat /\ plain \in 0 .. n
          BY <1>8, <3>1
        <5> QED BY <5>1, BytesCut
      <4> QED BY <3>1, <4>1 DEF bytes
    <3>4. t \in Seq(CellType) /\ Len(t) = plain /\ \A i \in 1 .. plain : t[i] = Cell(klv, at + i)
      <4>1. at + plain <= PlainOf(klv)
        BY <3>1 DEF P
      <4> QED BY <3>1, <4>1, ClearIs
    <3>5. (y = L \/ y >= P + G \/ y = P) /\ (H => y = P)
      <4>1. PICK k \in Nat : at = k * C
        BY <1>60, <2>1
      <4>2. PICK T \in Nat : T = klv.plain
        BY <1>1
      <4>3. C = klv.chunk /\ L = klv.length /\ P = PlainOf(klv) /\ G = Granularity /\ H = klv.hashing
        BY DEF C, L, P, G, H
      <4>4. n = Least(C, L - at) /\ y = at + n
        BY DEF n, y
      <4>5. C \in Nat \ {0} /\ L \in Nat /\ G \in Nat \ {0} /\ P \in Nat /\ n \in Nat /\ at \in Nat /\ y \in Nat
        BY <1>1, <1>8, <3>1
      <4> QED BY <3>1, <4>1, <4>2, <4>3, <4>4, <4>5, Crossing
    <3> HIDE DEF t, mixed
    <3>6. cells = Cells(klv, at) /\ cells \in Seq(CellType) /\ cells \o t = Cells(klv, P)
      <4>1. Cells(klv, at) \o t = Cells(klv, at + Len(t))
        BY <3>1, <3>4, CellsJoin
      <4> QED BY <1>6, <2>50, <3>1, <3>2, <3>4, <4>1
    <3>7. Hashed(g1, Clear(bytes)) = IF klv.hashing THEN HashOf(klv, P) ELSE << >>
      <4>1. CASE H
        <5>1. n = plain
          BY <1>8, <3>1, <3>5, <4>1
        <5>2. Clear(bytes) = t
          BY <5>1 DEF t, bytes
        <5>3. HashOf(klv, at) \o t = HashOf(klv, at + Len(t))
          BY <3>1, <3>4, HashJoin
        <5> QED BY <2>3, <3>1, <3>2, <3>4, <4>1, <5>2, <5>3 DEF Hashed, H
      <4>2. CASE ~H
        BY <2>3, <4>2 DEF Hashed, H
      <4> QED BY <4>1, <4>2
    <3>8. mixed = At(klv, P, 0, P, at, done)
      <4>1. HashingTo(Fields(at, << >>, 0 + 1, g1, at, done), Hashed(g1, Clear(bytes)), P)
              = Fields(P, << >>, 0 + 1, Hashed(g1, Clear(bytes)), at, done)
        BY HashingToIs
      <4>2. first = Fields(at, << >>, 0 + 1, g1, at, done) /\ first.hash = g1
        BY <2>3, <3>2
      <4>3. Bytes(P, P - P) = << >>
        <5>1. P - P = 0
          BY <3>1
        <5> QED BY <5>1 DEF Bytes
      <4> QED BY <3>7, <4>1, <4>2, <4>3 DEF At, mixed
    <3>9. Comes(0, P, P, y, t)
      <4>1. Place(klv, 0) = P /\ 0 < BlocksOf(klv)
        BY Lengths DEF P
      <4>2. P <= y /\ y <= L /\ 0 < y /\ P < P + G /\ P <= P
        BY <1>1, <1>8, <2>1, <3>1
      <4>3. y = L \/ y >= P + G \/ (y = P /\ P = P)
        BY <3>5
      <4> QED BY <3>4, <3>6, <4>1, <4>2, <4>3 DEF Comes, L, G
    <3>10. WriteCryptoDataTo(mixed, t, Bytes(P, n - plain), P)
      BY <2>7, <3>3 DEF mixed, t
    <3> QED BY <3>1, <3>8, <3>9, <3>10, CryptoWrites
  <2> QED BY <2>4, <2>5, <2>6, <2>7
<1> QED BY <1>7, <1>9, <1>10

\* An encryptor that begins.
LEMMA WriterBegins ==
    ASSUME Fits(klv), NEW e, NEW file, NEW hash, e = NewEncryptor, file = << >>, hash = Null
    PROVE  \E at \in 0 .. klv.length, done \in BOOLEAN : WriterAt(klv, at, done, e, file, hash)
<1>1. PICK d : d = FALSE
  OBVIOUS
<1>2. klv.length \in Nat \ {0} /\ PlainOf(klv) \in 0 .. klv.length /\ klv.chunk \in Nat /\ Granularity \in Nat \ {0}
  BY Lengths DEF Fits
<1>3. Blocks(klv, 0) = 0 /\ Count(klv, 0) = 0
  <2>1. CASE 0 < PlainOf(klv)
    BY <2>1 DEF Blocks, Count
  <2>2. CASE ~(0 < PlainOf(klv))
    <3>1. PlainOf(klv) = 0 /\ 0 < klv.length
      BY <1>2, <2>2
    <3>2. (0 * Granularity + 0) \div Granularity = 0 /\ 0 * Granularity + 0 = 0 /\ 0 * Granularity = 0
      BY <1>2, DivUnique
    <3>3. Blocks(klv, 0) = 0
      BY <3>1, <3>2 DEF Blocks
    <3> QED BY <3>1, <3>2, <3>3 DEF Count, Place
  <2> QED BY <2>1, <2>2
<1>4. Waiting(klv, 0) = << >>
  <2>1. Bytes(0, 0 - 0) = << >>
    BY DEF Bytes
  <2> QED BY <1>3, <2>1 DEF Waiting
<1>5. e = EncryptorAt(klv, 0, d)
  <2>1. (IF klv.hashing /\ 0 > 0 THEN HashOf(klv, 0) ELSE << >>) = << >>
    OBVIOUS
  <2>2. EncryptorAt(klv, 0, d) = Fields(0, << >>, 1, << >>, 0, d)
    <3>1. 0 + 1 = 1
      OBVIOUS
    <3>2. EncryptorAt(klv, 0, d) = Fields(0, << >>, 0 + 1, << >>, 0, d)
      BY <1>3, <1>4, <2>1, Zenon DEF EncryptorAt
    <3> QED BY <3>1, <3>2
  <2>3. NewEncryptor = Fields(0, << >>, 1, << >>, 0, d)
    BY <1>1 DEF NewEncryptor, Fields
  <2> QED BY <2>2, <2>3
<1>6. file = Cells(klv, Count(klv, 0))
  BY <1>3, HashBegins
<1>7. 0 = 0 * klv.chunk /\ 0 \in Nat /\ 0 # klv.length /\ 0 \in 0 .. klv.length
  BY <1>2
<1>8. WriterAt(klv, 0, d, e, file, hash)
  BY <1>1, <1>5, <1>6, <1>7 DEF WriterAt
<1>9. d \in BOOLEAN
  BY <1>1
<1> QED BY <1>7, <1>8, <1>9

\* The values of the specification can be written.
LEMMA ValuesFit ==
    ASSUME NEW v \in Values, Writable(v)
    PROVE  Fits(v)
BY EncryptedKLVAssumption DEF Fits

\* Every step keeps Writer.
LEMMA WriterKept ==
    ASSUME \A v \in Values : Writable(v)
    PROVE  /\ KLVInit => WInv
           /\ WInv /\ [KLVNext]_klvVars => WInv'
<1>1. ASSUME KLVInit PROVE WInv
  <2>1. Fits(klv) /\ klv \in Values
    BY <1>1, ValuesFit DEF KLVInit
  <2>2. encryptor = NewEncryptor /\ cells = << >> /\ mic = Null
    BY <1>1 DEF KLVInit
  <2>3. \E at \in 0 .. klv.length, done \in BOOLEAN : WriterAt(klv, at, done, encryptor, cells, mic)
    BY <2>1, <2>2, WriterBegins
  <2> QED BY <2>1, <2>3 DEF WInv, Writer
<1>2. ASSUME WInv, [KLVNext]_klvVars PROVE WInv'
  <2>1. Fits(klv) /\ klv \in Values /\ klv' = klv
    BY <1>2, ValuesFit DEF WInv, KLVNext, klvVars, WriteChunk, Read, NextKLV
  <2>2. SUFFICES \E at \in 0 .. klv.length, done \in BOOLEAN : WriterAt(klv, at, done, encryptor', cells', mic')
    BY <2>1 DEF WInv, Writer
  <2>3. CASE WriteChunk
    BY <1>2, <2>1, <2>3, WriteChunkStep DEF WInv
  <2>4. CASE Read \/ UNCHANGED klvVars
    <3>1. encryptor' = encryptor /\ cells' = cells /\ mic' = mic
      BY <2>4 DEF Read, klvVars
    <3> QED BY <1>2, <3>1 DEF WInv, Writer
  <2>5. CASE NextKLV
    <3>1. encryptor' = NewEncryptor /\ cells' = << >> /\ mic' = Null
      BY <2>5 DEF NextKLV
    <3> QED BY <2>1, <3>1, WriterBegins
  <2> QED BY <1>2, <2>3, <2>4, <2>5 DEF KLVNext
<1> QED BY <1>1, <1>2

\* When WriteRaw is done, the whole value is in the file, and its hash.
LEMMA WriterDone ==
    ASSUME Fits(klv), Writer, encryptor.done
    PROVE  /\ cells = Cells(klv, Place(klv, BlocksOf(klv)))
           /\ mic = IF klv.hashing THEN HashOf(klv, Place(klv, BlocksOf(klv))) ELSE Null
<1>1. PICK at \in 0 .. klv.length, done \in BOOLEAN : WriterAt(klv, at, done, encryptor, cells, mic)
  BY DEF Writer
<1>2. done = TRUE
  <2>1. encryptor = EncryptorAt(klv, at, done)
    BY <1>1 DEF WriterAt
  <2> DEFINE q == IF klv.hashing /\ at > 0 THEN HashOf(klv, Count(klv, at)) ELSE << >>
  <2>2. encryptor = Fields(at, Waiting(klv, at), Blocks(klv, at) + 1, q, at, done)
    BY <2>1 DEF EncryptorAt
  <2> HIDE DEF q
  <2>3. encryptor.done <=> done
    BY <2>2 DEF Fields
  <2> QED BY <2>3
<1>3. at = klv.length
  BY <1>1, <1>2 DEF WriterAt
<1>4. Count(klv, at) = Place(klv, BlocksOf(klv))
  BY <1>3, Counts
<1> QED BY <1>1, <1>3, <1>4 DEF WriterAt

\* WrittenWhole is what Writer says of the end.
LEMMA WriterWritesWhole ==
    ASSUME Fits(klv), Writer
    PROVE  WrittenWhole
<1> SUFFICES ASSUME encryptor.done
             PROVE  /\ Len(cells) = EncryptedLength
                    /\ \A i \in DOMAIN cells :
                         cells[i] = [block |-> IF i <= PlaintextOffset THEN 0
                                               ELSE 1 + (i - PlaintextOffset - 1) \div Granularity,
                                     byte |-> IF i <= ValueLength THEN i - 1 ELSE Pad]
                    /\ mic = IF klv.hashing THEN <<Start>> \o cells ELSE Null
  BY DEF WrittenWhole
<1> DEFINE n == Place(klv, BlocksOf(klv))
<1>1. cells = Cells(klv, n) /\ mic = IF klv.hashing THEN HashOf(klv, n) ELSE Null
  BY WriterDone
<1>2. n \in Nat /\ EncryptedLength = n /\ PlaintextOffset = PlainOf(klv) /\ ValueLength = klv.length
  BY Lengths, Names
<1>3. Len(cells) = n /\ DOMAIN cells = 1 .. n /\ \A i \in 1 .. n : cells[i] = Cell(klv, i)
  BY <1>1, <1>2, CellsSeq
<1> QED BY <1>1, <1>2, <1>3 DEF Cell, HashOf

-----------------------------------------------------------------------------
(***************************************************************************)
(* 4. Read keeps Reader.                                                   *)
(***************************************************************************)
\* The fields of a decryptor.
Parts(o, b, p, k, q, x, t, f) ==
    [offset |-> o, buffer |-> b, pre |-> p, block |-> k, hash |-> q, data |-> x, at |-> t, ended |-> f]

\* The changes of a decryptor.
Taken(d, offset, data) == [d EXCEPT !.offset = offset, !.data = data]
Refilled(d, buffer) == [d EXCEPT !.buffer = buffer]
Decrypted(d, block, hash, pre, buffer) ==
    [d EXCEPT !.block = block, !.hash = hash, !.pre = pre, !.buffer = buffer]
Copied(d, offset, hash, data) == [d EXCEPT !.offset = offset, !.hash = hash, !.data = data]
Emptied(d, data) == [d EXCEPT !.data = data]
Told(d, at, ended) == [d EXCEPT !.at = at, !.ended = ended]

\* The fields of a record.
LEMMA PartsAre ==
    ASSUME NEW o, NEW b, NEW p, NEW k, NEW q, NEW x, NEW t, NEW f
    PROVE  /\ Parts(o, b, p, k, q, x, t, f).offset = o /\ Parts(o, b, p, k, q, x, t, f).buffer = b
           /\ Parts(o, b, p, k, q, x, t, f).pre = p /\ Parts(o, b, p, k, q, x, t, f).block = k
           /\ Parts(o, b, p, k, q, x, t, f).hash = q /\ Parts(o, b, p, k, q, x, t, f).data = x
           /\ Parts(o, b, p, k, q, x, t, f).at = t /\ Parts(o, b, p, k, q, x, t, f).ended = f
BY DEF Parts

\* A decryptor is the record of its fields.
LEMMA PartsOf ==
    ASSUME NEW d \in DecryptorType
    PROVE  d = Parts(d.offset, d.buffer, d.pre, d.block, d.hash, d.data, d.at, d.ended)
BY DEF DecryptorType, Parts

\* The record of the fields of a decryptor is one.
LEMMA PartsType ==
    ASSUME NEW o \in Nat, NEW b \in [1 .. Granularity -> Int], NEW p \in Nat, NEW k \in Nat,
           NEW q \in Seq(CellType), NEW x \in Seq(Int), NEW t \in Nat, NEW f \in BOOLEAN
    PROVE  Parts(o, b, p, k, q, x, t, f) \in DecryptorType
BY DEF DecryptorType, Parts, CellType

\* A decryptor that has come on.
LEMMA TakenIs ==
    ASSUME NEW o, NEW b, NEW p, NEW k, NEW q, NEW x, NEW t, NEW f, NEW y, NEW z
    PROVE  Taken(Parts(o, b, p, k, q, x, t, f), y, z) = Parts(y, b, p, k, q, z, t, f)
<1>1. [Parts(o, b, p, k, q, x, t, f) EXCEPT !.offset = y] = Parts(y, b, p, k, q, x, t, f)
  BY DEF Parts
<1>2. [Parts(y, b, p, k, q, x, t, f) EXCEPT !.data = z] = Parts(y, b, p, k, q, z, t, f)
  BY DEF Parts
<1> QED BY <1>1, <1>2 DEF Taken

\* One with another buffer.
LEMMA RefilledIs ==
    ASSUME NEW o, NEW b, NEW p, NEW k, NEW q, NEW x, NEW t, NEW f, NEW y
    PROVE  Refilled(Parts(o, b, p, k, q, x, t, f), y) = Parts(o, y, p, k, q, x, t, f)
BY DEF Parts, Refilled

\* One that has decrypted blocks.
LEMMA DecryptedIs ==
    ASSUME NEW o, NEW b, NEW p, NEW k, NEW q, NEW x, NEW t, NEW f, NEW y, NEW z, NEW u, NEW w
    PROVE  Decrypted(Parts(o, b, p, k, q, x, t, f), y, z, u, w) = Parts(o, w, u, y, z, x, t, f)
<1>1. [Parts(o, b, p, k, q, x, t, f) EXCEPT !.block = y] = Parts(o, b, p, y, q, x, t, f)
  BY DEF Parts
<1>2. [Parts(o, b, p, y, q, x, t, f) EXCEPT !.hash = z] = Parts(o, b, p, y, z, x, t, f)
  BY DEF Parts
<1>3. [Parts(o, b, p, y, z, x, t, f) EXCEPT !.pre = u] = Parts(o, b, u, y, z, x, t, f)
  BY DEF Parts
<1>4. [Parts(o, b, u, y, z, x, t, f) EXCEPT !.buffer = w] = Parts(o, w, u, y, z, x, t, f)
  BY DEF Parts
<1> QED BY <1>1, <1>2, <1>3, <1>4 DEF Decrypted

\* One that has read plaintext.
LEMMA CopiedIs ==
    ASSUME NEW o, NEW b, NEW p, NEW k, NEW q, NEW x, NEW t, NEW f, NEW y, NEW z, NEW u
    PROVE  Copied(Parts(o, b, p, k, q, x, t, f), y, z, u) = Parts(y, b, p, k, z, u, t, f)
<1>1. [Parts(o, b, p, k, q, x, t, f) EXCEPT !.offset = y] = Parts(y, b, p, k, q, x, t, f)
  BY DEF Parts
<1>2. [Parts(y, b, p, k, q, x, t, f) EXCEPT !.hash = z] = Parts(y, b, p, k, z, x, t, f)
  BY DEF Parts
<1>3. [Parts(y, b, p, k, z, x, t, f) EXCEPT !.data = u] = Parts(y, b, p, k, z, u, t, f)
  BY DEF Parts
<1> QED BY <1>1, <1>2, <1>3 DEF Copied

\* One with another hash.
LEMMA RehashedIs ==
    ASSUME NEW o, NEW b, NEW p, NEW k, NEW q, NEW x, NEW t, NEW f, NEW y
    PROVE  Hashing(Parts(o, b, p, k, q, x, t, f), y) = Parts(o, b, p, k, y, x, t, f)
BY DEF Parts, Hashing

\* One with other data.
LEMMA EmptiedIs ==
    ASSUME NEW o, NEW b, NEW p, NEW k, NEW q, NEW x, NEW t, NEW f, NEW y
    PROVE  Emptied(Parts(o, b, p, k, q, x, t, f), y) = Parts(o, b, p, k, q, y, t, f)
BY DEF Parts, Emptied

\* One whose caller has been told.
LEMMA ToldIs ==
    ASSUME NEW o, NEW b, NEW p, NEW k, NEW q, NEW x, NEW t, NEW f, NEW y, NEW z
    PROVE  Told(Parts(o, b, p, k, q, x, t, f), y, z) = Parts(o, b, p, k, q, x, y, z)
<1>1. [Parts(o, b, p, k, q, x, t, f) EXCEPT !.at = y] = Parts(o, b, p, k, q, x, y, f)
  BY DEF Parts
<1>2. [Parts(o, b, p, k, q, x, y, f) EXCEPT !.ended = z] = Parts(o, b, p, k, q, x, y, z)
  BY DEF Parts
<1> QED BY <1>1, <1>2 DEF Told

\* The whole value is in the file.
FileWhole ==
    /\ cells = Cells(klv, Place(klv, BlocksOf(klv)))
    /\ mic = IF klv.hashing THEN HashOf(klv, Place(klv, BlocksOf(klv))) ELSE Null

\* What a decryptor holds that has read to byte a: the bytes from there to the
\* end of block k - 1, and the hash of all that it has read.
Holds(a, b, p, k, q) ==
    /\ PlainOf(klv) <= a /\ a <= klv.length
    /\ k \in 1 .. BlocksOf(klv) + 1 /\ p \in 0 .. Granularity - 1 /\ a + p = Place(klv, k - 1)
    /\ \A i \in 1 .. p : b[i] = Cell(klv, a + i).byte
    /\ klv.hashing => q = HashOf(klv, a + p)

\* The bytes that a call takes, with the padding.
Wanted(a, size) ==
    IF size = All THEN Place(klv, BlocksOf(klv)) - a ELSE Least(size, Place(klv, BlocksOf(klv)) - a)

\* The requests that it can answer.
Asked(a, p, size) ==
    /\ size = All \/ (size \in Nat /\ (size >= Granularity \/ p = 0))
    /\ klv.hashing => size = All \/ (a < klv.length /\ klv.requests # {All})

\* What it holds when it has answered with m bytes.
Got(a, m, o, b, p, k, q) ==
    /\ o \in Nat /\ b \in [1 .. Granularity -> Int] /\ p \in Nat /\ k \in Nat /\ q \in Seq(CellType)
    /\ m \in Nat /\ a + m <= klv.length
    /\ a + m < klv.length => o = a + m /\ Holds(a + m, b, p, k, q)
    /\ a + m = klv.length =>
         /\ o >= klv.length
         /\ k = 1 => p = 0 /\ o <= PlainOf(klv)
         /\ klv.hashing => q = HashOf(klv, Place(klv, BlocksOf(klv)))

\* z is a decryptor that has answered.
Answered(z, a, size, t, f) ==
    \E m \in Nat, o \in Nat, u \in [1 .. Granularity -> Int], p \in Nat, k \in Nat, q \in Seq(CellType) :
        /\ z = Parts(o, u, p, k, q, Bytes(a, m), t, f)
        /\ Got(a, m, o, u, p, k, q)
        /\ a < klv.length /\ (size = All \/ size # 0) => m > 0

\* z is one that has answered with n bytes of the plaintext.
InClear(z, a, n, b, p, k, t, f) ==
    \E q \in Seq(CellType) :
        /\ z = Parts(a + n, b, p, k, q, Bytes(a, n), t, f)
        /\ klv.hashing => q = HashOf(klv, a + n)

\* The data of a call: what has been decrypted, without the padding.
LEMMA DataIs ==
    ASSUME Fits(klv), NEW a \in Nat, NEW r \in Nat, NEW all \in Seq(Int), a <= klv.length, r <= Len(all),
           \A i \in 1 .. Len(all) : all[i] = Cell(klv, a + i).byte
    PROVE  FirstOf(all, Least(r, klv.length - a)) = Bytes(a, Least(r, klv.length - a))
<1> DEFINE m == Least(r, klv.length - a)
           s == SubSeq(all, 1, m)
<1>1. klv.length \in Nat
  BY Lengths
<1>2. m \in Nat /\ m <= Len(all) /\ a + m <= klv.length /\ Len(all) \in Nat
  BY <1>1 DEF Least
<1> HIDE DEF m
<1>3. \A i \in 1 .. m : all[i] \in Int
  BY <1>2
<1>4. s \in Seq(Int) /\ Len(s) = m /\ \A i \in 1 .. m : s[i] = all[1 + i - 1]
  BY <1>2, <1>3, SubSeqProperties
<1> HIDE DEF s
<1>5. \A i \in 1 .. m : s[i] = a + i - 1
  <2> TAKE i \in 1 .. m
  <2>1. i \in 1 .. Len(all) /\ 1 + i - 1 = i /\ a + i <= klv.length
    BY <1>1, <1>2
  <2>2. Cell(klv, a + i).byte = a + i - 1
    BY <2>1 DEF Cell
  <2>3. s[i] = all[i]
    BY <1>4, <2>1
  <2>4. all[i] = Cell(klv, a + i).byte
    BY <2>1
  <2> QED BY <2>2, <2>3, <2>4
<1>6. s = Bytes(a, m)
  BY <1>4, <1>5, BytesAre
<1> QED BY <1>6 DEF FirstOf, s, m

\* What is decrypted in its turn is what was encrypted.
LEMMA DecryptNext ==
    ASSUME Fits(klv), FileWhole, NEW k \in Nat \ {0}, NEW c \in Nat, c = Place(klv, k - 1), NEW n \in Nat,
           c + n <= Place(klv, BlocksOf(klv))
    PROVE  /\ SubSeq(cells, c + 1, c + n) \in Seq(CellType)
           /\ Len(SubSeq(cells, c + 1, c + n)) = n
           /\ \A i \in 1 .. n : SubSeq(cells, c + 1, c + n)[i] = Cell(klv, c + i)
           /\ Decrypt(SubSeq(cells, c + 1, c + n), k) \in Seq(Int)
           /\ Len(Decrypt(SubSeq(cells, c + 1, c + n), k)) = n
           /\ \A i \in 1 .. n : Decrypt(SubSeq(cells, c + 1, c + n), k)[i] = Cell(klv, c + i).byte
<1> DEFINE F == Place(klv, BlocksOf(klv))
           s == SubSeq(cells, c + 1, c + n)
           t == Decrypt(s, k)
<1>1. F \in Nat /\ Granularity \in Nat \ {0} /\ k - 1 \in Nat /\ (k - 1) + 1 = k
  <2>1. BlocksOf(klv) \in Nat /\ \A i \in Nat : Place(klv, i) \in Nat
    BY Lengths
  <2> QED BY <2>1 DEF Fits
<1>2. cells \in Seq(CellType) /\ Len(cells) = F /\ \A i \in 1 .. F : cells[i] = Cell(klv, i)
  BY <1>1, CellsSeq DEF FileWhole
<1> HIDE DEF F
<1>3. s \in Seq(CellType) /\ Len(s) = n /\ \A i \in 1 .. n : s[i] = Cell(klv, c + i)
  <2>1. c + n <= F
    BY DEF F
  <2>2. \A i \in c + 1 .. c + n : i \in 1 .. F /\ cells[i] \in CellType
    BY <1>1, <1>2, <2>1
  <2>3. c + 1 \in Int /\ c + n \in Int
    OBVIOUS
  <2>4. /\ s \in Seq(CellType)
        /\ Len(s) = IF c + 1 <= c + n THEN (c + n) - (c + 1) + 1 ELSE 0
        /\ \A i \in 1 .. (c + n) - (c + 1) + 1 : s[i] = cells[(c + 1) + i - 1]
    BY <2>2, <2>3, SubSeqProperties
  <2> HIDE DEF s
  <2>5. (c + n) - (c + 1) + 1 = n /\ \A i \in 1 .. n : (c + 1) + i - 1 = c + i /\ c + i \in 1 .. F
    BY <1>1, <2>1
  <2>6. Len(s) = n
    BY <2>4
  <2> QED BY <1>2, <2>4, <2>5, <2>6
<1> HIDE DEF s
<1>4. ASSUME NEW i \in 1 .. n
      PROVE  /\ s[i].block = k + ((i - 1) \div Granularity)
             /\ s[i].byte = Cell(klv, c + i).byte /\ s[i].byte \in Int
  <2>1. i \in Nat \ {0} /\ c + i \in Nat
    OBVIOUS
  <2>2. Cell(klv, c + i) =
          [block |-> ((k - 1) + 1) + (i - 1) \div Granularity,
           byte |-> IF c + i <= klv.length THEN (c + i) - 1 ELSE Pad]
    BY <1>1, <2>1, CellOf
  <2>3. s[i] = Cell(klv, c + i) /\ s[i] \in CellType
    BY <1>3
  <2> QED BY <1>1, <2>2, <2>3 DEF CellType
<1>5. t = [i \in 1 .. n |-> IF s[i].block = k + ((i - 1) \div Granularity) THEN s[i].byte ELSE Noise]
  BY <1>3 DEF Decrypt
<1> HIDE DEF t
<1>6. \A i \in 1 .. n : t[i] = Cell(klv, c + i).byte /\ t[i] \in Int
  <2> TAKE i \in 1 .. n
  <2>1. t[i] = IF s[i].block = k + ((i - 1) \div Granularity) THEN s[i].byte ELSE Noise
    BY <1>5
  <2> QED BY <1>4, <2>1
<1>7. t \in [1 .. n -> Int]
  BY <1>5, <1>6
<1>8. t \in Seq(Int) /\ Len(t) = n
  BY <1>7
<1> QED BY <1>3, <1>6, <1>8 DEF t, s

\* A call that needs no more than has been decrypted before.
LEMMA CryptoReady ==
    ASSUME Fits(klv), NEW a \in Nat, NEW b \in [1 .. Granularity -> Int], NEW p \in Nat, NEW k \in Nat,
           NEW q \in Seq(CellType), NEW x, NEW t, NEW f, NEW size,
           Holds(a, b, p, k, q), Asked(a, p, size), Wanted(a, size) <= p
    PROVE  \E m \in Nat, u \in [1 .. Granularity -> Int] :
             /\ ReadCryptoDataFrom(Parts(a, b, p, k, q, x, t, f), a, size)
                  = Parts(a + Wanted(a, size), u, p, k, q, Bytes(a, m), t, f)
             /\ Got(a, m, a + Wanted(a, size), u, p, k, q)
             /\ a < klv.length /\ (size = All \/ size # 0) => m > 0
<1> DEFINE G == Granularity
           P == PlainOf(klv)
           L == klv.length
           B == BlocksOf(klv)
           F == Place(klv, B)
           r == Wanted(a, size)
           m == Least(r, L - a)
           u == [i \in 1 .. G |-> IF i <= G - m THEN b[i + m] ELSE b[i]]
           all == FirstOf(b, r)
           d == Parts(a, b, p, k, q, x, t, f)
<1>1. /\ G \in Nat \ {0} /\ P \in Nat /\ L \in Nat \ {0} /\ P <= L /\ B \in Nat \ {0} /\ F \in Nat /\ L < F
  <2>1. PlainOf(klv) \in 0 .. klv.length /\ klv.length \in Nat \ {0} /\ BlocksOf(klv) \in Nat \ {0}
    BY Lengths
  <2>2. klv.length < Place(klv, BlocksOf(klv)) /\ Place(klv, BlocksOf(klv)) \in Nat
    BY <2>1, Lengths
  <2> QED BY <2>1, <2>2 DEF Fits
<1>2. EncryptedLength = F /\ ValueLength = L
  BY Names
<1>3. /\ P <= a /\ a <= L /\ k \in 1 .. B + 1 /\ p \in 0 .. G - 1 /\ a + p = Place(klv, k - 1)
      /\ \A i \in 1 .. p : b[i] = Cell(klv, a + i).byte
      /\ klv.hashing => q = HashOf(klv, a + p)
  BY DEF Holds
<1>4. a + p <= F /\ (a + p = F => k = B + 1) /\ (k = 1 => a + p = P)
  <2>1. F = P + B * G /\ a + p = P + (k - 1) * G
    BY <1>3 DEF Place, F, P, G
  <2>2. k - 1 \in Int /\ B \in Int /\ k - 1 <= B
    BY <1>1, <1>3
  <2>3. (k - 1) * G <= B * G /\ B * G \in Int /\ (k - 1) * G \in Int /\ (k - 1 < B => (k - 1) * G + G <= B * G)
    BY <1>1, <2>2, Cancel
  <2>4. k = 1 => (k - 1) * G = 0
    BY <1>1
  <2>5. PICK z \in Int : z = (k - 1) * G
    BY <2>3
  <2>6. PICK w \in Int : w = B * G
    BY <2>3
  <2> HIDE DEF G, P, L, B, F
  <2>7. z <= w /\ (k - 1 < B => z + G <= w) /\ (k = 1 => z = 0) /\ F = P + w /\ a + p = P + z
    BY <2>1, <2>3, <2>4, <2>5, <2>6
  <2>8. a + p <= F /\ (k = 1 => a + p = P)
    BY <1>1, <2>7
  <2>9. a + p = F => k = B + 1
    BY <1>1, <2>2, <2>7, <1>3
  <2> QED BY <2>8, <2>9
<1>5. size = All \/ (size \in Nat /\ (size >= G \/ p = 0))
  BY DEF Asked
<1>50. klv.hashing => a < L \/ size = All
  BY DEF Asked
<1>6. r = (IF size = All THEN F - a ELSE Least(size, F - a)) /\ r <= p
  BY DEF Wanted
<1> HIDE DEF G, P, L, B, F, r
<1>7. (r = F - a /\ r = p) \/ (r = 0 /\ p = 0 /\ size = 0 /\ size # All)
  <2>1. F - a \in Nat /\ F - a > 0 /\ p <= F - a
    BY <1>1, <1>3, <1>4
  <2>2. CASE size = All
    BY <1>3, <1>6, <2>1, <2>2
  <2>3. CASE size # All
    <3>1. r = Least(size, F - a) /\ size \in Nat
      BY <1>5, <1>6, <2>3
    <3>2. CASE size < F - a
      <4>1. r = size
        BY <3>1, <3>2 DEF Least
      <4>2. ~(size >= G)
        BY <1>1, <1>3, <1>6, <3>1, <4>1
      <4> QED BY <1>3, <1>5, <1>6, <2>3, <3>1, <4>1, <4>2
    <3>3. CASE ~(size < F - a)
      <4>1. r = F - a
        BY <3>1, <3>3 DEF Least
      <4> QED BY <1>3, <1>6, <2>1, <4>1
    <3> QED BY <3>2, <3>3
  <2> QED BY <2>2, <2>3
<1>8. r \in Nat /\ (size # All => r <= size /\ size \in Nat) /\ m \in Nat /\ m <= r /\ m <= G
  <2>1. r \in Nat /\ r < G
    BY <1>1, <1>3, <1>7
  <2>2. L - a \in Nat
    BY <1>1, <1>3
  <2>3. m \in Nat /\ m <= r
    BY <2>1, <2>2 DEF Least
  <2>4. size # All => r <= size /\ size \in Nat
    <3> SUFFICES ASSUME size # All PROVE r <= size /\ size \in Nat
      OBVIOUS
    <3>1. r = Least(size, F - a) /\ size \in Nat
      BY <1>5, <1>6
    <3> QED BY <1>1, <1>3, <3>1 DEF Least
  <2> HIDE DEF m
  <2> QED BY <1>1, <2>1, <2>3, <2>4
<1> HIDE DEF m
<1>9. all \in Seq(Int) /\ Len(all) = r /\ \A i \in 1 .. r : all[i] = Cell(klv, a + i).byte
  <2>1. \A i \in 1 .. r : i \in 1 .. p /\ i \in 1 .. G
    BY <1>1, <1>3, <1>7, <1>8
  <2>2. \A i \in 1 .. r : b[i] \in Int
    BY <2>1 DEF G
  <2>3. /\ SubSeq(b, 1, r) \in Seq(Int) /\ Len(SubSeq(b, 1, r)) = r
        /\ \A i \in 1 .. r : SubSeq(b, 1, r)[i] = b[1 + i - 1]
    BY <1>8, <2>2, SubSeqProperties
  <2>4. \A i \in 1 .. r : SubSeq(b, 1, r)[i] = Cell(klv, a + i).byte
    BY <1>3, <2>1, <2>3
  <2> QED BY <2>3, <2>4 DEF FirstOf
<1> HIDE DEF all
<1>10. FirstOf(all, m) = Bytes(a, m)
  <2>1. a <= klv.length /\ r <= Len(all) /\ m = Least(r, klv.length - a) /\ r \in Nat /\ all \in Seq(Int)
    BY <1>3, <1>8, <1>9 DEF m, L
  <2>2. \A i \in 1 .. Len(all) : all[i] = Cell(klv, a + i).byte
    BY <1>9
  <2>3. FirstOf(all, Least(r, klv.length - a)) = Bytes(a, Least(r, klv.length - a))
    BY <2>1, <2>2, DataIs
  <2> QED BY <2>1, <2>3
<1>11. Len(Bytes(a, m)) = m
  <2>1. a \in Int
    OBVIOUS
  <2> QED BY <1>8, <2>1, BytesSeq
<1>12. u \in [1 .. Granularity -> Int]
  <2>1. ASSUME NEW i \in 1 .. G PROVE (IF i <= G - m THEN b[i + m] ELSE b[i]) \in Int
    <3>1. i <= G - m => i + m \in 1 .. G
      BY <1>1, <1>8
    <3>2. \A j \in 1 .. G : b[j] \in Int
      BY DEF G
    <3> QED BY <3>1, <3>2
  <2> QED BY <2>1 DEF G
<1>13. ReadCryptoDataFrom(d, a, size) = Refilled(Taken(d, a + r, Bytes(a, m)), u)
  <2>1. d.pre = p /\ d.offset = a /\ d.buffer = b
    BY PartsAre DEF d
  <2> DEFINE next == Taken(d, a + r, Bytes(a, m))
  <2>2. next.buffer = b
    <3>1. next = Parts(a + r, b, p, k, q, Bytes(a, m), t, f)
      BY TakenIs DEF d
    <3> QED BY <3>1, PartsAre
  <2> HIDE DEF d, next
  <2>3. r = IF size = All THEN EncryptedLength - a ELSE Least(size, EncryptedLength - a)
    BY <1>2, <1>6
  <2>4. r <= d.pre /\ all = FirstOf(d.buffer, r)
    BY <1>6, <2>1 DEF all
  <2>5. r = IF size = All THEN Len(all) ELSE Least(size, Len(all))
    <3>1. size # All => Least(size, r) = r
      BY <1>8 DEF Least
    <3> QED BY <1>9, <3>1
  <2>6. Bytes(a, m) = FirstOf(all, Least(r, ValueLength - a))
    BY <1>2, <1>10 DEF m
  <2>7. next = Taken(d, d.offset + r, Bytes(a, m))
    BY <2>1 DEF next
  <2>8. u = [i \in 1 .. Granularity |-> IF i <= Granularity - Len(Bytes(a, m)) THEN next.buffer[i + Len(Bytes(a, m))] ELSE next.buffer[i]]
    BY <1>11, <2>2 DEF u, G
  <2> HIDE DEF u
  <2>9. ReadCryptoDataFrom(d, a, size) = Refilled(next, u)
    BY <2>3, <2>4, <2>5, <2>6, <2>7, <2>8, Zenon DEF ReadCryptoDataFrom, Taken, Refilled
  <2> QED BY <2>9 DEF next
<1>14. ReadCryptoDataFrom(d, a, size) = Parts(a + r, u, p, k, q, Bytes(a, m), t, f)
  <2> HIDE DEF u
  <2>1. Taken(d, a + r, Bytes(a, m)) = Parts(a + r, b, p, k, q, Bytes(a, m), t, f)
    BY TakenIs DEF d
  <2> QED BY <1>13, <2>1, RefilledIs
<1> HIDE DEF u
<1>15. CASE r = F - a /\ r = p
  <2>1. m = L - a /\ a + m = L /\ a + r = F /\ a + p = F /\ k = B + 1 /\ k # 1
    BY <1>1, <1>3, <1>4, <1>15 DEF m, Least
  <2>2. Got(a, m, a + r, u, p, k, q)
    <3>1. ~(a + m < klv.length) /\ a + m <= klv.length /\ a + r >= klv.length
      BY <1>1, <2>1 DEF L
    <3>2. klv.hashing => q = HashOf(klv, Place(klv, BlocksOf(klv)))
      BY <1>3, <2>1 DEF F, B
    <3>3. a + r \in Nat
      BY <1>8
    <3> QED BY <1>8, <1>12, <2>1, <3>1, <3>2, <3>3 DEF Got
  <2>3. a < klv.length => m > 0
    BY <1>1, <2>1 DEF L
  <2> QED BY <1>8, <1>12, <1>14, <2>2, <2>3 DEF d, r
<1>16. CASE r = 0 /\ p = 0 /\ size = 0 /\ size # All
  <2>1. m = 0 /\ a + m = a /\ a + r = a /\ a + p = a
    BY <1>8, <1>16
  <2>2. Got(a, m, a + r, u, p, k, q)
    <3>1. a + m <= klv.length
      BY <1>3, <2>1 DEF L
    <3>2. Holds(a, u, p, k, q)
      BY <1>16 DEF Holds
    <3>3. a = klv.length => ~klv.hashing
      BY <1>1, <1>16, <1>50 DEF L
    <3>4. a = klv.length => a >= klv.length
      BY <1>1 DEF L
    <3>5. k = 1 => a <= PlainOf(klv)
      BY <1>1, <1>4, <2>1 DEF P
    <3> QED BY <1>8, <1>12, <1>16, <2>1, <3>1, <3>2, <3>3, <3>4, <3>5 DEF Got
  <2> QED BY <1>8, <1>12, <1>14, <1>16, <2>2 DEF d, r
<1> QED BY <1>7, <1>15, <1>16

\* What is left in the file, and the blocks that a call needs of it.
LEMMA BlocksNeeded ==
    ASSUME Fits(klv), NEW k \in 1 .. BlocksOf(klv) + 1, NEW c \in Nat, c = Place(klv, k - 1),
           NEW s \in Nat \ {0}, c + s <= Place(klv, BlocksOf(klv)),
           NEW z \in Nat, z = (s + (Granularity - 1)) \div Granularity
    PROVE  /\ z > 0 /\ z * Granularity \in Nat /\ (z * Granularity) \div Granularity = z
           /\ s <= z * Granularity /\ z * Granularity < s + Granularity
           /\ k + z <= BlocksOf(klv) + 1
           /\ c + z * Granularity = Place(klv, (k + z) - 1)
           /\ c + z * Granularity <= Place(klv, BlocksOf(klv))
           /\ c + s = Place(klv, BlocksOf(klv)) => c + z * Granularity = c + s
<1> DEFINE G == Granularity
           P == PlainOf(klv)
           B == BlocksOf(klv)
           F == Place(klv, B)
           j == k - 1
<1>1. G \in Nat \ {0} /\ P \in Nat /\ B \in Nat \ {0}
  <2>1. PlainOf(klv) \in 0 .. klv.length /\ BlocksOf(klv) \in Nat \ {0}
    BY Lengths
  <2> QED BY <2>1 DEF Fits
<1>2. F = P + B * G /\ c = P + j * G /\ \A i : Place(klv, i) = P + i * G
  BY DEF Place, F, P, G
<1>3. j \in 0 .. B /\ k = j + 1 /\ (k + z) - 1 = j + z
  BY <1>1
<1>4. c + s <= F /\ z = (s + (G - 1)) \div G
  OBVIOUS
<1> HIDE DEF G, P, B, F, j
<1>5. z * G \in Nat /\ z * G <= s + (G - 1) /\ s + (G - 1) < z * G + G
  <2>1. s + (G - 1) \in Nat
    BY <1>1
  <2> QED BY <1>1, <1>4, <2>1, DivBounds
<1>6. s <= z * G /\ z * G < s + G
  BY <1>1, <1>5
<1>7. (z * G) \div G = z
  BY <1>1, DivShift
<1>8. z > 0
  <2>1. z = 0 => z * G = 0
    BY <1>1
  <2> QED BY <1>6, <2>1
<1>9. B * G \in Int /\ j * G \in Int /\ (B - j) * G = B * G - j * G /\ (j + z) * G = j * G + z * G /\ (B - j) * G \in Int
  <2>1. B \in Int /\ j \in Int /\ z \in Int
    BY <1>1, <1>3
  <2>2. B * G \in Int /\ j * G \in Int /\ (B - j) * G = B * G - j * G
    BY <1>1, <2>1, Cancel
  <2>3. (j + z) * G = j * G + z * G
    BY <1>1, <2>1, Cancel
  <2> QED BY <2>2, <2>3
<1>10. z * G < (B - j) * G + G
  <2>1. PICK x \in Int : x = (B - j) * G
    BY <1>9
  <2>2. s <= x
    BY <1>1, <1>2, <1>4, <1>9, <2>1
  <2> QED BY <1>1, <1>5, <1>6, <2>1, <2>2
<1>11. z <= B - j
  <2>1. z \in Int /\ B - j \in Int
    BY <1>1, <1>3
  <2> QED BY <1>1, <1>10, <2>1, Cancel
<1>12. z * G <= (B - j) * G
  <2>1. z \in Int /\ B - j \in Int
    BY <1>1, <1>3
  <2> QED BY <1>1, <1>11, <2>1, Cancel
<1>13. c + z * G <= F
  BY <1>1, <1>2, <1>5, <1>9, <1>12
<1>14. c + z * G = Place(klv, (k + z) - 1)
  <2>1. Place(klv, (k + z) - 1) = P + (j + z) * G
    BY <1>2, <1>3
  <2> QED BY <1>1, <1>2, <1>5, <1>9, <2>1
<1>15. c + s = F => c + z * G = c + s
  BY <1>5, <1>6, <1>13, <1>1, <1>2, <1>9
<1>16. k + z <= B + 1
  BY <1>1, <1>3, <1>11
<1>17. /\ z > 0 /\ z * G \in Nat /\ (z * G) \div G = z
       /\ s <= z * G /\ z * G < s + G /\ k + z <= B + 1
  BY <1>5, <1>6, <1>7, <1>8, <1>16
<1> QED BY <1>13, <1>14, <1>15, <1>17 DEF G, B, F

\* The last block: all that is encrypted has been read when the value has, if
\* the length or the requests are as a hash needs them (Readable).
LEMMA AllRead ==
    ASSUME Fits(klv), Readable(klv), klv.hashing, NEW k \in 1 .. BlocksOf(klv) + 1,
           klv.length <= Place(klv, k - 1), klv.requests # {All}
    PROVE  Place(klv, k - 1) = Place(klv, BlocksOf(klv))
<1> DEFINE G == Granularity
           P == PlainOf(klv)
           B == BlocksOf(klv)
           L == klv.length
           n == L - P
<1>1. /\ G \in Nat \ {0} /\ P \in 0 .. L /\ B \in Nat \ {0} /\ L \in Nat
      /\ Place(klv, B - 1) <= L /\ klv.plain \in Nat
  <2>1. PlainOf(klv) \in 0 .. klv.length /\ klv.length \in Nat \ {0} /\ BlocksOf(klv) \in Nat \ {0}
    BY Lengths
  <2>2. Place(klv, BlocksOf(klv) - 1) <= klv.length
    BY Lengths
  <2> QED BY <2>1, <2>2 DEF Fits
<1>2. klv.plain < L /\ (L - klv.plain) % G # 0
  BY DEF Readable
<1>3. P = klv.plain /\ n \in Nat
  BY <1>1, <1>2 DEF PlainOf
<1>4. B = n \div G + 1 /\ n % G # 0 /\ Place(klv, B - 1) = P + (B - 1) * G /\ Place(klv, k - 1) = P + (k - 1) * G
  BY <1>2, <1>3 DEF BlocksOf, Place
<1>5. L <= Place(klv, k - 1) /\ k \in 1 .. B + 1
  OBVIOUS
<1> HIDE DEF G, P, B, L
<1>6. (n \div G) * G < n /\ n \div G \in Nat
  <2>1. (n \div G) * G < n
    BY <1>1, <1>3, <1>4, DivMod
  <2>2. n \div G \in Nat
    BY <1>1, <1>3, DivBounds
  <2> QED BY <2>1, <2>2
<1>7. (B - 1) * G < n
  <2>1. B - 1 = n \div G
    BY <1>1, <1>4, <1>6
  <2> QED BY <1>6, <2>1
<1>8. B - 1 \in Int /\ k - 1 \in Int /\ (B - 1) * G \in Int /\ (k - 1) * G \in Int
  <2>1. B - 1 \in Int /\ k - 1 \in Int
    BY <1>1, <1>5
  <2> QED BY <1>1, <2>1, Cancel
<1>9. n <= (k - 1) * G
  BY <1>1, <1>3, <1>4, <1>5, <1>8
<1>10. (B - 1) * G < (k - 1) * G
  BY <1>3, <1>7, <1>8, <1>9
<1>11. B - 1 < k - 1
  BY <1>1, <1>8, <1>10, Cancel
<1>12. k - 1 = B
  BY <1>1, <1>5, <1>11
<1> QED BY <1>12 DEF B

\* A call that needs more blocks.
LEMMA CryptoDecrypts ==
    ASSUME Fits(klv), Readable(klv), FileWhole,
           NEW a \in Nat, NEW b \in [1 .. Granularity -> Int], NEW p \in Nat, NEW k \in Nat,
           NEW q \in Seq(CellType), NEW x, NEW t, NEW f, NEW size,
           Holds(a, b, p, k, q), Asked(a, p, size), ~(Wanted(a, size) <= p)
    PROVE  \E m \in Nat, u \in [1 .. Granularity -> Int], p2 \in Nat, k2 \in Nat, q2 \in Seq(CellType) :
             /\ ReadCryptoDataFrom(Parts(a, b, p, k, q, x, t, f), a, size)
                  = Parts(a + Wanted(a, size), u, p2, k2, q2, Bytes(a, m), t, f)
             /\ Got(a, m, a + Wanted(a, size), u, p2, k2, q2)
             /\ a < klv.length => m > 0
<1> DEFINE G == Granularity
           P == PlainOf(klv)
           L == klv.length
           B == BlocksOf(klv)
           F == Place(klv, B)
           r == Wanted(a, size)
           c == a + p
           s == r - p
           z == (s + (G - 1)) \div G
           n == z * G
           crypt == SubSeq(cells, c + 1, c + n)
           fresh == Decrypt(crypt, k)
           before == FirstOf(b, p)
           all == before \o fresh
           T == p + n
           m == Least(r, L - a)
           p2 == T - r
           k2 == k + z
           q2 == Hashed(q, crypt)
           u == [i \in 1 .. G |-> IF i <= p2 THEN all[r + i] ELSE b[i]]
           d == Parts(a, b, p, k, q, x, t, f)
<1>1. /\ G \in Nat \ {0} /\ P \in Nat /\ L \in Nat \ {0} /\ P <= L /\ B \in Nat \ {0} /\ F \in Nat /\ L < F
  <2>1. PlainOf(klv) \in 0 .. klv.length /\ klv.length \in Nat \ {0} /\ BlocksOf(klv) \in Nat \ {0}
    BY Lengths
  <2>2. klv.length < Place(klv, BlocksOf(klv)) /\ Place(klv, BlocksOf(klv)) \in Nat
    BY <2>1, Lengths
  <2> QED BY <2>1, <2>2 DEF Fits
<1>2. EncryptedLength = F /\ ValueLength = L
  BY Names
<1>3. /\ P <= a /\ a <= L /\ k \in 1 .. B + 1 /\ p \in 0 .. G - 1 /\ c = Place(klv, k - 1)
      /\ \A i \in 1 .. p : b[i] = Cell(klv, a + i).byte
      /\ klv.hashing => q = HashOf(klv, c)
  BY DEF Holds
<1>4. size = All \/ (size \in Nat /\ (size >= G \/ p = 0))
  BY DEF Asked
<1>5. r = (IF size = All THEN F - a ELSE Least(size, F - a)) /\ ~(r <= p)
  BY DEF Wanted
<1> HIDE DEF G, P, L, B, F, r
<1>6. /\ r \in Nat /\ a + r <= F
      /\ size = All => r = F - a
      /\ size # All => size \in Nat /\ r <= size /\ (r = size \/ r = F - a)
  <2>1. F - a \in Nat
    BY <1>1, <1>3
  <2>2. CASE size = All
    BY <1>1, <1>5, <2>1, <2>2
  <2>3. CASE size # All
    <3>1. r = Least(size, F - a) /\ size \in Nat
      BY <1>4, <1>5, <2>3
    <3> QED BY <1>1, <2>1, <2>3, <3>1 DEF Least
  <2> QED BY <2>2, <2>3
<1>7. s \in Nat \ {0} /\ c \in Nat /\ c + s = a + r /\ c + s <= F
  <2>1. p < r
    BY <1>5, <1>6
  <2> QED BY <1>1, <1>6, <2>1
<1>8. z \in Nat
  <2>1. s + (G - 1) \in Nat
    BY <1>1, <1>7
  <2> QED BY <1>1, <2>1, DivBounds
<1> HIDE DEF c, s, z
<1>9. /\ z > 0 /\ n \in Nat /\ n \div G = z /\ s <= n /\ n < s + G /\ k2 \in 1 .. B + 1
      /\ c + n = Place(klv, k2 - 1) /\ c + n <= F /\ (c + s = F => c + n = F)
  <2>1. z = (s + (Granularity - 1)) \div Granularity /\ k \in 1 .. BlocksOf(klv) + 1 /\ c + s <= Place(klv, BlocksOf(klv))
    BY <1>3, <1>7 DEF z, G, B, F
  <2>2. /\ z > 0 /\ z * Granularity \in Nat /\ (z * Granularity) \div Granularity = z
        /\ s <= z * Granularity /\ z * Granularity < s + Granularity
        /\ k + z <= BlocksOf(klv) + 1
    BY <1>3, <1>7, <1>8, <2>1, BlocksNeeded
  <2>3. /\ c + z * Granularity = Place(klv, (k + z) - 1)
        /\ c + z * Granularity <= Place(klv, BlocksOf(klv))
        /\ c + s = Place(klv, BlocksOf(klv)) => c + z * Granularity = c + s
    BY <1>3, <1>7, <1>8, <2>1, BlocksNeeded
  <2>4. k + z \in 1 .. B + 1
    BY <1>1, <1>3, <1>8, <2>2 DEF B
  <2> QED BY <2>2, <2>3, <2>4 DEF G, B, F
<1> HIDE DEF n
<1>10. /\ T \in Nat /\ r <= T /\ p2 \in 0 .. G - 1 /\ c + n = a + T /\ (a + r = F => T = r)
       /\ r > 0 /\ k2 \in Nat /\ k2 # 1
  <2>1. c = a + p /\ s = r - p
    BY DEF c, s
  <2>10. n \in Nat /\ s <= n /\ n < s + G /\ (c + s = F => c + n = F)
    BY <1>9
  <2>11. p \in Nat /\ r \in Nat /\ F \in Nat /\ G \in Nat
    BY <1>1, <1>6
  <2>2. T \in Nat /\ r <= T /\ c + n = a + T
    BY <2>1, <2>10, <2>11
  <2>3. T - r < G
    BY <2>1, <2>10, <2>11
  <2>4. ASSUME a + r = F PROVE T = r
    <3>1. c + s = F
      BY <2>1, <2>4, <2>11
    <3>2. (a + p) + n = a + r
      BY <2>1, <2>4, <2>10, <3>1
    <3> QED BY <2>10, <2>11, <3>2
  <2>5. r > 0
    BY <1>5, <1>6
  <2>6. k2 \in Nat /\ k2 # 1
    BY <1>3, <1>8, <1>9
  <2> QED BY <1>1, <1>6, <2>2, <2>3, <2>4, <2>5, <2>6
<1> HIDE DEF k2
<1>11. /\ crypt \in Seq(CellType) /\ Len(crypt) = n /\ \A i \in 1 .. n : crypt[i] = Cell(klv, c + i)
       /\ fresh \in Seq(Int) /\ Len(fresh) = n /\ \A i \in 1 .. n : fresh[i] = Cell(klv, c + i).byte
  <2>1. /\ k \in Nat \ {0} /\ c \in Nat /\ c = Place(klv, k - 1)
        /\ n \in Nat /\ c + n <= Place(klv, BlocksOf(klv))
    BY <1>1, <1>3, <1>7, <1>9 DEF F, B
  <2>2. /\ SubSeq(cells, c + 1, c + n) \in Seq(CellType)
        /\ Len(SubSeq(cells, c + 1, c + n)) = n
        /\ \A i \in 1 .. n : SubSeq(cells, c + 1, c + n)[i] = Cell(klv, c + i)
    BY <2>1, DecryptNext
  <2>3. /\ Decrypt(SubSeq(cells, c + 1, c + n), k) \in Seq(Int)
        /\ Len(Decrypt(SubSeq(cells, c + 1, c + n), k)) = n
        /\ \A i \in 1 .. n : Decrypt(SubSeq(cells, c + 1, c + n), k)[i] = Cell(klv, c + i).byte
    BY <2>1, DecryptNext
  <2> QED BY <2>2, <2>3
<1> HIDE DEF crypt, fresh
<1>12. before \in Seq(Int) /\ Len(before) = p /\ \A i \in 1 .. p : before[i] = Cell(klv, a + i).byte
  <2>1. \A i \in 1 .. p : i \in 1 .. G /\ 1 + i - 1 = i
    BY <1>1, <1>3
  <2>2. \A i \in 1 .. p : b[i] \in Int
    BY <2>1 DEF G
  <2>3. /\ SubSeq(b, 1, p) \in Seq(Int) /\ Len(SubSeq(b, 1, p)) = p
        /\ \A i \in 1 .. p : SubSeq(b, 1, p)[i] = b[1 + i - 1]
    BY <2>2, SubSeqProperties
  <2>4. \A i \in 1 .. p : SubSeq(b, 1, p)[i] = Cell(klv, a + i).byte
    BY <1>3, <2>1, <2>3
  <2> QED BY <2>3, <2>4 DEF FirstOf
<1> HIDE DEF before
<1>13. all \in Seq(Int) /\ Len(all) = T /\ \A i \in 1 .. T : all[i] = Cell(klv, a + i).byte
  <2>1. /\ all \in Seq(Int) /\ Len(all) = Len(before) + Len(fresh)
        /\ \A i \in 1 .. Len(before) + Len(fresh) :
             all[i] = IF i <= Len(before) THEN before[i] ELSE fresh[i - Len(before)]
    BY <1>11, <1>12, ConcatProperties
  <2>2. Len(before) + Len(fresh) = T
    BY <1>11, <1>12
  <2> HIDE DEF all
  <2>3. ASSUME NEW i \in 1 .. T PROVE all[i] = Cell(klv, a + i).byte
    <3>0. all[i] = IF i <= p THEN before[i] ELSE fresh[i - p]
      BY <1>12, <2>1, <2>2
    <3>1. CASE i <= p
      <4>1. i \in 1 .. p
        BY <1>10, <3>1
      <4> QED BY <1>12, <3>0, <3>1, <4>1
    <3>2. CASE ~(i <= p)
      <4>1. i - p \in 1 .. n /\ c + (i - p) = a + i
        <5>1. T = p + n /\ c = a + p
          BY DEF c
        <5> QED BY <1>9, <3>2, <5>1
      <4>2. fresh[i - p] = Cell(klv, c + (i - p)).byte
        BY <1>11, <4>1
      <4> QED BY <3>0, <3>2, <4>1, <4>2
    <3> QED BY <3>1, <3>2
  <2> QED BY <2>1, <2>2, <2>3
<1> HIDE DEF all, T
<1>14. m \in Nat /\ m <= r /\ a + m <= L /\ (a + m < L => m = r) /\ (a < L => m > 0)
  <2>1. L - a \in Nat
    BY <1>1, <1>3
  <2>2. m = IF r < L - a THEN r ELSE L - a
    BY DEF Least
  <2>3. r \in Nat /\ r > 0 /\ L \in Nat /\ a <= L
    BY <1>1, <1>3, <1>6, <1>10
  <2> HIDE DEF m
  <2>4. CASE r < L - a
    <3>1. m = r
      BY <2>2, <2>4
    <3> QED BY <2>3, <2>4, <3>1
  <2>5. CASE ~(r < L - a)
    <3>1. m = L - a
      BY <2>2, <2>5
    <3> QED BY <2>1, <2>3, <2>5, <3>1
  <2> QED BY <2>4, <2>5
<1> HIDE DEF m
<1>15. FirstOf(all, m) = Bytes(a, m)
  <2>1. a <= klv.length /\ r <= Len(all) /\ m = Least(r, klv.length - a) /\ r \in Nat /\ all \in Seq(Int)
    BY <1>3, <1>6, <1>10, <1>13 DEF m, L
  <2>2. \A i \in 1 .. Len(all) : all[i] = Cell(klv, a + i).byte
    BY <1>13
  <2>3. FirstOf(all, Least(r, klv.length - a)) = Bytes(a, Least(r, klv.length - a))
    BY <2>1, <2>2, DataIs
  <2> QED BY <2>1, <2>3
<1>16. /\ u \in [1 .. Granularity -> Int]
       /\ \A i \in 1 .. p2 : u[i] = Cell(klv, (a + r) + i).byte
  <2>1. \A i \in 1 .. p2 : r + i \in 1 .. T /\ i \in 1 .. G /\ a + (r + i) = (a + r) + i
    <3>1. r \in Nat /\ T \in Nat /\ G \in Nat /\ p2 \in 0 .. G - 1 /\ p2 = T - r
      BY <1>1, <1>6, <1>10
    <3> HIDE DEF p2
    <3> TAKE i \in 1 .. p2
    <3>2. i \in Nat /\ 1 <= i /\ i <= p2
      BY <3>1
    <3>3. r + i \in Nat /\ 1 <= r + i /\ r + i <= T
      BY <3>1, <3>2
    <3>4. i <= G /\ a + (r + i) = (a + r) + i
      BY <3>1, <3>2
    <3> QED BY <3>1, <3>2, <3>3, <3>4
  <2>2. \A i \in 1 .. G : b[i] \in Int
    BY DEF G
  <2>3. ASSUME NEW i \in 1 .. G PROVE (IF i <= p2 THEN all[r + i] ELSE b[i]) \in Int
    <3>1. CASE i <= p2
      <4>1. i \in 1 .. p2
        BY <1>10, <3>1
      <4>2. r + i \in 1 .. Len(all)
        BY <1>13, <2>1, <4>1
      <4>3. all[r + i] \in Int
        BY <1>13, <4>2
      <4> QED BY <3>1, <4>3
    <3>2. CASE ~(i <= p2)
      BY <2>2, <3>2
    <3> QED BY <3>1, <3>2
  <2>4. u \in [1 .. Granularity -> Int]
    BY <2>3 DEF G
  <2>5. ASSUME NEW i \in 1 .. p2 PROVE u[i] = Cell(klv, (a + r) + i).byte
    <3>1. i \in 1 .. G /\ i <= p2
      BY <1>10, <2>1
    <3>2. u[i] = all[r + i]
      BY <3>1
    <3>3. all[r + i] = Cell(klv, a + (r + i)).byte
      BY <1>13, <2>1
    <3> QED BY <2>1, <3>2, <3>3
  <2> QED BY <2>4, <2>5
<1>17. q2 \in Seq(CellType) /\ (klv.hashing => q2 = HashOf(klv, c + n))
  <2>1. CASE klv.hashing
    <3>1. \A i \in 1 .. Len(crypt) : crypt[i] = Cell(klv, c + i)
      BY <1>11
    <3>2. HashOf(klv, c) \o crypt = HashOf(klv, c + Len(crypt))
      BY <1>7, <1>11, <3>1, HashJoin
    <3>3. q \o crypt \in Seq(CellType)
      BY <1>11, ConcatProperties
    <3>4. q2 = q \o crypt
      BY <2>1 DEF Hashed
    <3> QED BY <1>3, <1>11, <2>1, <3>2, <3>3, <3>4
  <2>2. CASE ~klv.hashing
    BY <2>2 DEF Hashed
  <2> QED BY <2>1, <2>2
<1>18. ReadCryptoDataFrom(d, a, size) = Decrypted(Taken(d, a + r, Bytes(a, m)), k2, q2, p2, u)
  <2> DEFINE next == Taken(d, a + r, Bytes(a, m))
  <2>1. d.pre = p /\ d.offset = a /\ d.buffer = b /\ d.block = k
    BY PartsAre DEF d
  <2>2. next.buffer = b /\ next.block = k /\ next.hash = q
    <3>1. next = Parts(a + r, b, p, k, q, Bytes(a, m), t, f)
      BY TakenIs DEF d
    <3> QED BY <3>1, PartsAre
  <2> HIDE DEF d, next
  <2>3. r = IF size = All THEN EncryptedLength - a ELSE Least(size, EncryptedLength - a)
    BY <1>2, <1>5
  <2>4. ~(r <= d.pre)
    BY <1>5, <2>1
  <2>5. n = (((r - d.pre) + (Granularity - 1)) \div Granularity) * Granularity
    BY <2>1 DEF n, z, s, G
  <2>6. crypt = SubSeq(cells, a + d.pre + 1, a + d.pre + n)
    BY <2>1 DEF crypt, c
  <2>7. all = Joined(FirstOf(d.buffer, d.pre), Decrypt(crypt, d.block))
    BY <2>1 DEF all, before, fresh, Joined
  <2>8. r = IF size = All THEN Len(all) ELSE Least(size, Len(all))
    <3>1. CASE size = All
      <4>1. a + r = F
        BY <1>1, <1>3, <1>6, <3>1
      <4> QED BY <1>10, <1>13, <3>1, <4>1
    <3>2. CASE size # All
      <4>1. size \in Nat /\ r <= size /\ (r = size \/ a + r = F)
        BY <1>1, <1>3, <1>6, <3>2
      <4>2. Least(size, T) = r
        BY <1>6, <1>10, <4>1 DEF Least
      <4> QED BY <1>13, <3>2, <4>2
    <3> QED BY <3>1, <3>2
  <2>9. Bytes(a, m) = FirstOf(all, Least(r, ValueLength - a))
    BY <1>2, <1>15 DEF m
  <2>10. next = Taken(d, d.offset + r, Bytes(a, m))
    BY <2>1 DEF next
  <2>11. k2 = next.block + n \div Granularity /\ q2 = Hashed(next.hash, crypt) /\ p2 = Len(all) - r
    BY <1>9, <1>13, <2>2 DEF k2, q2, G
  <2>12. u = [i \in 1 .. Granularity |-> IF i <= Len(all) - r THEN all[r + i] ELSE next.buffer[i]]
    BY <1>13, <2>2 DEF u, G
  <2> HIDE DEF u, q2, p2
  <2>13. ReadCryptoDataFrom(d, a, size) = Decrypted(next, k2, q2, p2, u)
    BY <2>3, <2>4, <2>5, <2>6, <2>7, <2>8, <2>9, <2>10, <2>11, <2>12, ZenonT(40) DEF ReadCryptoDataFrom, Taken, Decrypted
  <2> QED BY <2>13 DEF next
<1> HIDE DEF u, q2, p2
<1>19. ReadCryptoDataFrom(d, a, size) = Parts(a + r, u, p2, k2, q2, Bytes(a, m), t, f)
  <2>1. Taken(d, a + r, Bytes(a, m)) = Parts(a + r, b, p, k, q, Bytes(a, m), t, f)
    BY TakenIs DEF d
  <2> QED BY <1>18, <2>1, DecryptedIs
<1>20. Got(a, m, a + r, u, p2, k2, q2)
  <2>1. a + r \in Nat /\ p2 \in Nat /\ k2 \in Nat
    BY <1>6, <1>10
  <2>2. ASSUME a + m < L PROVE a + r = a + m /\ Holds(a + m, u, p2, k2, q2)
    <3>1. m = r
      BY <1>14, <2>2
    <3>2. P <= a + m /\ a + m <= L
      BY <1>1, <1>3, <1>14
    <3>3. (a + m) + p2 = c + n
      BY <1>6, <1>10, <3>1 DEF p2
    <3>4. \A i \in 1 .. p2 : u[i] = Cell(klv, (a + m) + i).byte
      BY <1>16, <3>1
    <3> QED BY <1>9, <1>10, <1>17, <3>1, <3>2, <3>3, <3>4 DEF Holds, P, L, B, G
  <2>3. ASSUME a + m = L PROVE a + r >= L /\ k2 # 1 /\ (klv.hashing => q2 = HashOf(klv, F))
    <3>1. a + r >= L
      BY <1>1, <1>6, <1>14, <2>3
    <3>2. ASSUME klv.hashing PROVE c + n = F
      <4>1. CASE size = All
        <5>1. a + r = F
          BY <1>1, <1>3, <1>6, <4>1
        <5> QED BY <1>7, <1>9, <5>1
      <4>2. CASE size # All
        <5>1. klv.requests # {All}
          BY <3>2, <4>2 DEF Asked
        <5>2. klv.length <= Place(klv, k2 - 1)
          <6>1. L <= c + n
            BY <1>1, <1>6, <1>10, <3>1
          <6> QED BY <1>9, <6>1 DEF L
        <5>3. k2 \in 1 .. BlocksOf(klv) + 1
          BY <1>9 DEF B
        <5>4. Place(klv, k2 - 1) = Place(klv, BlocksOf(klv))
          BY <3>2, <5>1, <5>2, <5>3, AllRead
        <5> QED BY <1>9, <5>4 DEF F, B
      <4> QED BY <4>1, <4>2
    <3> QED BY <1>10, <1>17, <3>1, <3>2
  <2>4. m \in Nat /\ a + m <= L /\ u \in [1 .. Granularity -> Int] /\ q2 \in Seq(CellType)
    BY <1>14, <1>16, <1>17
  <2>5. a + m < klv.length => a + r = a + m /\ Holds(a + m, u, p2, k2, q2)
    BY <2>2 DEF L
  <2>6. a + m = klv.length =>
         /\ a + r >= klv.length
         /\ k2 = 1 => p2 = 0 /\ a + r <= PlainOf(klv)
         /\ klv.hashing => q2 = HashOf(klv, Place(klv, BlocksOf(klv)))
    BY <2>3, Zenon DEF L, F, B
  <2>7. m \in Nat /\ a + m <= klv.length
    BY <2>4 DEF L
  <2> HIDE DEF p2, q2
  <2> QED BY <2>1, <2>4, <2>5, <2>6, <2>7, Zenon DEF Got
<1>21. m \in Nat /\ u \in [1 .. Granularity -> Int] /\ p2 \in Nat /\ k2 \in Nat /\ q2 \in Seq(CellType)
  BY <1>10, <1>14, <1>16, <1>17
<1>22. /\ ReadCryptoDataFrom(Parts(a, b, p, k, q, x, t, f), a, size)
             = Parts(a + Wanted(a, size), u, p2, k2, q2, Bytes(a, m), t, f)
       /\ Got(a, m, a + Wanted(a, size), u, p2, k2, q2)
       /\ a < klv.length => m > 0
  BY <1>14, <1>19, <1>20 DEF d, L, r
<1> QED BY <1>21, <1>22

\* ReadCryptoDataFrom: a call gets what comes next, at least a byte if it asks for one.
LEMMA CryptoReads ==
    ASSUME Fits(klv), Readable(klv), FileWhole,
           NEW a \in Nat, NEW b \in [1 .. Granularity -> Int], NEW p \in Nat, NEW k \in Nat,
           NEW q \in Seq(CellType), NEW x, NEW t, NEW f, NEW size,
           Holds(a, b, p, k, q), Asked(a, p, size)
    PROVE  Answered(ReadCryptoDataFrom(Parts(a, b, p, k, q, x, t, f), a, size), a, size, t, f)
<1>1. CASE Wanted(a, size) <= p
  <2>1. PICK m \in Nat, u \in [1 .. Granularity -> Int] :
          /\ ReadCryptoDataFrom(Parts(a, b, p, k, q, x, t, f), a, size)
               = Parts(a + Wanted(a, size), u, p, k, q, Bytes(a, m), t, f)
          /\ Got(a, m, a + Wanted(a, size), u, p, k, q)
          /\ a < klv.length /\ (size = All \/ size # 0) => m > 0
    BY <1>1, CryptoReady
  <2>2. a + Wanted(a, size) \in Nat
    BY <2>1 DEF Got
  <2> QED BY <2>1, <2>2 DEF Answered
<1>2. CASE ~(Wanted(a, size) <= p)
  <2>1. PICK m \in Nat, u \in [1 .. Granularity -> Int], p2 \in Nat, k2 \in Nat, q2 \in Seq(CellType) :
          /\ ReadCryptoDataFrom(Parts(a, b, p, k, q, x, t, f), a, size)
               = Parts(a + Wanted(a, size), u, p2, k2, q2, Bytes(a, m), t, f)
          /\ Got(a, m, a + Wanted(a, size), u, p2, k2, q2)
          /\ a < klv.length => m > 0
    BY <1>2, CryptoDecrypts
  <2>2. a + Wanted(a, size) \in Nat
    BY <2>1 DEF Got
  <2> QED BY <2>1, <2>2 DEF Answered
<1> QED BY <1>1, <1>2

\* ReadDataFrom inside the plaintext.
LEMMA PlainReads ==
    ASSUME Fits(klv), FileWhole, NEW a \in Nat, NEW n \in Nat, a + n <= PlainOf(klv),
           NEW o, NEW b, NEW p, NEW k, NEW q \in Seq(CellType), NEW x, NEW t, NEW f,
           klv.hashing => q = HashOf(klv, a)
    PROVE  InClear(ReadPlain(Parts(o, b, p, k, q, x, t, f), a, n), a, n, b, p, k, t, f)
<1> DEFINE F == Place(klv, BlocksOf(klv))
           list == SubSeq(cells, a + 1, a + n)
           q2 == Hashed(q, list)
           data == [i \in 1 .. n |-> list[i].byte]
           d == Parts(o, b, p, k, q, x, t, f)
<1>1. F \in Nat /\ PlainOf(klv) \in 0 .. klv.length /\ klv.length < F /\ klv.length \in Nat
  <2>1. BlocksOf(klv) \in Nat /\ \A i \in Nat : Place(klv, i) \in Nat
    BY Lengths
  <2>2. PlainOf(klv) \in 0 .. klv.length /\ klv.length < Place(klv, BlocksOf(klv)) /\ klv.length \in Nat
    BY Lengths
  <2> QED BY <2>1, <2>2
<1>2. cells \in Seq(CellType) /\ Len(cells) = F /\ \A i \in 1 .. F : cells[i] = Cell(klv, i)
  BY <1>1, CellsSeq DEF FileWhole
<1>3. a + n <= F
  BY <1>1
<1> HIDE DEF F
<1>4. list \in Seq(CellType) /\ Len(list) = n /\ \A i \in 1 .. n : list[i] = Cell(klv, a + i)
  <2>2. \A i \in a + 1 .. a + n : i \in 1 .. F /\ cells[i] \in CellType
    BY <1>1, <1>2, <1>3
  <2>3. a + 1 \in Int /\ a + n \in Int
    OBVIOUS
  <2>4. /\ list \in Seq(CellType)
        /\ Len(list) = IF a + 1 <= a + n THEN (a + n) - (a + 1) + 1 ELSE 0
        /\ \A i \in 1 .. (a + n) - (a + 1) + 1 : list[i] = cells[(a + 1) + i - 1]
    BY <2>2, <2>3, SubSeqProperties
  <2> HIDE DEF list
  <2>5. (a + n) - (a + 1) + 1 = n /\ \A i \in 1 .. n : (a + 1) + i - 1 = a + i /\ a + i \in 1 .. F
    BY <1>1, <1>3
  <2>6. Len(list) = n
    BY <2>4
  <2> QED BY <1>2, <2>4, <2>5, <2>6
<1> HIDE DEF list
<1>5. data = Bytes(a, n)
  <2>1. ASSUME NEW i \in 1 .. n PROVE list[i].byte = a + i - 1
    <3>1. list[i] = Cell(klv, a + i)
      BY <1>4
    <3>2. a + i \in 1 .. PlainOf(klv) /\ (a + i) - 1 = a + i - 1
      BY <1>1
    <3>3. Cell(klv, a + i) = [block |-> 0, byte |-> (a + i) - 1]
      BY <3>2, CellPlain
    <3> QED BY <3>1, <3>2, <3>3
  <2> QED BY <2>1 DEF Bytes
<1>6. q2 \in Seq(CellType) /\ (klv.hashing => q2 = HashOf(klv, a + n))
  <2>1. CASE klv.hashing
    <3>1. \A i \in 1 .. Len(list) : list[i] = Cell(klv, a + i)
      BY <1>4
    <3>2. HashOf(klv, a) \o list = HashOf(klv, a + Len(list))
      BY <1>4, <3>1, HashJoin
    <3>3. q \o list \in Seq(CellType)
      BY <1>4, ConcatProperties
    <3>4. q2 = q \o list
      BY <2>1 DEF Hashed
    <3> QED BY <1>4, <2>1, <3>2, <3>3, <3>4
  <2>2. CASE ~klv.hashing
    BY <2>2 DEF Hashed
  <2> QED BY <2>1, <2>2
<1>7. ReadPlain(d, a, n) = Copied(d, a + n, q2, data)
  <2>1. d.hash = q
    BY PartsAre DEF d
  <2> HIDE DEF d
  <2> QED BY <2>1 DEF ReadPlain, Copied, list
<1>8. Copied(d, a + n, q2, data) = Parts(a + n, b, p, k, q2, Bytes(a, n), t, f)
  <2> HIDE DEF q2, data
  <2> QED BY <1>5, CopiedIs DEF d
<1> QED BY <1>6, <1>7, <1>8 DEF d, InClear

\* ReadDataFrom across the end of the plaintext.
LEMMA MixedReads ==
    ASSUME Fits(klv), Readable(klv), FileWhole, NEW a \in Nat, a < PlainOf(klv),
           NEW o, NEW b \in [1 .. Granularity -> Int], NEW q \in Seq(CellType), NEW x, NEW t, NEW f, NEW size,
           size = All \/ (size \in Nat /\ a + size >= PlainOf(klv)),
           klv.hashing => q = HashOf(klv, a) /\ (size = All \/ klv.requests # {All})
    PROVE  Answered(ReadMixed(Parts(o, b, 0, 1, q, x, t, f), a, size), a, size, t, f)
<1> DEFINE P == PlainOf(klv)
           n == P - a
           d == Parts(o, b, 0, 1, q, x, t, f)
           rest == IF size = All THEN All ELSE size - n
<1>1. P \in Nat /\ P <= klv.length /\ klv.length \in Nat \ {0} /\ n \in Nat /\ n > 0 /\ a + n = P
      /\ Granularity \in Nat \ {0} /\ BlocksOf(klv) \in Nat \ {0} /\ Place(klv, 0) = P
  <2>1. P \in 0 .. klv.length /\ klv.length \in Nat \ {0} /\ BlocksOf(klv) \in Nat \ {0} /\ Place(klv, 0) = P
    BY Lengths
  <2> QED BY <2>1 DEF Fits
<1>2. PlaintextOffset = P
  BY Names
<1>3. PICK q1 \in Seq(CellType) :
        /\ ReadPlain(d, a, n) = Parts(P, b, 0, 1, q1, Bytes(a, n), t, f)
        /\ klv.hashing => q1 = HashOf(klv, P)
  <2>1. a + n <= PlainOf(klv)
    BY <1>1
  <2>2. \E q1 \in Seq(CellType) :
          /\ ReadPlain(d, a, n) = Parts(a + n, b, 0, 1, q1, Bytes(a, n), t, f)
          /\ klv.hashing => q1 = HashOf(klv, a + n)
    <3>1. PICK i, j : i = 0 /\ j = 1
      OBVIOUS
    <3>2. n \in Nat /\ d = Parts(o, b, i, j, q, x, t, f)
      BY <1>1, <3>1 DEF d
    <3>3. InClear(ReadPlain(Parts(o, b, i, j, q, x, t, f), a, n), a, n, b, i, j, t, f)
      BY <2>1, <3>2, PlainReads
    <3> QED BY <3>1, <3>2, <3>3 DEF InClear
  <2> QED BY <1>1, <2>2
<1> HIDE DEF n, d
<1> DEFINE plain == Parts(P, b, 0, 1, q1, Bytes(a, n), t, f)
<1>4. Len(Bytes(a, n)) = n /\ Bytes(a, n) \in Seq(Int)
  BY <1>1, BytesSeq
<1>5. Holds(P, b, 0, 1, q1)
  <2>1. 1 \in 1 .. BlocksOf(klv) + 1 /\ 0 \in 0 .. Granularity - 1 /\ P + 0 = P /\ 1 - 1 = 0 /\ 1 .. 0 = {}
    BY <1>1
  <2> QED BY <1>1, <1>3, <2>1 DEF Holds
<1>6. Asked(P, 0, rest)
  <2>1. rest = All \/ rest \in Nat
    <3>1. size # All => size - n \in Nat
      BY <1>1
    <3> QED BY <3>1
  <2>2. ASSUME klv.hashing, size # All PROVE P < klv.length /\ klv.requests # {All}
    <3>1. klv.requests # {All}
      BY <2>2
    <3>2. klv.plain < klv.length
      BY <2>2, <3>1 DEF Readable
    <3>3. klv.plain \in Nat
      BY DEF Fits
    <3>4. P = klv.plain
      BY <1>1, <3>2, <3>3 DEF PlainOf
    <3> QED BY <3>1, <3>2, <3>4
  <2>3. size = All => rest = All
    OBVIOUS
  <2> HIDE DEF rest
  <2> QED BY <2>1, <2>2, <2>3 DEF Asked
<1> HIDE DEF rest
<1>7. PICK m \in Nat, y \in Nat, u \in [1 .. Granularity -> Int], p2 \in Nat, k2 \in Nat, q2 \in Seq(CellType) :
        /\ ReadCryptoDataFrom(plain, P, rest) = Parts(y, u, p2, k2, q2, Bytes(P, m), t, f)
        /\ Got(P, m, y, u, p2, k2, q2)
  <2>1. PICK i \in Nat, j \in Nat : i = 0 /\ j = 1
    OBVIOUS
  <2>2. P \in Nat /\ Holds(P, b, i, j, q1) /\ Asked(P, i, rest)
    BY <1>1, <1>5, <1>6, <2>1
  <2> HIDE DEF P
  <2>3. Answered(ReadCryptoDataFrom(Parts(P, b, i, j, q1, Bytes(a, n), t, f), P, rest), P, rest, t, f)
    BY <2>2, CryptoReads
  <2> QED BY <2>1, <2>3 DEF Answered
<1> DEFINE crypt == Parts(y, u, p2, k2, q2, Bytes(P, m), t, f)
<1>8. plain.data = Bytes(a, n) /\ crypt.data = Bytes(P, m)
  BY PartsAre
<1>9. Bytes(a, n) \o Bytes(P, m) = Bytes(a, n + m) /\ Len(Bytes(a, n + m)) = n + m
  <2>0. a \in Int /\ n \in Nat /\ m \in Nat
    BY <1>1, <1>7
  <2>1. Bytes(a, n) \o Bytes(a + n, m) = Bytes(a, n + m)
    BY <2>0, BytesJoin
  <2>2. n + m \in Nat
    BY <2>0
  <2>3. Len(Bytes(a, n + m)) = n + m
    BY <2>0, <2>2, BytesSeq
  <2> QED BY <1>1, <2>1, <2>3
<1>10. ReadMixed(d, a, size) = Taken(crypt, a + (n + m), Bytes(a, n + m))
  <2>1. plain = ReadPlain(d, a, PlaintextOffset - a)
    BY <1>2, <1>3 DEF n
  <2> DEFINE both == Bytes(a, n + m)
  <2>2. both = plain.data \o crypt.data /\ Len(both) = n + m
    BY <1>8, <1>9
  <2>3. rest = IF size = All THEN All ELSE size - Len(plain.data)
    BY <1>4, <1>8 DEF rest
  <2>4. crypt = ReadCryptoDataFrom(plain, PlaintextOffset, rest)
    BY <1>2, <1>7
  <2> HIDE DEF plain, crypt, both
  <2>5. ReadMixed(d, a, size) = Taken(crypt, a + Len(both), both)
    BY <2>1, <2>2, <2>3, <2>4, Zenon DEF ReadMixed, Taken
  <2> QED BY <2>2, <2>5 DEF both
<1>11. ReadMixed(d, a, size) = Parts(a + (n + m), u, p2, k2, q2, Bytes(a, n + m), t, f)
  BY <1>10, TakenIs
<1>12. Got(a, n + m, a + (n + m), u, p2, k2, q2)
  <2>1. n + m \in Nat /\ a + (n + m) = P + m /\ a + (n + m) \in Nat
    <3>1. a \in Nat /\ n \in Nat /\ m \in Nat /\ a + n = P
      BY <1>1, <1>7
    <3> HIDE DEF P
    <3> QED BY <3>1
  <2>2. /\ P + m <= klv.length
        /\ P + m < klv.length => Holds(P + m, u, p2, k2, q2)
        /\ P + m = klv.length =>
             /\ y >= klv.length
             /\ k2 = 1 => p2 = 0 /\ y <= PlainOf(klv)
             /\ klv.hashing => q2 = HashOf(klv, Place(klv, BlocksOf(klv)))
    BY <1>7 DEF Got
  <2>3. P + m = klv.length => P + m >= klv.length /\ (k2 = 1 => P + m <= PlainOf(klv))
    BY <1>1, <2>2
  <2> HIDE DEF P
  <2> QED BY <2>1, <2>2, <2>3 DEF Got
<1>13. n + m \in Nat /\ n + m > 0 /\ a + (n + m) \in Nat
  BY <1>1
<1> QED BY <1>11, <1>12, <1>13 DEF d, Answered

\* ReadFooter leaves the data if the hash is that of the footer.
LEMMA FooterKeeps ==
    ASSUME Fits(klv), NEW d, d.offset >= klv.length /\ klv.hashing => mic = d.hash
    PROVE  ReadFooter(d) = d
BY Names DEF ReadFooter

\* The footer agrees with a decryptor that has answered.
LEMMA FooterAgrees ==
    ASSUME Fits(klv), FileWhole, NEW z, NEW a \in Nat, NEW size, NEW t, NEW f, Answered(z, a, size, t, f)
    PROVE  ReadFooter(z) = z
<1>1. PICK m \in Nat, o \in Nat, u \in [1 .. Granularity -> Int], p \in Nat, k \in Nat, q \in Seq(CellType) :
        z = Parts(o, u, p, k, q, Bytes(a, m), t, f) /\ Got(a, m, o, u, p, k, q)
  BY DEF Answered
<1>2. z.offset = o /\ z.hash = q
  BY <1>1, PartsAre
<1>3. ASSUME o >= klv.length, klv.hashing PROVE mic = q
  <2>1. klv.length \in Nat /\ a + m <= klv.length /\ (a + m < klv.length => o = a + m)
    BY <1>1, Lengths DEF Got
  <2>2. a + m = klv.length
    <3>1. ~(a + m < klv.length)
      BY <1>3, <2>1
    <3>2. a + m \in Nat
      BY <1>1
    <3> QED BY <2>1, <3>1, <3>2
  <2> QED BY <1>1, <1>3, <2>2 DEF Got, FileWhole
<1> QED BY <1>2, <1>3, FooterKeeps

\* What a decryptor needs to read at offset a.
Ready(a, o, b, p, k, q) ==
    /\ a < klv.length
    /\ a < PlainOf(klv) => k = 1 /\ p = 0 /\ o <= PlainOf(klv) /\ (klv.hashing => o = a /\ q = HashOf(klv, a))
    /\ ~(a < PlainOf(klv)) => o = a /\ Holds(a, b, p, k, q)

\* ReadDataFrom.
LEMMA DataFrom ==
    ASSUME Fits(klv), Readable(klv), FileWhole, NEW a \in Nat, NEW o \in Nat, NEW b \in [1 .. Granularity -> Int],
           NEW p \in Nat, NEW k \in Nat, NEW q, NEW q1 \in Seq(CellType), NEW x, NEW t, NEW f, NEW size \in klv.requests,
           decryptor = Parts(o, b, p, k, q, x, t, f), q1 = IF o = 0 THEN Hashed(q, <<Start>>) ELSE q,
           Ready(a, o, b, p, k, q1)
    PROVE  \/ /\ size \in Nat \ {0} /\ a + size < PlainOf(klv)
              /\ InClear(ReadDataFrom(a, size), a, size, b, p, k, t, f)
           \/ Answered(ReadDataFrom(a, size), a, size, t, f)
<1> DEFINE P == PlainOf(klv)
           first == Hashing(decryptor, q1)
           inPlain == size # All /\ a + size < P
           refused == IF a >= P THEN a # o ELSE IF inPlain THEN klv.hashing /\ a # o ELSE o > P
<1>1. P \in 0 .. klv.length /\ klv.length \in Nat /\ Granularity \in Nat \ {0} /\ PlaintextOffset = P
  BY Lengths, Names DEF Fits
<1>2. (size = All \/ size \in Nat \ {0}) /\ (size = All \/ size >= Granularity)
      /\ (klv.hashing => size = All \/ klv.requests # {All})
  BY DEF Fits, Readable
<1>3. /\ a < klv.length
      /\ a < P => k = 1 /\ p = 0 /\ o <= P /\ (klv.hashing => o = a /\ q1 = HashOf(klv, a))
      /\ ~(a < P) => o = a /\ Holds(a, b, p, k, q1)
  BY DEF Ready
<1>4. first = Parts(o, b, p, k, q1, x, t, f)
  BY RehashedIs
<1>5. ReadDataFrom(a, size) =
        CASE refused -> [first EXCEPT !.data = << >>]
          [] ~refused /\ a >= P -> ReadFooter(ReadCryptoDataFrom(first, a, size))
          [] ~refused /\ a < P /\ inPlain -> ReadFooter(ReadPlain(first, a, size))
          [] OTHER -> ReadFooter(ReadMixed(first, a, size))
  <2>1. decryptor.offset = o /\ decryptor.hash = q
    BY PartsAre
  <2>2. first = [decryptor EXCEPT !.hash = IF decryptor.offset = 0 THEN Hashed(@, <<Start>>) ELSE @]
    BY <2>1 DEF Hashing
  <2> HIDE DEF first
  <2> QED BY <1>1, <2>1, <2>2 DEF ReadDataFrom
<1> HIDE DEF P, first
<1>6. CASE ~(a < P)
  <2>1. a >= P /\ a = o /\ ~refused
    BY <1>1, <1>3, <1>6
  <2>2. ReadDataFrom(a, size) = ReadFooter(ReadCryptoDataFrom(first, a, size))
    <3>1. ~(a < P)
      BY <1>6
    <3> HIDE DEF refused, inPlain
    <3> QED BY <1>5, <2>1, <3>1
  <2>3. Holds(a, b, p, k, q1) /\ Asked(a, p, size)
    BY <1>2, <1>3, <1>6 DEF Asked
  <2>4. Answered(ReadCryptoDataFrom(Parts(a, b, p, k, q1, x, t, f), a, size), a, size, t, f)
    BY <2>3, CryptoReads
  <2> QED BY <1>4, <2>1, <2>2, <2>4, FooterAgrees
<1>7. CASE a < P /\ inPlain
  <2>1. ~(a >= P) /\ ~refused /\ size \in Nat \ {0} /\ a + size < P
    BY <1>1, <1>2, <1>3, <1>7
  <2>2. ReadDataFrom(a, size) = ReadFooter(ReadPlain(first, a, size))
    BY <1>5, <1>7, <2>1
  <2>3. a + size <= PlainOf(klv) /\ size \in Nat /\ (klv.hashing => q1 = HashOf(klv, a))
    BY <1>1, <1>3, <1>7, <2>1 DEF P
  <2>4. InClear(ReadPlain(Parts(o, b, p, k, q1, x, t, f), a, size), a, size, b, p, k, t, f)
    BY <2>3, PlainReads
  <2>5. ReadPlain(first, a, size).offset = a + size
    BY <1>4, <2>4, PartsAre DEF InClear
  <2>6. ~(a + size >= klv.length)
    BY <1>1, <2>1
  <2>7. ReadFooter(ReadPlain(first, a, size)) = ReadPlain(first, a, size)
    BY <2>5, <2>6, FooterKeeps
  <2> QED BY <1>4, <2>1, <2>2, <2>4, <2>7 DEF P
<1>8. CASE a < P /\ ~inPlain
  <2>1. ~(a >= P) /\ ~refused
    BY <1>1, <1>3, <1>8
  <2>2. ReadDataFrom(a, size) = ReadFooter(ReadMixed(first, a, size))
    BY <1>5, <1>8, <2>1
  <2>3. size = All \/ (size \in Nat /\ a + size >= PlainOf(klv))
    BY <1>1, <1>2, <1>8 DEF P
  <2>4. klv.hashing => q1 = HashOf(klv, a) /\ (size = All \/ klv.requests # {All})
    BY <1>2, <1>3, <1>8
  <2>5. a < PlainOf(klv) /\ first = Parts(o, b, 0, 1, q1, x, t, f)
    BY <1>3, <1>4, <1>8 DEF P
  <2>6. Answered(ReadMixed(Parts(o, b, 0, 1, q1, x, t, f), a, size), a, size, t, f)
    BY <2>3, <2>4, <2>5, MixedReads
  <2> QED BY <2>2, <2>5, <2>6, FooterAgrees
<1> QED BY <1>6, <1>7, <1>8

\* What a decryptor holds that has read to byte a, or all.
Come(a, o, b, p, k, q) ==
    /\ a <= klv.length
    /\ \/ /\ a < PlainOf(klv) /\ o = a /\ k = 1 /\ p = 0
          /\ klv.hashing => q = IF a = 0 THEN << >> ELSE HashOf(klv, a)
       \/ /\ PlainOf(klv) <= a /\ a < klv.length /\ o = a
          /\ k \in 1 .. BlocksOf(klv) + 1
          /\ p \in 0 .. Granularity - 1 /\ a + p = Place(klv, k - 1)
          /\ \A i \in 1 .. p : b[i] = Cell(klv, a + i).byte
          /\ klv.hashing => q = IF a = 0 THEN << >> ELSE HashOf(klv, a + p)
       \/ a = klv.length /\ a <= o /\ (k = 1 => p = 0 /\ o <= PlainOf(klv))

\* What a decryptor has come to is no more than the value, and where it is.
LEMMA ReadingAt ==
    ASSUME Fits(klv), NEW o \in Nat, NEW b, NEW p, NEW k, NEW q, NEW x \in Seq(Int), NEW t \in Nat, NEW f,
           NEW d, d = Parts(o, b, p, k, q, x, t, f), Reading(klv, d), ~f
    PROVE  Come(t + Len(x), o, b, p, k, q)
<1> DEFINE a == t + Len(x)
<1>0. a \in Nat
  OBVIOUS
<1>1. /\ d.offset = o /\ d.buffer = b /\ d.pre = p /\ d.block = k /\ d.hash = q /\ d.data = x /\ d.at = t
      /\ (d.ended <=> f)
  BY PartsAre
<1>2. InPlain(klv, d, a) \/ Behind(klv, d, a) \/ AtEnd(klv, d, a)
  BY <1>1 DEF Reading
<1>3. SUFFICES Come(a, o, b, p, k, q)
  OBVIOUS
<1> HIDE DEF a
<1>4. PlainOf(klv) \in 0 .. klv.length /\ klv.length \in Nat
  BY Lengths
<1>5. CASE InPlain(klv, d, a)
  BY <1>0, <1>1, <1>4, <1>5 DEF InPlain, Come
<1>6. CASE Behind(klv, d, a)
  BY <1>1, <1>4, <1>6 DEF Behind, Come
<1>7. CASE AtEnd(klv, d, a)
  BY <1>1, <1>4, <1>7 DEF AtEnd, Come
<1> QED BY <1>2, <1>5, <1>6, <1>7

\* A caller that reads on, or starts again, can read.
LEMMA ReaderReady ==
    ASSUME Fits(klv), NEW o \in Nat, NEW b, NEW p \in Nat, NEW k \in Nat, NEW q \in Seq(CellType),
           NEW x \in Seq(Int), NEW t \in Nat, NEW f, NEW d, d = Parts(o, b, p, k, q, x, t, f), Reading(klv, d), ~f,
           NEW at \in Nat, at = 0 \/ at = t + Len(x), at < klv.length,
           at = 0 => (~klv.hashing /\ k = 1) \/ o = 0,
           NEW q1, q1 = IF o = 0 THEN Hashed(q, <<Start>>) ELSE q
    PROVE  Ready(at, o, b, p, k, q1) /\ q1 \in Seq(CellType)
<1> DEFINE P == PlainOf(klv)
           L == klv.length
           G == Granularity
<1>1. PICK a \in Nat : a = t + Len(x)
  OBVIOUS
<1>2. /\ P \in Nat /\ P <= L /\ L \in Nat \ {0} /\ Granularity \in Nat \ {0} /\ BlocksOf(klv) \in Nat /\ Place(klv, 0) = P
  <2>1. P \in 0 .. L /\ L \in Nat \ {0} /\ BlocksOf(klv) \in Nat /\ Place(klv, 0) = P
    BY Lengths
  <2> QED BY <2>1 DEF Fits
<1>3. q1 \in Seq(CellType)
  <2>1. <<Start>> \in Seq(CellType)
    BY DEF Start, CellType
  <2>2. q \o <<Start>> \in Seq(CellType)
    BY <2>1, ConcatProperties
  <2> QED BY <2>2 DEF Hashed
<1>4. /\ a <= L
      /\ \/ /\ a < P /\ o = a /\ k = 1 /\ p = 0
            /\ klv.hashing => q = IF a = 0 THEN << >> ELSE HashOf(klv, a)
         \/ /\ P <= a /\ a < L /\ o = a
            /\ k \in 1 .. BlocksOf(klv) + 1
            /\ p \in 0 .. G - 1 /\ a + p = Place(klv, k - 1)
            /\ \A i \in 1 .. p : b[i] = Cell(klv, a + i).byte
            /\ klv.hashing => q = IF a = 0 THEN << >> ELSE HashOf(klv, a + p)
         \/ a = L /\ a <= o /\ (k = 1 => p = 0 /\ o <= P)
  <2>1. Come(t + Len(x), o, b, p, k, q)
    BY ReadingAt
  <2> QED BY <1>1, <2>1 DEF Come
<1>5. ASSUME o = 0, klv.hashing, q = << >> PROVE q1 = HashOf(klv, 0)
  <2>1. q1 = << >> \o <<Start>>
    BY <1>5 DEF Hashed
  <2>2. << >> \o <<Start>> = <<Start>>
    BY ConcatEmptySeq DEF Start
  <2> QED BY <2>1, <2>2, HashBegins
<1>6. PICK h : h = klv.hashing
  OBVIOUS
<1> HIDE DEF P, L, G
<1>7. CASE at = a
  <2>1. CASE a < P /\ o = a /\ k = 1 /\ p = 0 /\ (h => q = IF a = 0 THEN << >> ELSE HashOf(klv, a))
    <3>1. h => q1 = HashOf(klv, a)
      <4>1. CASE a = 0
        BY <1>5, <1>6, <2>1, <4>1
      <4>2. CASE a # 0
        BY <2>1, <4>2
      <4> QED BY <4>1, <4>2
    <3>2. o <= P /\ a < P
      BY <1>2, <2>1
    <3> QED BY <1>3, <1>6, <1>7, <2>1, <3>1, <3>2 DEF Ready, P
  <2>2. CASE /\ P <= a /\ a < L /\ o = a
             /\ k \in 1 .. BlocksOf(klv) + 1
             /\ p \in 0 .. G - 1 /\ a + p = Place(klv, k - 1)
             /\ \A i \in 1 .. p : b[i] = Cell(klv, a + i).byte
             /\ h => q = IF a = 0 THEN << >> ELSE HashOf(klv, a + p)
    <3>1. h => q1 = HashOf(klv, a + p)
      <4>1. CASE a = 0
        <5>1. P = 0 /\ p = (k - 1) * G
          <6>1. P = 0
            BY <1>2, <2>2, <4>1
          <6>2. Place(klv, k - 1) = P + (k - 1) * G
            BY DEF Place, P, G
          <6>3. (k - 1) * G \in Int
            BY <1>2, <2>2, Cancel DEF G
          <6> QED BY <2>2, <4>1, <6>1, <6>2, <6>3
        <5>2. p = 0
          <6>1. k - 1 \in Int /\ G \in Nat \ {0} /\ p < G /\ p >= 0
            BY <1>2, <2>2 DEF G
          <6>2. 0 * G = 0 /\ 0 \in Int
            BY <6>1
          <6>3. (k - 1) * G < 0 * G + G
            BY <5>1, <6>1, <6>2
          <6>4. k - 1 <= 0
            BY <6>1, <6>2, <6>3, Cancel
          <6>5. k - 1 = 0
            BY <2>2, <6>4
          <6> QED BY <5>1, <6>2, <6>5
        <5>3. a + p = 0
          BY <4>1, <5>2
        <5> QED BY <1>5, <1>6, <2>2, <4>1, <5>3
      <4>2. CASE a # 0
        BY <2>2, <4>2
      <4> QED BY <4>1, <4>2
    <3>2. ~(a < P) /\ a <= L
      BY <1>2, <2>2
    <3>3. Holds(a, b, p, k, q1)
      BY <1>6, <2>2, <3>1, <3>2 DEF Holds, P, L, G
    <3> QED BY <1>3, <1>7, <2>2, <3>2, <3>3 DEF Ready, P
  <2>3. ~(a = L)
    BY <1>2, <1>7 DEF L
  <2> QED BY <1>4, <1>6, <2>1, <2>2, <2>3
<1>8. CASE at = 0 /\ a # 0
  <2>1. o # 0
    BY <1>2, <1>4, <1>8
  <2>2. ~klv.hashing /\ k = 1
    BY <1>8, <2>1
  <2>3. p = 0 /\ o <= P /\ 0 < P
    <3>1. CASE a < P /\ o = a /\ p = 0
      BY <1>2, <3>1
    <3>2. CASE P <= a /\ p \in 0 .. G - 1 /\ a + p = Place(klv, k - 1) /\ o = a
      <4>1. a + p = P
        BY <1>2, <2>2, <3>2
      <4> QED BY <1>2, <1>8, <3>2, <4>1
    <3>3. CASE a = L /\ a <= o /\ (k = 1 => p = 0 /\ o <= P)
      BY <1>2, <2>2, <3>3
    <3> QED BY <1>4, <3>1, <3>2, <3>3
  <2> QED BY <1>3, <1>8, <2>2, <2>3 DEF Ready, P
<1> QED BY <1>1, <1>7, <1>8

\* Read.
LEMMA ReadKeeps ==
    ASSUME Fits(klv), Readable(klv), FileWhole, Reading(klv, decryptor), Read
    PROVE  Reading(klv, decryptor')
<1> DEFINE P == PlainOf(klv)
           L == klv.length
<1>1. P \in Nat /\ P <= L /\ L \in Nat \ {0} /\ ValueLength = L
  <2>1. P \in 0 .. L /\ L \in Nat \ {0} /\ ValueLength = L
    BY Lengths, Names
  <2> QED BY <2>1
<1>2. decryptor \in DecryptorType
  BY DEF Reading
<1>3. PICK o \in Nat, b \in [1 .. Granularity -> Int], p \in Nat, k \in Nat, q \in Seq(CellType),
           x \in Seq(Int), t \in Nat, f \in BOOLEAN :
        decryptor = Parts(o, b, p, k, q, x, t, f)
  <2>1. /\ decryptor.offset \in Nat /\ decryptor.buffer \in [1 .. Granularity -> Int] /\ decryptor.pre \in Nat
        /\ decryptor.block \in Nat /\ decryptor.hash \in Seq(CellType) /\ decryptor.data \in Seq(Int)
        /\ decryptor.at \in Nat /\ decryptor.ended \in BOOLEAN
    BY <1>2 DEF DecryptorType, CellType
  <2> QED BY <1>2, <2>1, PartsOf
<1>4. /\ decryptor.offset = o /\ decryptor.block = k /\ decryptor.hash = q /\ decryptor.data = x /\ decryptor.at = t
      /\ (decryptor.ended <=> f)
  BY <1>3, PartsAre
<1>5. PICK size \in klv.requests, at \in {0, t + Len(x)} :
        /\ at = 0 => (~klv.hashing /\ k = 1) \/ o = 0
        /\ \E d : /\ d = IF at >= L THEN Emptied(decryptor, << >>) ELSE ReadDataFrom(at, size)
                  /\ decryptor' = Told(d, at, d.data = << >>)
  <2>1. NewDecryptor.block = 1
    BY DEF NewDecryptor
  <2>2. PICK size \in klv.requests, at \in {0, decryptor.at + Len(decryptor.data)} :
          /\ at = 0 => (~klv.hashing /\ decryptor.block = NewDecryptor.block) \/ decryptor.offset = 0
          /\ decryptor' = Told(IF at >= ValueLength THEN Emptied(decryptor, << >>) ELSE ReadDataFrom(at, size), at,
                              (IF at >= ValueLength THEN Emptied(decryptor, << >>) ELSE ReadDataFrom(at, size)).data = << >>)
    BY Zenon DEF Read, Emptied, Told
  <2>3. at \in {0, t + Len(x)} /\ (at = 0 => (~klv.hashing /\ k = 1) \/ o = 0)
    BY <1>4, <2>1, <2>2
  <2>4. \E d : /\ d = IF at >= L THEN Emptied(decryptor, << >>) ELSE ReadDataFrom(at, size)
               /\ decryptor' = Told(d, at, d.data = << >>)
    BY <1>1, <2>2, Zenon
  <2> QED BY <2>2, <2>3, <2>4
<1>6. ~f
  BY <1>4 DEF Read
<1>7. PICK d : /\ d = IF at >= L THEN Emptied(decryptor, << >>) ELSE ReadDataFrom(at, size)
               /\ decryptor' = Told(d, at, d.data = << >>)
  BY <1>5
<1>8. PICK g \in BOOLEAN : g = (d.data = << >>)
  OBVIOUS
<1>9. at \in Nat
  OBVIOUS
<1> HIDE DEF P, L
<1>10. CASE at >= L
  <2>1. d = Parts(o, b, p, k, q, << >>, t, f)
    BY <1>3, <1>7, <1>10, EmptiedIs
  <2>2. decryptor' = Parts(o, b, p, k, q, << >>, at, g)
    BY <1>7, <1>8, <2>1, ToldIs
  <2>3. g
    <3>1. PICK e : e = << >>
      OBVIOUS
    <3>2. Parts(o, b, p, k, q, e, t, f).data = e
      BY PartsAre
    <3> QED BY <1>8, <2>1, <3>1, <3>2
  <2>4. at = L
    <3>1. PICK a \in Nat : a = t + Len(x)
      OBVIOUS
    <3>2. a <= klv.length
      <4>1. Come(t + Len(x), o, b, p, k, q)
        BY <1>3, <1>6, ReadingAt
      <4> QED BY <3>1, <4>1 DEF Come
    <3>3. at = a
      BY <1>1, <1>5, <1>10, <3>1
    <3> QED BY <1>1, <1>10, <3>2, <3>3 DEF L
  <2>5. << >> = Bytes(at, 0) /\ Len(<< >>) = 0 /\ << >> \in Seq(Int)
    BY DEF Bytes
  <2>6. decryptor' \in DecryptorType
    BY <1>9, <2>2, <2>5, PartsType
  <2>7. decryptor'.data = << >> /\ decryptor'.at = at /\ (decryptor'.ended <=> g)
    BY <2>2, PartsAre
  <2> QED BY <2>3, <2>4, <2>5, <2>6, <2>7 DEF Reading, L
<1>11. CASE ~(at >= L)
  <2>1. at < klv.length
    BY <1>1, <1>9, <1>11 DEF L
  <2>2. PICK q1 : q1 = IF o = 0 THEN Hashed(q, <<Start>>) ELSE q
    OBVIOUS
  <2>3. Ready(at, o, b, p, k, q1) /\ q1 \in Seq(CellType)
    BY <1>3, <1>5, <1>6, <1>9, <2>1, <2>2, ReaderReady
  <2>4. d = ReadDataFrom(at, size)
    BY <1>7, <1>11
  <2>5. \/ /\ size \in Nat \ {0} /\ at + size < PlainOf(klv)
           /\ InClear(ReadDataFrom(at, size), at, size, b, p, k, t, f)
        \/ Answered(ReadDataFrom(at, size), at, size, t, f)
    BY <1>3, <1>9, <2>2, <2>3, DataFrom
  <2>6. CASE /\ size \in Nat \ {0} /\ at + size < PlainOf(klv)
             /\ InClear(ReadDataFrom(at, size), at, size, b, p, k, t, f)
    <3>1. PICK y \in Seq(CellType) :
            /\ d = Parts(at + size, b, p, k, y, Bytes(at, size), t, f)
            /\ klv.hashing => y = HashOf(klv, at + size)
      BY <2>4, <2>6 DEF InClear
    <3>2. decryptor' = Parts(at + size, b, p, k, y, Bytes(at, size), at, g)
      BY <1>7, <1>8, <3>1, ToldIs
    <3>3. Bytes(at, size) \in Seq(Int) /\ Len(Bytes(at, size)) = size
      BY <1>9, <2>6, BytesSeq
    <3>4. ~g
      <4>1. d.data = Bytes(at, size)
        BY <3>1, PartsAre
      <4>2. d.data # << >>
        BY <2>6, <3>3, <4>1
      <4> QED BY <1>8, <4>2
    <3>5. k = 1 /\ p = 0 /\ at + size \in Nat /\ at + size # 0
      <4>1. at < PlainOf(klv)
        BY <1>1, <1>9, <2>6 DEF P
      <4> QED BY <1>9, <2>3, <2>6, <4>1 DEF Ready
    <3>6. decryptor' \in DecryptorType
      BY <1>9, <3>2, <3>3, <3>5, PartsType
    <3>7. /\ decryptor'.data = Bytes(at, size) /\ decryptor'.at = at /\ (decryptor'.ended <=> g)
          /\ decryptor'.offset = at + size /\ decryptor'.block = k /\ decryptor'.pre = p /\ decryptor'.hash = y
      BY <3>2, PartsAre
    <3>8. InPlain(klv, decryptor', at + size)
      BY <2>6, <3>1, <3>5, <3>7 DEF InPlain
    <3> QED BY <3>3, <3>4, <3>6, <3>7, <3>8 DEF Reading
  <2>7. CASE Answered(ReadDataFrom(at, size), at, size, t, f)
    <3>1. PICK m \in Nat, o2 \in Nat, u \in [1 .. Granularity -> Int], p2 \in Nat, k2 \in Nat, y \in Seq(CellType) :
            /\ d = Parts(o2, u, p2, k2, y, Bytes(at, m), t, f)
            /\ Got(at, m, o2, u, p2, k2, y)
            /\ at < klv.length /\ (size = All \/ size # 0) => m > 0
      BY <2>4, <2>7 DEF Answered
    <3>2. decryptor' = Parts(o2, u, p2, k2, y, Bytes(at, m), at, g)
      BY <1>7, <1>8, <3>1, ToldIs
    <3>3. Bytes(at, m) \in Seq(Int) /\ Len(Bytes(at, m)) = m
      <4>1. at \in Int /\ m \in Nat
        BY <1>9
      <4> QED BY <4>1, BytesSeq
    <3>4. m > 0 /\ at + m # 0 /\ at + m \in Nat
      <4>1. size = All \/ size # 0
        BY DEF Fits
      <4> QED BY <1>9, <2>1, <3>1, <4>1
    <3>5. ~g
      <4>1. d.data = Bytes(at, m)
        BY <3>1, PartsAre
      <4>2. d.data # << >>
        BY <3>3, <3>4, <4>1
      <4> QED BY <1>8, <4>2
    <3>6. decryptor' \in DecryptorType
      BY <1>9, <3>2, <3>3, PartsType
    <3>7. /\ decryptor'.data = Bytes(at, m) /\ decryptor'.at = at /\ (decryptor'.ended <=> g)
          /\ decryptor'.offset = o2 /\ decryptor'.block = k2 /\ decryptor'.pre = p2 /\ decryptor'.hash = y
          /\ decryptor'.buffer = u
      BY <3>2, PartsAre
    <3>8. PICK a \in Nat : a = at + m
      BY <3>4
    <3>9. Behind(klv, decryptor', a) \/ AtEnd(klv, decryptor', a)
      <4>1. a <= L /\ (a < L => o2 = a /\ Holds(a, u, p2, k2, y))
            /\ (a = L => o2 >= L /\ (k2 = 1 => p2 = 0 /\ o2 <= PlainOf(klv)))
        BY <3>1, <3>8 DEF Got, L
      <4>2. CASE a < L
        BY <3>4, <3>7, <3>8, <4>1, <4>2 DEF Behind, Holds, L
      <4>3. CASE a = L
        BY <1>1, <3>7, <4>1, <4>3 DEF AtEnd, L
      <4> QED BY <1>1, <4>1, <4>2, <4>3
    <3> QED BY <3>3, <3>5, <3>6, <3>7, <3>8, <3>9 DEF Reading
  <2> QED BY <2>5, <2>6, <2>7
<1> QED BY <1>10, <1>11

\* A decryptor that begins.
LEMMA ReaderBegins ==
    ASSUME Fits(klv), NEW d, d = NewDecryptor
    PROVE  Reading(klv, d)
<1> DEFINE b == [i \in 1 .. Granularity |-> Noise]
<1>1. PICK f \in BOOLEAN : f = FALSE
  OBVIOUS
<1>2. d = Parts(0, b, 0, 1, << >>, << >>, 0, f)
  BY <1>1 DEF NewDecryptor, Parts
<1>3. b \in [1 .. Granularity -> Int]
  BY DEF Noise
<1> HIDE DEF b
<1>4. /\ d.offset = 0 /\ d.pre = 0 /\ d.block = 1 /\ d.hash = << >> /\ d.data = << >> /\ d.at = 0 /\ ~d.ended
  BY <1>1, <1>2, PartsAre
<1>5. d \in DecryptorType
  <2>1. << >> \in Seq(CellType) /\ << >> \in Seq(Int) /\ 0 \in Nat /\ 1 \in Nat
    OBVIOUS
  <2>2. PICK i \in Nat, j \in Nat, q \in Seq(CellType), x \in Seq(Int) : i = 0 /\ j = 1 /\ q = << >> /\ x = << >>
    BY <2>1
  <2>3. Parts(i, b, i, j, q, x, i, f) \in DecryptorType
    BY <1>3, PartsType
  <2> QED BY <1>2, <2>2, <2>3
<1>6. d.data = Bytes(0, 0) /\ Len(d.data) = 0 /\ 0 + 0 = 0
  BY <1>4 DEF Bytes
<1>7. PlainOf(klv) \in 0 .. klv.length /\ klv.length \in Nat \ {0} /\ BlocksOf(klv) \in Nat /\ Place(klv, 0) = PlainOf(klv)
      /\ Granularity \in Nat \ {0}
  BY Lengths DEF Fits
<1>8. InPlain(klv, d, 0) \/ Behind(klv, d, 0)
  <2>1. CASE 0 < PlainOf(klv)
    BY <1>4, <2>1 DEF InPlain
  <2>2. CASE ~(0 < PlainOf(klv))
    <3>1. PlainOf(klv) = 0 /\ 0 < klv.length /\ 1 \in 1 .. BlocksOf(klv) + 1 /\ 0 \in 0 .. Granularity - 1 /\ 1 - 1 = 0
      BY <1>7, <2>2
    <3> QED BY <1>4, <1>6, <1>7, <3>1 DEF Behind
  <2> QED BY <2>1, <2>2
<1> QED BY <1>4, <1>5, <1>6, <1>8 DEF Reading

\* Every step keeps Reader.
LEMMA ReaderKept ==
    ASSUME \A v \in Values : Writable(v) /\ Readable(v)
    PROVE  /\ KLVInit => IInv
           /\ IInv /\ [KLVNext]_klvVars => IInv'
<1>0. \A v \in Values : Fits(v) /\ Readable(v) /\ Writable(v)
  BY ValuesFit
<1>1. ASSUME KLVInit PROVE IInv
  <2>1. WInv
    BY <1>0, <1>1, WriterKept
  <2>2. Fits(klv) /\ decryptor = NewDecryptor
    BY <1>0, <1>1 DEF KLVInit
  <2>3. Reading(klv, decryptor)
    BY <2>2, ReaderBegins
  <2> QED BY <2>1, <2>2, <2>3 DEF IInv, Reader
<1>2. ASSUME IInv, [KLVNext]_klvVars PROVE IInv'
  <2>1. WInv'
    BY <1>0, <1>2, WriterKept DEF IInv
  <2>2. Fits(klv) /\ Readable(klv) /\ klv' = klv
    BY <1>0, <1>2 DEF IInv, WInv, KLVNext, klvVars, WriteChunk, Read, NextKLV
  <2>3. SUFFICES Reading(klv, decryptor') /\ (~encryptor'.done => decryptor' = NewDecryptor)
    BY <2>1, <2>2 DEF IInv, Reader, NewDecryptor
  <2>4. Reading(klv, decryptor) /\ (~encryptor.done => decryptor = NewDecryptor) /\ Writer
    BY <1>2 DEF IInv, WInv, Reader
  <2>5. CASE WriteChunk
    <3>1. decryptor' = decryptor /\ ~encryptor.done
      BY <2>5 DEF WriteChunk
    <3> QED BY <2>4, <3>1
  <2>6. CASE Read
    <3>1. encryptor.done /\ encryptor' = encryptor
      BY <2>6 DEF Read
    <3>2. FileWhole
      BY <2>2, <2>4, <3>1, WriterDone DEF FileWhole
    <3>3. Reading(klv, decryptor')
      BY <2>2, <2>4, <2>6, <3>2, ReadKeeps
    <3> QED BY <3>1, <3>3
  <2>7. CASE NextKLV
    <3>1. decryptor' = NewDecryptor
      BY <2>7 DEF NextKLV
    <3> QED BY <2>2, <3>1, ReaderBegins
  <2>8. CASE UNCHANGED klvVars
    <3>1. decryptor' = decryptor /\ encryptor' = encryptor
      BY <2>8 DEF klvVars
    <3> QED BY <2>4, <3>1
  <2> QED BY <1>2, <2>5, <2>6, <2>7, <2>8 DEF KLVNext
<1> QED BY <1>1, <1>2

\* ReadBack is what Reading says of the data.
LEMMA ReaderReadsBack ==
    ASSUME Fits(klv), Reading(klv, decryptor)
    PROVE  ReadBack
<1> DEFINE d == decryptor.data
<1>1. d \in Seq(Int) /\ d = Bytes(decryptor.at, Len(d)) /\ decryptor.at \in Nat
  BY DEF Reading, DecryptorType
<1>2. Len(d) \in Nat /\ DOMAIN d = 1 .. Len(d)
  BY <1>1
<1>3. \A i \in 1 .. Len(d) : Bytes(decryptor.at, Len(d))[i] = decryptor.at + i - 1
  <2>1. PICK c \in Int, n \in Nat : c = decryptor.at /\ n = Len(d)
    BY <1>1, <1>2
  <2>2. \A i \in 1 .. n : Bytes(c, n)[i] = c + i - 1
    BY BytesSeq
  <2> QED BY <2>1, <2>2
<1>4. decryptor.ended => decryptor.at = klv.length
  BY DEF Reading
<1> HIDE DEF d
<1>5. \A i \in DOMAIN d : d[i] = decryptor.at + i - 1
  BY <1>1, <1>2, <1>3
<1> QED BY <1>4, <1>5, Names DEF ReadBack, d

-----------------------------------------------------------------------------
(***************************************************************************)
(* 5. The theorems.                                                        *)
(***************************************************************************)
\* WrittenWhole: whatever the length of a value, of its plaintext, of the chunks
\* and of a block, if the chunk that reaches the end of the plaintext is one
\* that the code can take, WriteRaw leaves the value in the file, each byte once
\* and at its place, its blocks in their order, and the hash of it.
THEOREM WrittenWholeAlways ==
    ASSUME \A v \in Values : Writable(v)
    PROVE  KLVSpec => []WrittenWhole
<1>1. KLVInit => WInv
  BY WriterKept
<1>2. WInv /\ [KLVNext]_klvVars => WInv'
  BY WriterKept
<1>3. WInv => WrittenWhole
  BY ValuesFit, WriterWritesWhole DEF WInv
<1> QED BY <1>1, <1>2, <1>3, PTL DEF KLVSpec

\* ReadBack: if no request is less than a block, and a hasher does not compare
\* too early, a caller gets the bytes of the value from the offset it asked
\* for, whatever the sizes of its requests, and all of them before the end.
THEOREM ReadBackAlways ==
    ASSUME \A v \in Values : Writable(v) /\ Readable(v)
    PROVE  KLVSpec => []ReadBack
<1>1. KLVInit => IInv
  BY ReaderKept
<1>2. IInv /\ [KLVNext]_klvVars => IInv'
  BY ReaderKept
<1>3. IInv => ReadBack
  BY ValuesFit, ReaderReadsBack DEF IInv, WInv, Reader
<1> QED BY <1>1, <1>2, <1>3, PTL DEF KLVSpec

=============================================================================
