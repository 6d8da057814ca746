------------------------- MODULE AudioDemux_proofs --------------------------
(***************************************************************************)
(* Proofs about AudioDemux for any number of channels, readers and         *)
(* samples.  Neither property is inductive.  For BuffersTrue the buffers   *)
(* must also have samples and be in order (Ordered), the channels of a     *)
(* reader be at one place (Own), the marks of the end be true (Flags), and *)
(* the call in progress be one of a reader that is not done (CallOK).  For *)
(* SamplesTrue what a reader has must agree with its place and with the    *)
(* end of the source (SInv), which needs all of that.                      *)
(*                                                                         *)
(* 1. The list of buffers.                                                 *)
(* 2. Each action keeps IInv.                                              *)
(* 3. The theorem about the buffers.                                       *)
(* 4. Where samples are fetched from, in bytes.                            *)
(* 5. Each action keeps SInv, and the theorem about the samples.           *)
(***************************************************************************)
EXTENDS AudioDemux, SequenceTheorems, TLAPS

Own ==
    /\ \A r \in Reader : reader[r] # None =>
          /\ reader[r].first + reader[r].count <= ChannelCount
          /\ \A c \in Channels(r) : outputs[c].source = r /\ outputs[c].pos = Pos(r)
    /\ \A c \in Channel : outputs[c].source # None =>
          reader[outputs[c].source] # None /\ c \in Channels(outputs[c].source)

Ordered ==
    /\ \A i \in DOMAIN old : old[i].count > 0 /\ EndOf(old[i]) <= current.start
    /\ \A i, j \in DOMAIN old : i < j => EndOf(old[i]) <= old[j].start

Flags ==
    \A c \in Channel : (outputs[c].source # None /\ outputs[c].eof) =>
        eof /\ outputs[c].pos >= current.start

CallOK ==
    call # Idle =>
        /\ reader[call.of] # None
        /\ call.op = "Read" => ~Enough(call.of)

IInv == TypeOK /\ Gapless /\ NeededKept /\ Own /\ Ordered /\ Flags /\ CallOK

-----------------------------------------------------------------------------
(***************************************************************************)
(* 1. The list of buffers.                                                 *)
(***************************************************************************)
LEMMA EndOfType ==
    \A b \in Buffer : /\ b.start \in Nat /\ b.count \in Nat
                      /\ EndOf(b) \in Nat /\ EndOf(b) = b.start + b.count
BY DEF EndOf, Buffer

\* What is left of a sequence behind its first k elements.
LEMMA SuffixOf ==
    ASSUME NEW S, NEW s \in Seq(S), NEW k \in 0 .. Len(s)
    PROVE  /\ SubSeq(s, k + 1, Len(s)) \in Seq(S)
           /\ Len(SubSeq(s, k + 1, Len(s))) = Len(s) - k
           /\ \A i \in 1 .. Len(s) - k : SubSeq(s, k + 1, Len(s))[i] = s[k + i]
<1> DEFINE m == k + 1
           n == Len(s)
<1>1. m \in Int /\ n \in Int /\ \A i \in m .. n : s[i] \in S
  OBVIOUS
<1>2. n - m + 1 = Len(s) - k /\ \A i \in 1 .. Len(s) - k : m + i - 1 = k + i
  OBVIOUS
<1>3. Len(s) - k = IF m <= n THEN n - m + 1 ELSE 0
  OBVIOUS
<1> HIDE DEF m, n
<1>4. /\ SubSeq(s, m, n) \in Seq(S)
      /\ Len(SubSeq(s, m, n)) = IF m <= n THEN n - m + 1 ELSE 0
      /\ \A i \in 1 .. n - m + 1 : SubSeq(s, m, n)[i] = s[m + i - 1]
  BY <1>1, SubSeqProperties
<1>5. QED
  BY <1>2, <1>3, <1>4 DEF m, n

\* The sample after some of a buffer is in it or in the one that follows.
LEMMA CoveredNext ==
    ASSUME TypeOK, Gapless, Ordered, NEW i \in DOMAIN old, NEW m \in Nat,
           old[i].start <= m, m <= EndOf(old[i])
    PROVE  Covered(m)
<1>1. CASE m < EndOf(old[i])
  BY <1>1 DEF Covered
<1>2. CASE m = EndOf(old[i]) /\ i < Len(old)
  <2>1. i + 1 \in DOMAIN old /\ old[i + 1] \in Buffer
    BY <1>2 DEF TypeOK
  <2>2. m = old[i + 1].start /\ old[i + 1].count > 0
    BY <1>2, <2>1 DEF Gapless, Ordered
  <2>3. QED
    BY <2>1, <2>2 DEF Covered, EndOf, Buffer
<1>3. CASE m = EndOf(old[i]) /\ ~(i < Len(old))
  BY <1>3 DEF Covered, Gapless, TypeOK, Buffer
<1>4. EndOf(old[i]) \in Nat
  BY EndOfType DEF TypeOK
<1>5. QED
  BY <1>1, <1>2, <1>3, <1>4 DEF TypeOK

\* GetSource is not refused while the first sample can be had.
LEMMA FirstSample ==
    ASSUME TypeOK, Ordered, HasFirstSample
    PROVE  Covered(0)
<1>1. CASE current.start = 0
  BY <1>1 DEF Covered
<1>2. CASE old # << >> /\ Head(old).start = 0
  <2>1. 1 \in DOMAIN old /\ old[1] = Head(old) /\ old[1] \in Buffer
    BY <1>2 DEF TypeOK
  <2>2. QED
    BY <1>2, <2>1 DEF Covered, Ordered, EndOf, Buffer
<1>3. QED
  BY <1>1, <1>2 DEF HasFirstSample

\* The old buffers after FillBuffer, seen from the place where it reads on.
LEMMA KeepList ==
    ASSUME TypeOK, Gapless, Ordered, NeededKept, NEW rest, Keep(rest)
    PROVE  /\ rest \in Seq(Buffer)
           /\ \A i \in DOMAIN rest : rest[i].count > 0 /\ EndOf(rest[i]) <= EndOf(current)
           /\ \A i, j \in DOMAIN rest : i < j => EndOf(rest[i]) <= rest[j].start
           /\ \A i \in DOMAIN rest :
                 EndOf(rest[i]) = IF i < Len(rest) THEN rest[i + 1].start ELSE EndOf(current)
           /\ \A c \in Channel : outputs[c].source # None =>
                 \/ outputs[c].pos >= EndOf(current)
                 \/ \E i \in DOMAIN rest :
                       rest[i].start <= outputs[c].pos /\ outputs[c].pos < EndOf(rest[i])
<1> USE EndOfType
<1>1. CASE current.count = 0
  <2>1. rest = old
    BY <1>1 DEF Keep
  <2>2. EndOf(current) = current.start
    BY <1>1 DEF EndOf, TypeOK, Buffer
  <2>3. QED
    BY <2>1, <2>2 DEF TypeOK, Gapless, Ordered, NeededKept, Covered
<1>2. CASE current.count # 0
  <2> DEFINE list == IF Needed(EndOf(current)) THEN Append(old, current) ELSE old
  <2>a. current \in Buffer /\ old \in Seq(Buffer) /\ current.count > 0
    BY <1>2 DEF TypeOK
  <2>b. EndOf(current) = current.start + current.count /\ current.start \in Nat
    BY <2>a
  <2>1. /\ list \in Seq(Buffer)
        /\ \A i \in DOMAIN list : list[i].count > 0 /\ EndOf(list[i]) <= EndOf(current)
        /\ \A i, j \in DOMAIN list : i < j => EndOf(list[i]) <= list[j].start
        /\ \A i \in 1 .. Len(list) - 1 : EndOf(list[i]) = list[i + 1].start
    <3>1. CASE Needed(EndOf(current))
      <4>1. /\ list = Append(old, current) /\ Len(list) = Len(old) + 1
            /\ \A i \in 1 .. Len(old) : list[i] = old[i]
            /\ list[Len(old) + 1] = current
        BY <3>1, <2>a
      <4>2. \A i \in 1 .. Len(old) : /\ old[i] \in Buffer /\ EndOf(old[i]) \in Nat
                                     /\ old[i].count > 0 /\ EndOf(old[i]) <= current.start
        BY <2>a DEF Ordered
      <4>3. list \in Seq(Buffer) /\ DOMAIN list = 1 .. Len(old) + 1
        BY <4>1, <2>a
      <4>4. \A i \in DOMAIN list : list[i].count > 0 /\ EndOf(list[i]) <= EndOf(current)
        <5> SUFFICES ASSUME NEW i \in DOMAIN list
                     PROVE  list[i].count > 0 /\ EndOf(list[i]) <= EndOf(current)
          OBVIOUS
        <5>1. CASE i = Len(old) + 1
          BY <5>1, <4>1, <2>a, <2>b
        <5>2. CASE i \in 1 .. Len(old)
          BY <5>2, <4>1, <4>2, <2>a, <2>b
        <5>3. QED
          BY <5>1, <5>2, <4>3, <2>a
      <4>5. \A i, j \in DOMAIN list : i < j => EndOf(list[i]) <= list[j].start
        <5> SUFFICES ASSUME NEW i \in DOMAIN list, NEW j \in DOMAIN list, i < j
                     PROVE  EndOf(list[i]) <= list[j].start
          OBVIOUS
        <5>1. i \in 1 .. Len(old) /\ list[i] = old[i]
          BY <4>1, <4>3, <2>a
        <5>2. CASE j = Len(old) + 1
          BY <5>1, <5>2, <4>1, <4>2
        <5>3. CASE j \in 1 .. Len(old)
          BY <5>1, <5>3, <4>1, <2>a DEF Ordered
        <5>4. j = Len(old) + 1 \/ j \in 1 .. Len(old)
          BY <4>3, <2>a
        <5>5. QED
          BY <5>2, <5>3, <5>4
      <4>6. \A i \in 1 .. Len(list) - 1 : EndOf(list[i]) = list[i + 1].start
        <5> SUFFICES ASSUME NEW i \in 1 .. Len(list) - 1
                     PROVE  EndOf(list[i]) = list[i + 1].start
          OBVIOUS
        <5>1. i \in 1 .. Len(old) /\ i \in DOMAIN old /\ list[i] = old[i]
          BY <4>1, <2>a
        <5>2. CASE i < Len(old)
          BY <5>1, <5>2, <4>1, <2>a DEF Gapless
        <5>3. CASE i = Len(old)
          BY <5>1, <5>3, <4>1, <2>a DEF Gapless
        <5>4. QED
          BY <5>1, <5>2, <5>3, <2>a
      <4>7. QED
        BY <4>3, <4>4, <4>5, <4>6
    <3>2. CASE ~Needed(EndOf(current))
      <4>1. list = old
        BY <3>2
      <4>2. \A i \in DOMAIN old : /\ old[i] \in Buffer /\ EndOf(old[i]) \in Nat
                                  /\ old[i].count > 0 /\ EndOf(old[i]) <= EndOf(current)
        BY <2>a, <2>b DEF Ordered
      <4>3. QED
        BY <4>1, <4>2, <2>a DEF Gapless, Ordered
    <3>3. QED
      BY <3>1, <3>2
  <2>2. PICK k \in 0 .. Len(list) :
          /\ \A i \in 1 .. k : ~Needed(EndOf(list[i]) + 1)
          /\ k < Len(list) => Needed(EndOf(list[k + 1]) + 1)
          /\ rest = SubSeq(list, k + 1, Len(list))
    BY <1>2 DEF Keep, Discard
  <2> HIDE DEF list
  <2>3. /\ rest \in Seq(Buffer)
        /\ Len(rest) = Len(list) - k
        /\ \A i \in 1 .. Len(rest) : rest[i] = list[k + i]
    <3>1. list \in Seq(Buffer) /\ k \in 0 .. Len(list)
      BY <2>1
    <3>2. QED
      BY <3>1, <2>2, SuffixOf
  <2>k. /\ k \in Nat /\ Len(list) \in Nat /\ k <= Len(list) /\ Len(rest) = Len(list) - k
        /\ DOMAIN list = 1 .. Len(list) /\ DOMAIN rest = 1 .. Len(list) - k
        /\ \A i \in 1 .. Len(list) - k : rest[i] = list[k + i]
    <3>1. list \in Seq(Buffer) /\ rest \in Seq(Buffer)
      BY <2>1, <2>3
    <3>2. /\ k \in Nat /\ Len(list) \in Nat /\ k <= Len(list)
          /\ DOMAIN list = 1 .. Len(list) /\ DOMAIN rest = 1 .. Len(rest)
      BY <3>1
    <3>3. QED
      BY <3>2, <2>3
  <2>4. \A i \in DOMAIN rest : k + i \in DOMAIN list /\ rest[i] = list[k + i] /\ rest[i] \in Buffer
    <3> SUFFICES ASSUME NEW i \in DOMAIN rest
                 PROVE  k + i \in DOMAIN list /\ rest[i] = list[k + i] /\ rest[i] \in Buffer
      OBVIOUS
    <3>1. rest[i] \in Buffer
      BY <2>3
    <3>2. QED
      BY <3>1, <2>k
  <2>5. \A c \in Channel : (outputs[c].source # None /\ outputs[c].pos < EndOf(current)) =>
            \E i \in DOMAIN rest :
                rest[i].start <= outputs[c].pos /\ outputs[c].pos < EndOf(rest[i])
    <3> SUFFICES ASSUME NEW c \in Channel, outputs[c].source # None,
                        outputs[c].pos < EndOf(current)
                 PROVE  \E i \in DOMAIN rest :
                            rest[i].start <= outputs[c].pos /\ outputs[c].pos < EndOf(rest[i])
      OBVIOUS
    <3>1. outputs[c].pos \in Nat
      BY DEF TypeOK, Output
    <3>2. Needed(EndOf(current))
      BY DEF Needed
    <3>3. list = Append(old, current)
      BY <3>2 DEF list
    <3>4. PICK j \in DOMAIN list : list[j].start <= outputs[c].pos /\ outputs[c].pos < EndOf(list[j])
      <4>1. CASE outputs[c].pos >= current.start
        <5>1. Len(old) + 1 \in DOMAIN list /\ list[Len(old) + 1] = current
          BY <3>3, <2>a
        <5>2. QED
          BY <4>1, <5>1
      <4>2. CASE ~(outputs[c].pos >= current.start)
        <5>1. PICK i \in DOMAIN old : old[i].start <= outputs[c].pos /\ outputs[c].pos < EndOf(old[i])
          BY <4>2 DEF NeededKept, Covered
        <5>2. i \in DOMAIN list /\ list[i] = old[i]
          BY <3>3, <2>a
        <5>3. QED
          BY <5>1, <5>2
      <4>3. QED
        BY <4>1, <4>2
    <3>5. list[j] \in Buffer /\ EndOf(list[j]) \in Nat
      BY <2>1
    <3>6. Needed(EndOf(list[j]) + 1)
      BY <3>1, <3>4, <3>5 DEF Needed
    <3>7. j > k
      BY <3>6, <2>1, <2>2
    <3>8. j - k \in DOMAIN rest /\ rest[j - k] = list[j]
      <4>1. j \in Nat
        BY <2>k
      <4>2. j - k \in 1 .. Len(list) - k /\ k + (j - k) = j
        BY <3>7, <4>1, <2>k
      <4>3. QED
        BY <4>2, <2>k
    <3>9. QED
      BY <3>4, <3>8
  <2>6. \A i \in DOMAIN rest :
           EndOf(rest[i]) = IF i < Len(rest) THEN rest[i + 1].start ELSE EndOf(current)
    <3> SUFFICES ASSUME NEW i \in DOMAIN rest
                 PROVE  EndOf(rest[i]) = IF i < Len(rest) THEN rest[i + 1].start ELSE EndOf(current)
      OBVIOUS
    <3>1. CASE i < Len(rest)
      <4>1. k + i \in 1 .. Len(list) - 1 /\ rest[i] = list[k + i] /\ rest[i + 1] = list[(k + i) + 1]
        <5>1. i \in 1 .. Len(list) - k /\ i + 1 \in 1 .. Len(list) - k
          BY <3>1, <2>k
        <5>2. k + (i + 1) = (k + i) + 1 /\ k + i \in 1 .. Len(list) - 1
          <6>1. i \in Nat /\ 1 <= i /\ i + 1 <= Len(list) - k
            BY <5>1, <2>k
          <6>2. k \in Nat /\ Len(list) \in Nat
            BY <2>k
          <6>3. QED
            BY <6>1, <6>2
        <5>3. rest[i] = list[k + i] /\ rest[i + 1] = list[k + (i + 1)]
          BY <5>1, <2>k
        <5>4. QED
          BY <5>2, <5>3
      <4>2. QED
        BY <3>1, <4>1, <2>1
    <3>2. CASE ~(i < Len(rest))
      <4>1. k + i = Len(list) /\ k < Len(list) /\ rest[i] = list[Len(list)]
        BY <3>2, <2>1, <2>2, <2>3
      <4>2. CASE Needed(EndOf(current))
        <5>1. list = Append(old, current)
          BY <4>2 DEF list
        <5>2. list[Len(list)] = current
          BY <5>1, <2>a
        <5>3. QED
          BY <3>2, <4>1, <5>2
      <4>3. CASE ~Needed(EndOf(current))
        <5>1. list = old
          BY <4>3 DEF list
        <5>2. k + 1 \in DOMAIN old /\ old[k + 1] \in Buffer
          BY <4>1, <5>1, <2>a, <2>2
        <5>3. EndOf(old[k + 1]) <= current.start /\ EndOf(old[k + 1]) \in Nat
          BY <5>2 DEF Ordered
        <5>4. PICK c \in Channel : outputs[c].source # None /\ outputs[c].pos < EndOf(old[k + 1]) + 1
          BY <4>1, <5>1, <2>2 DEF Needed
        <5>5. outputs[c].pos \in Nat
          BY DEF TypeOK, Output
        <5>6. outputs[c].pos < EndOf(current)
          BY <5>3, <5>4, <5>5, <2>a, <2>b
        <5>7. QED
          BY <4>3, <5>4, <5>6 DEF Needed
      <4>4. QED
        BY <4>2, <4>3
    <3>3. QED
      BY <3>1, <3>2
  <2>7. \A i \in DOMAIN rest : rest[i].count > 0 /\ EndOf(rest[i]) <= EndOf(current)
    BY <2>1, <2>4
  <2>8. \A i, j \in DOMAIN rest : i < j => EndOf(rest[i]) <= rest[j].start
    <3> SUFFICES ASSUME NEW i \in DOMAIN rest, NEW j \in DOMAIN rest, i < j
                 PROVE  EndOf(rest[i]) <= rest[j].start
      OBVIOUS
    <3>1. k + i < k + j
      BY <2>2, <2>3
    <3>2. QED
      BY <3>1, <2>1, <2>4
  <2>9. \A c \in Channel : outputs[c].pos \in Nat
    BY DEF TypeOK, Output
  <2>10. QED
    BY <2>3, <2>5, <2>6, <2>7, <2>8, <2>9, <2>a
<1>3. QED
  BY <1>1, <1>2
-----------------------------------------------------------------------------
(***************************************************************************)
(* 2. Each action keeps IInv.                                              *)
(***************************************************************************)
LEMMA InitIInv == Init => IInv
<1> SUFFICES ASSUME Init PROVE IInv
  OBVIOUS
<1> USE ConstantsAssumption
<1>1. TypeOK
  <2>1. old \in Seq(Buffer)
    BY DEF Init
  <2>2. outputs \in [Channel -> Output] /\ current \in Buffer /\ reader \in [Reader -> ReaderState \cup {None}]
    BY DEF Init, Output, Buffer
  <2>3. shape \in Shapes /\ eof \in BOOLEAN /\ call \in CallType /\ ends \subseteq Nat
    <3>1. call \in CallType
      BY DEF Init, CallType
    <3>2. ends \subseteq Nat
      BY DEF Init
    <3>3. QED
      BY <3>1, <3>2 DEF Init
  <2>4. QED
    BY <2>1, <2>2, <2>3 DEF TypeOK
<1>2. Gapless /\ NeededKept /\ Own /\ Ordered /\ Flags /\ CallOK
  BY DEF Init, Gapless, NeededKept, Own, Ordered, Flags, CallOK
<1>3. QED
  BY <1>1, <1>2 DEF IInv

\* Readers are made while the first sample can still be had.
LEMMA GetSourceIInv ==
    ASSUME IInv, NEW r \in Reader, NEW group \in Groups, NEW len \in Lengths,
           GetSource(r, group, len)
    PROVE  IInv'
<1> USE ConstantsAssumption
<1> USE DEF IInv
<1> DEFINE taken == group.first .. group.first + group.count - 1
           new == [first |-> group.first, count |-> group.count, len |-> len, eoi |-> TRUE,
                   got |-> << >>, zeros |-> 0, told |-> FALSE]
<1>1. /\ reader' = [reader EXCEPT ![r] = new]
      /\ outputs' = [c \in Channel |->
             IF c \in taken THEN [source |-> r, pos |-> 0, eof |-> FALSE] ELSE outputs[c]]
      /\ UNCHANGED <<shape, current, old, eof, call, ends>>
      /\ call = Idle /\ reader[r] = None
      /\ \A c \in taken : outputs[c].source = None
      /\ HasFirstSample
  BY DEF GetSource
<1>2. group.first \in Channel /\ group.count \in Nat \ {0} /\ group.first + group.count <= ChannelCount
  BY DEF Channel
<1>3. new \in ReaderState
  BY <1>2 DEF ReaderState
<1>4. taken \subseteq Channel /\ group.first \in taken
  BY <1>2 DEF Channel
<1>5. TypeOK'
  BY <1>1, <1>3, <1>4 DEF TypeOK, Output, Buffer, CallType
<1>6. Gapless' /\ Ordered'
  BY <1>1 DEF Gapless, Ordered
<1>7. NeededKept'
  <2>1. \A n : Covered(n)' <=> Covered(n)
    BY <1>1 DEF Covered
  <2>2. Covered(0)
    BY <1>1, FirstSample
  <2>3. QED
    BY <1>1, <1>4, <2>1, <2>2 DEF NeededKept
<1>8. Own'
  <2>1. ASSUME NEW q \in Reader, reader'[q] # None
        PROVE  /\ reader'[q].first + reader'[q].count <= ChannelCount
               /\ \A c \in Channels(q)' : outputs'[c].source = q /\ outputs'[c].pos = Pos(q)'
    <3>1. CASE q = r
      <4>1. reader'[q] = new /\ Channels(q)' = taken
        BY <3>1, <1>1 DEF TypeOK, Channels
      <4>2. QED
        BY <3>1, <4>1, <1>1, <1>2, <1>4 DEF Pos
    <3>2. CASE q # r
      <4>1. reader'[q] = reader[q] /\ Channels(q)' = Channels(q)
        BY <3>2, <1>1 DEF TypeOK, Channels
      <4>2. \A c \in Channels(q) : c \in Channel /\ outputs[c].source = q
        BY <4>1, <2>1 DEF Own, Channels, TypeOK, ReaderState, Channel
      <4>3. reader[q].first \in Channels(q)
        BY <4>1, <2>1 DEF Channels, TypeOK, ReaderState, Channel
      <4>4. \A c \in Channels(q) : outputs'[c] = outputs[c]
        BY <4>2, <1>1
      <4>5. QED
        BY <4>1, <4>2, <4>3, <4>4, <2>1 DEF Own, Pos
    <3>3. QED
      BY <3>1, <3>2
  <2>2. ASSUME NEW c \in Channel, outputs'[c].source # None
        PROVE  (reader[outputs[c].source] # None /\ c \in Channels(outputs[c].source))'
    <3>1. CASE c \in taken
      <4>1. outputs'[c].source = r /\ reader'[r] = new /\ new # None
        BY <3>1, <1>1, <1>3 DEF TypeOK
      <4>2. QED
        BY <3>1, <4>1 DEF Channels
    <3>2. CASE c \notin taken
      <4>1. outputs'[c] = outputs[c]
        BY <3>2, <1>1
      <4>2. reader[outputs[c].source] # None /\ c \in Channels(outputs[c].source)
        BY <4>1, <2>2 DEF Own
      <4>3. outputs[c].source \in Reader /\ outputs[c].source # r
        BY <4>1, <4>2, <2>2, <1>1 DEF TypeOK, Output
      <4>4. reader'[outputs[c].source] = reader[outputs[c].source]
        BY <4>3, <1>1 DEF TypeOK
      <4>5. QED
        BY <4>1, <4>2, <4>4 DEF Channels
    <3>3. QED
      BY <3>1, <3>2
  <2>3. QED
    BY <2>1, <2>2 DEF Own
<1>9. Flags'
  BY <1>1 DEF Flags
<1>10. CallOK'
  BY <1>1 DEF CallOK
<1>11. QED
  BY <1>5, <1>6, <1>7, <1>8, <1>9, <1>10

\* A reader that goes takes nothing that another one needs.
LEMMA DestructIInv ==
    ASSUME IInv, NEW r \in Reader, Destruct(r)
    PROVE  IInv'
<1> USE ConstantsAssumption
<1> USE DEF IInv
<1>1. /\ reader' = [reader EXCEPT ![r] = None]
      /\ outputs' = [c \in Channel |->
             IF outputs[c].source = r THEN [outputs[c] EXCEPT !.source = None] ELSE outputs[c]]
      /\ UNCHANGED <<shape, current, old, eof, call, ends>>
      /\ call = Idle
  BY DEF Destruct
<1>2. TypeOK'
  BY <1>1 DEF TypeOK, Output
<1>3. Gapless' /\ Ordered' /\ CallOK'
  BY <1>1 DEF Gapless, Ordered, CallOK
<1>4. \A c \in Channel : outputs'[c].source # None =>
         outputs'[c] = outputs[c] /\ outputs[c].source # r
  BY <1>1 DEF TypeOK, Output
<1>5. NeededKept'
  <2>1. \A n : Covered(n)' <=> Covered(n)
    BY <1>1 DEF Covered
  <2>2. QED
    BY <1>4, <2>1 DEF NeededKept
<1>6. Flags'
  BY <1>1, <1>4 DEF Flags
<1>7. Own'
  <2>1. ASSUME NEW q \in Reader, reader'[q] # None
        PROVE  /\ reader'[q].first + reader'[q].count <= ChannelCount
               /\ \A c \in Channels(q)' : outputs'[c].source = q /\ outputs'[c].pos = Pos(q)'
    <3>1. q # r /\ reader'[q] = reader[q] /\ Channels(q)' = Channels(q)
      BY <2>1, <1>1 DEF TypeOK, Channels
    <3>2. \A c \in Channels(q) : c \in Channel /\ outputs[c].source = q
      BY <3>1, <2>1 DEF Own, Channels, TypeOK, ReaderState, Channel
    <3>3. reader[q].first \in Channels(q)
      BY <3>1, <2>1 DEF Channels, TypeOK, ReaderState, Channel
    <3>4. \A c \in Channels(q) : outputs'[c] = outputs[c]
      BY <3>1, <3>2, <1>1
    <3>5. QED
      BY <3>1, <3>2, <3>3, <3>4, <2>1 DEF Own, Pos
  <2>2. ASSUME NEW c \in Channel, outputs'[c].source # None
        PROVE  (reader[outputs[c].source] # None /\ c \in Channels(outputs[c].source))'
    <3>1. outputs'[c] = outputs[c] /\ outputs[c].source # r /\ outputs[c].source \in Reader
      BY <1>4, <2>2 DEF TypeOK, Output
    <3>2. reader'[outputs[c].source] = reader[outputs[c].source]
      BY <3>1, <1>1 DEF TypeOK
    <3>3. QED
      BY <3>1, <3>2, <2>2 DEF Own, Channels
  <2>3. QED
    BY <2>1, <2>2 DEF Own
<1>8. QED
  BY <1>2, <1>3, <1>5, <1>6, <1>7

\* The reader of a call, and its channels.
LEMMA CallerOf ==
    ASSUME IInv, call # Idle
    PROVE  /\ call.of \in Reader /\ reader[call.of] # None /\ reader[call.of] \in ReaderState
           /\ Pos(call.of) \in Nat
           /\ reader[call.of].first \in Channels(call.of)
           /\ Channels(call.of) \subseteq Channel
           /\ outputs[reader[call.of].first].source = call.of
           /\ Covered(Pos(call.of))
<1> USE ConstantsAssumption DEF IInv
<1>1. call.of \in Reader /\ reader[call.of] # None
  BY DEF TypeOK, CallType, CallOK
<1>2. reader[call.of] \in ReaderState
  BY <1>1 DEF TypeOK
<1>3. reader[call.of].first \in Channels(call.of) /\ reader[call.of].first \in Channel
  BY <1>2 DEF ReaderState, Channels, Channel
<1>4. Channels(call.of) \subseteq Channel
  BY <1>1, <1>2 DEF Own, ReaderState, Channels, Channel
<1>5. outputs[reader[call.of].first].source = call.of
  BY <1>1, <1>3 DEF Own
<1>6. Pos(call.of) \in Nat
  BY <1>3 DEF Pos, TypeOK, Output
<1>7. Covered(Pos(call.of))
  BY <1>1, <1>3, <1>5 DEF NeededKept, Pos
<1>8. QED
  BY <1>1, <1>2, <1>3, <1>4, <1>5, <1>6, <1>7

\* A call ends, its reader has moved on by n samples.
LEMMA AdvanceIInv ==
    ASSUME IInv, call # Idle, NEW n \in Nat, Covered(Pos(call.of) + n),
           NEW x \in ReaderState, x.first = reader[call.of].first, x.count = reader[call.of].count,
           reader' = [reader EXCEPT ![call.of] = x],
           outputs' \in [Channel -> Output],
           \A c \in Channel : /\ outputs'[c].source = outputs[c].source
                              /\ outputs'[c].pos = IF c \in Channels(call.of) THEN Pos(call.of) + n
                                                   ELSE outputs[c].pos
                              /\ outputs'[c].eof =>
                                    outputs[c].eof \/ (eof /\ outputs'[c].pos >= current.start),
           call' = Idle, UNCHANGED <<shape, current, old, eof, ends>>
    PROVE  IInv'
<1> USE ConstantsAssumption
<1> DEFINE r == call.of
<1>c. /\ r \in Reader /\ reader[r] # None /\ reader[r] \in ReaderState
      /\ Pos(r) \in Nat /\ reader[r].first \in Channels(r) /\ Channels(r) \subseteq Channel
      /\ outputs[reader[r].first].source = r
  BY CallerOf
<1> HIDE DEF r
<1>r. /\ \A c \in Channel : outputs'[c].pos = IF c \in Channels(r) THEN Pos(r) + n ELSE outputs[c].pos
      /\ reader' = [reader EXCEPT ![r] = x]
      /\ x.first = reader[r].first /\ x.count = reader[r].count /\ Covered(Pos(r) + n)
  BY DEF r
<1> USE DEF IInv
<1>1. reader'[r] = x /\ x # None /\ \A q \in Reader : q # r => reader'[q] = reader[q]
  BY <1>c, <1>r DEF TypeOK
<1>2. TypeOK'
  BY <1>c, <1>r DEF TypeOK, CallType
<1>3. Gapless' /\ Ordered' /\ CallOK'
  BY DEF Gapless, Ordered, CallOK
<1>4. NeededKept'
  <2>1. \A m : Covered(m)' <=> Covered(m)
    BY DEF Covered
  <2>2. QED
    BY <2>1, <1>c, <1>r DEF NeededKept
<1>5. \A q \in Reader : reader'[q] # None =>
         reader[q] # None /\ reader'[q].first = reader[q].first /\ reader'[q].count = reader[q].count
  BY <1>c, <1>r, <1>1
<1>6. \A q \in Reader : reader'[q] # None => Channels(q)' = Channels(q)
  BY <1>5 DEF Channels
<1>7. Own'
  <2>1. ASSUME NEW q \in Reader, reader'[q] # None
        PROVE  /\ reader'[q].first + reader'[q].count <= ChannelCount
               /\ \A c \in Channels(q)' : outputs'[c].source = q /\ outputs'[c].pos = Pos(q)'
    <3>1. reader[q] # None /\ Channels(q)' = Channels(q) /\ reader'[q].first = reader[q].first
      BY <2>1, <1>5, <1>6
    <3>2. \A c \in Channels(q) : c \in Channel /\ outputs[c].source = q
      BY <3>1 DEF Own, Channels, TypeOK, ReaderState, Channel
    <3>3. reader[q].first \in Channels(q)
      BY <3>1 DEF Channels, TypeOK, ReaderState, Channel
    <3>4. \A c \in Channels(q) : outputs'[c].source = q /\ (q # r => c \notin Channels(r))
      BY <3>2, <1>c DEF Own
    <3>5. \A c \in Channels(q) : outputs'[c].pos = IF q = r THEN Pos(r) + n ELSE Pos(q)
      BY <3>1, <3>2, <3>4, <1>r DEF Own
    <3>6. Pos(q)' = outputs'[reader[q].first].pos
      BY <3>1 DEF Pos
    <3>7. QED
      BY <3>1, <3>3, <3>4, <3>5, <3>6, <2>1, <1>5 DEF Own
  <2>2. ASSUME NEW c \in Channel, outputs'[c].source # None
        PROVE  (reader[outputs[c].source] # None /\ c \in Channels(outputs[c].source))'
    <3>1. outputs'[c].source = outputs[c].source /\ outputs[c].source \in Reader
      BY <2>2 DEF TypeOK, Output
    <3>2. reader[outputs[c].source] # None /\ c \in Channels(outputs[c].source)
      BY <3>1, <2>2 DEF Own
    <3>3. reader'[outputs[c].source] # None
      BY <3>1, <3>2, <1>1
    <3>4. QED
      BY <3>1, <3>2, <3>3, <1>5 DEF Channels
  <2>3. QED
    BY <2>1, <2>2 DEF Own
<1>8. Flags'
  <2> SUFFICES ASSUME NEW c \in Channel, outputs'[c].source # None, outputs'[c].eof
               PROVE  eof /\ outputs'[c].pos >= current.start
    BY DEF Flags
  <2>1. CASE outputs[c].eof
    <3>1. eof /\ outputs[c].pos >= current.start
      BY <2>1 DEF Flags
    <3>2. c \in Channels(r) => outputs[c].pos = Pos(r)
      BY <1>c DEF Own
    <3>3. outputs'[c].pos \in Nat /\ outputs[c].pos \in Nat /\ current.start \in Nat
      BY DEF TypeOK, Output, Buffer
    <3>4. QED
      BY <3>1, <3>2, <3>3, <1>c, <1>r
  <2>2. CASE ~outputs[c].eof
    BY <2>2
  <2>3. QED
    BY <2>1, <2>2
<1>9. QED
  BY <1>2, <1>3, <1>4, <1>7, <1>8

\* The call, with the answer when the reader has had its length.
LEMMA AskIInv ==
    ASSUME IInv, NEW r \in Reader,
           (\E limit \in Limits : GetEssenceData(r, limit)) \/ GetEssenceDataSize(r)
    PROVE  IInv'
<1> USE ConstantsAssumption
<1> USE DEF IInv
<1>1. /\ UNCHANGED <<shape, outputs, current, old, eof, ends>> /\ call = Idle /\ reader[r] # None
      /\ \/ reader' = [reader EXCEPT ![r].told = TRUE] /\ UNCHANGED call
         \/ /\ UNCHANGED reader
            /\ \/ \E limit \in Limits : call' = [op |-> "Read", of |-> r, limit |-> limit] /\ ~Enough(r)
               \/ call' = [op |-> "Size", of |-> r]
  BY DEF GetEssenceData, GetEssenceDataSize
<1>2. CASE reader' = [reader EXCEPT ![r].told = TRUE] /\ UNCHANGED call
  <2>1. reader[r] \in ReaderState
    BY <1>1 DEF TypeOK
  <2>2. [reader[r] EXCEPT !.told = TRUE] \in ReaderState /\ [reader[r] EXCEPT !.told = TRUE] # None
    BY <2>1 DEF ReaderState
  <2>3. /\ reader' \in [Reader -> ReaderState \cup {None}]
        /\ \A q \in Reader : /\ (reader'[q] # None) <=> (reader[q] # None)
                             /\ reader[q] # None => /\ reader'[q].first = reader[q].first
                                                    /\ reader'[q].count = reader[q].count
    BY <1>1, <1>2, <2>1, <2>2 DEF TypeOK, ReaderState
  <2>4. TypeOK' /\ Gapless' /\ Ordered' /\ NeededKept' /\ Flags' /\ CallOK'
    BY <1>1, <1>2, <2>3 DEF TypeOK, Gapless, Ordered, NeededKept, Covered, Flags, CallOK
  <2>5. Own'
    <3>1. \A q \in Reader : reader[q] # None => Channels(q)' = Channels(q) /\ Pos(q)' = Pos(q)
      BY <1>1, <2>3 DEF Channels, Pos
    <3>2. \A c \in Channel : outputs[c].source # None => outputs[c].source \in Reader
      BY DEF TypeOK, Output
    <3>3. QED
      BY <1>1, <2>3, <3>1, <3>2 DEF Own
  <2>6. QED
    BY <2>4, <2>5
<1>3. CASE /\ UNCHANGED reader
            /\ \/ \E limit \in Limits : call' = [op |-> "Read", of |-> r, limit |-> limit] /\ ~Enough(r)
               \/ call' = [op |-> "Size", of |-> r]
  <2>1. call' \in CallType /\ call'.of = r /\ call' # Idle
    <3>1. ASSUME NEW limit \in Limits, call' = [op |-> "Read", of |-> r, limit |-> limit]
          PROVE  call' \in CallType /\ call'.of = r /\ call'.op = "Read"
      BY <3>1 DEF CallType
    <3>2. ASSUME call' = [op |-> "Size", of |-> r]
          PROVE  call' \in CallType /\ call'.of = r /\ call'.op = "Size"
      BY <3>2 DEF CallType
    <3>3. Idle.op = "Idle"
      BY DEF Idle
    <3>4. QED
      BY <1>3, <3>1, <3>2, <3>3
  <2>2. TypeOK' /\ Gapless' /\ Ordered' /\ NeededKept' /\ Flags' /\ Own'
    BY <1>1, <1>3, <2>1 DEF TypeOK, Gapless, Ordered, NeededKept, Covered, Flags, Own, Channels, Pos
  <2>3. CallOK'
    <3>1. reader'[r] # None /\ (Enough(r)' <=> Enough(r))
      BY <1>1, <1>3 DEF Enough, Pos
    <3>2. call'.op = "Read" => ~Enough(r)
      BY <1>3
    <3>3. QED
      BY <2>1, <3>1, <3>2 DEF CallOK
  <2>4. QED
    BY <2>2, <2>3
<1>4. QED
  BY <1>1, <1>2, <1>3

\* FillBuffer keeps what is needed (KeepList) and changes no reader.
LEMMA FillIInv ==
    ASSUME IInv, FillBuffer
    PROVE  IInv'
<1> USE ConstantsAssumption
<1> USE DEF IInv
<1>1. /\ Keep(old') /\ ~eof
      /\ UNCHANGED <<shape, outputs, reader, call>>
      /\ eof' \in BOOLEAN
  BY DEF FillBuffer, TypeOK
<1>2. PICK n \in Nat : /\ current' = [start |-> EndOf(current), count |-> n]
                       /\ ends' \subseteq ends \cup {EndOf(current) + n}
  BY DEF FillBuffer
<1>3. EndOf(current) \in Nat /\ current'.start = EndOf(current)
  BY <1>2, EndOfType DEF TypeOK
<1>4. /\ old' \in Seq(Buffer)
      /\ \A i \in DOMAIN old' : old'[i].count > 0 /\ EndOf(old'[i]) <= EndOf(current)
      /\ \A i, j \in DOMAIN old' : i < j => EndOf(old'[i]) <= old'[j].start
      /\ \A i \in DOMAIN old' :
            EndOf(old'[i]) = IF i < Len(old') THEN old'[i + 1].start ELSE EndOf(current)
      /\ \A c \in Channel : outputs[c].source # None =>
            \/ outputs[c].pos >= EndOf(current)
            \/ \E i \in DOMAIN old' :
                  old'[i].start <= outputs[c].pos /\ outputs[c].pos < EndOf(old'[i])
  BY <1>1, KeepList
<1>5. TypeOK'
  BY <1>1, <1>2, <1>3, <1>4 DEF TypeOK, Buffer
<1>6. Gapless' /\ Ordered' /\ NeededKept'
  BY <1>1, <1>3, <1>4 DEF Gapless, Ordered, NeededKept, Covered, EndOf
<1>7. Flags'
  BY <1>1 DEF Flags
<1>8. Own' /\ CallOK'
  BY <1>1 DEF Own, Channels, Pos, CallOK, Enough
<1>9. QED
  BY <1>5, <1>6, <1>7, <1>8

\* What is fetched from a buffer is a sample or noise.
LEMMA DemuxType ==
    ASSUME TypeOK, NEW buffer \in Buffer, NEW r \in Reader, reader[r] \in ReaderState,
           Pos(r) \in Nat, buffer.start <= Pos(r), NEW n \in Nat
    PROVE  Demux(buffer, r, n) \in Seq((Nat \X Nat) \cup {Noise})
<1> USE ConstantsAssumption
<1>1. /\ shape.bytes \in Nat \ {0} /\ ChannelCount \in Nat \ {0}
      /\ reader[r].first \in Nat /\ reader[r].count \in Nat \ {0}
  BY DEF TypeOK, ReaderState, Channel
<1>2. SampleSize \in Nat \ {0}
  BY <1>1 DEF SampleSize
<1>3. Stride(reader[r].count) \in Nat /\ StepSize(reader[r].count) \in Nat
  BY <1>1, <1>2 DEF Stride, StepSize
<1>4. \A a \in Nat : Fetch(buffer, a, reader[r].count) \in (Nat \X Nat) \cup {Noise}
  <2> SUFFICES ASSUME NEW a \in Nat
               PROVE  Fetch(buffer, a, reader[r].count) \in (Nat \X Nat) \cup {Noise}
    OBVIOUS
  <2>1. a \div SampleSize \in Nat /\ a % SampleSize \in Nat
    BY <1>2
  <2>2. (a % SampleSize) \div shape.bytes \in Nat
    BY <1>1, <2>1
  <2>3. buffer.start + (a \div SampleSize) \in Nat
    BY <2>1 DEF Buffer
  <2>4. QED
    BY <2>2, <2>3 DEF Fetch
<1>5. Pos(r) - buffer.start \in Nat
  BY DEF Buffer
<1> DEFINE first == (Pos(r) - buffer.start) * Stride(reader[r].count) + reader[r].first * shape.bytes
<1>6. first \in Nat
  <2>1. (Pos(r) - buffer.start) * Stride(reader[r].count) \in Nat
    BY <1>3, <1>5
  <2>2. reader[r].first * shape.bytes \in Nat
    BY <1>1
  <2>3. QED
    BY <2>1, <2>2
<1> HIDE DEF first
<1>7. \A k \in 1 .. n : first + (k - 1) * StepSize(reader[r].count) \in Nat
  <2> SUFFICES ASSUME NEW k \in 1 .. n
               PROVE  first + (k - 1) * StepSize(reader[r].count) \in Nat
    OBVIOUS
  <2>1. k - 1 \in Nat
    OBVIOUS
  <2>2. (k - 1) * StepSize(reader[r].count) \in Nat
    BY <2>1, <1>3
  <2>3. QED
    BY <2>2, <1>6
<1>8. Demux(buffer, r, n) =
        [k \in 1 .. n |-> Fetch(buffer, first + (k - 1) * StepSize(reader[r].count), reader[r].count)]
  BY DEF Demux, first
<1>9. QED
  BY <1>4, <1>7, <1>8

\* Advance moves the channels of a reader and nothing else.
LEMMA AdvanceType ==
    ASSUME TypeOK, NEW r, Pos(r) \in Nat, NEW n \in Nat
    PROVE  /\ Advance(r, n) \in [Channel -> Output]
           /\ \A c \in Channel :
                 /\ Advance(r, n)[c].source = outputs[c].source
                 /\ Advance(r, n)[c].pos = IF c \in Channels(r) THEN Pos(r) + n ELSE outputs[c].pos
                 /\ Advance(r, n)[c].eof <=> outputs[c].eof
<1>1. \A c \in Channel : outputs[c] \in Output
  BY DEF TypeOK
<1>2. Pos(r) + n \in Nat
  OBVIOUS
<1>3. \A c \in Channel : Advance(r, n)[c] = IF c \in Channels(r)
                                            THEN [outputs[c] EXCEPT !.pos = Pos(r) + n]
                                            ELSE outputs[c]
  BY DEF Advance
<1>4. \A c \in Channel :
         /\ Advance(r, n)[c] \in Output
         /\ Advance(r, n)[c].source = outputs[c].source
         /\ Advance(r, n)[c].pos = IF c \in Channels(r) THEN Pos(r) + n ELSE outputs[c].pos
         /\ Advance(r, n)[c].eof <=> outputs[c].eof
  BY <1>1, <1>2, <1>3 DEF Output
<1>5. Advance(r, n) = [c \in Channel |-> Advance(r, n)[c]]
  BY DEF Advance
<1>6. QED
  BY <1>4, <1>5

\* Samples from a buffer that has the next one.
LEMMA DeliverIInv ==
    ASSUME IInv, call # Idle, call.op = "Read", NEW buffer \in Buffer, Deliver(buffer),
           buffer.start <= Pos(call.of), Pos(call.of) < EndOf(buffer),
           \A m \in Nat : (buffer.start <= m /\ m <= EndOf(buffer)) => Covered(m)
    PROVE  IInv'
<1> USE ConstantsAssumption
<1> DEFINE r == call.of
           remaining == EndOf(buffer) - Pos(r)
           n == AtMost(AtMost(remaining, reader[r].len), call.limit)
           x == [reader[r] EXCEPT !.eoi = n = remaining, !.got = @ \o Demux(buffer, r, n)]
<1>c. /\ r \in Reader /\ reader[r] # None /\ reader[r] \in ReaderState /\ Pos(r) \in Nat
      /\ Channels(r) \subseteq Channel
  BY CallerOf
<1>1. remaining \in Nat /\ EndOf(buffer) \in Nat /\ buffer.start \in Nat
  BY <1>c, EndOfType
<1>2. reader[r].len \in Nat \cup {None} /\ call.limit \in Nat \cup {None}
  BY <1>c DEF ReaderState, IInv, TypeOK, CallType, Idle
<1>3. n \in Nat /\ n <= remaining
  BY <1>1, <1>2 DEF AtMost
<1>4. x \in ReaderState /\ x.first = reader[r].first /\ x.count = reader[r].count
  <2>1. Demux(buffer, r, n) \in Seq((Nat \X Nat) \cup {Noise})
    BY <1>c, <1>3, DemuxType DEF IInv
  <2>2. reader[r].got \o Demux(buffer, r, n) \in Seq((Nat \X Nat) \cup {Noise})
    BY <2>1, <1>c, ConcatProperties DEF ReaderState
  <2>3. (n = remaining) \in BOOLEAN
    OBVIOUS
  <2>4. QED
    BY <2>2, <2>3, <1>c DEF ReaderState
<1>5. Covered(Pos(r) + n)
  <2>1. Pos(r) + n \in Nat /\ buffer.start <= Pos(r) + n /\ Pos(r) + n <= EndOf(buffer)
    BY <1>c, <1>1, <1>3
  <2>2. QED
    BY <2>1
<1>6. reader' = [reader EXCEPT ![r] = x]
  BY <1>c DEF Deliver, IInv, TypeOK
<1>7. outputs' = Advance(r, n) /\ call' = Idle /\ UNCHANGED <<shape, current, old, eof, ends>>
  BY DEF Deliver
<1> HIDE DEF x, n, remaining
<1>8. /\ outputs' \in [Channel -> Output]
      /\ \A c \in Channel : /\ outputs'[c].source = outputs[c].source
                            /\ outputs'[c].pos = IF c \in Channels(r) THEN Pos(r) + n ELSE outputs[c].pos
                            /\ outputs'[c].eof <=> outputs[c].eof
  BY <1>c, <1>3, <1>7, AdvanceType DEF IInv
<1>9. \A c \in Channel : outputs'[c].eof =>
          outputs[c].eof \/ (eof /\ outputs'[c].pos >= current.start)
  BY <1>8
<1>10. QED
  BY <1>3, <1>4, <1>5, <1>6, <1>7, <1>8, <1>9, AdvanceIInv

LEMMA ReadCurrentIInv == ASSUME IInv, ReadCurrent PROVE IInv'
<1>1. call # Idle /\ call.op = "Read"
  BY DEF ReadCurrent, Idle
<1>2. current \in Buffer /\ Deliver(current) /\ current.start <= Pos(call.of) /\ Pos(call.of) < EndOf(current)
  BY DEF ReadCurrent, InCurrentBuffer, IInv, TypeOK
<1>3. \A m \in Nat : (current.start <= m /\ m <= EndOf(current)) => Covered(m)
  BY <1>2 DEF Covered, Buffer
<1>4. QED
  BY <1>1, <1>2, <1>3, DeliverIInv

\* A reader that is behind always finds its buffer.
LEMMA ReadOldIInv == ASSUME IInv, ReadOld PROVE IInv'
<1>1. call # Idle /\ call.op = "Read" /\ Behind
  BY DEF ReadOld, Idle
<1>2. Holding # {}
  <2>1. Covered(Pos(call.of)) /\ Pos(call.of) \in Nat /\ current.start \in Nat
    BY <1>1, CallerOf DEF IInv, TypeOK, Buffer
  <2>2. QED
    BY <1>1, <2>1 DEF Behind, Covered, Holding
<1>3. PICK i \in Holding : Deliver(old[i])
  BY <1>2 DEF ReadOld
<1>4. i \in DOMAIN old /\ old[i] \in Buffer /\ old[i].start <= Pos(call.of) /\ Pos(call.of) < EndOf(old[i])
  BY <1>3 DEF Holding, IInv, TypeOK
<1>5. \A m \in Nat : (old[i].start <= m /\ m <= EndOf(old[i])) => Covered(m)
  BY <1>4, CoveredNext DEF IInv
<1>6. QED
  BY <1>1, <1>3, <1>4, <1>5, DeliverIInv

\* At the end of the source nothing is behind: the marks of the end are true.
LEMMA AtEndHere ==
    ASSUME IInv, call # Idle, AtEnd \/ (Behind /\ FlaggedEof)
    PROVE  eof /\ Pos(call.of) >= current.start /\ current.start \in Nat
<1> USE ConstantsAssumption
<1>1. Pos(call.of) \in Nat /\ current.start \in Nat
  BY CallerOf DEF IInv, TypeOK, Buffer
<1>2. CASE AtEnd
  BY <1>1, <1>2 DEF AtEnd, Behind
<1>3. CASE Behind /\ FlaggedEof
  <2>1. reader[call.of].first \in Channel /\ outputs[reader[call.of].first].source # None
    BY CallerOf
  <2>2. eof /\ Pos(call.of) >= current.start
    BY <1>3, <2>1 DEF FlaggedEof, Flags, IInv, Pos
  <2>3. QED
    BY <1>1, <2>2
<1>4. QED
  BY <1>2, <1>3

\* The end of the source: zeros up to the reader's length, or the end.
LEMMA ReadEndIInv ==
    ASSUME IInv, ReadEnd
    PROVE  IInv'
<1> USE ConstantsAssumption
<1> DEFINE r == call.of
           lacks == IF reader[r].len = None THEN 0 ELSE reader[r].len - Pos(r)
           x == IF lacks > 0 THEN [reader[r] EXCEPT !.zeros = @ + lacks]
                ELSE [reader[r] EXCEPT !.told = TRUE]
<1>0. call # Idle /\ call.op = "Read" /\ (AtEnd \/ (Behind /\ FlaggedEof))
  BY DEF ReadEnd, Idle
<1>c. /\ r \in Reader /\ reader[r] # None /\ reader[r] \in ReaderState /\ Pos(r) \in Nat
      /\ reader[r].first \in Channels(r) /\ Channels(r) \subseteq Channel
  BY <1>0, CallerOf
<1>1. eof /\ Pos(r) >= current.start /\ current.start \in Nat
  BY <1>0, AtEndHere
<1>2. lacks \in Nat
  <2>1. ~Enough(r)
    BY <1>0 DEF IInv, CallOK
  <2>2. reader[r].len \in Nat \cup {None}
    BY <1>c DEF ReaderState
  <2>3. QED
    BY <1>c, <2>1, <2>2 DEF Enough
<1>3. x \in ReaderState /\ x.first = reader[r].first /\ x.count = reader[r].count
  <2>1. CASE lacks > 0
    <3>1. reader[r].zeros + lacks \in Nat
      BY <1>c, <1>2 DEF ReaderState
    <3>2. x = [reader[r] EXCEPT !.zeros = reader[r].zeros + lacks]
      BY <2>1
    <3> HIDE DEF x, lacks
    <3>3. QED
      BY <3>1, <3>2, <1>c DEF ReaderState
  <2>2. CASE ~(lacks > 0)
    <3>1. x = [reader[r] EXCEPT !.told = TRUE]
      BY <2>2
    <3> HIDE DEF x, lacks
    <3>2. QED
      BY <3>1, <1>c DEF ReaderState
  <2>3. QED
    BY <2>1, <2>2
<1>4. reader' = [reader EXCEPT ![r] = x]
  BY <1>c DEF ReadEnd, Told, IInv, TypeOK
<1>5. Covered(Pos(r) + lacks)
  BY <1>c, <1>1, <1>2 DEF Covered
<1>6. outputs' = [Advance(r, lacks) EXCEPT ![reader[r].first].eof = TRUE]
  BY DEF ReadEnd
<1>7. call' = Idle /\ UNCHANGED <<shape, current, old, eof, ends>>
  BY DEF ReadEnd
<1> HIDE DEF x, lacks
<1>8. /\ Advance(r, lacks) \in [Channel -> Output]
      /\ \A c \in Channel :
            /\ Advance(r, lacks)[c].source = outputs[c].source
            /\ Advance(r, lacks)[c].pos = IF c \in Channels(r) THEN Pos(r) + lacks ELSE outputs[c].pos
            /\ Advance(r, lacks)[c].eof <=> outputs[c].eof
  BY <1>c, <1>2, AdvanceType DEF IInv
<1>9. /\ outputs' \in [Channel -> Output]
      /\ \A c \in Channel :
            /\ outputs'[c].source = Advance(r, lacks)[c].source
            /\ outputs'[c].pos = Advance(r, lacks)[c].pos
            /\ c # reader[r].first => outputs'[c] = Advance(r, lacks)[c]
  <2> DEFINE all == Advance(r, lacks)
  <2>1. all \in [Channel -> Output]
    BY <1>8
  <2>2. outputs' = [all EXCEPT ![reader[r].first].eof = TRUE]
    BY <1>6
  <2> HIDE DEF all
  <2>3. QED
    BY <2>1, <2>2, <1>c DEF Output, all
<1>10. \A c \in Channel : outputs'[c].eof =>
           outputs[c].eof \/ (eof /\ outputs'[c].pos >= current.start)
  <2> SUFFICES ASSUME NEW c \in Channel, outputs'[c].eof
               PROVE  outputs[c].eof \/ (eof /\ outputs'[c].pos >= current.start)
    OBVIOUS
  <2>1. CASE c = reader[r].first
    <3>1. outputs'[c].pos = Pos(r) + lacks
      BY <2>1, <1>c, <1>8, <1>9
    <3>2. QED
      BY <3>1, <1>c, <1>1, <1>2
  <2>2. CASE c # reader[r].first
    BY <2>2, <1>8, <1>9
  <2>3. QED
    BY <2>1, <2>2
<1>11. \A c \in Channel :
          /\ outputs'[c].source = outputs[c].source
          /\ outputs'[c].pos = IF c \in Channels(r) THEN Pos(r) + lacks ELSE outputs[c].pos
          /\ outputs'[c].eof => outputs[c].eof \/ (eof /\ outputs'[c].pos >= current.start)
  BY <1>8, <1>9, <1>10
<1>12. QED
  BY <1>0, <1>2, <1>3, <1>4, <1>5, <1>7, <1>9, <1>11, AdvanceIInv

\* The size of the next chunk: the reader stays where it is.
LEMMA SizeIInv ==
    ASSUME IInv, Size
    PROVE  IInv'
<1> USE ConstantsAssumption
<1> DEFINE r == call.of
<1>0. call # Idle /\ (Behind \/ InCurrentBuffer \/ eof)
  BY DEF Size, Idle
<1>c. /\ r \in Reader /\ reader[r] # None /\ reader[r] \in ReaderState /\ Pos(r) \in Nat
      /\ reader[r].first \in Channels(r) /\ Channels(r) \subseteq Channel /\ Covered(Pos(r))
  BY <1>0, CallerOf
<1>1. /\ outputs' = IF AtEnd THEN [outputs EXCEPT ![reader[r].first].eof = TRUE] ELSE outputs
      /\ call' = Idle /\ UNCHANGED <<shape, current, old, eof, ends>>
      /\ reader' = [reader EXCEPT ![r] = reader[r]]
  BY <1>c DEF Size, IInv, TypeOK
<1>2. /\ outputs' \in [Channel -> Output]
      /\ \A c \in Channel : /\ outputs'[c].source = outputs[c].source
                            /\ outputs'[c].pos = outputs[c].pos
                            /\ ~(AtEnd /\ c = reader[r].first) => outputs'[c] = outputs[c]
  <2>1. outputs \in [Channel -> Output] /\ reader[r].first \in Channel
    BY <1>c DEF IInv, TypeOK
  <2>2. CASE AtEnd
    <3> DEFINE f == reader[r].first
    <3>1. outputs' = [outputs EXCEPT ![f].eof = TRUE]
      BY <2>2, <1>1
    <3>2. f \in Channel
      BY <2>1
    <3> HIDE DEF f, r
    <3>3. /\ outputs' \in [Channel -> Output]
          /\ \A c \in Channel : /\ outputs'[c].source = outputs[c].source
                                /\ outputs'[c].pos = outputs[c].pos
                                /\ c # f => outputs'[c] = outputs[c]
      BY <2>1, <3>1, <3>2 DEF Output
    <3>4. QED
      BY <2>2, <3>3 DEF f
  <2>3. CASE ~AtEnd
    BY <2>1, <2>3, <1>1
  <2>4. QED
    BY <2>2, <2>3
<1>3. Pos(r) + 0 = Pos(r) /\ Covered(Pos(r) + 0) /\ 0 \in Nat
  BY <1>c
<1>4. \A c \in Channel : outputs'[c].pos = IF c \in Channels(r) THEN Pos(r) + 0 ELSE outputs[c].pos
  BY <1>c, <1>2, <1>3 DEF IInv, Own
<1>5. \A c \in Channel : outputs'[c].eof =>
           outputs[c].eof \/ (eof /\ outputs'[c].pos >= current.start)
  <2> SUFFICES ASSUME NEW c \in Channel, outputs'[c].eof
               PROVE  outputs[c].eof \/ (eof /\ outputs'[c].pos >= current.start)
    OBVIOUS
  <2>1. CASE AtEnd /\ c = reader[r].first
    BY <2>1, <1>0, <1>2, AtEndHere DEF Pos
  <2>2. CASE ~(AtEnd /\ c = reader[r].first)
    BY <2>2, <1>2
  <2>3. QED
    BY <2>1, <2>2
<1>6. QED
  BY <1>0, <1>c, <1>1, <1>2, <1>3, <1>4, <1>5, AdvanceIInv

LEMMA NextIInv == ASSUME IInv, [Next]_vars PROVE IInv'
<1>1. ASSUME NEW r \in Reader, NEW group \in Groups, NEW len \in Lengths, GetSource(r, group, len)
      PROVE  IInv'
  BY <1>1, GetSourceIInv
<1>2. ASSUME NEW r \in Reader, Destruct(r)
      PROVE  IInv'
  BY <1>2, DestructIInv
<1>3. ASSUME NEW r \in Reader,
             (\E limit \in Limits : GetEssenceData(r, limit)) \/ GetEssenceDataSize(r)
      PROVE  IInv'
  BY <1>3, AskIInv
<1>4. CASE FillBuffer
  BY <1>4, FillIInv
<1>5. CASE ReadCurrent
  BY <1>5, ReadCurrentIInv
<1>6. CASE ReadOld
  BY <1>6, ReadOldIInv
<1>7. CASE ReadEnd
  BY <1>7, ReadEndIInv
<1>8. CASE Size
  BY <1>8, SizeIInv
<1>9. CASE Over \/ UNCHANGED vars
  <2>1. UNCHANGED <<shape, outputs, current, old, eof, reader, call, ends>>
    BY <1>9 DEF Over, vars
  <2>2. TypeOK' /\ Gapless' /\ Ordered'
    BY <2>1 DEF IInv, TypeOK, Gapless, Ordered
  <2>3. NeededKept' /\ Flags'
    BY <2>1 DEF IInv, NeededKept, Covered, Flags
  <2>4. Own' /\ CallOK'
    BY <2>1 DEF IInv, Own, Channels, Pos, CallOK, Enough
  <2>5. QED
    BY <2>2, <2>3, <2>4 DEF IInv
<1>10. QED
  BY <1>1, <1>2, <1>3, <1>4, <1>5, <1>6, <1>7, <1>8, <1>9 DEF Next

-----------------------------------------------------------------------------
(***************************************************************************)
(* 3. The theorem about the buffers.                                       *)
(***************************************************************************)
THEOREM Invariance == Spec => []IInv
BY InitIInv, NextIInv, PTL DEF Spec

(***************************************************************************)
(* FillBuffer keeps what is needed: whatever readers there are, made and   *)
(* destroyed at any time, the buffers have no gap and the next sample of   *)
(* each reader is in one of them or has not been read from the source.     *)
(***************************************************************************)
THEOREM BuffersKept == Spec => []BuffersTrue
<1>1. IInv => BuffersTrue
  BY DEF IInv, BuffersTrue
<1>2. QED
  BY <1>1, Invariance, PTL

-----------------------------------------------------------------------------
(***************************************************************************)
(* 4. Where samples are fetched from, for the sizes of samples that the    *)
(* code handles: up to 24 bits, and resized ones of 8 bits.                *)
(***************************************************************************)
PlainShapes == \A s \in Shapes : s.bytes # 4 /\ (s.resized => s.bytes = 1)

\* Multiplication keeps the order.
LEMMA MulMono ==
    ASSUME NEW a \in Nat, NEW b \in Nat, NEW c \in Nat, a <= b
    PROVE  a * c <= b * c
OBVIOUS

\* Quotient and remainder of a number that is given by them.
LEMMA DivUnique ==
    ASSUME NEW d \in Nat \ {0}, NEW q \in Nat, NEW r \in Nat, r < d
    PROVE  (q * d + r) \div d = q /\ (q * d + r) % d = r
OBVIOUS

\* The q-th sample of a buffer, at the reader's first channel.
LEMMA FetchTrue ==
    ASSUME NEW buffer \in Buffer, NEW first \in Nat, NEW count \in Nat \ {0}, NEW q \in Nat,
           shape.bytes \in Nat \ {0}, first + count <= ChannelCount, q < buffer.count
    PROVE  Fetch(buffer, q * SampleSize + first * shape.bytes, count) = <<buffer.start + q, first>>
<1> USE ConstantsAssumption
<1> DEFINE b == shape.bytes
           size == SampleSize
           a == q * size + first * b
<1>1. b \in Nat \ {0} /\ ChannelCount \in Nat \ {0} /\ size = ChannelCount * b
  BY DEF SampleSize
<1> HIDE DEF size, b
<1>2. size \in Nat \ {0}
  BY <1>1
<1>3. first * b \in Nat /\ first * b + count * b <= size
  <2>1. (first + count) * b <= ChannelCount * b
    BY <1>1, MulMono
  <2>2. (first + count) * b = first * b + count * b
    BY <1>1
  <2>3. QED
    BY <2>1, <2>2, <1>1
<1>4. count * b \in Nat /\ count * b > 0
  BY <1>1
<1>5. first * b < size
  BY <1>2, <1>3, <1>4
<1>6. a \div size = q /\ a % size = first * b
  BY <1>2, <1>3, <1>5, DivUnique
<1>7. (first * b) \div b = first /\ (first * b) % b = 0
  <2>1. first * b + 0 = first * b
    BY <1>3
  <2>2. QED
    BY <2>1, <1>1, DivUnique
<1>8. a % b = 0
  <2>1. q * size = (q * ChannelCount) * b /\ q * ChannelCount \in Nat
    BY <1>1
  <2>2. (q * ChannelCount) * b + first * b = (q * ChannelCount + first) * b
    BY <2>1, <1>1
  <2>3. a = (q * ChannelCount + first) * b + 0 /\ q * ChannelCount + first \in Nat
    <3>1. a = (q * ChannelCount + first) * b
      BY <2>1, <2>2
    <3>2. q * ChannelCount + first \in Nat
      BY <2>1
    <3>3. (q * ChannelCount + first) * b \in Nat
      BY <3>2, <1>1
    <3>4. QED
      BY <3>1, <3>2, <3>3
  <2>4. \A m \in Nat : (m * b + 0) % b = 0
    BY <1>1, DivUnique
  <2> HIDE DEF a
  <2>5. QED
    BY <2>3, <2>4
<1>9. a + count * b <= buffer.count * size
  <2>1. (q + 1) * size <= buffer.count * size
    BY <1>2, MulMono DEF Buffer
  <2>2. (q + 1) * size = q * size + size /\ q * size \in Nat
    BY <1>2
  <2>3. buffer.count * size \in Nat
    BY <1>2 DEF Buffer
  <2>4. QED
    BY <2>1, <2>2, <2>3, <1>2, <1>3, <1>4
<1>10. a \in Nat /\ buffer.count * size \in Nat
  <2>1. q * size \in Nat
    BY <1>2
  <2>2. QED
    BY <2>1, <1>2, <1>3 DEF Buffer
<1>11. Fetch(buffer, a, count) =
          IF a % b # 0 \/ a + count * b > buffer.count * size THEN Noise
          ELSE <<buffer.start + (a \div size), (a % size) \div b>>
  BY DEF Fetch, b, size
<1> HIDE DEF a
<1>12. Fetch(buffer, a, count) = <<buffer.start + q, first>>
  BY <1>4, <1>6, <1>7, <1>8, <1>9, <1>10, <1>11
<1>13. QED
  BY <1>12 DEF a, b, size

\* What is fetched are the next samples of the reader.
LEMMA DemuxTrue ==
    ASSUME PlainShapes, IInv, NEW r \in Reader, reader[r] # None,
           NEW buffer \in Buffer, buffer.start <= Pos(r), Pos(r) \in Nat,
           NEW n \in Nat, Pos(r) + n <= EndOf(buffer)
    PROVE  Demux(buffer, r, n) = [k \in 1 .. n |-> <<(Pos(r) + k) - 1, reader[r].first>>]
<1> USE ConstantsAssumption
<1> DEFINE first == reader[r].first
           count == reader[r].count
<1>1. /\ reader[r] \in ReaderState /\ first \in Nat /\ count \in Nat \ {0}
      /\ first + count <= ChannelCount
  BY DEF IInv, TypeOK, Own, ReaderState, Channel
<1>2. shape \in Shapes /\ shape.bytes \in Nat \ {0} /\ SampleSize \in Nat \ {0}
  BY DEF IInv, TypeOK, SampleSize
<1>3. Stride(count) = SampleSize /\ StepSize(count) = SampleSize
  <2>1. shape.bytes # 4 /\ (shape.resized => shape.bytes = 1)
    BY <1>2 DEF PlainShapes
  <2>2. shape.resized => SampleSize = ChannelCount
    BY <2>1 DEF SampleSize
  <2>3. QED
    BY <2>1, <2>2 DEF Stride, StepSize
<1> DEFINE b == shape.bytes
           size == SampleSize
           past == Pos(r) - buffer.start
<1>4. past \in Nat /\ EndOf(buffer) = buffer.start + buffer.count
      /\ buffer.start \in Nat /\ buffer.count \in Nat
  BY EndOfType
<1>5. ASSUME NEW k \in 1 .. n
      PROVE  Fetch(buffer, (past * size + first * b) + (k - 1) * size, count)
               = <<(Pos(r) + k) - 1, first>>
  <2> DEFINE q == past + (k - 1)
  <2>1. q \in Nat /\ q < buffer.count /\ buffer.start + q = (Pos(r) + k) - 1
    BY <1>4
  <2>2. (past * size + first * b) + (k - 1) * size = q * size + first * b
    <3>1. size \in Nat /\ past \in Nat /\ k - 1 \in Nat /\ first * b \in Nat
      BY <1>1, <1>2, <1>4
    <3> HIDE DEF past, size, b, first
    <3>2. past * size \in Nat /\ (k - 1) * size \in Nat /\ (past + (k - 1)) * size = past * size + (k - 1) * size
      BY <3>1
    <3>3. QED
      BY <3>1, <3>2
  <2>3. Fetch(buffer, q * size + first * b, count) = <<buffer.start + q, first>>
    BY <2>1, <1>1, <1>2, FetchTrue
  <2> HIDE DEF q, past, size, b
  <2>4. QED
    BY <2>1, <2>2, <2>3
<1>6. Demux(buffer, r, n) =
        [k \in 1 .. n |-> Fetch(buffer, (past * size + first * b) + (k - 1) * size, count)]
  BY <1>3 DEF Demux
<1> HIDE DEF past, size, b
<1>7. QED
  BY <1>5, <1>6

-----------------------------------------------------------------------------
(***************************************************************************)
(* 5. What a reader has been given, against its place and the end of what  *)
(* has been read from the source.                                          *)
(***************************************************************************)
GivenOK(x, pos, end, over, marks) ==
    /\ x.got = [i \in 1 .. Len(x.got) |-> <<i - 1, x.first>>]
    /\ x.zeros = 0 => Len(x.got) = pos /\ pos <= end
    /\ x.zeros > 0 => over /\ Len(x.got) = end /\ pos >= end /\ x.len # None
    /\ x.told => \/ over /\ Len(x.got) = end
                 \/ x.len # None /\ Len(x.got) >= x.len
    /\ x.eoi => Len(x.got) \in marks

EndsOK ==
    /\ 0 \in ends /\ EndOf(current) \in ends
    /\ \A i \in DOMAIN old : EndOf(old[i]) \in ends

SInv ==
    /\ EndsOK
    /\ \A r \in Reader : reader[r] # None => GivenOK(reader[r], Pos(r), EndOf(current), eof, ends)

\* The old buffers after FillBuffer were there before.
LEMMA KeepSame ==
    ASSUME TypeOK, NEW rest, Keep(rest)
    PROVE  \A i \in DOMAIN rest : rest[i] = current \/ \E j \in DOMAIN old : rest[i] = old[j]
<1>1. CASE current.count = 0
  BY <1>1 DEF Keep
<1>2. CASE current.count # 0
  <2> DEFINE list == IF Needed(EndOf(current)) THEN Append(old, current) ELSE old
  <2>1. current \in Buffer /\ old \in Seq(Buffer)
    BY DEF TypeOK
  <2>2. list \in Seq(Buffer) /\ \A i \in DOMAIN list : list[i] = current \/ \E j \in DOMAIN old : list[i] = old[j]
    <3>1. /\ Append(old, current) \in Seq(Buffer)
          /\ DOMAIN Append(old, current) = 1 .. Len(old) + 1 /\ DOMAIN old = 1 .. Len(old)
          /\ Append(old, current)[Len(old) + 1] = current /\ Len(old) \in Nat
          /\ \A i \in 1 .. Len(old) : Append(old, current)[i] = old[i]
      BY <2>1
    <3>2. \A i \in DOMAIN Append(old, current) : i = Len(old) + 1 \/ i \in 1 .. Len(old)
      BY <3>1
    <3>3. QED
      BY <2>1, <3>1, <3>2
  <2>3. PICK k \in 0 .. Len(list) : rest = SubSeq(list, k + 1, Len(list))
    BY <1>2 DEF Keep, Discard
  <2> HIDE DEF list
  <2>4. /\ rest \in Seq(Buffer) /\ Len(rest) = Len(list) - k
        /\ \A i \in 1 .. Len(list) - k : rest[i] = list[k + i]
    BY <2>2, <2>3, SuffixOf
  <2>5. \A i \in DOMAIN rest : k + i \in DOMAIN list /\ rest[i] = list[k + i]
    <3>1. DOMAIN rest = 1 .. Len(list) - k /\ DOMAIN list = 1 .. Len(list) /\ Len(list) \in Nat /\ k \in Nat
      BY <2>2, <2>4
    <3>2. QED
      BY <3>1, <2>4
  <2>6. QED
    BY <2>2, <2>5
<1>3. QED
  BY <1>1, <1>2

\* FillBuffer: more has been read, or the source has ended.
LEMMA FillSInv ==
    ASSUME IInv, SInv, FillBuffer
    PROVE  SInv'
<1> USE ConstantsAssumption
<1>1. /\ Keep(old') /\ ~eof /\ UNCHANGED <<shape, outputs, reader, call>> /\ TypeOK
  BY DEF FillBuffer, IInv
<1>2. PICK n \in Nat : /\ current' = [start |-> EndOf(current), count |-> n]
                       /\ \/ ends' = ends \cup {EndOf(current) + n}
                          \/ ends' = ends /\ n = 0
  BY DEF FillBuffer
<1>3. EndOf(current) \in Nat /\ EndOf(current)' = EndOf(current) + n
  BY <1>1, <1>2, EndOfType DEF TypeOK, EndOf
<1>4. EndsOK'
  <2>1. ends \subseteq ends' /\ EndOf(current)' \in ends'
    BY <1>2, <1>3 DEF SInv, EndsOK
  <2>2. \A i \in DOMAIN old' : EndOf(old'[i]) \in ends
    BY <1>1, KeepSame DEF SInv, EndsOK
  <2>3. QED
    BY <2>1, <2>2 DEF SInv, EndsOK, EndOf
<1>5. ASSUME NEW r \in Reader, reader[r] # None
      PROVE  GivenOK(reader[r], Pos(r), EndOf(current), eof, ends)'
  <2>1. GivenOK(reader[r], Pos(r), EndOf(current), eof, ends)
    BY <1>5 DEF SInv
  <2>2. reader'[r] = reader[r] /\ Pos(r)' = Pos(r)
    BY <1>1 DEF Pos
  <2>3. reader[r] \in ReaderState /\ Pos(r) \in Nat
    BY <1>1, <1>5 DEF TypeOK, ReaderState, Pos, Output
  <2>4. reader[r].zeros = 0
    BY <2>1, <2>3, <1>1 DEF GivenOK, ReaderState
  <2>5. Pos(r) <= EndOf(current) + n
    BY <2>1, <2>3, <2>4, <1>3 DEF GivenOK
  <2>6. ends \subseteq ends'
    BY <1>2
  <2>7. QED
    BY <2>1, <2>2, <2>4, <2>5, <2>6, <1>1, <1>3 DEF GivenOK
<1>6. QED
  BY <1>1, <1>4, <1>5 DEF SInv

\* One reader is given something, or told; the others stay as they are.
LEMMA OneReader ==
    ASSUME IInv, SInv, NEW r \in Reader,
           UNCHANGED <<current, old, eof, ends>>,
           \A q \in Reader : (q # r /\ reader'[q] # None) =>
               reader'[q] = reader[q] /\ Pos(q)' = Pos(q),
           reader'[r] # None => GivenOK(reader[r], Pos(r), EndOf(current), eof, ends)'
    PROVE  SInv'
<1>1. EndsOK'
  BY DEF SInv, EndsOK
<1>2. EndOf(current)' = EndOf(current)
  BY DEF EndOf
<1>3. ASSUME NEW q \in Reader, reader'[q] # None
      PROVE  GivenOK(reader[q], Pos(q), EndOf(current), eof, ends)'
  <2>1. CASE q = r
    BY <2>1, <1>3
  <2>2. CASE q # r
    <3>1. reader'[q] = reader[q] /\ Pos(q)' = Pos(q) /\ GivenOK(reader[q], Pos(q), EndOf(current), eof, ends)
      BY <2>2, <1>3 DEF SInv
    <3>2. QED
      BY <3>1, <1>2 DEF GivenOK
  <2>3. QED
    BY <2>1, <2>2
<1>4. QED
  BY <1>1, <1>3 DEF SInv

\* The first channel of a reader is its own.
LEMMA FirstOwn ==
    ASSUME IInv, NEW q \in Reader, reader[q] # None
    PROVE  /\ reader[q] \in ReaderState /\ reader[q].first \in Channel
           /\ outputs[reader[q].first].source = q /\ Pos(q) \in Nat
<1>1. reader[q] \in ReaderState
  BY DEF IInv, TypeOK
<1>2. reader[q].first \in Channels(q) /\ reader[q].first \in Channel
  BY <1>1 DEF ReaderState, Channels, Channel
<1>3. QED
  BY <1>1, <1>2 DEF IInv, Own, TypeOK, Output, Pos

LEMMA GetSourceSInv ==
    ASSUME IInv, SInv, NEW r \in Reader, NEW group \in Groups, NEW len \in Lengths,
           GetSource(r, group, len)
    PROVE  SInv'
<1> USE ConstantsAssumption
<1> DEFINE taken == group.first .. group.first + group.count - 1
           new == [first |-> group.first, count |-> group.count, len |-> len, eoi |-> TRUE,
                   got |-> << >>, zeros |-> 0, told |-> FALSE]
<1>1. /\ reader' = [reader EXCEPT ![r] = new]
      /\ outputs' = [c \in Channel |->
             IF c \in taken THEN [source |-> r, pos |-> 0, eof |-> FALSE] ELSE outputs[c]]
      /\ UNCHANGED <<shape, current, old, eof, call, ends>>
      /\ reader[r] = None
      /\ \A c \in taken : outputs[c].source = None
  BY DEF GetSource
<1>2. group.first \in taken /\ group.first \in Channel
  BY DEF Channel
<1>3. reader'[r] = new /\ \A q \in Reader : q # r => reader'[q] = reader[q]
  BY <1>1 DEF IInv, TypeOK
<1>4. ASSUME NEW q \in Reader, q # r, reader'[q] # None
      PROVE  reader'[q] = reader[q] /\ Pos(q)' = Pos(q)
  <2>1. reader'[q] = reader[q] /\ reader[q] # None
    BY <1>3, <1>4
  <2>2. reader[q].first \in Channel /\ outputs[reader[q].first].source = q
    BY <2>1, FirstOwn
  <2>3. reader[q].first \notin taken
    BY <2>2, <1>1
  <2>4. QED
    BY <2>1, <2>2, <2>3, <1>1 DEF Pos
<1>5. GivenOK(reader[r], Pos(r), EndOf(current), eof, ends)'
  <2>1. Pos(r)' = 0
    BY <1>1, <1>2, <1>3 DEF Pos
  <2>2. EndOf(current)' \in Nat /\ 0 \in ends'
    BY <1>1, EndOfType DEF EndOf, IInv, TypeOK, SInv, EndsOK
  <2>3. Len(new.got) = 0 /\ new.got = [i \in 1 .. 0 |-> <<i - 1, new.first>>]
    OBVIOUS
  <2>4. QED
    BY <2>1, <2>2, <2>3, <1>3 DEF GivenOK
<1>6. UNCHANGED <<current, old, eof, ends>>
  BY <1>1
<1>7. QED
  BY <1>4, <1>5, <1>6, OneReader

LEMMA DestructSInv ==
    ASSUME IInv, SInv, NEW r \in Reader, Destruct(r)
    PROVE  SInv'
<1> USE ConstantsAssumption
<1>1. /\ reader' = [reader EXCEPT ![r] = None]
      /\ outputs' = [c \in Channel |->
             IF outputs[c].source = r THEN [outputs[c] EXCEPT !.source = None] ELSE outputs[c]]
      /\ UNCHANGED <<current, old, eof, ends>>
  BY DEF Destruct
<1>2. reader'[r] = None /\ \A q \in Reader : q # r => reader'[q] = reader[q]
  BY <1>1 DEF IInv, TypeOK
<1>3. ASSUME NEW q \in Reader, q # r, reader'[q] # None
      PROVE  reader'[q] = reader[q] /\ Pos(q)' = Pos(q)
  <2>1. reader'[q] = reader[q] /\ reader[q] # None
    BY <1>2, <1>3
  <2>2. reader[q].first \in Channel /\ outputs[reader[q].first].source = q
    BY <2>1, FirstOwn
  <2>3. QED
    BY <2>1, <2>2, <1>1, <1>3 DEF Pos
<1>4. QED
  BY <1>1, <1>2, <1>3, OneReader

\* A reader that asks beyond its length is told so.
LEMMA AskSInv ==
    ASSUME IInv, SInv, NEW r \in Reader,
           (\E limit \in Limits : GetEssenceData(r, limit)) \/ GetEssenceDataSize(r)
    PROVE  SInv'
<1> USE ConstantsAssumption
<1>1. UNCHANGED <<outputs, current, old, eof, ends>> /\ reader[r] # None
  BY DEF GetEssenceData, GetEssenceDataSize
<1>2. CASE reader' = [reader EXCEPT ![r].told = TRUE] /\ Enough(r)
  <2>1. reader[r] \in ReaderState /\ Pos(r) \in Nat
    BY <1>1, FirstOwn
  <2>2. reader'[r] = [reader[r] EXCEPT !.told = TRUE] /\ \A q \in Reader : q # r => reader'[q] = reader[q]
    BY <1>2 DEF IInv, TypeOK
  <2>3. /\ reader'[r].got = reader[r].got /\ reader'[r].first = reader[r].first
        /\ reader'[r].zeros = reader[r].zeros /\ reader'[r].len = reader[r].len
        /\ reader'[r].eoi <=> reader[r].eoi
    BY <2>1, <2>2 DEF ReaderState
  <2>4. \A q \in Reader : reader[q] # None => Pos(q)' = Pos(q)
    BY <1>1, <2>2, <2>3 DEF Pos
  <2>5. GivenOK(reader[r], Pos(r), EndOf(current), eof, ends)
    BY <1>1 DEF SInv
  <2>6. EndOf(current)' = EndOf(current) /\ EndOf(current) \in Nat
    BY <1>1, EndOfType DEF EndOf, IInv, TypeOK
  <2>7. \/ eof /\ Len(reader[r].got) = EndOf(current)
        \/ reader[r].len # None /\ Len(reader[r].got) >= reader[r].len
    BY <2>1, <2>5, <1>2 DEF Enough, GivenOK, ReaderState
  <2>8. GivenOK(reader[r], Pos(r), EndOf(current), eof, ends)'
    BY <2>3, <2>4, <2>5, <2>6, <2>7, <1>1 DEF GivenOK
  <2>9. QED
    BY <2>2, <2>4, <2>8, <1>1, OneReader
<1>3. CASE UNCHANGED reader
  BY <1>1, <1>3 DEF SInv, EndsOK, GivenOK, EndOf, Pos
<1>4. QED
  BY <1>2, <1>3 DEF GetEssenceData, GetEssenceDataSize

\* The channels of the others do not move with those of the caller.
LEMMA OthersStay ==
    ASSUME IInv, call # Idle,
           NEW x, reader' = [reader EXCEPT ![call.of] = x],
           \A c \in Channel : c \notin Channels(call.of) => outputs'[c].pos = outputs[c].pos,
           NEW q \in Reader, q # call.of, reader'[q] # None
    PROVE  reader'[q] = reader[q] /\ Pos(q)' = Pos(q)
<1>1. reader'[q] = reader[q] /\ reader[q] # None
  BY DEF IInv, TypeOK
<1>2. reader[q].first \in Channel /\ outputs[reader[q].first].source = q
  BY <1>1, FirstOwn
<1>3. reader[q].first \notin Channels(call.of)
  BY <1>2, CallerOf DEF IInv, Own
<1>4. QED
  BY <1>1, <1>2, <1>3 DEF Pos

\* A sequence is a function on its indices.
LEMMA SequenceIs ==
    ASSUME NEW S, NEW s \in Seq(S), NEW m \in Nat, Len(s) = m
    PROVE  s = [i \in 1 .. m |-> s[i]]
OBVIOUS

\* The elements of two sequences one behind the other.
LEMMA ConcatIs ==
    ASSUME NEW S, NEW a \in Seq(S), NEW b \in Seq(S)
    PROVE  a \o b = [i \in 1 .. Len(a) + Len(b) |-> (a \o b)[i]]
<1>1. a \o b \in Seq(S) /\ Len(a \o b) = Len(a) + Len(b) /\ Len(a) + Len(b) \in Nat
  OBVIOUS
<1>2. QED
  BY <1>1, SequenceIs, Zenon

\* The samples that are delivered follow those that were.
LEMMA DeliverSInv ==
    ASSUME PlainShapes, IInv, SInv, call # Idle, call.op = "Read",
           NEW buffer \in Buffer, Deliver(buffer),
           buffer.start <= Pos(call.of), Pos(call.of) < EndOf(buffer),
           EndOf(buffer) <= EndOf(current), EndOf(buffer) \in ends
    PROVE  SInv'
<1> USE ConstantsAssumption
<1>r. PICK r \in Reader : r = call.of
  BY CallerOf
<1> DEFINE remaining == EndOf(buffer) - Pos(r)
           n == AtMost(AtMost(remaining, reader[r].len), call.limit)
           more == Demux(buffer, r, n)
           x == [reader[r] EXCEPT !.eoi = n = remaining, !.got = @ \o more]
<1>c. /\ r \in Reader /\ reader[r] # None /\ reader[r] \in ReaderState /\ Pos(r) \in Nat
      /\ reader[r].first \in Channels(r) /\ Channels(r) \subseteq Channel
  BY <1>r, CallerOf
<1>1. /\ remaining \in Nat /\ EndOf(buffer) \in Nat /\ EndOf(current) \in Nat
      /\ remaining = EndOf(buffer) - Pos(r)
  BY <1>c, <1>r, EndOfType DEF IInv, TypeOK
<1>2. reader[r].len \in Nat \cup {None} /\ call.limit \in Nat \cup {None}
  BY <1>c DEF ReaderState, IInv, TypeOK, CallType, Idle
<1>3. n \in Nat /\ n <= remaining
  BY <1>1, <1>2 DEF AtMost
<1>4. reader' = [reader EXCEPT ![r] = x] /\ reader'[r] = x
  BY <1>c, <1>r DEF Deliver, IInv, TypeOK
<1>5. outputs' = Advance(r, n) /\ UNCHANGED <<current, old, eof, ends>>
  BY <1>r DEF Deliver
<1>6. /\ x.got = reader[r].got \o more /\ x.first = reader[r].first
      /\ x.zeros = reader[r].zeros /\ x.len = reader[r].len
      /\ x.told <=> reader[r].told
      /\ x.eoi => n = remaining
  BY <1>c DEF ReaderState
<1> HIDE DEF x, n, remaining
<1>7. \A c \in Channel : outputs'[c].pos = IF c \in Channels(r) THEN Pos(r) + n ELSE outputs[c].pos
  <2>1. TypeOK /\ Pos(r) \in Nat /\ n \in Nat
    BY <1>c, <1>3 DEF IInv
  <2>2. \A c \in Channel :
           Advance(r, n)[c].pos = IF c \in Channels(r) THEN Pos(r) + n ELSE outputs[c].pos
    BY <2>1, AdvanceType
  <2>3. QED
    BY <2>2, <1>5
<1>8. Pos(r)' = Pos(r) + n
  BY <1>c, <1>4, <1>6, <1>7 DEF Pos
<1>9. GivenOK(reader[r], Pos(r), EndOf(current), eof, ends)
  BY <1>c DEF SInv
<1>10. reader[r].zeros = 0 /\ Len(reader[r].got) = Pos(r)
  BY <1>c, <1>r, <1>1, <1>9 DEF GivenOK, ReaderState
<1>11. Pos(r) + n <= EndOf(buffer)
  BY <1>c, <1>r, <1>1, <1>3
<1>12. more = [k \in 1 .. n |-> <<(Pos(r) + k) - 1, reader[r].first>>]
  BY <1>c, <1>r, <1>3, <1>11, DemuxTrue DEF IInv
<1> HIDE DEF more
<1>13. /\ x.got = [i \in 1 .. Len(x.got) |-> <<i - 1, x.first>>]
       /\ Len(x.got) = Pos(r) + n
  <2>1. reader[r].got = [i \in 1 .. Pos(r) |-> <<i - 1, reader[r].first>>]
    BY <1>9, <1>10 DEF GivenOK
  <2>2. reader[r].first \in Nat
    BY <1>c DEF ReaderState, Channel
  <2>3. reader[r].got \in Seq(Nat \X Nat)
    <3>1. \A i \in 1 .. Pos(r) : <<i - 1, reader[r].first>> \in Nat \X Nat
      BY <2>2, <1>c
    <3>2. QED
      BY <3>1, <2>1, <1>c
  <2>4. more \in Seq(Nat \X Nat)
    <3>1. \A k \in 1 .. n : (Pos(r) + k) - 1 \in Nat
      BY <1>c, <1>3
    <3>2. \A k \in 1 .. n : <<(Pos(r) + k) - 1, reader[r].first>> \in Nat \X Nat
      BY <3>1, <2>2
    <3>3. QED
      BY <3>2, <1>12, <1>3
  <2>5. /\ Len(reader[r].got \o more) = Pos(r) + n
        /\ reader[r].got \o more = [i \in 1 .. Pos(r) + n |-> <<i - 1, reader[r].first>>]
    <3> DEFINE got == reader[r].got
               S == Nat \X Nat
               f == reader[r].first
    <3>1. got \in Seq(S) /\ Len(got) = Pos(r)
      BY <2>1, <2>3, <1>10
    <3>2. \A i \in 1 .. Len(got) : got[i] = <<i - 1, f>>
      BY <2>1, <3>1
    <3>3. more \in Seq(S) /\ Len(more) = n
      BY <2>4, <1>3, <1>12
    <3>4. \A k \in 1 .. Len(more) : more[k] = <<(Len(got) + k) - 1, f>>
      BY <3>1, <3>3, <1>12
    <3> HIDE DEF got, f, S
    <3>c. /\ \A i \in 1 .. Len(got) : (got \o more)[i] = got[i]
          /\ \A i \in 1 .. Len(got) + Len(more) :
                ~(i <= Len(got)) => (got \o more)[i] = more[i - Len(got)]
          /\ Len(got) \in Nat /\ Len(more) \in Nat
      BY <3>1, <3>3
    <3>e. ASSUME NEW i \in 1 .. Len(got) + Len(more)
          PROVE  (got \o more)[i] = <<i - 1, f>>
      <4>1. CASE i <= Len(got)
        <5>1. (got \o more)[i] = got[i] /\ i \in 1 .. Len(got)
          BY <4>1, <3>c
        <5>2. QED
          BY <5>1, <3>2
      <4>2. CASE ~(i <= Len(got))
        <5>1. /\ (got \o more)[i] = more[i - Len(got)] /\ i - Len(got) \in 1 .. Len(more)
              /\ (Len(got) + (i - Len(got))) - 1 = i - 1
          BY <4>2, <3>c
        <5>2. more[i - Len(got)] = <<(Len(got) + (i - Len(got))) - 1, f>>
          BY <5>1, <3>4
        <5>3. QED
          BY <5>1, <5>2
      <4>3. QED
        BY <4>1, <4>2
    <3>5. got \o more = [i \in 1 .. Len(got) + Len(more) |-> <<i - 1, f>>]
      <4>1. got \o more = [i \in 1 .. Len(got) + Len(more) |-> (got \o more)[i]]
        BY <3>1, <3>3, ConcatIs
      <4>2. QED
        BY <4>1, <3>e
    <3>6. Len(got \o more) = Len(got) + Len(more)
      BY <3>1, <3>3
    <3>7. QED
      BY <3>1, <3>3, <3>5, <3>6 DEF got, f
  <2>6. QED
    BY <2>5, <1>6
<1>14. GivenOK(reader[r], Pos(r), EndOf(current), eof, ends)'
  <2>1. EndOf(current)' = EndOf(current)
    BY <1>5 DEF EndOf
  <2>2. Pos(r) + n <= EndOf(current) /\ Pos(r) < EndOf(current)
    BY <1>c, <1>r, <1>1, <1>3, <1>11
  <2>3. x.told => x.len # None /\ Len(x.got) >= x.len
    <3>1. reader[r].told => reader[r].len # None /\ Pos(r) >= reader[r].len
      BY <1>c, <1>1, <1>9, <1>10, <2>2 DEF GivenOK
    <3>2. QED
      BY <3>1, <1>c, <1>2, <1>3, <1>6, <1>13
  <2>4. x.eoi => Len(x.got) \in ends
    BY <1>c, <1>1, <1>6, <1>13
  <2>5. x.zeros = 0 /\ UNCHANGED <<eof, ends>>
    BY <1>5, <1>6, <1>10
  <2>6. GivenOK(x, Pos(r) + n, EndOf(current), eof, ends)
    BY <2>2, <2>3, <2>4, <2>5, <1>13 DEF GivenOK
  <2>7. QED
    BY <2>1, <2>5, <2>6, <1>4, <1>8
<1>15. \A q \in Reader : (q # r /\ reader'[q] # None) => reader'[q] = reader[q] /\ Pos(q)' = Pos(q)
  <2>1. \A c \in Channel : c \notin Channels(call.of) => outputs'[c].pos = outputs[c].pos
    BY <1>7, <1>r
  <2>2. reader' = [reader EXCEPT ![call.of] = x]
    BY <1>4, <1>r
  <2>3. QED
    BY <2>1, <2>2, <1>r, OthersStay
<1>16. QED
  BY <1>c, <1>5, <1>14, <1>15, OneReader

LEMMA ReadSInv ==
    ASSUME PlainShapes, IInv, SInv, ReadCurrent \/ ReadOld
    PROVE  SInv'
<1>1. call # Idle /\ call.op = "Read"
  BY DEF ReadCurrent, ReadOld, Idle
<1>2. CASE ReadCurrent
  <2>1. /\ current \in Buffer /\ Deliver(current) /\ current.start <= Pos(call.of)
        /\ Pos(call.of) < EndOf(current) /\ EndOf(current) \in ends /\ EndOf(current) \in Nat
    BY <1>2, EndOfType DEF ReadCurrent, InCurrentBuffer, IInv, TypeOK, SInv, EndsOK
  <2>2. QED
    BY <1>1, <2>1, DeliverSInv
<1>3. CASE ReadOld
  <2>1. Holding # {}
    <3>1. Covered(Pos(call.of)) /\ Pos(call.of) \in Nat /\ current.start \in Nat /\ Behind
      BY <1>1, <1>3, CallerOf DEF IInv, TypeOK, Buffer, ReadOld
    <3>2. QED
      BY <3>1 DEF Behind, Covered, Holding
  <2>2. PICK i \in Holding : Deliver(old[i])
    BY <1>3, <2>1 DEF ReadOld
  <2>3. /\ i \in DOMAIN old /\ old[i] \in Buffer /\ old[i].start <= Pos(call.of)
        /\ Pos(call.of) < EndOf(old[i])
    BY <2>2 DEF Holding, IInv, TypeOK
  <2>4. EndOf(old[i]) <= EndOf(current)
    <3>1. EndOf(old[i]) <= current.start
      BY <2>3 DEF IInv, Ordered
    <3>2. EndOf(old[i]) \in Nat
      BY <2>3, EndOfType
    <3>3. current.start \in Nat /\ EndOf(current) \in Nat /\ current.start <= EndOf(current)
      <4>1. current \in Buffer
        BY DEF IInv, TypeOK
      <4>2. QED
        BY <4>1, EndOfType
    <3>4. QED
      BY <3>1, <3>2, <3>3
  <2>5. EndOf(old[i]) \in ends
    BY <2>3 DEF SInv, EndsOK
  <2>6. QED
    BY <1>1, <2>2, <2>3, <2>4, <2>5, DeliverSInv
<1>4. QED
  BY <1>2, <1>3

\* At the end of the source a reader has had everything.
LEMMA ReadEndSInv ==
    ASSUME IInv, SInv, ReadEnd
    PROVE  SInv'
<1> USE ConstantsAssumption
<1>0. call # Idle /\ call.op = "Read" /\ (AtEnd \/ (Behind /\ FlaggedEof))
  BY DEF ReadEnd, Idle
<1>r. PICK r \in Reader : r = call.of
  BY <1>0, CallerOf
<1> DEFINE lacks == IF reader[r].len = None THEN 0 ELSE reader[r].len - Pos(r)
           x == IF lacks > 0 THEN [reader[r] EXCEPT !.zeros = @ + lacks]
                ELSE [reader[r] EXCEPT !.told = TRUE]
<1>c. /\ reader[r] # None /\ reader[r] \in ReaderState /\ Pos(r) \in Nat
      /\ reader[r].first \in Channels(r) /\ Channels(r) \subseteq Channel
  BY <1>0, <1>r, CallerOf
<1>1. eof /\ Pos(r) >= EndOf(current) /\ EndOf(current) \in Nat
  <2>1. eof /\ Pos(r) >= current.start /\ current.start \in Nat
    BY <1>0, <1>r, AtEndHere
  <2>2. EndOf(current) \in Nat
    BY EndOfType DEF IInv, TypeOK
  <2>3. ~InCurrentBuffer
    BY <1>0, <1>c, <1>r, <2>1 DEF AtEnd, Behind
  <2>4. QED
    BY <1>c, <1>r, <2>1, <2>2, <2>3 DEF InCurrentBuffer
<1>2. reader[r].len \in Nat \cup {None} /\ lacks \in Nat /\ (lacks > 0 => reader[r].len # None)
  <2>1. ~Enough(r)
    BY <1>0, <1>r DEF IInv, CallOK
  <2>2. reader[r].len \in Nat \cup {None}
    BY <1>c DEF ReaderState
  <2>3. QED
    BY <1>c, <2>1, <2>2 DEF Enough
<1>3. /\ x.first = reader[r].first /\ x.len = reader[r].len /\ x.got = reader[r].got
      /\ x.eoi <=> reader[r].eoi
      /\ lacks > 0 => x.zeros > 0 /\ (x.told <=> reader[r].told)
      /\ ~(lacks > 0) => x.zeros = reader[r].zeros /\ x.told
  <2>1. CASE lacks > 0
    <3>1. reader[r].zeros + lacks > 0
      BY <1>c, <1>2, <2>1 DEF ReaderState
    <3>2. x = [reader[r] EXCEPT !.zeros = reader[r].zeros + lacks]
      BY <2>1
    <3> HIDE DEF x, lacks
    <3>3. QED
      BY <2>1, <3>1, <3>2, <1>c DEF ReaderState
  <2>2. CASE ~(lacks > 0)
    <3>1. x = [reader[r] EXCEPT !.told = TRUE]
      BY <2>2
    <3> HIDE DEF x, lacks
    <3>2. QED
      BY <2>2, <3>1, <1>c DEF ReaderState
  <2>3. QED
    BY <2>1, <2>2
<1>4. reader' = [reader EXCEPT ![r] = x] /\ reader'[r] = x
  BY <1>c, <1>r DEF ReadEnd, Told, IInv, TypeOK
<1>5. /\ outputs' = [Advance(r, lacks) EXCEPT ![reader[r].first].eof = TRUE]
      /\ UNCHANGED <<current, old, eof, ends>>
  BY <1>r DEF ReadEnd
<1> HIDE DEF x, lacks
<1>6. /\ Advance(r, lacks) \in [Channel -> Output]
      /\ \A c \in Channel :
            Advance(r, lacks)[c].pos = IF c \in Channels(r) THEN Pos(r) + lacks ELSE outputs[c].pos
  BY <1>c, <1>2, AdvanceType DEF IInv
<1>7. \A c \in Channel : outputs'[c].pos = IF c \in Channels(r) THEN Pos(r) + lacks ELSE outputs[c].pos
  <2> DEFINE all == Advance(r, lacks)
  <2>1. all \in [Channel -> Output]
    BY <1>6
  <2>2. outputs' = [all EXCEPT ![reader[r].first].eof = TRUE]
    BY <1>5
  <2> HIDE DEF all
  <2>3. \A c \in Channel : outputs'[c].pos = all[c].pos
    BY <2>1, <2>2, <1>c DEF Output
  <2>4. QED
    BY <2>3, <1>6 DEF all
<1>8. Pos(r)' = Pos(r) + lacks
  BY <1>c, <1>3, <1>4, <1>7 DEF Pos
<1>9. GivenOK(reader[r], Pos(r), EndOf(current), eof, ends)
  BY <1>c DEF SInv
<1>10. Len(reader[r].got) = EndOf(current) /\ (reader[r].zeros = 0 => Pos(r) = EndOf(current))
  BY <1>c, <1>1, <1>9 DEF GivenOK, ReaderState
<1>11. GivenOK(reader[r], Pos(r), EndOf(current), eof, ends)'
  <2>1. EndOf(current)' = EndOf(current)
    BY <1>5 DEF EndOf
  <2>2. /\ x.got = [i \in 1 .. Len(x.got) |-> <<i - 1, x.first>>]
        /\ x.eoi => Len(x.got) \in ends
    BY <1>3, <1>9 DEF GivenOK
  <2>3. x.zeros = 0 => Len(x.got) = Pos(r) + lacks /\ Pos(r) + lacks <= EndOf(current)
    <3>1. CASE lacks > 0
      BY <3>1, <1>2, <1>3
    <3>2. CASE ~(lacks > 0)
      BY <3>2, <1>c, <1>1, <1>2, <1>3, <1>10
    <3>3. QED
      BY <3>1, <3>2
  <2>4. x.zeros > 0 => eof /\ Len(x.got) = EndOf(current) /\ Pos(r) + lacks >= EndOf(current) /\ x.len # None
    <3>1. Pos(r) + lacks >= EndOf(current)
      BY <1>c, <1>1, <1>2
    <3>2. x.zeros > 0 => x.len # None
      <4>1. reader[r].zeros > 0 => reader[r].len # None
        BY <1>9 DEF GivenOK
      <4>2. QED
        BY <4>1, <1>2, <1>3
    <3>3. QED
      BY <3>1, <3>2, <1>1, <1>3, <1>10
  <2>5. x.told => \/ eof /\ Len(x.got) = EndOf(current)
                  \/ x.len # None /\ Len(x.got) >= x.len
    BY <1>1, <1>3, <1>10
  <2>6. GivenOK(x, Pos(r) + lacks, EndOf(current), eof, ends)
    BY <2>2, <2>3, <2>4, <2>5 DEF GivenOK
  <2>7. QED
    BY <2>1, <2>6, <1>4, <1>5, <1>8
<1>12. \A q \in Reader : (q # r /\ reader'[q] # None) => reader'[q] = reader[q] /\ Pos(q)' = Pos(q)
  <2>1. \A c \in Channel : c \notin Channels(call.of) => outputs'[c].pos = outputs[c].pos
    BY <1>7, <1>r
  <2>2. reader' = [reader EXCEPT ![call.of] = x]
    BY <1>4, <1>r
  <2>3. QED
    BY <2>1, <2>2, <1>0, <1>r, OthersStay
<1>13. QED
  BY <1>5, <1>11, <1>12, OneReader

\* Asking for a size gives nothing.
LEMMA SizeSInv ==
    ASSUME IInv, SInv, Size
    PROVE  SInv'
<1> USE ConstantsAssumption
<1>0. call # Idle /\ UNCHANGED <<current, old, eof, reader, ends>>
  BY DEF Size, Idle
<1>r. PICK r \in Reader : r = call.of
  BY <1>0, CallerOf
<1>1. reader[r].first \in Channel
  BY <1>0, <1>r, CallerOf
<1>2. outputs' = IF AtEnd THEN [outputs EXCEPT ![reader[r].first].eof = TRUE] ELSE outputs
  BY <1>r DEF Size
<1>3. \A c \in Channel : outputs'[c].pos = outputs[c].pos
  BY <1>1, <1>2 DEF IInv, TypeOK, Output
<1>4. \A q \in Reader : reader[q] # None => Pos(q)' = Pos(q)
  BY <1>0, <1>3, FirstOwn DEF Pos
<1>5. EndOf(current)' = EndOf(current)
  BY <1>0 DEF EndOf
<1>6. EndsOK'
  BY <1>0 DEF SInv, EndsOK
<1>7. ASSUME NEW q \in Reader, reader[q]' # None
      PROVE  GivenOK(reader[q], Pos(q), EndOf(current), eof, ends)'
  <2>1. reader'[q] = reader[q] /\ reader[q] # None
    BY <1>0, <1>7
  <2>2. Pos(q)' = Pos(q)
    BY <2>1, <1>4
  <2>3. GivenOK(reader[q], Pos(q), EndOf(current), eof, ends)
    BY <2>1 DEF SInv
  <2>4. QED
    BY <2>1, <2>2, <2>3, <1>0, <1>5
<1>8. QED
  BY <1>6, <1>7 DEF SInv

\* No reader has been given anything at first.
LEMMA InitSInv == Init => SInv
BY ConstantsAssumption DEF Init, SInv, EndsOK, EndOf

LEMMA NextSInv ==
    ASSUME PlainShapes, IInv, SInv, [Next]_vars
    PROVE  SInv'
<1>1. ASSUME NEW r \in Reader, NEW group \in Groups, NEW len \in Lengths, GetSource(r, group, len)
      PROVE  SInv'
  BY <1>1, GetSourceSInv
<1>2. ASSUME NEW r \in Reader, Destruct(r)
      PROVE  SInv'
  BY <1>2, DestructSInv
<1>3. ASSUME NEW r \in Reader,
             (\E limit \in Limits : GetEssenceData(r, limit)) \/ GetEssenceDataSize(r)
      PROVE  SInv'
  BY <1>3, AskSInv
<1>4. CASE FillBuffer
  BY <1>4, FillSInv
<1>5. CASE ReadCurrent \/ ReadOld
  BY <1>5, ReadSInv
<1>6. CASE ReadEnd
  BY <1>6, ReadEndSInv
<1>7. CASE Size
  BY <1>7, SizeSInv
<1>8. CASE Over \/ UNCHANGED vars
  <2>1. UNCHANGED <<outputs, current, old, eof, reader, ends>>
    BY <1>8 DEF Over, vars
  <2>2. EndsOK'
    BY <2>1 DEF SInv, EndsOK, EndOf
  <2>3. QED
    BY <2>1, <2>2 DEF SInv, GivenOK, EndOf, Pos
<1>9. QED
  BY <1>1, <1>2, <1>3, <1>4, <1>5, <1>6, <1>7, <1>8 DEF Next

(***************************************************************************)
(* GetEssenceData gives each reader the samples of its own channels, every *)
(* one once and in their order, however far the others are, and tells it   *)
(* the truth about the end: for the sizes of samples in PlainShapes.       *)
(***************************************************************************)
THEOREM SamplesInOrder ==
    ASSUME PlainShapes
    PROVE  Spec => []SamplesTrue
<1>1. Init => IInv /\ SInv
  BY InitIInv, InitSInv
<1>2. ASSUME IInv /\ SInv, [Next]_vars
      PROVE  (IInv /\ SInv)'
  BY <1>2, NextIInv, NextSInv
<1>3. SInv => SamplesTrue
  <2> SUFFICES ASSUME SInv, NEW r \in Reader, reader[r] # None
               PROVE  LET x == reader[r] IN
                      /\ x.got = [i \in 1 .. Len(x.got) |-> <<i - 1, x.first>>]
                      /\ x.zeros > 0 => eof /\ Len(x.got) = Given
                      /\ x.told => \/ eof /\ Len(x.got) = Given
                                   \/ x.len # None /\ Len(x.got) >= x.len
                      /\ x.eoi => Len(x.got) \in ends
    BY DEF SamplesTrue, InOrder, EndTrue, Reading
  <2>1. GivenOK(reader[r], Pos(r), EndOf(current), eof, ends)
    BY DEF SInv
  <2>2. QED
    BY <2>1 DEF GivenOK, Given
<1>4. QED
  BY <1>1, <1>2, <1>3, PTL DEF Spec
=============================================================================
