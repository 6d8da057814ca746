-------------------------- MODULE PartitionLayout ---------------------------
(***************************************************************************)
(* Where the bytes of a partition go: MXFFile::WritePartitionInternal of   *)
(* mxflib/mxffile.cpp, with FillerSize and Align, for writing a partition  *)
(* and for writing it again in its place.                                  *)
(*                                                                         *)
(* A file is a set of spans [what, from, to) of bytes.  The byte counts in *)
(* the pack are computed before anything is written; what is then written  *)
(* has to agree with them.                                                 *)
(***************************************************************************)
EXTENDS Integers, FiniteSets

CONSTANTS
    Layouts,    \* partitions that are written: settings that stay and sizes
    Rewrites,   \* sizes of metadata and index table that are written in their place
    Drops       \* may a partition with an index table be written again without one

Kinds == {"header", "body", "footer"}

\* KAGSize, the kind, BlockAlign with its two offsets, BodySID.
Settings ==
    [kind : Kinds, kag : Nat, block : [size : Nat, essence : Nat, index : Nat], sid : Nat]

\* Where it starts, the sizes of the pack, of primer and metadata (0 without),
\* of the index table (0 without), requested padding and least size.
Sizes == [start : Nat, pack : Nat \ {0}, meta : Nat, index : Nat, padding : Nat, min : Nat]

LayoutAssumption == Layouts \subseteq Settings \X Sizes /\ Rewrites \subseteq (Nat \ {0}) \X Nat /\ Drops \in BOOLEAN

VARIABLES
    set,        \* the settings of the partition that stay: KAG, kind, block, BodySID
    counts,     \* byte counts in its pack: header, index
    spans,      \* the bytes of the file from the start of the partition
    tail,       \* where the essence behind the partition starts, -1 before it does
    result      \* of the last call

vars == <<set, counts, spans, tail, result>>

Span == [what : {"pack", "fill", "meta", "index", "torn"}, from : Nat, to : Nat]

TypeOK ==
    /\ set.kind \in Kinds \cup {"none"}
    /\ counts.header \in Nat /\ counts.index \in Nat
    /\ spans \in SUBSET Span
    /\ tail \in Nat \cup {-1}
    /\ result \in {"none", "written", "rewritten", "refused"}
-----------------------------------------------------------------------------
MaxOf(a, b) == IF a > b THEN a ELSE b

\* while(Fill < least) Fill += KAG
Raise(fill, least, kag) ==
    IF fill >= least THEN fill ELSE fill + kag * ((least - fill + kag - 1) \div kag)

\* FillerSize(false, ...): to the next multiple of the KAG, at least the
\* bytes asked for, and at least the 17 of the smallest filler.
FillerSize(at, size, least) ==
    LET kag == MaxOf(size, 1)
    IN IF at % kag = 0 /\ least = 0 THEN 0
       ELSE Raise(Raise(kag - (at % kag), least, kag), 17, kag)

\* The least multiple of the block, by adding blocks, that gives n bytes.
AddBlocks(n, least, block) == Raise(n, least, block)

\* Bytes up to the block boundary (with its offset) at or after before + size.
ToBlock(before, size, offset, block) ==
    LET blocks == ((before + size + offset - 1) \div block) + 1
    IN blocks * block - before + offset - size

\* HeaderByteCount of a new partition before block alignment.
HeaderCount(s, a) ==
    IF a.meta = 0 THEN 0
    ELSE IF s.block.size # 0 /\ (a.index # 0 \/ s.sid # 0) THEN a.meta
    ELSE IF (a.padding > 0 \/ a.min > a.meta) /\ a.index = 0
      THEN a.meta + FillerSize(a.meta, s.kag, MaxOf(a.min - a.meta, a.padding))
    ELSE IF s.kind # "footer" \/ a.index # 0
      THEN a.meta + FillerSize(a.meta, s.kag, 0)
    ELSE a.meta

\* The filler that WritePartitionInternal expects between pack and metadata.
LeadingFill(s, a) == IF s.kag > 1 /\ a.meta > 0 THEN FillerSize(a.pack, s.kag, 0) ELSE 0

\* Block alignment of what follows the metadata: the HeaderByteCount with it.
BlockHeader(s, a) ==
    LET h == HeaderCount(s, a)
        before == (a.start % s.block.size) + a.pack + LeadingFill(s, a)
        offset == IF a.index # 0 THEN s.block.index ELSE s.block.essence
        fill == AddBlocks(ToBlock(before, h, offset, s.block.size), 20, s.block.size)
        padded == AddBlocks(fill, a.padding, s.block.size)
        enough == AddBlocks(padded, a.min - (a.pack + LeadingFill(s, a) + h), s.block.size)
    IN h + (IF a.index # 0 THEN fill ELSE enough)

\* IndexByteCount of a new partition, behind h bytes of metadata.
IndexCount(s, a, h) ==
    IF a.index = 0 THEN 0
    ELSE IF s.block.size # 0 /\ s.sid # 0
      THEN LET lead == IF s.kag > 1 THEN FillerSize(a.pack, s.kag, 0) ELSE 0
               before == (a.start % s.block.size) + a.pack + lead + h
               fill == AddBlocks(ToBlock(before, a.index, s.block.essence, s.block.size), 20, s.block.size)
               padded == AddBlocks(fill, a.padding, s.block.size)
           IN a.index + AddBlocks(padded, a.min - (a.pack + lead + h + a.index), s.block.size)
    ELSE IF s.kind # "footer" \/ a.padding > 0 \/ a.min > h
      THEN a.index + FillerSize(a.index, s.kag, MaxOf(a.min - (h + a.index), a.padding))
    ELSE a.index

\* The byte counts that go into the pack of a new partition, and the bytes of
\* metadata and filler that are written.
NewCounts(s, a) ==
    LET blocked == s.block.size # 0 /\ (a.index # 0 \/ s.sid # 0)
        h == IF blocked THEN BlockHeader(s, a) ELSE HeaderCount(s, a)
    IN [header |-> IF a.meta > 0 THEN h ELSE 0, written |-> h, index |-> IndexCount(s, a, h)]

\* May the old layout be used again for new bytes?
Refits(new, old) == new <= old /\ (old - new >= 17 \/ old = new)

OldCountsLoose(s, a, old) ==
    LET h == a.meta + FillerSize(a.meta, s.kag, 0)
        i == IF a.index = 0 THEN 0 ELSE a.index + FillerSize(a.index, s.kag, 0)
    IN IF h + i > old.header + old.index THEN [fits |-> FALSE]
       ELSE [fits |-> TRUE, header |-> h, written |-> h, index |-> i]

\* The byte counts when metadata and index are written in place of old ones.
OldCounts(s, a, old) ==
    LET h == a.meta + FillerSize(a.meta, s.kag, 0)
        i == IF a.index = 0 THEN 0 ELSE a.index + FillerSize(a.index, s.kag, 0)
        spare == (old.header + old.index) - (h + i)
        kept == [fits |-> TRUE, header |-> old.header, written |-> old.header, index |-> old.index]
        \* the filler behind an index that takes exactly what it has is added again
        more(n) == IF a.index # 0 /\ s.kind # "footer" THEN n + FillerSize(n, s.kag, 0) ELSE n
    IN IF Refits(a.meta, old.header) /\ Refits(a.index, old.index)
         THEN IF a.index = old.index THEN [kept EXCEPT !.index = more(@)] ELSE kept
       ELSE IF spare < 17 THEN [fits |-> FALSE]
       ELSE IF a.index # 0
         THEN [fits |-> TRUE, header |-> h, written |-> h, index |-> more(i + spare)]
       ELSE [fits |-> TRUE, header |-> h + spare, written |-> h + spare, index |-> old.index]

\* The filler behind the pack that is written.
PackFill(s, a, at) ==
    IF a.meta = 0 /\ a.index = 0 /\ a.padding > 0 THEN FillerSize(at, s.kag, a.padding)
    ELSE IF s.kag > 1 /\ (s.kind # "footer" \/ a.meta # 0 \/ a.index # 0) /\ s.block.size = 0
      THEN FillerSize(at, s.kag, 0)
    ELSE 0

NonEmpty(S) == {x \in S : x.from < x.to}

\* What is written for counts c, in order.
Written(s, a, c) ==
    LET p == a.start + a.pack
        m == p + PackFill(s, a, p)
        f == m + a.meta
        fill == IF c.written = a.meta THEN 0 ELSE FillerSize(f, 1, c.written - a.meta)
        i == f + fill
        g == i + a.index
        last == IF a.index = 0 \/ c.index = a.index THEN 0 ELSE FillerSize(g, 1, c.index - a.index)
    IN NonEmpty({[what |-> "pack", from |-> a.start, to |-> p], [what |-> "fill", from |-> p, to |-> m],
                 [what |-> "meta", from |-> m, to |-> f], [what |-> "fill", from |-> f, to |-> i],
                 [what |-> "index", from |-> i, to |-> g], [what |-> "fill", from |-> g, to |-> g + last]})

EndOf(S) == CHOOSE x \in {y.to : y \in S} : \A y \in S : y.to <= x

\* New bytes over old ones: what they cover is gone, in part or altogether.
Over(new, old) ==
    new \cup {x \in old : x.from >= EndOf(new)}
        \cup {[x EXCEPT !.what = "torn", !.from = EndOf(new)] :
                x \in {y \in old : y.from < EndOf(new) /\ y.to > EndOf(new)}}
-----------------------------------------------------------------------------
NoSettings == [kind |-> "none"]

Init ==
    /\ set = NoSettings
    /\ counts = [header |-> 0, index |-> 0]
    /\ spans = {} /\ tail = -1
    /\ result = "none"

\* A partition at the end of the file, at a multiple of its KAG.
WritePartition(s, a) ==
    /\ set = NoSettings
    /\ s.kind = "footer" => s.sid = 0
    /\ s.kag > 1 => a.start % s.kag = 0
    /\ LET c == NewCounts(s, a)
       IN /\ set' = s
          /\ counts' = [header |-> c.header, index |-> c.index]
          /\ spans' = Written(s, a, c)
    /\ result' = "written"
    /\ UNCHANGED tail

\* Essence, or the next partition, follows.
Continue ==
    /\ set # NoSettings /\ tail = -1
    /\ tail' = EndOf(spans)
    /\ UNCHANGED <<set, counts, spans, result>>

PackSpan == CHOOSE x \in spans : x.what = "pack"

\* A partition with an index table is written again with one.
KeepsIndex(index) == index > 0 \/ counts.index = 0

\* ReWritePartition and ReWritePartitionWithIndex: the pack keeps its size.
ReWritePartition(meta, index) ==
    /\ tail # -1 /\ (Drops \/ KeepsIndex(index))
    /\ LET a == [start |-> PackSpan.from, pack |-> PackSpan.to - PackSpan.from,
                 meta |-> meta, index |-> index, padding |-> 0, min |-> 0]
           c == OldCounts(set, a, counts)
       IN IF c.fits
            THEN /\ counts' = [header |-> c.header, index |-> c.index]
                 /\ spans' = Over(Written(set, a, c), spans)
                 /\ result' = "rewritten"
            ELSE /\ result' = "refused"
                 /\ UNCHANGED <<counts, spans>>
    /\ UNCHANGED <<set, tail>>

Next ==
    \/ \E l \in Layouts : WritePartition(l[1], l[2])
    \/ Continue
    \/ \E r \in Rewrites : ReWritePartition(r[1], r[2])

Spec == Init /\ [][Next]_vars
-----------------------------------------------------------------------------
(***************************************************************************)
(* Properties                                                              *)
(***************************************************************************)

There == set # NoSettings

FillAt(p) == {x \in spans : x.what = "fill" /\ x.from = p}

\* Where a reader starts to count: behind the pack and a filler after it.
CountStart ==
    IF FillAt(PackSpan.to) = {} THEN PackSpan.to ELSE (CHOOSE x \in FillAt(PackSpan.to) : TRUE).to

\* A rewrite does not know the filler of the block alignment behind a pack
\* without metadata.
AsAligned == set.block.size = 0 \/ result = "written"

\* A reader that follows the byte counts of the pack (BuildRIP, ReadMetadata,
\* ReadIndex) finds metadata and index where they are, and the essence behind.
CountsLead ==
    There /\ AsAligned =>
      /\ counts.header > 0 => \E x \in spans : x.what = "meta" /\ x.from = CountStart
      /\ counts.index > 0 =>
           \E x \in spans : x.what = "index" /\ x.from = CountStart + counts.header
      /\ counts.header + counts.index > 0 =>
           CountStart + counts.header + counts.index = EndOf(spans)

\* No filler is smaller than a KLV with an empty value.
FillersFit == \A x \in spans : x.what = "fill" => x.to - x.from >= 17

\* Without block alignment essence and index start on the KAG.
KagKept ==
    There /\ set.kag > 1 /\ set.kind # "footer" /\ set.block.size = 0 =>
        /\ EndOf(spans) % set.kag = 0
        /\ \A x \in spans : x.what \in {"meta", "index"} => x.from % set.kag = 0

\* Whatever is written again in place of a partition, as often as one likes,
\* ends where the partition ended: it neither runs into the essence behind
\* it nor leaves a gap.
RewriteInPlace == tail # -1 /\ AsAligned => EndOf(spans) = tail

\* With block alignment essence and index tables start at their offsets from
\* the block grid, until the partition is written again ("we may break any
\* block alignment", says the code of a new layout for an old partition).
BlockKept ==
    result = "written" /\ set.block.size # 0 =>
        /\ set.sid # 0 => EndOf(spans) % set.block.size = set.block.essence % set.block.size
        /\ \A x \in spans :
             x.what = "index" => x.from % set.block.size = set.block.index % set.block.size
=============================================================================
