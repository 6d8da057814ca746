------------------------------ MODULE Recovery ------------------------------
(***************************************************************************)
(* Finding the partitions of a file whose writer may have stopped at any   *)
(* point, or that lost its end on the way: the readers of class MXFFile,   *)
(* mxflib/mxffile.cpp, that fill the random index pack FileRIP (ReadRIP,   *)
(* ScanRIP, BuildRIP, GetRIP), look for the footer (FindFooter,            *)
(* ReadFooterPartition, ReadMasterPartition) and tell whether something is *)
(* missing (IsTruncated).                                                  *)
(*                                                                         *)
(* A file is a sequence of KLV items of four units each: the key, the      *)
(* length, and two of value, so that it can end within each.  In the value *)
(* of a partition pack the first unit has PreviousPartition and            *)
(* FooterPartition, the second the byte counts and the BodySID.  Positions *)
(* and byte counts are in units.                                           *)
(***************************************************************************)
EXTENDS Integers, Sequences, FiniteSets, FiniteSetsExt

CONSTANTS
    Bodies,     \* at most so many body partitions
    Sids,       \* BodySIDs, 0 if there is no essence
    MaxScan     \* how far from the end FindFooter searches, in units

ASSUME RecoveryAssumption == Bodies \in Nat /\ Sids \subseteq Nat /\ MaxScan \in Nat

VARIABLES
    file,       \* what was written
    size,       \* how much of it there is
    phase,      \* "writing", "reading"
    rip,        \* FileRIP of the reader: BodySIDs by position of the pack
    known,      \* TruncatedKnown and Truncated: "unknown", "yes", "no"
    last        \* the last call of the reader and what it returned

vars == <<file, size, phase, rip, known, last>>

U == 4

Packs == {"header", "body", "footer"}

Items == [kind : Packs \cup {"fill", "meta", "index", "essence", "rip"},
          prev : Nat, foot : Nat, hdr : Nat, idx : Nat, sid : Nat, closed : BOOLEAN]

NoPack == [kind |-> "none"]

Entry == [at : Nat, sid : Nat]

TypeOK ==
    /\ file \in Seq(Items)
    /\ size \in 0..(U * Len(file))
    /\ phase \in {"writing", "reading"}
    /\ rip \in SUBSET Entry
    /\ \A e, f \in rip : e.at = f.at => e = f
    /\ known \in {"unknown", "yes", "no"}
    /\ last.op \in {"none", "GetRIP", "IsTruncated", "Footer", "Master"}
-----------------------------------------------------------------------------
(***************************************************************************)
(* The writer: BodyWriter and the tools, by the order in which they write. *)
(***************************************************************************)

Item(kind) ==
    [kind |-> kind, prev |-> 0, foot |-> 0, hdr |-> 0, idx |-> 0, sid |-> 0, closed |-> FALSE]

At(i) == U * (i - 1)

PackItems(f) == {i \in DOMAIN f : f[i].kind \in Packs}

\* WritePartitionPack sets PreviousPartition from the RIP.
PreviousPartition == IF PackItems(file) = {} THEN 0 ELSE At(Max(PackItems(file)))

\* WritePartition: the pack, a filler if there is a KAG, metadata, index.
WritePartition(kind, sid, fill, meta, index) ==
    LET pack == [Item(kind) EXCEPT
            !.prev = PreviousPartition,
            !.foot = IF kind = "footer" THEN U * Len(file) ELSE 0,
            !.sid = sid, !.hdr = IF meta THEN U ELSE 0, !.idx = IF index THEN U ELSE 0]
        rest == (IF fill THEN <<Item("fill")>> ELSE << >>)
                  \o (IF meta THEN <<Item("meta")>> ELSE << >>)
                  \o (IF index THEN <<Item("index")>> ELSE << >>)
    IN /\ file' = Append(file, pack) \o rest
       /\ size' = U * Len(file')

Writing == phase = "writing" /\ UNCHANGED <<phase, rip, known, last>>

LastPack == file[Max(PackItems(file))]

Filled == file[2].kind = "fill"

WriteHeader(fill, sid, index) ==
    /\ Writing /\ file = << >>
    /\ WritePartition("header", sid, fill, TRUE, index)

\* Index tables in partitions of their own, or essence.
WriteBodyPartition(sid, index) ==
    /\ index = (sid = 0)
    /\ Writing /\ file # << >> /\ LastPack.kind # "footer"
    /\ Cardinality(PackItems(file)) <= Bodies
    /\ WritePartition("body", sid, Filled, FALSE, index)

WriteEssence ==
    /\ Writing /\ file # << >> /\ LastPack.sid # 0
    /\ file[Len(file)].kind # "essence"
    /\ file' = Append(file, [Item("essence") EXCEPT !.sid = LastPack.sid])
    /\ size' = U * Len(file')

WriteFooter(meta, index) ==
    /\ Writing /\ file # << >> /\ LastPack.kind # "footer"
    /\ WritePartition("footer", 0, Filled /\ (meta \/ index), meta, index)

WriteRIP ==
    /\ Writing /\ file # << >> /\ LastPack.kind = "footer" /\ file[Len(file)].kind # "rip"
    /\ file' = Append(file, Item("rip"))
    /\ size' = U * Len(file')

\* The header is written again, with the place of the footer, and closed if
\* its metadata is written again, too.
UpdateHeader(closed) ==
    /\ Writing /\ file # << >> /\ file[Len(file)].kind = "rip" /\ file[1].foot = 0
    /\ file' = [file EXCEPT ![1].foot = At(Max(PackItems(file))), ![1].closed = closed]
    /\ UNCHANGED size

\* The writer stops, or the copy of the file ends, after n units.
Stop(n) ==
    /\ phase = "writing"
    /\ phase' = "reading"
    /\ size' = n
    /\ UNCHANGED <<file, rip, known, last>>
-----------------------------------------------------------------------------
(***************************************************************************)
(* Reading items                                                           *)
(***************************************************************************)

ItemAt(p) == file[(p \div U) + 1]

HasKey(p) == p < size

HasLength(p) == p + 1 < size

\* The end of what a read that starts at p consumes.
EndOf(p) == IF p + U < size THEN p + U ELSE size

\* ReadPartition: a pack that is cut short comes with the values that are there.
ReadPartition(p) ==
    IF ~HasKey(p) \/ ItemAt(p).kind \notin Packs THEN NoPack
    ELSE [ItemAt(p) EXCEPT
            !.prev = IF p + 2 < size THEN @ ELSE 0, !.foot = IF p + 2 < size THEN @ ELSE 0,
            !.hdr = IF p + 3 < size THEN @ ELSE 0, !.idx = IF p + 3 < size THEN @ ELSE 0,
            !.sid = IF p + 3 < size THEN @ ELSE 0]

ItemStarts == {At(i) : i \in 1..Len(file)}

FooterKeys == {p \in ItemStarts : HasKey(p) /\ ItemAt(p).kind = "footer"}

\* FindFooter: the place of the footer key in the last MaxScan units, or 0.
FindFooter ==
    LET found == {p \in FooterKeys : p >= size - MaxScan}
    IN IF found = {} THEN 0 ELSE Max(found)

\* The last four bytes of a RIP are its length, so it must be there up to its end.
RIPThere == size > 0 /\ size % U = 0 /\ ItemAt(size - U).kind = "rip"

Entries(P) == {[at |-> p, sid |-> ReadPartition(p).sid] : p \in P}

\* ReadRIP: WriteRIP wrote where it had put each partition, and its BodySID.
RIPValue ==
    {[at |-> At(i), sid |-> file[i].sid] : i \in PackItems(file)}

ScanLoose[p \in Nat] ==
    LET pack == ReadPartition(p)
    IN IF pack = NoPack
         THEN IF p = 0 THEN [ok |-> FALSE, rip |-> {}] ELSE ScanLoose[0]
       ELSE IF p = 0 THEN [ok |-> TRUE, rip |-> Entries({0})]
       ELSE [ScanLoose[pack.prev] EXCEPT !.rip = @ \cup Entries({p})]

\* The loop of ScanRIP from p back along PreviousPartition.
ScanBack[p \in Nat] ==
    LET pack == ReadPartition(p)
    IN IF pack = NoPack
         THEN IF p = 0 THEN [ok |-> FALSE, rip |-> {}]
              ELSE [ScanBack[0] EXCEPT !.ok = FALSE]
       ELSE IF p = 0 THEN [ok |-> TRUE, rip |-> Entries({0})]
       ELSE IF pack.prev >= p THEN [ok |-> FALSE, rip |-> Entries({p})]
       ELSE [ScanBack[pack.prev] EXCEPT !.rip = @ \cup Entries({p})]

FooterPosition(header) == IF header.foot # 0 THEN header.foot ELSE FindFooter

ScanRIPLoose ==
    LET header == ReadPartition(0)
    IN IF header = NoPack \/ FooterPosition(header) = 0 THEN [ok |-> FALSE, rip |-> {}]
       ELSE ScanLoose[FooterPosition(header)]

ScanRIP ==
    LET header == ReadPartition(0)
    IN IF header = NoPack \/ FooterPosition(header) = 0 THEN [ok |-> FALSE, rip |-> {}]
       ELSE ScanBack[FooterPosition(header)]

\* Where BuildRIP goes on after the pack at p, with byte counts in it: behind
\* metadata and index if that is in the file, otherwise it looks through them.
SkipCounts(p) ==
    LET pack == ReadPartition(p)
        start == IF ItemAt(EndOf(p)).kind = "fill" THEN EndOf(EndOf(p)) ELSE EndOf(p)
    IN IF HasKey(start + pack.hdr + pack.idx) THEN start + pack.hdr + pack.idx ELSE start

\* BuildRIP from p on, item by item.
Walk[p \in Nat] ==
    LET pack == ReadPartition(p)
        added(from) == [Walk[from] EXCEPT !.rip = @ \cup Entries({p})]
    IN IF ~HasKey(p) THEN [ok |-> TRUE, rip |-> {}]
       ELSE IF pack # NoPack
         THEN IF pack.hdr + pack.idx = 0 THEN added(EndOf(p))
              ELSE IF ~HasKey(EndOf(p)) THEN [ok |-> FALSE, rip |-> Entries({p})]
              ELSE added(SkipCounts(p))
       ELSE IF ~HasLength(p) THEN [ok |-> FALSE, rip |-> {}]
       ELSE Walk[p + U]

BuildRIP == Walk[0]
-----------------------------------------------------------------------------
(***************************************************************************)
(* The calls of the reader                                                 *)
(***************************************************************************)

Reading == phase = "reading" /\ UNCHANGED <<file, size, phase>>

GetRIP ==
    /\ Reading
    /\ LET result == IF RIPThere THEN [ok |-> TRUE, rip |-> RIPValue]
                     ELSE IF ScanRIP.ok THEN ScanRIP
                     ELSE BuildRIP
       IN /\ rip' = result.rip
          /\ last' = [op |-> "GetRIP", ok |-> result.ok]
    /\ UNCHANGED known

\* Where the footer is, by the header, the RIP at hand, the RIP in the file,
\* or its key; 0 if it is nowhere.
LocateFooter(header) ==
    IF header.foot # 0 THEN header.foot
    ELSE IF Cardinality(rip) >= 2 THEN Max({e.at : e \in rip})
    ELSE IF RIPThere THEN Max({e.at : e \in RIPValue})
    ELSE FindFooter

\* Looking for it without a RIP at hand makes ReadRIP empty or fill FileRIP.
RIPAfterLocate(header) ==
    IF header.foot # 0 \/ Cardinality(rip) >= 2 THEN rip
    ELSE IF RIPThere THEN RIPValue ELSE {}

ReadFooterPartition ==
    /\ Reading
    /\ LET header == ReadPartition(0)
       IN IF header = NoPack
            THEN last' = [op |-> "Footer", pack |-> NoPack] /\ UNCHANGED rip
            ELSE /\ rip' = RIPAfterLocate(header)
                 /\ last' = [op |-> "Footer",
                             pack |-> IF LocateFooter(header) = 0 THEN NoPack
                                      ELSE ReadPartition(LocateFooter(header))]
    /\ UNCHANGED known

MasterAny(header) ==
    IF header.closed \/ LocateFooter(header) = 0 THEN header ELSE ReadPartition(LocateFooter(header))

MasterOf(header) ==
    LET pack == ReadPartition(LocateFooter(header))
    IN IF header.closed THEN header
       ELSE IF LocateFooter(header) = 0 \/ pack = NoPack THEN NoPack
       ELSE IF pack.hdr # 0 /\ pack.kind = "footer" THEN pack ELSE NoPack

ReadMasterPartition ==
    /\ Reading
    /\ LET header == ReadPartition(0)
       IN IF header = NoPack
            THEN last' = [op |-> "Master", pack |-> NoPack] /\ UNCHANGED rip
            ELSE /\ rip' = IF header.closed THEN rip ELSE RIPAfterLocate(header)
                 /\ last' = [op |-> "Master", pack |-> MasterOf(header)]
    /\ UNCHANGED known

\* The last key of interest, backwards from the end of the file.
LastKey ==
    LET keys == {p \in ItemStarts : HasKey(p) /\ ItemAt(p).kind \in {"footer", "essence"}}
    IN IF keys = {} THEN 0 ELSE Max(keys)

CutPack(p) == p + U > size

\* Whether the partition at p, taken for the footer, is cut short.
CutShort(p) ==
    LET pack == ReadPartition(p)
        after == EndOf(p)
        start == IF HasKey(after) /\ ItemAt(after).kind = "fill" THEN after + U ELSE after
    IN p + U > size \/ start + pack.hdr + pack.idx > size

\* The file has a header pack, as it could be opened.
IsTruncated(details) ==
    /\ Reading
    /\ HasKey(0)
    /\ LET header == ReadPartition(0)
           test ==
             IF header.foot # 0
               THEN size <= header.foot \/ CutShort(header.foot)
             ELSE IF RIPThere THEN FALSE
             ELSE IF HasKey(LastKey) /\ ItemAt(LastKey).kind = "essence"
               THEN details \/ CutShort(0)
             ELSE CutShort(LastKey)
           answer == IF known # "unknown" /\ ~details THEN known = "yes" ELSE test
       IN /\ last' = [op |-> "IsTruncated", details |-> details, answer |-> answer]
          /\ known' = IF answer THEN "yes" ELSE "no"
          /\ rip' = IF (known = "unknown" \/ details) /\ header.foot = 0
                      THEN IF RIPThere THEN RIPValue ELSE {}
                    ELSE rip
-----------------------------------------------------------------------------
Init ==
    /\ file = << >> /\ size = 0
    /\ phase = "writing"
    /\ rip = {}
    /\ known = "unknown"
    /\ last = [op |-> "none"]

Write ==
    \/ \E fill, index \in BOOLEAN, sid \in Sids : WriteHeader(fill, sid, index)
    \/ \E sid \in Sids, index \in BOOLEAN : WriteBodyPartition(sid, index)
    \/ WriteEssence
    \/ \E meta, index \in BOOLEAN : WriteFooter(meta, index)
    \/ WriteRIP
    \/ \E closed \in BOOLEAN : UpdateHeader(closed)

Read ==
    \/ GetRIP
    \/ ReadFooterPartition
    \/ ReadMasterPartition
    \/ \E details \in BOOLEAN : IsTruncated(details)

Next ==
    \/ Write
    \/ \E n \in 0..size : Stop(n)
    \/ Read

Spec == Init /\ [][Next]_vars
-----------------------------------------------------------------------------
(***************************************************************************)
(* Properties                                                              *)
(***************************************************************************)

\* The partitions whose pack starts within what is left of the file.
Present == {At(i) : i \in {j \in PackItems(file) : At(j) < size}}

Positions(entries) == {e.at : e \in entries}

\* Is the last partition there with its first value unit, so that the
\* way back from it starts at the right place?
LinkThere == FooterKeys = {} \/ Max(FooterKeys) + 2 < size

\* Whatever the writer had done and wherever the file ends, GetRIP finds each
\* partition that is there and nothing else, by whichever way it goes, unless
\* the file ends within the first values of the footer pack.
Found == last.op = "GetRIP" /\ LinkThere => Positions(rip) = Present

\* A BodySID in the RIP is that of the partition, or 0 in a pack cut short.
SidsTrue ==
    \A e \in rip : e.sid # 0 => e.at \in Present /\ ItemAt(e.at).sid = e.sid

\* What ReadMasterPartition returns has final metadata.
MasterFinal ==
    last.op = "Master" /\ last.pack # NoPack =>
        last.pack.closed \/ (last.pack.kind = "footer" /\ last.pack.hdr # 0)

\* The RIP lists the partitions of the file, whichever of its parts are left, and the
\* master partition is one with final metadata.
AllFound == TypeOK /\ Found /\ SidsTrue /\ MasterFinal

\* The file as the writer left it, up to the end of its footer.
Finished ==
    /\ PackItems(file) # {} /\ LastPack.kind = "footer"
    /\ LET i == Max(PackItems(file))
           counts == file[i].hdr + file[i].idx
       IN size >= U * (i + (IF counts # 0 /\ Filled THEN 1 ELSE 0)) + counts

\* A file with its footer is not called truncated, however often and in
\* whatever way it is asked.
WholeIsWhole == last.op = "IsTruncated" /\ Finished => ~last.answer

\* A file that ends before the end of its footer is found out when the caller
\* asks for details, if there is essence in what is left of it or its header
\* says where the footer is.
TruncationSeen ==
    last.op = "IsTruncated" /\ last.details /\ ~Finished
      /\ (ReadPartition(0).foot # 0 \/ LastKey # 0) => last.answer

\* IsTruncated with details tells the truth, and without it never calls a
\* whole file truncated, whatever it was asked before.
TruncationTrue == WholeIsWhole /\ TruncationSeen
=============================================================================
