------------------------------- MODULE Primer -------------------------------
(***************************************************************************)
(* Local tags: class Primer of mxflib/primer.h and .cpp, with the objects  *)
(* that are written and read through primers (MDObject::WriteKey and the   *)
(* constructor from a tag).                                                *)
(*                                                                         *)
(* A primer is the map of tags to the ULs they stand for, the reverse map  *)
(* TagLookup, and the next dynamic tag to try.  A property is its UL.  The *)
(* application writes properties through the primer of a partition, writes *)
(* the primer, and reads partitions that it, or somebody else, wrote.  The *)
(* tag that an object holds from the time when it was made or read, maybe  *)
(* from another file or from the primer of the dictionary, is any tag.     *)
(***************************************************************************)
EXTENDS Integers, Sequences, FiniteSets, SequencesExt

CONSTANTS
    Property,       \* ULs of metadata properties
    Unknown,        \* the UL of an object whose tag means nothing
    BuiltInTag,     \* the static tag of each property, 0 if it has none
    LowDynamic,     \* 0x8000
    TopDynamic,     \* 0xffff
    Foreign,        \* partitions that other programs wrote
    Metadict        \* properties that a metadictionary may define, and their tags

UL == Property \cup {Unknown}

Tag == 0..TopDynamic

\* What header metadata is on file: the entries of the primer pack, how many
\* its vector header claims, and the items, each a tag and what it holds.
FileType == [pack: Seq(Tag \X UL), claimed: Nat, items: SUBSET (Tag \X UL)]

PrimerAssumption ==
    /\ LowDynamic \in Nat \ {0} /\ TopDynamic \in Nat
    /\ Unknown \notin Property
    /\ BuiltInTag \in [UL -> Tag] /\ BuiltInTag[Unknown] = 0
    /\ Foreign \subseteq FileType
    /\ Metadict \subseteq Property \X (Tag \ {0})

VARIABLES
    tagOf,      \* GetTag of the type of each UL, 0 for none
    primer,     \* the primer of the partition
    items,      \* items written through it, not yet on file
    file        \* the partition on file

vars == <<tagOf, primer, items, file>>

MapType(D, R) == UNION {[S -> R] : S \in SUBSET D}

PrimerType == [tags: MapType(Tag, UL), lookup: MapType(UL, Tag), next: Int]

TypeOK ==
    /\ tagOf \in [UL -> Tag]
    /\ primer \in PrimerType
    /\ items \subseteq Tag \X UL
    /\ file \in FileType
-----------------------------------------------------------------------------
\* std::map::insert, which leaves an entry that is already there alone.
MapInsert(f, k, v) ==
    IF k \in DOMAIN f THEN f ELSE [x \in DOMAIN f \cup {k} |-> IF x = k THEN v ELSE f[x]]

NewPrimer == [tags |-> << >>, lookup |-> << >>, next |-> TopDynamic]

Insert(p, t, u) ==
    [p EXCEPT !.tags = MapInsert(@, t, u), !.lookup = MapInsert(@, u, t)]

Free(p) == {t \in LowDynamic..p.next : t \notin DOMAIN p.tags}

Largest(S) == CHOOSE t \in S : \A x \in S : x <= t

\* The loop that looks for an unused dynamic tag downwards from NextDynamic.
DynamicLookup(p, u) ==
    IF Free(p) = {}
      THEN [tag |-> 0, primer |-> [p EXCEPT !.next = IF @ < LowDynamic THEN @ ELSE LowDynamic - 1]]
      ELSE LET t == Largest(Free(p))
           IN [tag |-> t, primer |-> [Insert(p, t, u) EXCEPT !.next = t - 1]]

SuggestedAny(p, u, try) == try # 0 /\ try \in DOMAIN p.tags

\* The tag suggested stands for the UL in this primer.
Suggested(p, u, try) == try # 0 /\ try \in DOMAIN p.tags /\ p.tags[try] = u

Lookup(p, u, try) ==
    IF Suggested(p, u, try) THEN [tag |-> try, primer |-> p]
    ELSE IF u \in DOMAIN p.lookup THEN [tag |-> p.lookup[u], primer |-> p]
    ELSE IF tagOf[u] # 0 THEN [tag |-> tagOf[u], primer |-> Insert(p, tagOf[u], u)]
    ELSE DynamicLookup(p, u)

\* ReadValue empties the map of tags, and only that, and reads the entries
\* that are there and that the vector header claims.
ReadValue(p, pack, claimed) ==
    LET read == IF claimed < Len(pack) THEN SubSeq(pack, 1, claimed) ELSE pack
    IN FoldLeft(LAMBDA q, e : Insert(q, e[1], e[2]), [p EXCEPT !.tags = << >>], read)

\* The vector of all entries, in the order of the tags.
Pack(p) ==
    LET entries == {<<t, p.tags[t]>> : t \in DOMAIN p.tags}
    IN SetToSortSeq(entries, LAMBDA a, b : a[1] < b[1])

\* MDOType::MakePrimer: the primer of the dictionary.
StaticPrimer ==
    FoldSet(LAMBDA u, p : IF BuiltInTag[u] = 0 THEN p ELSE Insert(p, BuiltInTag[u], u),
            NewPrimer, UL)

\* The UL of an item with this tag: from the primer, else from the primer of
\* the dictionary.
Decode(p, t) ==
    IF t \in DOMAIN p.tags THEN p.tags[t]
    ELSE IF t \in DOMAIN StaticPrimer.tags THEN StaticPrimer.tags[t] ELSE Unknown
-----------------------------------------------------------------------------
Init ==
    /\ tagOf = BuiltInTag
    /\ primer = NewPrimer
    /\ items = {}
    /\ file = [pack |-> << >>, claimed |-> 0, items |-> {}]

\* A metadictionary defines a property with the tag it had in its own file.
LoadMetadictionary(u, t) ==
    /\ tagOf[u] = 0
    /\ tagOf' = [tagOf EXCEPT ![u] = t]
    /\ UNCHANGED <<primer, items, file>>

\* An object with this UL is written; "try" is the tag it holds.
WriteKey(u, try) ==
    LET found == Lookup(primer, u, try)
    IN /\ primer' = found.primer
       /\ items' = items \cup {<<found.tag, u>>}
       /\ UNCHANGED <<tagOf, file>>

\* WritePartitionInternal: the primer goes to file in front of the sets that
\* were written through it.
WritePartition ==
    /\ file' = [pack |-> Pack(primer), claimed |-> Cardinality(DOMAIN primer.tags),
                items |-> items]
    /\ items' = {}
    /\ UNCHANGED <<tagOf, primer>>

\* A partition that has no primer yet is written with an empty one.
NewPartition ==
    /\ primer' = NewPrimer
    /\ items' = {}
    /\ UNCHANGED <<tagOf, file>>

\* Partition::ReadMetadata reads with a new primer, which the partition keeps.
ReadPartition(from) ==
    /\ primer' = ReadValue(NewPrimer, from.pack, from.claimed)
    /\ items' = {}
    /\ UNCHANGED <<tagOf, file>>

Next ==
    \/ \E d \in Metadict : LoadMetadictionary(d[1], d[2])
    \/ \E u \in Property, try \in Tag : WriteKey(u, try)
    \/ WritePartition
    \/ NewPartition
    \/ \E from \in Foreign \cup {file} : ReadPartition(from)

Spec == Init /\ [][Next]_vars
-----------------------------------------------------------------------------
(***************************************************************************)
(* Properties                                                              *)
(***************************************************************************)

\* Lookup: whatever was written before, a tag that it gives out stands for
\* the UL it was given out for in the primer that is then written.
Readable ==
    \A i \in items : i[1] # 0 => i[1] \in DOMAIN primer.tags /\ primer.tags[i[1]] = i[2]

\* What WritePartition wrote is read back as what it was, through the count,
\* the entries of the primer pack and the reverse lookups of reader and writer.
RoundTrip ==
    LET p == ReadValue(NewPrimer, file.pack, file.claimed)
    IN \A i \in file.items : i[1] # 0 => Decode(p, i[1]) = i[2]

\* A property goes without a tag only if every dynamic tag is in use.
ZeroOnlyWhenFull ==
    (\E i \in items : i[1] = 0) => LowDynamic..TopDynamic \subseteq DOMAIN primer.tags
=============================================================================
