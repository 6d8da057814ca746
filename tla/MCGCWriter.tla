----------------------------- MODULE MCGCWriter -----------------------------
(***************************************************************************)
(* Scenes of GCWriter for TLC.  Types are 4 to 7 for CP system, picture,   *)
(* sound and data, 20 to 24 for GC.                                        *)
(*                                                                         *)
(* A behaviour is about GCWriter, or about a KLVEObject that its WriteRaw  *)
(* writes (EncryptedKLV): part says which.                                 *)
(***************************************************************************)
EXTENDS GCWriter, EncryptedKLV

VARIABLE part

Plain == [base |-> 1, blocked |-> FALSE, alignAll |-> FALSE, relative |-> FALSE]

System == [by |-> "system", cp |-> FALSE, scheme |-> 2, element |-> 0, sub |-> 1]
Essence(type) == [by |-> "type", type |-> type, len |-> 0]
Sized(type, len) == [by |-> "type", type |-> type, len |-> len]

\* Items: of a source the units and ends of its reads are given.
Data(size) == [kind |-> "data", said |-> size, ends |-> <<size>>, units |-> <<0>>, fast |-> FALSE]
Reads(units, ends) == [kind |-> "source", said |-> ends[Len(ends)], ends |-> ends, units |-> units, fast |-> FALSE]
FastReads(units, ends) == [Reads(units, ends) EXCEPT !.said = 0, !.fast = TRUE]

Base ==
    [setups |-> {Plain}, kags |-> {}, elements |-> {}, orders |-> {}, relatives |-> {}, indexes |-> {},
     items |-> {Data(5)}, raws |-> {}, packs |-> {}, units |-> {0}, asked |-> FALSE, garbage |-> {},
     maxStreams |-> 2, maxOrders |-> 3, maxUnits |-> 1, maxTell |-> 100]

\* Write orders, given and by type, before and behind a type.
Ordered ==
    [Base EXCEPT !.elements = {System, Essence(5), Essence(21), [by |-> "name", name |-> "Data", element |-> 1]},
                 !.orders = {<<-1, -1>>, <<7, 21>>, <<32768, -1>>},
                 !.relatives = {<<5, -1>>, <<5, -100>>, <<21, 0>>}, !.maxStreams = 3, !.maxOrders = 4, !.maxTell = 20]

\* Track numbers that are asked for before and after streams are added.
Tracks ==
    [Base EXCEPT !.elements = {Essence(21), [by |-> "plain", type |-> 23, len |-> 0], [by |-> "key", type |-> 21, len |-> 0]},
                 !.asked = TRUE, !.garbage = {0}, !.maxStreams = 3]

AnyItems == {Data(5), [Data(200) EXCEPT !.kind = "klv"], Reads(<<0, 1>>, <<3, 43>>)}

\* Items of every kind, raw KLVs, and others that write in between.
Sizes ==
    [Base EXCEPT !.elements = {System, Essence(21), Essence(22)}, !.items = AnyItems, !.raws = {7},
                 !.packs = {50}, !.maxTell = 150]

\* The same on files with a KAG.
Aligned ==
    [Sizes EXCEPT !.setups = {Plain, [Plain EXCEPT !.alignAll = TRUE, !.base = 0], [Plain EXCEPT !.blocked = TRUE]},
                  !.kags = {<<32, FALSE>>, <<16, TRUE>>}, !.maxTell = 100]

\* Frames and clips that are indexed, with lengths that are too short for them or
\* longest.  Units are read in one part or in two, at once or after a while.
Indexed ==
    [Base EXCEPT !.setups = {Plain, [Plain EXCEPT !.relative = TRUE]},
                 !.elements = {Sized(21, 4), Sized(22, 10)}, !.kags = {<<32, FALSE>>},
                 !.indexes = {[clip |-> FALSE, filler |-> TRUE], [clip |-> TRUE, filler |-> FALSE]},
                 !.items = {Data(5), Reads(<<0, 0, 1, 2, 2>>, <<1, 3, 43, 43, 50>>), FastReads(<<0, 1>>, <<7, 16777223>>)},
                 !.packs = {50}, !.maxUnits = 2, !.maxTell = 50]

PassScenes == {Ordered, Tracks, Sizes, Aligned, Indexed}

\* They say of write orders what orders are documented to say.
ASSUME ConventionalScenes == \A x \in PassScenes : Conventional(x)

\* Chunks of whole blocks, as 128 kB are.
AnyKLV == [length : 1 .. 14, plain : {0, 1, 4, 5, 8, 9, 15}, hashing : BOOLEAN, chunk : {4, 8},
           requests : {{All}, {4, 5}, {6, 13}, {5, All}}]

MCValues == {v \in AnyKLV : Writable(v) /\ Readable(v)}

Simplest == [length |-> 1, plain |-> 0, hashing |-> FALSE, chunk |-> 4, requests |-> {All}]

\* The part that rests is in one of its initial states.
MCInit ==
    /\ KLVInit /\ Init
    /\ \/ part = "package" /\ klv = Simplest
       \/ part = "encrypted" /\ scene = Ordered

MCNext ==
    \/ part = "package" /\ Next /\ UNCHANGED <<part, klvVars>>
    \/ part = "encrypted" /\ KLVNext /\ UNCHANGED <<part, vars>>

MCSpec == MCInit /\ [][MCNext]_<<vars, part, klvVars>>
=============================================================================
