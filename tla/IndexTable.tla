----------------------------- MODULE IndexTable -----------------------------
(***************************************************************************)
(* IndexTable and IndexSegment: the table that says where each edit unit   *)
(* of an essence container is, how entries are added to its segments, how  *)
(* it is looked up, written as index table segments and read from them.    *)
(*                                                                         *)
(* Sub-items are numbered from 1.  Stream offsets are small numbers; the   *)
(* flags are reduced to the one that says that the key frame is out of     *)
(* range.  Errors that the code only reports leave no trace here.          *)
(***************************************************************************)
EXTENDS Integers, FiniteSets, SequencesExt, FiniteSetsExt

CONSTANTS
    EntryLimit,     \* entries of a segment that fit a 2-byte local set length
    OffsetLimit,    \* 128: temporal and key frame offsets are kept in a byte
    NegPreCharge    \* FeatureNegPrechargeIndex

Int8(n) == ((n + OffsetLimit) % (2 * OffsetLimit)) - OffsetLimit

Total(sizes) == FoldLeft(LAMBDA a, b : a + b, 0, sizes)

(***************************************************************************)
(* Deltas: an element of size 0 ends a slice.                              *)
(***************************************************************************)
Slices(sizes, i) == {j \in 1 .. i - 1 : sizes[j] = 0}

DefineDeltaArray(sizes) ==
    [i \in DOMAIN sizes |->
        [pos |-> 0, slice |-> Cardinality(Slices(sizes, i)),
         delta |-> Total(SubSeq(sizes, Max(Slices(sizes, i) \cup {0}) + 1, i - 1))]]

EmptyTable == [byteCount |-> 0, duration |-> 0, deltas |-> << >>, preCharge |-> 0, segs |-> << >>]

Starts(t) == DOMAIN t.segs

End(t, s) == s + Len(t.segs[s].entries)

Before(t, unit) == {s \in Starts(t) : s <= unit}

AddSegment(t, start) ==
    IF start \in Starts(t) THEN t
    ELSE [t EXCEPT !.segs = (start :> [deltas |-> t.deltas, entries |-> << >>]) @@ @]

\* GetSegment: the segment that unit is in or at the end of, or a new one.
SegmentFor(t, unit) ==
    IF Before(t, unit) = {} \/ unit > End(t, Max(Before(t, unit))) THEN unit
    ELSE Max(Before(t, unit))

Append1(t, s, entries) == [t EXCEPT !.segs[s].entries = @ \o entries]

HasRoom(t, s) == Len(t.segs[s].entries) < EntryLimit

\* An entry that is there already is not replaced: the new one goes to the end.
AddIndexEntry(t, unit, e) ==
    LET s == SegmentFor(t, unit)
        found == AddSegment(t, s)
        fresh == AddSegment(found, unit)
        narrow == [e EXCEPT !.to = Int8(@), !.key = Int8(@)]
    IN CASE HasRoom(found, s) -> Append1(found, s, <<narrow>>)
         [] ~HasRoom(found, s) /\ HasRoom(fresh, unit) -> Append1(fresh, unit, <<narrow>>)
         [] OTHER -> fresh

(***************************************************************************)
(* Look-up.  KeyUnknown stands for the location ~0.                        *)
(***************************************************************************)
KeyUnknown == -1

Found(unit, loc, exact, other, key) ==
    [thisPos |-> unit, location |-> loc, exact |-> exact, otherPos |-> other, key |-> key]

CBRLookup(t, unit, k) ==
    LET at == unit * t.byteCount IN
    IF k > 1 /\ k > Len(t.deltas) THEN Found(unit, at, FALSE, FALSE, at)
    ELSE LET loc == IF k = 1 THEN at ELSE at + t.deltas[k].delta
         IN Found(unit, loc, k = 1 \/ t.deltas[k].slice = 0, FALSE, loc)

Reorders(s, k) == s.deltas = << >> \/ (k <= Len(s.deltas) /\ s.deltas[k].pos < 0)

KeyLocation(s, i) ==
    IF s.entries[i].outOfRange \/ 0 - s.entries[i].key > i - 1 THEN KeyUnknown
    ELSE s.entries[i + s.entries[i].key].off

EntryLookup(s, unit, i, k) ==
    LET e == s.entries[i]
        d == s.deltas[k]
        slice == IF d.slice = 0 THEN 0 ELSE e.slices[d.slice]
    IN IF k > Len(s.deltas) THEN Found(unit, e.off, FALSE, FALSE, KeyLocation(s, i))
       ELSE Found(unit, IF k = 1 THEN e.off ELSE e.off + slice + d.delta, TRUE, FALSE,
                  KeyLocation(s, i))

\* The look-up without reordering.
LookupStored(t, unit, k) ==
    IF Before(t, unit) = {} THEN Found(0, 0, FALSE, FALSE, 0)
    ELSE LET start == Max(Before(t, unit))
             s == t.segs[start]
             n == Len(s.entries)
         IN CASE n = 0 -> Found(0, 0, FALSE, FALSE, 0)
              [] n > 0 /\ unit >= start + n ->
                    Found(start + n - 1, s.entries[n].off, FALSE, TRUE, s.entries[n].off)
              [] OTHER -> EntryLookup(s, unit, unit - start + 1, k)

\* The temporal offset to follow when unit is looked up, 0 if none.
Follow(t, unit, k) ==
    IF Before(t, unit) = {} THEN 0
    ELSE LET start == Max(Before(t, unit))
             s == t.segs[start]
         IN IF unit < End(t, start) /\ Reorders(s, k) THEN s.entries[unit - start + 1].to ELSE 0

Lookup(t, unit, k) ==
    IF t.byteCount # 0 THEN CBRLookup(t, unit, k)
    ELSE LookupStored(t, unit + Follow(t, unit, k), k)

GetDuration(t) ==
    IF t.byteCount # 0 THEN t.duration
    ELSE IF Starts(t) = {} THEN 0 ELSE End(t, Max(Starts(t)))

(***************************************************************************)
(* Changes to a table.                                                     *)
(***************************************************************************)
Holds(t, unit) == Before(t, unit) # {} /\ unit < End(t, Max(Before(t, unit)))

EntryAt(t, unit) ==
    LET s == Max(Before(t, unit)) IN t.segs[s].entries[unit - s + 1]

Changed(t, unit, entry) ==
    LET s == Max(Before(t, unit)) IN [t EXCEPT !.segs[s].entries[unit - s + 1] = entry]

Update(t, unit, off) ==
    IF ~Holds(t, unit) THEN t ELSE Changed(t, unit, [EntryAt(t, unit) EXCEPT !.off = off])

Correct(t, unit, to, key, outOfRange) ==
    IF ~Holds(t, unit) THEN t
    ELSE Changed(t, unit, [EntryAt(t, unit) EXCEPT !.to = Int8(to), !.key = Int8(key),
                                                   !.outOfRange = outOfRange])

\* Whole segments from first on, up to the first that goes beyond last.
Purge(t, first, last) ==
    LET goes(s) == /\ s >= first
                   /\ \A r \in Starts(t) : first <= r /\ r <= s => End(t, r) - 1 <= last
    IN [t EXCEPT !.segs = [s \in {r \in Starts(t) : ~goes(r)} |-> t.segs[s]]]

(***************************************************************************)
(* Index table segments in the file.                                       *)
(***************************************************************************)
Shift(t) == IF NegPreCharge THEN 0 ELSE t.preCharge

WriteIndex(t) ==
    IF t.byteCount # 0 THEN
        <<[start |-> 0 - (t.preCharge - Shift(t)), duration |-> t.duration, byteCount |-> t.byteCount,
           deltas |-> IF Len(t.deltas) > 1 THEN t.deltas ELSE << >>, entries |-> << >>]>>
    ELSE LET order == SetToSortSeq(Starts(t), <)
         IN [i \in DOMAIN order |->
               LET s == t.segs[order[i]]
               IN [start |-> order[i] + Shift(t), duration |-> Len(s.entries), byteCount |-> 0,
                   deltas |-> IF t.deltas = << >> THEN << >> ELSE s.deltas, entries |-> s.entries]]

\* A segment with a start that is known already gets the entries added at its end.
ReadSegment(t, seg) ==
    IF seg.byteCount # 0 THEN
        [t EXCEPT !.byteCount = seg.byteCount,
                  !.duration = IF seg.duration > 0 THEN seg.duration ELSE @,
                  !.deltas = IF seg.deltas = << >> THEN @ ELSE seg.deltas]
    ELSE LET t1 == AddSegment([t EXCEPT !.byteCount = 0], seg.start)
             t2 == [t1 EXCEPT !.segs[seg.start].deltas = seg.deltas,
                              !.deltas = IF @ = << >> THEN seg.deltas ELSE @]
         IN Append1(t2, seg.start, seg.entries)

AddSegments(t, segs) == FoldLeft(ReadSegment, t, segs)
=============================================================================
