---------------------------- MODULE ReorderIndex ----------------------------
(***************************************************************************)
(* ReorderIndex: entries for an index table whose temporal offsets come    *)
(* before or after the rest of them, and which are committed to a table    *)
(* when the caller knows that they are complete.                           *)
(*                                                                         *)
(* The caller reports each unit in any order: its entry, then its place,   *)
(* its temporal offset at any time.  It commits units of which all has     *)
(* been said, whenever there are such at the start of what is open.  After *)
(* a commit that leaves entries behind it commits no more: what is left is *)
(* at other units than before.  Bytes of the buffer that nothing has been  *)
(* written to are Junk.                                                    *)
(***************************************************************************)
EXTENDS IndexTable

CONSTANTS
    Units,
    ToldAll,        \* units that are not reordered are told the offset 0 as well
    Parts,          \* how many entries are committed at once, -1 for all
    Junk

VARIABLES
    index,      \* the entries: first unit, buffer, and how many count, and are complete
    table,      \* the index table they are committed to
    said,       \* what the caller has reported
    parted      \* a commit has left entries behind

vars == <<index, table, said, parted>>

\* What the caller says of a unit.
Temporal(p) == IF p % 2 = 0 THEN 0 ELSE p
Anchor(p) == 0 - (p % 2)
Place(p) == 10 * (p + 1)

Unwritten == [to |-> Junk, key |-> Junk, off |-> Junk]

NewIndex == [first |-> 0, buffer |-> << >>, count |-> 0, complete |-> 0]

Fill(n) == [i \in 1 .. n |-> Unwritten]

\* The index made large enough for p at either end.
Reaching(x, p) ==
    LET ahead == x.first - p
        entry == p - x.first + 1
        grown(y, n) == [y EXCEPT !.buffer = SubSeq(@, 1, y.count) \o Fill(n - y.count), !.count = n]
    IN CASE x.buffer = << >> -> grown([x EXCEPT !.first = p], 1)
         [] x.buffer # << >> /\ p < x.first ->
               [first |-> p, buffer |-> Fill(ahead) \o x.buffer, count |-> x.count + ahead,
                complete |-> IF x.complete = 0 THEN 0 ELSE x.complete + ahead]
         [] OTHER -> IF entry > x.count THEN grown(x, entry) ELSE x

At(x, p) == p - x.first + 1

SetEntry(x, p, key) ==
    LET y == Reaching(x, p)
        i == At(y, p)
    IN [y EXCEPT !.complete = Max({@, i}), !.buffer[i].key = key, !.buffer[i].off = 0]

SetStreamOffset(x, p, off) ==
    IF p < x.first \/ At(x, p) > x.count THEN x ELSE [x EXCEPT !.buffer[At(x, p)].off = off]

SetTemporalOffset(x, p, n) ==
    LET y == Reaching(x, p) IN [y EXCEPT !.buffer[At(y, p)].to = n]

\* Mutant: a buffer that has been given away is not cleared.
RestUncleared(x, n) == [x EXCEPT !.count = 0, !.complete = 0]

\* What remains: counts and first unit are reduced by the entries that are left.
Rest(x, n) ==
    LET left == x.count - n
        less(k) == IF k > left THEN k - left ELSE 0
        kept == SubSeq(x.buffer, n + 1, x.count)
    IN IF left <= 0 THEN NewIndex
       ELSE [first |-> less(x.first), count |-> less(x.count), complete |-> less(x.complete),
             buffer |-> SubSeq(kept \o Fill(less(x.count) + 1), 1, less(x.count) + 1)]

Committed(x, n) == IF n < 0 \/ n > x.complete THEN x.complete ELSE n

InTable(e) == [to |-> e.to, key |-> e.key, off |-> e.off, outOfRange |-> FALSE, slices |-> << >>]

CommitEntries(x, t, n) ==
    LET s == SegmentFor(t, x.first)
        t1 == AddSegment(t, s)
        k == Committed(x, n)
    IN IF Len(t1.segs[s].entries) + k > EntryLimit THEN [index |-> x, table |-> t1]
       ELSE [index |-> Rest(x, k),
             table |-> Append1(t1, s, [i \in 1 .. k |-> InTable(x.buffer[i])])]

Init == index = NewIndex /\ table = EmptyTable /\ said = {} /\ parted = FALSE

Enter(p) ==
    /\ <<"entry", p>> \notin said
    /\ index' = SetEntry(index, p, Anchor(p))
    /\ said' = said \cup {<<"entry", p>>}
    /\ UNCHANGED <<table, parted>>

Locate(p) ==
    /\ <<"entry", p>> \in said
    /\ index' = SetStreamOffset(index, p, Place(p))
    /\ said' = said \cup {<<"place", p>>}
    /\ UNCHANGED <<table, parted>>

Reorder(p) ==
    /\ <<"order", p>> \notin said /\ (ToldAll \/ Temporal(p) # 0)
    /\ index' = SetTemporalOffset(index, p, Temporal(p))
    /\ said' = said \cup {<<"order", p>>}
    /\ UNCHANGED <<table, parted>>

\* All has been said of p.
Whole(p) ==
    /\ {<<"entry", p>>, <<"place", p>>} \subseteq said
    /\ ToldAll \/ Temporal(p) # 0 => <<"order", p>> \in said

InTableNow(p) == \E s \in Starts(table) : s <= p /\ p < End(table, s)

\* The units that have been begun and not been committed.
Open == {p \in Units : \E what \in {"entry", "order"} : <<what, p>> \in said} \ {p \in Units : InTableNow(p)}

Entries == {p \in Open : <<"entry", p>> \in said}

\* The units that a caller has to expect in a commit of n entries.
Going(n) == Min(Open) .. (IF n < 0 THEN Max(Entries) ELSE Min({Max(Entries), Min(Open) + n - 1}))

\* The caller commits only entries that are certain to be complete.
Commit ==
    \E n \in Parts :
        /\ ~parted /\ Entries # {} /\ \A p \in Going(n) : p \in Open /\ Whole(p)
        /\ LET r == CommitEntries(index, table, n) IN
             /\ index' = r.index /\ table' = r.table
             /\ parted' = (r.index # index /\ ~(Open \subseteq Going(n)))
        /\ UNCHANGED said

Next == Commit \/ \E p \in Units : Enter(p) \/ Locate(p) \/ Reorder(p)

Spec == Init /\ [][Next]_vars

\* Each entry that is committed, all at once or a few, in one commit or several,
\* is at its unit and says what the caller said.
CommittedTrue ==
    \A s \in Starts(table) : \A i \in DOMAIN table.segs[s].entries :
        LET p == s + i - 1
            e == table.segs[s].entries[i]
        IN e.to = Temporal(p) /\ e.key = Anchor(p) /\ e.off = Place(p)

\* What is told of a unit is kept until it is committed, in whatever order
\* units are reported and the buffer grows at either end.
ToldKept ==
    ~parted => \A p \in Open :
        LET i == At(index, p)
            here == i \in 1 .. index.count
        IN /\ <<"order", p>> \in said => here /\ index.buffer[i].to = Temporal(p)
           /\ <<"place", p>> \in said => here /\ index.buffer[i].off = Place(p)
=============================================================================
