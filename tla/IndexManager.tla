---------------------------- MODULE IndexManager ----------------------------
(***************************************************************************)
(* IndexManager: what parsers and writers tell it of the edit units of an  *)
(* essence stream and its sub-streams, in whatever order they come to know *)
(* it, and the index tables that are made from that.                       *)
(*                                                                         *)
(* The essence is given: its elements (Sizes, 0 for a variable size), for  *)
(* each edit unit the stored unit that is displayed there (Order), its key *)
(* frame, and the place of each element.  Parsers report units, temporal   *)
(* offsets and key frames, writers report places.  The variables told and  *)
(* asked record what has been said; nothing depends on them.               *)
(*                                                                         *)
(* Provisional entries are never made by the code, PosTables are refused,  *)
(* acceptance rules are not looked at: none of them is here.               *)
(***************************************************************************)
EXTENDS Integers, FiniteSets, SequencesExt, FiniteSetsExt

CONSTANTS
    Scenes,         \* the uses of a manager, see below
    Master,         \* the master stream
    LogLimit,       \* the largest log identifier, 2^31 - 1 in the code
    NegPreCharge,   \* FeatureNegPrechargeIndex
    None

VARIABLES
    scene,      \* the essence and what its parsers, writers and users do
    mgr,        \* the manager
    table,      \* the last table that was made, and how
    told,       \* what has been taken: <<what, unit, element>>, see below
    asked       \* for each log identifier that was handed out the next unit that was stored

vars == <<scene, mgr, table, told, asked>>

(***************************************************************************)
(* A scene: the essence, and what is said of it and done with its tables.  *)
(***************************************************************************)
Units == scene.units            \* the edit units, negative ones are pre-charge
SubRange == scene.subRange      \* edit units that are discarded at the start
Sizes == scene.sizes            \* the element sizes, 0 if variable
FirstPos == scene.firstPos      \* the PosTableIndex that the manager is made with
SetPos == scene.setPos          \* PosTableIndexes given by SetPosTableIndex
Order == scene.order            \* Order[d]: the stored unit displayed at d
Key == scene.key                \* Key[p]: the key frame of the stored unit p
Reports == scene.reports        \* what parsers report: "unit", "order", "key"
Undos == scene.undos            \* may tables undo the reordering
Together == scene.together      \* the elements of a unit are written in one flush
Repeats == scene.repeats        \* entries may be added twice, segments read twice
Changes == scene.changes        \* tables may be changed after they are made
Logs == scene.logs              \* the log is used
EntryLimit == scene.entryLimit
OffsetLimit == scene.offsetLimit

ASSUME SceneAssumption ==
    /\ LogLimit \in Nat /\ NegPreCharge \in BOOLEAN
    /\ \A s \in Scenes : /\ s.units \subseteq Int /\ s.subRange \in Nat
                         /\ s.sizes \in Seq(Nat) /\ Master \in DOMAIN s.sizes
                         /\ s.firstPos \in Int /\ s.setPos \subseteq Int
                         /\ s.order \in [s.units -> s.units] /\ s.key \in [s.units -> s.units]
                         /\ s.entryLimit \in Nat \ {0} /\ s.offsetLimit \in Nat \ {0}
                         /\ None \notin s.units

INSTANCE IndexTable

(***************************************************************************)
(* The essence.  The elements of an edit unit follow each other; those of  *)
(* variable size are longer in odd units.                                  *)
(***************************************************************************)
Size(s, p, k) == IF s.sizes[k] # 0 THEN s.sizes[k] ELSE 4 + (p % 2)

SizeOf(s, p, ks) == FoldSet(LAMBDA i, a : a + Size(s, p, i), 0, ks)

PlaceIn(s, p, k) ==
    FoldSet(LAMBDA q, a : a + SizeOf(s, q, DOMAIN s.sizes), 0, {q \in s.units : q < p}) + SizeOf(s, p, 1 .. k - 1)

Where(p, k) == PlaceIn(scene, p, k)

\* How the parser says where the key frame is; too far away is the largest offset and a flag.
FarKey(p) == Key[p] - p < 0 - OffsetLimit

KeyOffset(p) == IF FarKey(p) THEN OffsetLimit - 1 ELSE Key[p] - p

Moved == 7      \* how far Update moves an edit unit

PreCharge == IF Min(Units) < 0 THEN 0 - Min(Units) ELSE 0

(***************************************************************************)
(* The manager.                                                            *)
(***************************************************************************)
NewManager ==
    [reorder |-> FirstPos < 0, fixed |-> FALSE, cbr |-> Sizes[1] > 0, sizes |-> <<Sizes[1]>>,
     pos |-> <<FirstPos>>, managed |-> << >>, unOffsets |-> << >>, unDiffs |-> << >>, last |-> None,
     log |-> << >>, nextId |-> 0, wrapped |-> FALSE, pending |-> -1]

Streams(m) == DOMAIN m.sizes

\* A map in which p is x.
Put(map, p, x) == [q \in DOMAIN map \cup {p} |-> IF q = p THEN x ELSE map[q]]


\* Log: the pending identifier gets the unit.
Logged(m, p) ==
    IF m.pending < 0 THEN m ELSE [m EXCEPT !.log = Put(@, m.pending, p), !.pending = -1]

Heard(p) == [id \in DOMAIN asked |-> IF asked[id] = None THEN p ELSE asked[id]]

From(waiting, p) == IF p \in DOMAIN waiting THEN waiting[p] ELSE 0

Without(waiting, p) == [q \in DOMAIN waiting \ {p} |-> waiting[q]]

\* Mutant: an entry has what has waited for it, also a reverse offset of another unit.
NewEntryCompleted(m, p) ==
    [status |-> {x \in {"temporal", "diff"} : p \in DOMAIN (IF x = "diff" THEN m.unDiffs ELSE m.unOffsets)},
     outOfRange |-> FALSE, key |-> 0, to |-> From(m.unOffsets, p),
     diff |-> From(m.unDiffs, p), off |-> [k \in Streams(m) |-> 0]]

\* What has waited for the entry gets into it, but its status does not say so.
NewEntry(m, p) ==
    [status |-> {}, outOfRange |-> FALSE, key |-> 0, to |-> From(m.unOffsets, p),
     diff |-> From(m.unDiffs, p), off |-> [k \in Streams(m) |-> 0]]

\* The manager with an entry for p.
Entered(m, p) ==
    LET m1 == [m EXCEPT !.fixed = TRUE] IN
    IF p \in DOMAIN m.managed THEN m1
    ELSE [m1 EXCEPT !.managed = Put(@, p, NewEntry(m, p)), !.last = p,
                    !.unOffsets = Without(@, p), !.unDiffs = Without(@, p)]

AddEditUnit(m, k, unit, key, far) ==
    LET p == unit - SubRange
        m1 == Entered(m, p)
    IN IF m.cbr THEN m
       ELSE Logged(IF k # Master THEN m1
                   ELSE [m1 EXCEPT !.managed[p].key = IF key # 0 THEN key ELSE @,
                                   !.managed[p].outOfRange = far], p)

\* The calls of a flush, for the streams ks of which p has an element in it.
SetOffset(m, ks, p) ==
    LET m1 == Entered(m, p)
    IN IF m.cbr THEN m
       ELSE Logged([m1 EXCEPT !.managed[p].status = @ \cup {"offset"},
                              !.managed[p].off = [k \in DOMAIN @ |-> IF k \in ks THEN Where(p, k) ELSE @[k]]], p)

\* map::insert keeps what is waiting already.
Waiting(waiting, p, n) == IF p \in DOMAIN waiting THEN waiting ELSE Put(waiting, p, n)

SetTemporalOffset(m, unit, n) ==
    LET d == unit - SubRange
        m1 == IF d \in DOMAIN m.managed
              THEN [m EXCEPT !.managed[d].status = @ \cup {"temporal"}, !.managed[d].to = n]
              ELSE [m EXCEPT !.unOffsets = Waiting(@, d, n)]
        p == d + n
    IN IF m.cbr THEN m
       ELSE IF p \in DOMAIN m.managed
            THEN [m1 EXCEPT !.managed[p].status = @ \cup {"diff"}, !.managed[p].diff = 0 - n]
            ELSE [m1 EXCEPT !.unDiffs = Waiting(@, d, 0 - n)]

SetKeyOffset(m, unit, key) ==
    LET p == unit - SubRange IN
    IF m.cbr \/ p \notin DOMAIN m.managed THEN m ELSE [m EXCEPT !.managed[p].key = key]

\* The identifier that LogNext hands out, and the manager behind the call.
LogNext(m) ==
    LET from == IF m.wrapped THEN m.nextId ELSE -1
        free == {i \in from + 1 .. LogLimit : i # m.nextId /\ i \notin DOMAIN m.log}
        low == {i \in 0 .. m.nextId - 1 : i \notin DOMAIN m.log}
        taken == [m EXCEPT !.pending = m.nextId]
    IN CASE m.pending >= 0 -> [id |-> m.pending, mgr |-> m]
         [] m.pending < 0 /\ m.nextId < 0 -> [id |-> -1, mgr |-> m]
         [] m.pending < 0 /\ m.nextId >= 0 /\ ~m.wrapped /\ m.nextId < LogLimit ->
               [id |-> m.nextId, mgr |-> [taken EXCEPT !.nextId = @ + 1]]
         [] OTHER ->
               IF free # {} THEN [id |-> m.nextId, mgr |-> [taken EXCEPT !.wrapped = TRUE, !.nextId = Min(free)]]
               ELSE IF from < 0 \/ low = {} THEN [id |-> -1, mgr |-> [taken EXCEPT !.wrapped = TRUE, !.nextId = from]]
               ELSE [id |-> m.nextId, mgr |-> [taken EXCEPT !.wrapped = TRUE, !.nextId = Min(low)]]

(***************************************************************************)
(* Tables made from the manager.                                           *)
(***************************************************************************)
MakeIndex(m) ==
    LET deltas == DefineDeltaArray(m.sizes) IN
    [EmptyTable EXCEPT !.preCharge = PreCharge,
                       !.deltas = [i \in DOMAIN deltas |-> [deltas[i] EXCEPT !.pos = m.pos[i]]],
                       !.byteCount = IF m.cbr THEN Total(m.sizes) ELSE 0]

Needed(m, undo) ==
    {"offset"} \cup (IF m.reorder THEN {"temporal"} ELSE {}) \cup (IF undo THEN {"diff"} ELSE {})

SliceOffsets(m, e) ==
    LET ends == SetToSortSeq({i \in 1 .. Len(m.sizes) - 1 : m.sizes[i] = 0}, <) IN
    [j \in DOMAIN ends |-> Max({0, e.off[ends[j] + 1] - e.off[1]})]

TableEntry(m, e) ==
    [to |-> e.to, key |-> e.key, outOfRange |-> e.outOfRange, off |-> e.off[1], slices |-> SliceOffsets(m, e)]

\* Mutant: the first entry that is not complete ends the loop.
CompleteToGap(m, undo, range) ==
    {p \in DOMAIN m.managed \cap range :
        \A q \in DOMAIN m.managed \cap range : q <= p => Needed(m, undo) \subseteq m.managed[q].status}

Complete(m, undo, range) ==
    {p \in DOMAIN m.managed \cap range : Needed(m, undo) \subseteq m.managed[p].status}

AddEntriesToIndex(m, undo, t, range) ==
    LET flat == [i \in DOMAIN t.deltas |-> [t.deltas[i] EXCEPT !.pos = Max({0, @})]]
        add(u, p) == LET e == m.managed[p] IN
                     AddIndexEntry(u, IF undo THEN p + e.diff ELSE p, TableEntry(m, e))
    IN IF m.cbr THEN t
       ELSE FoldLeft(add, IF m.reorder /\ undo THEN [t EXCEPT !.deltas = flat] ELSE t,
                     SetToSortSeq(Complete(m, undo, range), <))

(***************************************************************************)
(* Steps.                                                                  *)
(***************************************************************************)
Init == scene \in Scenes /\ mgr = NewManager /\ table = None /\ told = {} /\ asked = << >>

\* The elements are sub-streams; once the format is fixed none can be added.
AddSubStream ==
    LET n == Len(mgr.sizes) + 1 IN
    /\ n <= Len(Sizes) /\ ~mgr.fixed
    /\ mgr' = [mgr EXCEPT !.sizes = Append(@, Sizes[n]), !.pos = Append(@, 0),
                          !.cbr = @ /\ Sizes[n] # 0]
    /\ UNCHANGED <<table, told, asked>>

SetPosTableIndex ==
    /\ \E n \in SetPos : mgr' = [mgr EXCEPT !.pos[1] = n]
    /\ mgr'.pos # mgr.pos
    /\ UNCHANGED <<table, told, asked>>

ForceVBR ==
    /\ mgr.cbr /\ mgr' = [mgr EXCEPT !.cbr = FALSE]
    /\ UNCHANGED <<table, told, asked>>

\* A manager of constant size edit units listens to nothing.
Said(what) == IF mgr.cbr THEN told ELSE told \cup what

\* The parser of the master stream offers the stored unit p with its key frame.
OfferEditUnit(p) ==
    /\ "unit" \in Reports /\ <<"unit", p, Master>> \notin told
    /\ mgr' = AddEditUnit(mgr, Master, p + SubRange, KeyOffset(p), FarKey(p))
    /\ told' = Said({<<"unit", p, Master>>})
    /\ asked' = IF mgr.cbr THEN asked ELSE Heard(p)
    /\ table' = None

\* A flush of the writer offers where elements of p are.
OfferOffset(p) ==
    \E ks \in {s \in SUBSET Streams(mgr) : s # {} /\ (Together => s = Streams(mgr))} :
        /\ \A k \in ks : <<"offset", p, k>> \notin told
        /\ mgr' = SetOffset(mgr, ks, p)
        /\ told' = Said({<<"offset", p, k>> : k \in ks})
        /\ asked' = IF mgr.cbr THEN asked ELSE Heard(p)
        /\ table' = None

\* The units of which something was reported before.
Begun == {p \in Units : \E k \in DOMAIN Sizes : told \cap {<<"unit", p, k>>, <<"offset", p, k>>} # {}}

\* A temporal offset is in time for the unit it is about, and for the unit it
\* leads to, if that has been reported; otherwise it waits.
OfferTemporalOffset(d) ==
    /\ "order" \in Reports /\ <<"order", d, 1>> \notin told
    /\ mgr' = SetTemporalOffset(mgr, d + SubRange, Order[d] - d)
    /\ told' = Said({<<"order", d, 1>>} \cup {<<"forward", p, 1>> : p \in {d} \cap Begun}
                    \cup {<<"back", p, 1>> : p \in {Order[d]} \cap Begun})
    /\ table' = None
    /\ UNCHANGED asked

OfferKeyOffset(p) ==
    /\ "key" \in Reports
    /\ mgr' = SetKeyOffset(mgr, p + SubRange, KeyOffset(p)) /\ mgr' # mgr
    /\ table' = None
    /\ UNCHANGED <<told, asked>>

AskLog ==
    /\ Logs
    /\ LET r == LogNext(mgr) IN
         /\ mgr' = r.mgr
         /\ asked' = IF r.id < 0 \/ r.id \in DOMAIN asked THEN asked ELSE Put(asked, r.id, None)
    /\ UNCHANGED <<table, told>>

Ranges == {{p \in Units : a <= p /\ p <= b} : a \in Units, b \in Units} \ {{}}

\* The units of a range of which all that the table needs has been said in time.
AllSaid(undo, range) ==
    {p \in range : /\ \A k \in Streams(mgr) : <<"offset", p, k>> \in told
                   /\ mgr.reorder => <<"forward", p, 1>> \in told
                   /\ undo => <<"back", p, 1>> \in told}

Keyed == {p \in Units : <<"unit", p, Master>> \in told}

Make ==
    \E undo \in Undos, range \in Ranges :
        /\ table' = [t |-> AddEntriesToIndex(mgr, undo, MakeIndex(mgr), range), undo |-> undo,
                     units |-> AllSaid(undo, range), keyed |-> Keyed, moved |-> {}, shift |-> 0,
                     purged |-> FALSE]
        /\ mgr' = [mgr EXCEPT !.fixed = TRUE]
        /\ UNCHANGED <<told, asked>>

AddMore ==
    \E range \in Ranges :
        /\ table # None /\ table.shift = 0 /\ (Repeats \/ range \cap table.units = {})
        /\ table' = [table EXCEPT !.t = AddEntriesToIndex(mgr, table.undo, @, range),
                                  !.units = @ \cup AllSaid(table.undo, range)]
        /\ UNCHANGED <<mgr, told, asked>>

\* The table is written, and read into a new one or once more into what was read.
Reread ==
    /\ table # None /\ WriteIndex(table.t) # << >>
    /\ \E base \in {EmptyTable} \cup (IF Repeats /\ table.t.preCharge = 0 THEN {table.t} ELSE {}) :
          table' = [table EXCEPT !.t = AddSegments(base, WriteIndex(@)), 
                                    !.shift = @ + (IF NegPreCharge THEN 0 ELSE table.t.preCharge)]
    /\ UNCHANGED <<mgr, told, asked>>

\* Encryption moves what is in an edit unit.
MoveUnit(p) ==
    /\ Changes /\ table # None /\ table.t.byteCount = 0 /\ ~table.undo /\ table.shift = 0
    /\ p \notin table.moved
    /\ table' = [table EXCEPT !.t = Update(@, p, Where(p, 1) + Moved),
                              !.moved = @ \cup ({p} \cap table.units)]
    /\ UNCHANGED <<mgr, told, asked>>

CorrectUnit(p) ==
    /\ Changes /\ table # None /\ ~table.undo /\ table.shift = 0
    /\ table' = [table EXCEPT !.t = Correct(@, p, Order[p] - p, KeyOffset(p), FarKey(p))]
    /\ UNCHANGED <<mgr, told, asked>>

PurgeUnits ==
    \E a \in Units, b \in Units :
        /\ Changes /\ table # None /\ 0 <= a /\ a <= b
        /\ table' = [table EXCEPT !.t = Purge(@, a, b), !.purged = TRUE]
        /\ UNCHANGED <<mgr, told, asked>>

Step ==
    \/ AddSubStream \/ SetPosTableIndex \/ ForceVBR \/ AskLog
    \/ \E p \in Units : \/ OfferEditUnit(p) \/ OfferOffset(p) \/ OfferTemporalOffset(p)
                        \/ OfferKeyOffset(p) \/ MoveUnit(p) \/ CorrectUnit(p)
    \/ Make \/ AddMore \/ Reread \/ PurgeUnits

Next == Step /\ UNCHANGED scene

Spec == Init /\ [][Next]_vars

\* An entry has room for the offsets of all streams: no stream comes after
\* the first entry (SetOffset writes StreamOffset[SubStream]).
OffsetsFit == \A p \in DOMAIN mgr.managed : DOMAIN mgr.managed[p].off = Streams(mgr)

(***************************************************************************)
(* Properties.                                                             *)
(***************************************************************************)
TypeOK ==
    /\ mgr.fixed \in BOOLEAN /\ mgr.cbr \in BOOLEAN /\ Len(mgr.sizes) = Len(mgr.pos)
    /\ DOMAIN mgr.managed \subseteq Units
    /\ \A p \in DOMAIN mgr.managed : mgr.managed[p].status \subseteq {"offset", "temporal", "diff"}
    /\ mgr.nextId \in -1 .. LogLimit /\ mgr.pending \in -1 .. LogLimit
    /\ told \subseteq {"unit", "offset", "order", "forward", "back"} \X Units \X DOMAIN Sizes
    /\ DOMAIN asked \subseteq 0 .. LogLimit
    /\ OffsetsFit

\* The manager has an entry for each unit of which something was reported.  In
\* what was reported in time the entry is complete, in nothing else, and right.
EntriesTrue ==
    /\ DOMAIN mgr.managed = Begun
    /\ \A p \in DOMAIN mgr.managed :
          LET e == mgr.managed[p] IN
          /\ "temporal" \in e.status <=> <<"forward", p, 1>> \in told
          /\ "temporal" \in e.status => e.to = Order[p] - p
          /\ "diff" \in e.status <=> <<"back", p, 1>> \in told
          /\ "diff" \in e.status => \E d \in Units : Order[d] = p /\ e.diff = d - p
          /\ "offset" \in e.status <=> \E k \in DOMAIN Sizes : <<"offset", p, k>> \in told
          /\ \A k \in Streams(mgr) : <<"offset", p, k>> \in told => e.off[k] = Where(p, k)

Tabled == table # None /\ Len(mgr.sizes) = Len(Sizes)

\* The stored unit that is displayed at d, for an element that is reordered or not.
Target(d, k) == IF table.undo \/ mgr.pos[k] < 0 THEN Order[d] ELSE d

At(p, k) == Where(p, k) + (IF p \in table.moved THEN Moved ELSE 0)

\* An exact answer is right: it is where the element of the unit that is
\* displayed there is, whatever was said in which order, for tables that are
\* split into segments, written, read and changed.
PlaceTrue ==
    Tabled => \A d \in Units, k \in DOMAIN Sizes :
        LET r == Lookup(table.t, d + table.shift, k) IN r.exact => r.location = At(Target(d, k), k)

\* The key frame of an exact answer is the right one, or not known.
KeyTrue ==
    Tabled /\ ~table.undo /\ table.t.byteCount = 0 => \A d \in Units, k \in DOMAIN Sizes :
        LET r == Lookup(table.t, d + table.shift, k)
            p == Target(d, k)
        IN r.exact /\ p \in table.keyed => r.key \in {KeyUnknown, At(Key[p], 1)}

\* The log gives for each identifier the first unit that is stored after the
\* identifier was handed out, also when the identifiers have run out.
LogTrue ==
    \A id \in DOMAIN asked :
        IF asked[id] = None THEN id \notin DOMAIN mgr.log
        ELSE id \in DOMAIN mgr.log /\ mgr.log[id] = asked[id]

\* What has been said is kept as it was said, in entries and log; a table that
\* is made of it at any time, written, shifted and changed gives places that are
\* right, of the unit and of its key frame, or says that it does not know.
LookupTrue == TypeOK /\ EntriesTrue /\ LogTrue /\ PlaceTrue /\ KeyTrue

\* The units a table needs for the answer at d.
NeededFor(d, k) == IF table.undo THEN {Order[d]} ELSE {d, Target(d, k)}

\* All that was asked for and has been said is found in the table, nothing else is.
Answered ==
    Tabled /\ table.t.byteCount = 0 /\ ~table.purged =>
        \A d \in Units, k \in DOMAIN Sizes :
            Lookup(table.t, d + table.shift, k).exact <=> NeededFor(d, k) \subseteq table.units

\* Where a table has a stored unit: at the place where it is displayed if reordering is undone.
Shown(p) == IF table.undo THEN CHOOSE d \in Units : Order[d] = p ELSE p

\* The duration is that up to the last unit in the table.
DurationTrue ==
    Tabled /\ table.t.byteCount = 0 /\ ~table.purged =>
        GetDuration(table.t) = Max({Shown(p) + 1 + table.shift : p \in table.units} \cup {0})

\* What was reported in time is in the table, through full segments and gaps,
\* and its duration is what it has.
AllFound == Answered /\ DurationTrue
=============================================================================
