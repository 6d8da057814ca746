--------------------------- MODULE MCIndexManager ---------------------------
(***************************************************************************)
(* Scenes of IndexManager for TLC.                                         *)
(***************************************************************************)
EXTENDS IndexManager

Straight(units) == [d \in units |-> d]

FirstKey(units) == [p \in units |-> Min(units)]

\* I P B and I P B B: the picture displayed last is stored before those displayed in the middle.
Group(units) ==
    [d \in units |-> CASE d = Min(units) -> d
                       [] d = Max(units) -> Min(units) + 1
                       [] OTHER -> d + 1]

Base ==
    [units |-> 0 .. 2, subRange |-> 0, sizes |-> <<0>>, firstPos |-> 0, setPos |-> {},
     order |-> Straight(0 .. 2), key |-> FirstKey(0 .. 2), reports |-> {}, undos |-> {FALSE},
     together |-> TRUE, repeats |-> FALSE, changes |-> FALSE, logs |-> FALSE,
     entryLimit |-> 2, offsetLimit |-> 128]

With(units) == [Base EXCEPT !.units = units, !.order = Straight(units), !.key = FirstKey(units)]

Reordered(units) == [With(units) EXCEPT !.order = Group(units), !.firstPos = -1, !.reports = {"order"}]

\* Elements of fixed and variable size, tables that are split into segments.
Frames == [With(0 .. 3) EXCEPT !.sizes = <<0, 3, 0>>, !.setPos = {-1}]

\* Tables that are changed, with key frames too far away for a byte.
Altered == [Base EXCEPT !.entryLimit = 3, !.offsetLimit = 1, !.reports = {"unit", "key"}, !.changes = TRUE]

\* Pictures that are reordered, and tables that undo it.
Pictures == [Reordered(0 .. 3) EXCEPT !.undos = {TRUE, FALSE}, !.subRange = 1]

Offered == [Reordered(0 .. 2) EXCEPT !.undos = {TRUE, FALSE}, !.reports = {"unit", "order"}, !.entryLimit = 1]

\* Pre-charge, and edit units that are discarded at the start.
Charged == [With(-1 .. 1) EXCEPT !.sizes = <<0, 3, 0>>, !.subRange = 1, !.reports = {"unit", "key"}]

Constant == [Base EXCEPT !.sizes = <<3, 2>>, !.changes = TRUE]

Logged3 == [Base EXCEPT !.reports = {"unit"}, !.logs = TRUE]

\* No manager, but a reorder buffer, which shares nothing with it.
Buffered == [Base EXCEPT !.units = 0 .. 3, !.order = Straight(0 .. 3), !.key = FirstKey(0 .. 3)]

PassScenes == {Frames, Altered, Pictures, Offered, Charged, Constant, Logged3, Buffered}

VARIABLES index, filled, said, parted

Buffer ==
    INSTANCE ReorderIndex WITH table <- filled, Units <- 0 .. 3, EntryLimit <- 3, OffsetLimit <- 128,
                               ToldAll <- TRUE, Parts <- {-1, 1, 2}, Junk <- None

MCInit == Init /\ Buffer!Init

MCNext ==
    \/ scene # Buffered /\ Next /\ UNCHANGED <<index, filled, said, parted>>
    \/ scene = Buffered /\ Buffer!Next /\ UNCHANGED vars

MCSpec == MCInit /\ [][MCNext]_<<vars, index, filled, said, parted>>

\* What is said of a unit stays in the reorder buffer, however that grows at
\* either end, and gets to the table at its unit (SetEntry, CommitEntries).
CommittedTrue == Buffer!CommittedTrue /\ Buffer!ToldKept
=============================================================================
