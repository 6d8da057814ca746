---------------------------- MODULE MCAudioDemux ----------------------------
(***************************************************************************)
(* Instances of what sources of essence do, for TLC.  A behaviour is about *)
(* AudioDemux: the channels that readers are for, the sizes of samples,    *)
(* lengths and limits; or about the files of a FileParser (SourceFiles):   *)
(* part says which.                                                        *)
(***************************************************************************)
EXTENDS AudioDemux, TLC

VARIABLES part, origin, list, base, ranged, previous, asked, given, ended

Symmetry == Permutations(Reader)

ThreeChannels == {[first |-> 0, count |-> 1], [first |-> 1, count |-> 2],
                  [first |-> 2, count |-> 1]}

Bits(bytes, resized) == [bytes |-> bytes, resized |-> resized]

UpTo24Bits == {Bits(1, FALSE), Bits(3, FALSE), Bits(1, TRUE)}

Wide == {Bits(4, FALSE)}

LengthOrNone == {None, 3}

LimitOrNone == {None, 0, 1}

NoneOnly == {None}

-----------------------------------------------------------------------------
Whole == [start |-> -1, end |-> -1, duration |-> -1]

UpTo(start, end) == [start |-> start, end |-> end, duration |-> -1]

For(start, duration) == [start |-> start, end |-> -1, duration |-> duration]

Single(name, range) ==
    [base |-> name, numbered |-> FALSE, origin |-> 0, increment |-> 1, number |-> -1, end |-> -1, range |-> range]

Numbered(from, increment, number, end, range) ==
    [base |-> "n", numbered |-> TRUE, origin |-> from, increment |-> increment, number |-> number, end |-> end,
     range |-> range]

\* Names: one, two of them, and two in one before a third.
NamesOf(p, q) == {<< <<p>> >>, << <<p>>, <<q>> >>, << <<p, q>>, <<p>> >>}

\* Counts, last numbers, and both; lists without an end have the origin that lets
\* them read on, and nothing follows them.
Closed(range) == {Numbered(0, 1, 2, -1, range), Numbered(0, 2, -1, 3, range), Numbered(1, 1, 3, 2, range)}
Open(range) == {Numbered(1, 1, -1, -1, range), Numbered(3, 2, -1, -1, range)}

File(units, points, same) == [units |-> units, points |-> points, same |-> same]

\* The files there may be: some are missing, or of another type.
Disk(units, points) ==
    {[f \in d |-> File(IF f = <<"n", 2>> THEN units - 1 ELSE units, points, f # <<"n", 3>> \/ other)] :
        d \in {{<<"a", 0>>, <<"n", 0>>, <<"n", 1>>, <<"n", 2>>, <<"n", 3>>}, {<<"a", 0>>, <<"n", 1>>, <<"n", 2>>},
               {<<"n", 0>>, <<"n", 2>>}},
        other \in BOOLEAN}

NamesWith(range) ==
    UNION {NamesOf(p, q) : p \in {Single("a", range)} \cup Closed(range), q \in {Single("a", Whole)} \cup Closed(range)}
    \cup {<< <<Single("a", Whole), p>> >> : p \in Open(range)} \cup {<< <<p>> >> : p \in Open(range)}

\* A range of what a parser that counts early reads does not end with an edit point.
MCSources ==
    {[names |-> n, files |-> d, early |-> e] :
        n \in NamesWith(Whole), d \in Disk(3, {0, 2}), e \in BOOLEAN}
    \cup {[names |-> n, files |-> d, early |-> FALSE] :
        n \in UNION {NamesWith(r) : r \in {UpTo(1, 2), For(2, 1)}}, d \in Disk(5, {})}
    \cup {[names |-> n, files |-> d, early |-> TRUE] :
        n \in UNION {NamesWith(r) : r \in {UpTo(1, 2), For(2, 3)}}, d \in Disk(7, {0, 3, 6})}

Files == INSTANCE SourceFiles WITH Sources <- MCSources

-----------------------------------------------------------------------------
\* The part that rests is in one of its initial states.
MCInit ==
    /\ Init /\ Files!Init
    /\ \/ part = "audio" /\ origin = CHOOSE o \in MCSources : TRUE
       \/ part = "files" /\ shape = CHOOSE s \in Shapes : TRUE

MCNext ==
    \/ part = "audio" /\ Next /\ UNCHANGED <<part, origin, list, base, ranged, previous, asked, given, ended>>
    \/ part = "files" /\ Files!Next /\ UNCHANGED <<part, vars>>

MCSpec == MCInit /\ [][MCNext]_<<vars, part, origin, list, base, ranged, previous, asked, given, ended>>

\* FileParser: a caller is given the edit units of all files, once and in order,
\* with what the ranges ask for.
FilesTrue == part = "files" => Files!FilesTrue
=============================================================================
