----------------------------- MODULE SourceFiles ----------------------------
(***************************************************************************)
(* FileParser of mxflib/essence: the essence of one stream, read from a    *)
(* list of files.  Names are patterns for numbered files (ListOfFiles),    *)
(* several in a name or added later; SequentialEssenceSource reads one     *)
(* file after the other; RangedEssenceSource gives a range of edit units   *)
(* of each, with what must be decoded before it (the pre-charge) and the   *)
(* rest of the last group of pictures behind it (the overrun).             *)
(*                                                                         *)
(* The parsers themselves are no part of it, but the two ways in which     *)
(* they count are: JPEG 2000 and WAVE count an edit unit when it is read,  *)
(* MPEG-2 and DV when they are asked for its size.  None of the parsers    *)
(* can revalidate, so each file gets a new one.  A file is a base name and *)
(* a number, an edit unit is its number in the file.                       *)
(***************************************************************************)
EXTENDS Integers, Sequences, FiniteSets, SequencesExt

CONSTANTS
    Sources,    \* [names, files, early]: names added, each a list of patterns
                \* that "~" separates; the files; does the parser count early?
    None

VARIABLES
    origin,     \* the names, files and parser of a behaviour
    list,       \* ListOfFiles: see ParseFileName
    base,       \* the parser: its position, and is a size cached?
    ranged,     \* RangedEssenceSource: see NewRanged
    previous,   \* PreviousLength
    asked,      \* the call in progress: "none", "size" or "data"
    given,      \* history: what the caller has been given
    ended       \* the caller has been told that there is no more

fileVars == <<origin, list, base, ranged, previous, asked, given, ended>>

-----------------------------------------------------------------------------
(***************************************************************************)
(* ListOfFiles                                                             *)
(***************************************************************************)
\* Division as in C.
Quotient(a, b) == IF a >= 0 THEN a \div b ELSE -((-a) \div b)

\* A mutant: the last number is taken for a count.
FilesRemainingToEnd(p, several) ==
    LET n == IF p.number < 0 \/ (p.end > 0 /\ p.origin + p.increment * p.number > p.end)
             THEN Quotient(p.end - p.origin, p.increment)
             ELSE p.number
    IN IF n = 0 /\ (~p.numbered \/ several \/ p.range.start # -1) THEN 1 ELSE n

\* The number of the files of a pattern "[origin:end+increment#number]", -1 or
\* less for "end when no more files"; a single file, a range of one and the
\* first of several names are one file.
FilesRemaining(p, several) ==
    LET n == IF p.number < 0 \/ (p.end > 0 /\ p.origin + p.increment * p.number > p.end)
             THEN Quotient(p.end - p.origin, p.increment) + 1
             ELSE p.number
    IN IF n = 0 /\ (~p.numbered \/ several \/ p.range.start # -1) THEN 1 ELSE n

\* The names behind a "~" come before those that follow already.
ParseFileName(name, following) ==
    LET p == Head(name)
    IN [base |-> p.base, numbered |-> p.numbered, number |-> p.origin, increment |-> p.increment,
        remaining |-> FilesRemaining(p, Len(name) > 1), range |-> p.range,
        following |-> (IF Len(name) > 1 THEN <<Tail(name)>> ELSE << >>) \o following,
        file |-> None, eof |-> FALSE]

\* GetNextFile: the file that is open is closed, the next one opened.
NextFile(l) ==
    IF l.remaining = 0 /\ l.following = << >> THEN [l EXCEPT !.file = None, !.eof = TRUE]
    ELSE LET now == IF l.remaining = 0 THEN ParseFileName(Head(l.following), Tail(l.following)) ELSE l
             file == <<now.base, IF now.numbered THEN now.number ELSE 0>>
             exists == file \in DOMAIN origin.files
         IN [now EXCEPT !.number = @ + now.increment,
                        !.remaining = IF @ > 0 THEN @ - 1 ELSE @,
                        !.file = IF exists THEN file ELSE None,
                        !.eof = ~exists]

-----------------------------------------------------------------------------
(***************************************************************************)
(* The parser of a file.                                                   *)
(***************************************************************************)
NewParser == [position |-> 0, cached |-> FALSE]

Units(file) == origin.files[file].units

\* GetEssenceDataSize: is there more?  The early ones count now, and once.
BaseSize(b) ==
    IF origin.early /\ ~b.cached /\ b.position < Units(list.file)
    THEN [position |-> b.position + 1, cached |-> TRUE] ELSE b

BaseHas(b) == IF origin.early THEN b.cached ELSE b.position < Units(list.file)

\* GetEssenceData, which asks for the size when it is not known.
BaseRead(b) ==
    LET s == BaseSize(b)
    IN IF ~BaseHas(s) THEN [base |-> s, unit |-> None]
       ELSE IF origin.early THEN [base |-> [s EXCEPT !.cached = FALSE], unit |-> s.position - 1]
       ELSE [base |-> [s EXCEPT !.position = @ + 1], unit |-> s.position]

\* IsEditPoint, of the edit unit that was counted last.
IsEditPoint(b) == ~origin.early \/ b.position - 1 \in origin.files[list.file].points

-----------------------------------------------------------------------------
(***************************************************************************)
(* RangedEssenceSource                                                     *)
(***************************************************************************)
\* CurrentPosition, PreCharge, FirstData, PreChargeStart and the flags.
NewRanged ==
    [started |-> FALSE, ending |-> FALSE, done |-> FALSE, end |-> -1, position |-> 0,
     pre |-> << >>, first |-> None, from |-> -1]

\* The pre-charge starts at the last edit point up to the requested start.
PreChargeStart(points, start) ==
    IF \E e \in points : e <= start THEN CHOOSE e \in points : e <= start /\ \A f \in points : f <= start => f <= e
    ELSE 0

\* LocateStart: skips and keeps edit units up to the first one requested.  It
\* never returns when there are not as many.
LocateStart ==
    LET r == list.range
        points == IF origin.early THEN origin.files[list.file].points ELSE 0 .. r.start
        from == PreChargeStart(points, r.start)
    IN [base |-> [position |-> r.start + 1, cached |-> FALSE],
        ranged |-> [NewRanged EXCEPT !.started = TRUE, !.position = r.start, !.first = r.start, !.from = from,
                                     !.pre = [i \in 1 .. r.start - from |-> from + i - 1],
                                     !.end = IF r.duration >= 0 THEN r.start + r.duration - 1 ELSE r.end]]

Located == IF ranged.started THEN [base |-> base, ranged |-> ranged] ELSE LocateStart

\* Beyond the range it is ending, and it is done at the next edit point; `at' is
\* the position before the call and b the parser after it.
Ending(r, at, b) ==
    LET ending == r.ending \/ at > r.end
    IN [r EXCEPT !.ending = ending,
                 !.done = ending /\ IsEditPoint(b),
                 !.position = IF ~ending THEN b.position ELSE IF ~r.ending THEN at ELSE @]

RangedSize ==
    LET l == Located
        b == BaseSize(l.base)
    IN CASE l.ranged.pre # << >> \/ l.ranged.first # None -> [base |-> l.base, ranged |-> l.ranged, has |-> TRUE]
         [] l.ranged.pre = << >> /\ l.ranged.first = None /\ (l.ranged.done \/ ~BaseHas(b)) ->
              [base |-> IF l.ranged.done THEN l.base ELSE b, ranged |-> l.ranged, has |-> FALSE]
         [] OTHER -> LET r == Ending(l.ranged, l.base.position, b)
                     IN [base |-> b, ranged |-> r, has |-> ~r.done]

RangedData ==
    LET l == Located
        read == BaseRead(l.base)
        r == Ending(l.ranged, l.base.position, read.base)
    IN CASE l.ranged.pre # << >> ->
              [base |-> l.base, ranged |-> [l.ranged EXCEPT !.pre = Tail(@)], unit |-> Head(l.ranged.pre)]
         [] l.ranged.pre = << >> /\ l.ranged.first # None ->
              [base |-> l.base, ranged |-> [l.ranged EXCEPT !.first = None], unit |-> l.ranged.first]
         [] l.ranged.pre = << >> /\ l.ranged.first = None /\ l.ranged.done ->
              [base |-> l.base, ranged |-> l.ranged, unit |-> None]
         [] OTHER -> [base |-> read.base, ranged |-> r, unit |-> IF r.done THEN None ELSE read.unit]

-----------------------------------------------------------------------------
(***************************************************************************)
(* SequentialEssenceSource                                                 *)
(***************************************************************************)
IsRanged == list.range.start # -1

\* GetCurrentPosition, of the file and of the sequence.
CurrentPosition == IF IsRanged THEN ranged.position - list.range.start ELSE base.position

GetCurrentPosition == previous + CurrentPosition

Init ==
    /\ origin \in Sources
    /\ list = ParseFileName(Head(origin.names), Tail(origin.names))
    /\ base = NewParser /\ ranged = NewRanged
    /\ previous = 0 /\ asked = "none" /\ given = << >> /\ ended = FALSE

\* SetSource, of a new parser.
SetSource == base' = NewParser /\ ranged' = NewRanged

\* IdentifyEssence opens the first file, GetEssenceSource takes its source.
GetFirstSource ==
    /\ list.file = None /\ ~list.eof
    /\ list' = NextFile(list)
    /\ ended' = (list'.file = None)
    /\ SetSource
    /\ UNCHANGED <<origin, previous, asked, given>>

\* GetNextSource; with a new source the call goes on.  A file of another type
\* stays open, but its source is not taken.  b and r are what the parsers of the
\* last file are now.
GetNextSource(call, b, r) ==
    LET next == NextFile(list)
        same == next.file # None /\ origin.files[next.file].same
        length == IF IsRanged THEN r.position - list.range.start ELSE b.position
    IN IF same THEN /\ list' = next /\ SetSource
                    /\ previous' = previous + length
                    /\ asked' = call
                    /\ UNCHANGED ended
       ELSE /\ list' = [next EXCEPT !.file = list.file, !.range = list.range]
            /\ base' = b /\ ranged' = r
            /\ asked' = "none" /\ ended' = TRUE
            /\ UNCHANGED previous

\* A call finds an open file, and is the one in progress or a new one.  With a
\* range, it is on a file that is long enough for LocateStart.
MayAsk(call) ==
    /\ list.file # None /\ ~ended
    /\ asked \in {"none", call}
    /\ IsRanged => list.range.start < Units(list.file)

GetEssenceDataSize ==
    /\ MayAsk("size")
    /\ LET size == IF IsRanged THEN RangedSize
                   ELSE [base |-> BaseSize(base), ranged |-> ranged, has |-> BaseHas(BaseSize(base))]
       IN \/ /\ size.has
             /\ base' = size.base /\ ranged' = size.ranged
             /\ asked' = "none"
             /\ UNCHANGED <<list, previous, ended>>
          \/ /\ ~size.has
             /\ GetNextSource("size", size.base, size.ranged)
    /\ UNCHANGED <<origin, given>>

GetEssenceData ==
    /\ MayAsk("data")
    /\ LET data == IF IsRanged THEN RangedData
                   ELSE LET read == BaseRead(base) IN [base |-> read.base, ranged |-> ranged, unit |-> read.unit]
       IN \/ /\ data.unit # None
             /\ base' = data.base /\ ranged' = data.ranged
             /\ given' = Append(given, <<list.file, data.unit>>)
             /\ asked' = "none"
             /\ UNCHANGED <<list, previous, ended>>
          \/ /\ data.unit = None
             /\ GetNextSource("data", data.base, data.ranged)
             /\ UNCHANGED given
    /\ UNCHANGED origin

\* The same once more.
Again ==
    /\ ended
    /\ list' = ParseFileName(Head(origin.names), Tail(origin.names))
    /\ SetSource
    /\ previous' = 0 /\ asked' = "none" /\ given' = << >> /\ ended' = FALSE
    /\ UNCHANGED origin

Next == GetFirstSource \/ GetEssenceDataSize \/ GetEssenceData \/ Again

Spec == Init /\ [][Next]_fileVars

-----------------------------------------------------------------------------
(***************************************************************************)
(* Properties                                                              *)
(***************************************************************************)
\* What the names stand for: single files, as many files as are given, those up
\* to the last number, or all that there are.
Numbers(p) ==
    LET upTo(n) == {i \in 0 .. n - 1 : p.end > 0 => p.origin + p.increment * i <= p.end}
        all == 0 .. Cardinality(DOMAIN origin.files)
        count == IF ~p.numbered THEN 1
                 ELSE Cardinality(IF p.number >= 0 THEN upTo(p.number) ELSE IF p.end > 0 THEN upTo(p.end + 1) ELSE all)
    IN [i \in 1 .. count |-> [file |-> <<p.base, IF p.numbered THEN p.origin + p.increment * (i - 1) ELSE 0>>, range |-> p.range]]

Listed ==
    LET patterns == FlattenSeq(origin.names)
    IN FlattenSeq([i \in DOMAIN patterns |-> Numbers(patterns[i])])

\* Up to the first file that is not there or is another type of essence.
Readable ==
    LET good == {n \in 0 .. Len(Listed) : \A i \in 1 .. n : /\ Listed[i].file \in DOMAIN origin.files
                                                            /\ i > 1 => origin.files[Listed[i].file].same}
    IN SubSeq(Listed, 1, CHOOSE n \in good : \A m \in good : m <= n)

LastRequested(r) == IF r.duration >= 0 THEN r.start + r.duration - 1 ELSE r.end

\* The edit units of a file that a range stands for: from the edit point that it
\* is decoded from, up to the edit point behind it.
UnitsIn(entry) ==
    LET n == Units(entry.file)
        points == IF origin.early THEN origin.files[entry.file].points ELSE 0 .. n - 1
        before == {e \in points : e <= entry.range.start} \cup {0}
        behind == {e \in points : e > LastRequested(entry.range)} \cup {n}
        from == IF entry.range.start = -1 THEN 0 ELSE CHOOSE e \in before : \A f \in before : f <= e
        to == IF entry.range.start = -1 THEN n ELSE CHOOSE e \in behind : \A f \in behind : f >= e
    IN [i \in 1 .. to - from |-> <<entry.file, from + i - 1>>]

Expected == FlattenSeq([i \in DOMAIN Readable |-> UnitsIn(Readable[i])])

\* The edit units that were asked for in a file.
Wanted(entry) ==
    LET n == Units(entry.file)
        last == LastRequested(entry.range)
    IN IF entry.range.start = -1 THEN n ELSE (IF last < n THEN last + 1 ELSE n) - entry.range.start

Total == LET wanted == [i \in DOMAIN Readable |-> Wanted(Readable[i])]
         IN FoldSeq(LAMBDA a, b : a + b, 0, wanted)

\* Whether it asks for sizes or not, a caller is given the edit units of all
\* files in the order of the names and numbers, each once, with their pre-charge
\* and overrun; when it is told that there is no more there is none, and the
\* position is then the number of edit units that were asked for.
FilesTrue ==
    /\ IsPrefix(given, Expected)
    /\ ended => given = Expected /\ (Readable # << >> => GetCurrentPosition = Total)
=============================================================================
