----------------------------- MODULE AudioDemux -----------------------------
(***************************************************************************)
(* AudioDemux and AudioDemuxSource (mxflib/audiomux): one source of audio  *)
(* with several channels is split into readers, each of them for some      *)
(* channels that follow each other.  A reader may be far ahead of another: *)
(* what has been read from the source waits in a list of old buffers.      *)
(*                                                                         *)
(* A buffer is known by its first sample and its count of samples; where   *)
(* in it a sample is fetched from is computed in bytes, as the code does.  *)
(* The source decides how many samples a chunk has and when it ends; an    *)
(* empty chunk means that there is no data yet.                            *)
(***************************************************************************)
EXTENDS Integers, Sequences

CONSTANTS
    Reader,         \* the AudioDemuxSource objects
    Groups,         \* channels a reader may be for: [first, count]
    ChannelCount,   \* SourceChannelCount
    Shapes,         \* samples: [bytes, resized]
    Lengths,        \* LenToSend: sample counts, None if there is none
    Limits,         \* MaxSize in whole samples, None if there is none
    MaxSamples,     \* bound: samples the source has
    MaxChunk,       \* bound: samples the source gives at once
    None

VARIABLES
    shape,      \* SourceChannelBitSize, and is OutputBitSize another one?
    outputs,    \* Outputs: [source, pos, eof] of each channel
    current,    \* CurrentStart and CurrentSampleCount
    old,        \* OldData
    eof,        \* Eof: the source has ended
    reader,     \* the readers: None, or a record with what it has been given
    call,       \* the call in progress
    ends        \* history: the places where a chunk of the source ends

vars == <<shape, outputs, current, old, eof, reader, call, ends>>

Channel == 0 .. ChannelCount - 1

Buffer == [start: Nat, count: Nat]

EndOf(buffer) == buffer.start + buffer.count

Noise == <<"noise">>

Output == [source: Reader \cup {None}, pos: Nat, eof: BOOLEAN]

ReaderState ==
    [first: Channel, count: Nat \ {0}, len: Nat \cup {None}, eoi: BOOLEAN,
     got: Seq((Nat \X Nat) \cup {Noise}), zeros: Nat, told: BOOLEAN]

ASSUME ConstantsAssumption ==
    /\ None \notin Reader /\ None \notin Nat
    /\ None \notin ReaderState
    /\ ChannelCount \in Nat \ {0}
    /\ Groups \subseteq [first: 0 .. ChannelCount - 1, count: Nat \ {0}]
    /\ \A group \in Groups : group.first + group.count <= ChannelCount
    /\ Shapes \subseteq [bytes: Nat \ {0}, resized: BOOLEAN]
    /\ Lengths \subseteq Nat \cup {None}
    /\ Limits \subseteq Nat \cup {None}

Idle == [op |-> "Idle"]

CallType ==
    {Idle} \cup [op: {"Read"}, of: Reader, limit: Nat \cup {None}]
    \cup [op: {"Size"}, of: Reader]

Channels(r) == reader[r].first .. reader[r].first + reader[r].count - 1

Pos(r) == outputs[reader[r].first].pos

Init ==
    /\ shape \in Shapes
    /\ outputs = [c \in Channel |-> [source |-> None, pos |-> 0, eof |-> FALSE]]
    /\ current = [start |-> 0, count |-> 0]
    /\ old = << >>
    /\ eof = FALSE
    /\ reader = [r \in Reader |-> None]
    /\ call = Idle
    /\ ends = {0}

(***************************************************************************)
(* GetSource, refused once the first sample is gone.  The caller heeds the *)
(* warning about channels that have a reader already.                      *)
(***************************************************************************)
HasFirstSample ==
    current.start = 0 \/ (old # << >> /\ Head(old).start = 0)

GetSource(r, group, len) ==
    LET taken == group.first .. group.first + group.count - 1
    IN /\ call = Idle
       /\ reader[r] = None
       /\ \A c \in taken : outputs[c].source = None
       /\ HasFirstSample
       /\ outputs' = [c \in Channel |->
              IF c \in taken THEN [source |-> r, pos |-> 0, eof |-> FALSE] ELSE outputs[c]]
       /\ reader' = [reader EXCEPT ![r] =
              [first |-> group.first, count |-> group.count, len |-> len, eoi |-> TRUE,
               got |-> << >>, zeros |-> 0, told |-> FALSE]]
       /\ UNCHANGED <<shape, current, old, eof, call, ends>>

\* The parent pointers of its channels are cleared with the reader.
Destruct(r) ==
    /\ call = Idle
    /\ reader[r] # None
    /\ outputs' = [c \in Channel |->
           IF outputs[c].source = r THEN [outputs[c] EXCEPT !.source = None] ELSE outputs[c]]
    /\ reader' = [reader EXCEPT ![r] = None]
    /\ UNCHANGED <<shape, current, old, eof, call, ends>>

-----------------------------------------------------------------------------
(***************************************************************************)
(* A call of GetEssenceData or GetEssenceDataSize, then InCurrentBuffer:   *)
(* it reads on until the next sample of the channel is there.              *)
(***************************************************************************)
Enough(r) == reader[r].len # None /\ Pos(r) >= reader[r].len

GetEssenceData(r, limit) ==
    /\ call = Idle
    /\ reader[r] # None
    /\ IF Enough(r)
       THEN /\ reader' = [reader EXCEPT ![r].told = TRUE]
            /\ UNCHANGED call
       ELSE /\ call' = [op |-> "Read", of |-> r, limit |-> limit]
            /\ UNCHANGED reader
    /\ UNCHANGED <<shape, outputs, current, old, eof, ends>>

GetEssenceDataSize(r) ==
    /\ call = Idle
    /\ reader[r] # None
    /\ call' = [op |-> "Size", of |-> r]
    /\ UNCHANGED <<shape, outputs, current, old, eof, reader, ends>>

Behind == Pos(call.of) < current.start

InCurrentBuffer == current.start <= Pos(call.of) /\ Pos(call.of) < EndOf(current)

\* Does a channel with a reader need a sample before n?  (LowestPosition < n)
Needed(n) == \E c \in Channel : outputs[c].source # None /\ outputs[c].pos < n

\* Mutant: a buffer is given up once it starts before the lowest position.
DiscardStarted(list, rest) ==
    \E k \in 0 .. Len(list) :
        /\ \A i \in 1 .. k : ~Needed(list[i].start + 1)
        /\ k < Len(list) => Needed(list[k + 1].start + 1)
        /\ rest = SubSeq(list, k + 1, Len(list))

(***************************************************************************)
(* Old buffers are discarded from the front of the list, up to the first   *)
(* that ends at the lowest position or behind it.                          *)
(***************************************************************************)
Discard(list, rest) ==
    \E k \in 0 .. Len(list) :
        /\ \A i \in 1 .. k : ~Needed(EndOf(list[i]) + 1)
        /\ k < Len(list) => Needed(EndOf(list[k + 1]) + 1)
        /\ rest = SubSeq(list, k + 1, Len(list))

\* The list of old buffers gets the current one if a channel still needs it.
Keep(rest) ==
    IF current.count = 0 THEN rest = old
    ELSE Discard(IF Needed(EndOf(current)) THEN Append(old, current) ELSE old, rest)

FillBuffer ==
    /\ call # Idle
    /\ ~Behind /\ ~InCurrentBuffer /\ ~eof
    /\ Keep(old')
    /\ \/ /\ \E n \in 0 .. MaxChunk :
                /\ EndOf(current) + n <= MaxSamples
                /\ current' = [start |-> EndOf(current), count |-> n]
                /\ ends' = ends \cup {EndOf(current) + n}
          /\ UNCHANGED eof
       \/ /\ current' = [start |-> EndOf(current), count |-> 0]
          /\ eof' = TRUE
          /\ UNCHANGED ends
    /\ UNCHANGED <<shape, outputs, reader, call>>

-----------------------------------------------------------------------------
(***************************************************************************)
(* Where GetEssenceData fetches the samples, in bytes.                     *)
(***************************************************************************)
SampleSize == ChannelCount * shape.bytes

\* Mutant: the size of a sample is that of the reader's own channels.
StrideOwn(count) == count * shape.bytes

\* From one sample to the next, for the start of the copy.
Stride(count) == IF shape.resized THEN ChannelCount ELSE SampleSize

\* From one sample to the next, within the copy.
StepSize(count) ==
    IF ~shape.resized /\ shape.bytes = 4 /\ count = 1 THEN SampleSize + 3 ELSE SampleSize

Fetch(buffer, address, count) ==
    IF address % shape.bytes # 0
          \/ address + count * shape.bytes > buffer.count * SampleSize
    THEN Noise
    ELSE <<buffer.start + (address \div SampleSize), (address % SampleSize) \div shape.bytes>>

Demux(buffer, r, n) ==
    LET first == (Pos(r) - buffer.start) * Stride(reader[r].count) + reader[r].first * shape.bytes
    IN [k \in 1 .. n |->
          Fetch(buffer, first + (k - 1) * StepSize(reader[r].count), reader[r].count)]

AtMost(n, most) == IF most # None /\ n > most THEN most ELSE n

Advance(r, n) ==
    [c \in Channel |-> IF c \in Channels(r) THEN [outputs[c] EXCEPT !.pos = Pos(r) + n]
                       ELSE outputs[c]]

FlaggedEof == outputs[reader[call.of].first].eof

Deliver(buffer) ==
    LET r == call.of
        remaining == EndOf(buffer) - Pos(r)
        n == AtMost(AtMost(remaining, reader[r].len), call.limit)
    IN /\ reader' = [reader EXCEPT ![r].eoi = n = remaining,
                                   ![r].got = @ \o Demux(buffer, r, n)]
       /\ outputs' = Advance(r, n)
       /\ call' = Idle
       /\ UNCHANGED <<shape, current, old, eof, ends>>

ReadCurrent == call.op = "Read" /\ InCurrentBuffer /\ Deliver(current)

\* GetOldBuffer: the first of the old buffers that has the sample.
Holding == {i \in DOMAIN old : old[i].start <= Pos(call.of) /\ Pos(call.of) < EndOf(old[i])}

Told == reader' = [reader EXCEPT ![call.of].told = TRUE]

ReadOld ==
    /\ call.op = "Read"
    /\ Behind /\ ~FlaggedEof
    /\ IF Holding # {}
       THEN \E i \in Holding : (\A j \in Holding : i <= j) /\ Deliver(old[i])
       ELSE Told /\ call' = Idle /\ UNCHANGED <<shape, outputs, current, old, eof, ends>>

(***************************************************************************)
(* The end of the source, noted for the first channel of the reader only.  *)
(* A reader with a length gets zeros, one byte for each sample it lacks.   *)
(***************************************************************************)
AtEnd == ~Behind /\ ~InCurrentBuffer /\ eof

ReadEnd ==
    /\ call.op = "Read"
    /\ AtEnd \/ (Behind /\ FlaggedEof)
    /\ LET r == call.of
           lacks == IF reader[r].len = None THEN 0 ELSE reader[r].len - Pos(r)
       IN /\ outputs' = [Advance(r, lacks) EXCEPT ![reader[r].first].eof = TRUE]
          /\ IF lacks > 0 THEN reader' = [reader EXCEPT ![r].zeros = @ + lacks] ELSE Told
    /\ call' = Idle
    /\ UNCHANGED <<shape, current, old, eof, ends>>

Size ==
    /\ call.op = "Size"
    /\ Behind \/ InCurrentBuffer \/ eof
    /\ outputs' = IF AtEnd THEN [outputs EXCEPT ![reader[call.of].first].eof = TRUE] ELSE outputs
    /\ call' = Idle
    /\ UNCHANGED <<shape, current, old, eof, reader, ends>>

-----------------------------------------------------------------------------
\* The readers are gone and the first sample with them.
Over ==
    /\ \A r \in Reader : reader[r] = None
    /\ call = Idle /\ ~HasFirstSample
    /\ UNCHANGED vars

Next ==
    \/ \E r \in Reader, g \in Groups, len \in Lengths : GetSource(r, g, len)
    \/ \E r \in Reader : Destruct(r)
    \/ \E r \in Reader, limit \in Limits : GetEssenceData(r, limit)
    \/ \E r \in Reader : GetEssenceDataSize(r)
    \/ FillBuffer
    \/ ReadCurrent \/ ReadOld \/ ReadEnd
    \/ Size
    \/ Over

Spec == Init /\ [][Next]_vars

-----------------------------------------------------------------------------
(***************************************************************************)
(* PROPERTIES.                                                             *)
(***************************************************************************)
Reading == {r \in Reader : reader[r] # None}

\* What the source has given so far.
Given == EndOf(current)

(***************************************************************************)
(* Each reader gets the samples of its own channels, every one of them     *)
(* once and in their order, and zeros only after the last of them.         *)
(***************************************************************************)
InOrder ==
    \A r \in Reading : LET x == reader[r] IN
        /\ x.got = [i \in 1 .. Len(x.got) |-> <<i - 1, x.first>>]
        /\ x.zeros > 0 => eof /\ Len(x.got) = Given

(***************************************************************************)
(* A reader is told that there is no more only when it has had all that    *)
(* the source had, or the length it was asked for.  When it says that a    *)
(* wrapping unit is complete (EndOfItem), so it is in the source.          *)
(***************************************************************************)
EndTrue ==
    \A r \in Reading : LET x == reader[r] IN
        /\ x.told => \/ eof /\ Len(x.got) = Given
                     \/ x.len # None /\ Len(x.got) >= x.len
        /\ x.eoi => Len(x.got) \in ends

(***************************************************************************)
(* AudioDemux: what a reader is given is what its channels of the source   *)
(* have, wherever the other readers are and from whichever buffer it comes.*)
(***************************************************************************)
SamplesTrue == InOrder /\ EndTrue

TypeOK ==
    /\ shape \in Shapes
    /\ outputs \in [Channel -> Output]
    /\ current \in Buffer
    /\ old \in Seq(Buffer)
    /\ eof \in BOOLEAN
    /\ reader \in [Reader -> ReaderState \cup {None}]
    /\ call \in CallType
    /\ ends \subseteq Nat

\* The buffers follow each other up to the current one.
Gapless ==
    \A i \in DOMAIN old :
        EndOf(old[i]) = IF i < Len(old) THEN old[i + 1].start ELSE current.start

\* The n-th sample is in one of the buffers or has not been read yet.
Covered(n) ==
    \/ n >= current.start
    \/ \E i \in DOMAIN old : old[i].start <= n /\ n < EndOf(old[i])

NeededKept == \A c \in Channel : outputs[c].source # None => Covered(outputs[c].pos)

(***************************************************************************)
(* FillBuffer keeps what is still needed: the buffers follow each other    *)
(* without a gap, and the next sample of each channel that has a reader is *)
(* in one of them or has not been read yet.                                *)
(***************************************************************************)
BuffersTrue == TypeOK /\ Gapless /\ NeededKept
=============================================================================
