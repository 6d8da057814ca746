----------------------------- MODULE BodyWriter -----------------------------
(***************************************************************************)
(* class BodyWriter of mxflib/essence.h and .cpp: multiplexing streams of  *)
(* essence, with their index tables, into the partitions of one MXF file.  *)
(*                                                                         *)
(* Each C++ method that other methods call is an operator from a machine   *)
(* (the writer's members, the streams and the file so far) to a machine.   *)
(* A public method is an action, or several where it loops: one for the    *)
(* call, one for each turn of the loop, one for the return.                *)
(***************************************************************************)
EXTENDS BodyStream

CONSTANTS
    IndexShares,      \* SetMetadataSharing: index and metadata in a partition
    EssenceShares,    \* SetMetadataSharing: essence and metadata in a partition
    HandlerMetadata,  \* a partition handler is set and always asks for metadata
    Durations,        \* values of Duration given to WritePartition, 0 = no limit
    Sized,            \* whether callers set a MaxPartitionSize
    Closes,           \* values of ClosePartition that callers use
    Bodies,           \* values of Duration that callers give to WriteBody
    UserEnds,         \* whether callers call EndPartition themselves
    LateStreams,      \* whether callers change the streams after the header
    MaxPartitions     \* a bound: no EndPartition by callers beyond it

ASSUME WriterAssumption ==
    /\ IndexShares \in BOOLEAN /\ EssenceShares \in BOOLEAN
    /\ HandlerMetadata \in BOOLEAN
    /\ Durations \subseteq Nat /\ Sized \subseteq BOOLEAN /\ Closes \subseteq BOOLEAN
    /\ Bodies \subseteq Nat
    /\ UserEnds \in BOOLEAN /\ LateStreams \in BOOLEAN
    /\ MaxPartitions \in Nat

VARIABLES
    writer,   \* the members of the BodyWriter
    stream,   \* the streams the caller has built, None for the others
    file,     \* the partitions written, in file order
    call,     \* the method in progress and its local variables
    body      \* the Duration left to WriteBody, NoBody outside of it

vars == <<writer, stream, file, call, body>>

NoBody == -1

PackType == {"Header", "Body", "Generic", "Footer"}

Pack == [type: PackType, body: Stream \cup {None}, offset: Nat, index: Stream \cup {None}]

Partition ==
    [type: PackType, body: Stream \cup {None}, offset: Nat,
     index: Stream \cup {None}, table: TableType \cup {None}, meta: BOOLEAN,
     essence: Seq(Stream \X Nat)]

(***************************************************************************)
(* cur is the place of CurrentStream in the list, 0 when CurrentBodySID is *)
(* 0.  pending, header, footer, meta, generic and table are the pending    *)
(* partition's flags and index data, sid is PartitionBodySID, and pack the *)
(* template partition pack BasePartition.                                  *)
(***************************************************************************)
WriterType ==
    [state: {"Start", "Header", "Body", "Footer", "Done"}, list: Seq(Stream),
     cur: Nat, done: BOOLEAN, pending: BOOLEAN, header: BOOLEAN,
     footer: BOOLEAN, meta: BOOLEAN, generic: BOOLEAN,
     table: TableType \cup {None}, sid: Stream \cup {None}, pack: Pack]

Idle == [op |-> "Idle"]

CallType ==
    {Idle}
    \cup [op: {"WriteHeader"}, pos: Nat \ {0}, written: BOOLEAN]
    \cup [op: {"WriteEssence"}, limited: BOOLEAN, left: Nat, sized: BOOLEAN,
          close: BOOLEAN, first: BOOLEAN, asap: BOOLEAN, sparse: BOOLEAN, ret: Nat]
    \cup [op: {"WriteFooter"}, meta: BOOLEAN]
    \cup [op: {"Aborted"}]

TypeOK ==
    /\ writer \in WriterType
    /\ stream \in [Stream -> StreamType \cup {None}]
    /\ file \in Seq(Partition)
    /\ call \in CallType
    /\ body \in Nat \cup {NoBody}

Machine == [writer |-> writer, stream |-> stream, file |-> file]

Become(m) == writer' = m.writer /\ stream' = m.stream /\ file' = m.file

Listed(m) == {m.writer.list[i] : i \in DOMAIN m.writer.list}

CurStream(m) == m.writer.list[m.writer.cur]


Advanced(m, s) == [m EXCEPT !.stream[s] = GetNextState(@)]

(***************************************************************************)
(* SetNextStream.  Look searches the whole list once, from place start,    *)
(* for a stream that phase can use; it settles the active streams it       *)
(* passes and deactivates those that are done.  At is the k-th stream it   *)
(* comes to.                                                               *)
(***************************************************************************)
Usable(r, phase) ==
    /\ r.active /\ r.state # "Done"
    /\ CASE phase = "Header" -> r.state = "HeadIndex"
         [] phase = "Body"   -> r.state \notin {"HeadIndex", "FootIndex"}
         [] phase = "Footer" -> r.state = "FootIndex"

At(list, start, k) == list[((start + k - 1) % Len(list)) + 1]

Hits(m, phase, start) ==
    {k \in 0 .. Len(m.writer.list) - 1 :
        Usable(Settled(m.stream[At(m.writer.list, start, k)]), phase)}

Visited(r) == [r EXCEPT !.active = r.state # "Done"]

Chosen(m, phase, start, hits) ==
    LET list == m.writer.list
        first == {k \in hits : \A h \in hits : k <= h}
        last == IF first = {} THEN Len(list) - 1 ELSE CHOOSE k \in first : TRUE
        seen == {At(list, start, k) : k \in 0 .. last}
    IN [m EXCEPT
          !.writer.state = phase,
          !.writer.cur = IF first = {} THEN 0 ELSE ((start + last - 1) % Len(list)) + 1,
          !.stream = [s \in Stream |->
              IF s \in seen /\ m.stream[s].active THEN Visited(Settled(m.stream[s]))
              ELSE m.stream[s]]]

Look(m, phase, start) == Chosen(m, phase, start, Hits(m, phase, start))

\* Mutant: the search starts with the current stream.
FollowingSame(w) == IF w.cur = 0 THEN 1 ELSE w.cur

Following(w) == IF w.cur = 0 THEN 1 ELSE (w.cur % Len(w.list)) + 1

\* What follows a search that has found no stream for its phase.
OrInBody(m) ==
    IF m.writer.cur # 0 \/ m.writer.state # "Header" THEN m ELSE Look(m, "Body", 1)

\* Mutant: when the body is done nobody looks for the footer.
StaysInBody(m) == m

OrInFooter(m) ==
    IF m.writer.cur # 0 \/ m.writer.state = "Footer" THEN m ELSE Look(m, "Footer", 1)

SetNextStream(m) ==
    LET w == m.writer
        phase == IF w.state = "Start" THEN "Header" ELSE w.state
    IN IF w.state = "Done" THEN m
       ELSE OrInFooter(OrInBody(Look(m, phase, Following(w))))

(***************************************************************************)
(* WritePartitionPack, with the call of the partition handler.  The SID of *)
(* the index is cleared in the template only if there was index data.      *)
(***************************************************************************)
WritePartitionPack(m) ==
    LET w == m.writer
        pack == [w.pack EXCEPT !.type = IF w.generic THEN "Generic" ELSE @]
        meta == w.header \/ w.meta \/ (~w.footer /\ HandlerMetadata)
        partition ==
            [type |-> pack.type, body |-> pack.body, offset |-> pack.offset,
             index |-> pack.index, table |-> w.table, meta |-> meta,
             essence |-> << >>]
    IN [m EXCEPT
          !.file = Append(@, partition),
          !.writer = [w EXCEPT
              !.pack = IF w.table = None THEN pack ELSE [pack EXCEPT !.index = None],
              !.table = None, !.pending = FALSE, !.header = FALSE,
              !.footer = FALSE, !.meta = FALSE, !.done = FALSE, !.sid = None,
              !.generic = FALSE]]

Flushed(m) == IF m.writer.pending THEN WritePartitionPack(m) ELSE m

(***************************************************************************)
(* EndPartition.                                                           *)
(***************************************************************************)
EndPartition(m) ==
    LET m1 == [m EXCEPT !.writer.done = TRUE]
        s == CurStream(m)
        m2 == Advanced(m1, s)
    IN Flushed(IF m.writer.cur = 0 \/ m.stream[s].state \notin BodyStates THEN m1
               ELSE IF m2.stream[s].state = "PostBodyIndex" THEN m2
               ELSE SetNextStream(m2))

Ended(m) == IF m.writer.pending THEN EndPartition(m) ELSE m

-----------------------------------------------------------------------------
(***************************************************************************)
(* The constructor, AddStream and ClearStreams.                            *)
(***************************************************************************)
Init ==
    /\ writer = [state |-> "Start", list |-> << >>, cur |-> 0, done |-> FALSE,
                 pending |-> FALSE, header |-> FALSE, footer |-> FALSE,
                 meta |-> FALSE, generic |-> FALSE, table |-> None, sid |-> None,
                 pack |-> [type |-> "Body", body |-> None, offset |-> 0, index |-> None]]
    /\ stream = [s \in Stream |-> None]
    /\ file = << >>
    /\ call = Idle
    /\ body = NoBody

Caller == call = Idle /\ body = NoBody

\* Mutant: a stream that is added again starts anew.
AddStreamAnew(s) ==
    /\ Caller
    /\ writer.state = "Start" \/ (LateStreams /\ writer.state # "Done")
    /\ s \notin Listed(Machine)
    /\ writer' = [writer EXCEPT !.list = Append(@, s)]
    /\ \E p \in Profiles : stream' = [stream EXCEPT ![s] = NewStream(p)]
    /\ UNCHANGED <<file, call, body>>

AddStream(s) ==
    /\ Caller
    /\ writer.state = "Start" \/ (LateStreams /\ writer.state # "Done")
    /\ s \notin Listed(Machine)
    /\ writer' = [writer EXCEPT !.list = Append(@, s)]
    /\ \/ /\ stream[s] = None
          /\ \E p \in Profiles : stream' = [stream EXCEPT ![s] = NewStream(p)]
       \/ /\ stream[s] # None
          /\ stream' = [stream EXCEPT ![s].active = TRUE,
                                      ![s].stopAfter = stream[s].profile.stopAfter]
    /\ UNCHANGED <<file, call, body>>

ClearStreams ==
    /\ Caller
    /\ LateStreams
    /\ writer.list # << >>
    /\ writer' = [writer EXCEPT !.list = << >>, !.cur = 0]
    /\ UNCHANGED <<stream, file, call, body>>

(***************************************************************************)
(* WriteHeader: the call, one turn for each stream of the list, the end.   *)
(* A CBR index table takes the header partition itself if nothing has been *)
(* queued yet, and a partition of its own after that.                      *)
(***************************************************************************)
WriteHeader ==
    /\ Caller
    /\ writer.state = "Start"
    /\ writer' = [writer EXCEPT
          !.pack.type = "Header", !.pack.body = None, !.pack.offset = 0,
          !.sid = None, !.header = TRUE, !.generic = FALSE,
          !.pending = @ \/ ~IndexShares]
    /\ call' = [op |-> "WriteHeader", pos |-> 1, written |-> ~IndexShares]
    /\ UNCHANGED <<stream, file, body>>

HeaderIndex ==
    /\ call.op = "WriteHeader"
    /\ call.pos <= Len(writer.list)
    /\ LET s == writer.list[call.pos]
           r == Settled(stream[s])
           m == [Machine EXCEPT !.stream[s] = r]
           built == r.state = "HeadIndex" /\ HasManager(r) /\ r.profile.cbr
           m1 == Ended(m)
           m2 == [m1 EXCEPT
                    !.writer.sid = s,
                    !.writer.pack.type = IF call.written THEN "Body" ELSE @,
                    !.writer.pack.index = s,
                    !.writer.table = MakeIndex(s, r, {}),
                    !.writer.pending = TRUE,
                    !.writer.done = "CBRHeaderIsolated" \in r.index]
           m3 == IF built THEN m2 ELSE m
       IN /\ Become(IF r.state = "HeadIndex" THEN Advanced(m3, s) ELSE m3)
          /\ call' = [call EXCEPT !.pos = @ + 1, !.written = @ \/ built]
    /\ UNCHANGED body

HeaderEnd ==
    /\ call.op = "WriteHeader"
    /\ call.pos > Len(writer.list)
    /\ LET m == IF call.written THEN Machine
                ELSE [Machine EXCEPT !.writer.pack.index = None,
                                     !.writer.table = None, !.writer.pending = TRUE]
           m1 == IF m.writer.done THEN EndPartition(m) ELSE m
       IN Become(SetNextStream([m1 EXCEPT !.writer.state = "Header"]))
    /\ call' = Idle
    /\ UNCHANGED body

-----------------------------------------------------------------------------
(***************************************************************************)
(* The return of a WritePartition that has processed ret edit units, and   *)
(* what WriteBody, if it is the caller, does with that count.              *)
(***************************************************************************)
\* Mutant: WriteBody compares the count although there is no limit.
ReturnUnlimited(m, ret) ==
    LET end == [m EXCEPT !.writer.state = IF ret >= body THEN "Footer" ELSE @]
    IN /\ Become(end)
       /\ call' = Idle
       /\ body' = IF end.writer.state = "Footer" THEN NoBody ELSE body

Return(m, ret) ==
    LET enough == body > 0 /\ ret >= body
        end == [m EXCEPT !.writer.state = IF enough THEN "Footer" ELSE @]
    IN /\ Become(end)
       /\ call' = Idle
       /\ body' = IF end.writer.state = "Footer" THEN NoBody
                  ELSE IF body > 0 THEN body - ret ELSE body

WriteBody ==
    /\ Caller
    /\ writer.state = "Body"
    /\ body' \in Bodies
    /\ UNCHANGED <<writer, stream, file, call>>

CallEndPartition ==
    /\ UserEnds /\ Len(file) < MaxPartitions
    /\ Caller
    /\ writer.state \in {"Body", "Footer"}
    /\ Become(EndPartition(Machine))
    /\ UNCHANGED <<call, body>>

(***************************************************************************)
(* WritePartition, by the state of the current stream.                     *)
(***************************************************************************)
WritePartition(state) ==
    /\ call = Idle
    /\ writer.state = "Body"
    /\ writer.cur # 0
    /\ stream[CurStream(Machine)].state = state

(***************************************************************************)
(* No current stream: nothing happens, and a WriteBody turns forever.      *)
(***************************************************************************)
NoCurrentStream ==
    /\ call = Idle
    /\ writer.state = "Body"
    /\ writer.cur = 0
    /\ Return(Machine, 0)

\* Mutant: the next sprinkled table starts one edit unit on.
BumpedByOne(r, units) == [r EXCEPT !.nextSprinkled = @ + 1]

Bumped(r, units) == [r EXCEPT !.nextSprinkled = @ + Cardinality(units)]

SprinkleUnits(r) == CompleteEntries(r, r.nextSprinkled, LastNewEditUnit(r))

(***************************************************************************)
(* An index table in a partition of its own, flushed at once.              *)
(***************************************************************************)
IsolatedIndex(m, s, bump) ==
    LET r == m.stream[s]
        units == SprinkleUnits(r)
    IN EndPartition([m EXCEPT
          !.stream[s] = IF bump THEN Bumped(@, units) ELSE @,
          !.writer.pack = [type |-> "Body", body |-> None, offset |-> 0, index |-> s],
          !.writer.sid = None,
          !.writer.generic = FALSE,
          !.writer.table = MakeIndex(s, r, units),
          !.writer.pending = TRUE])

PreBodyIndex ==
    /\ WritePartition("PreBodyIndex")
    /\ LET s == CurStream(Machine)
           m == Ended(Machine)
       IN Return(IF HasManager(stream[s]) THEN Advanced(IsolatedIndex(m, s, TRUE), s)
                 ELSE m, 0)

PostBodyIndex ==
    /\ WritePartition("PostBodyIndex")
    /\ LET s == CurStream(Machine)
           m == Ended(Machine)
           bump == "Sprinkled" \notin stream[s].index
       IN Return(IF HasManager(stream[s])
                 THEN SetNextStream(Advanced(IsolatedIndex(m, s, bump), s))
                 ELSE m, 0)

(***************************************************************************)
(* A body partition: continue the current partition or queue a new one,    *)
(* complete the queued pack, enter WriteEssence.  HeaderByteCount in the   *)
(* template is that of the last partition written, and both tests of it    *)
(* are made only while a partition is pending.                             *)
(***************************************************************************)
LastHasMetadata == file # << >> /\ file[Len(file)].meta

\* Mutant: only essence is kept apart from metadata.
MustNotShareEssence(r) == ~EssenceShares

MustNotShare(r) == (r.state = "BodyWithIndex" /\ ~IndexShares) \/ ~EssenceShares

\* Mutant: PartitionBodySID is not compared.
ContinuedAnySid(s) == ~writer.done /\ ~writer.pending /\ writer.sid # None

Continued(s) ==
    LET split == /\ MustNotShare(stream[s]) /\ writer.pending
                 /\ writer.header \/ writer.meta \/ LastHasMetadata
    IN /\ ~writer.done /\ ~split
       /\ writer.sid = s \/ (writer.sid = None /\ writer.pending)

\* Mutant: the template keeps the type of the partition before.
NewBodyPartitionSameType(m) == [Flushed(m) EXCEPT !.writer.pending = TRUE]

NewBodyPartition(m) ==
    LET m1 == Flushed(m)
    IN [m1 EXCEPT
          !.writer.pack.type = IF m1.writer.generic THEN "Generic" ELSE "Body",
          !.writer.pending = TRUE]

\* A partition left behind by the sharing rules is done until it is flushed.
BodyPartition(s) == IF Continued(s) THEN Machine ELSE NewBodyPartition(Machine)

\* Mutant: the offset counts the unit that is held in the writer.
AddressedByRead(m, s) ==
    IF m.writer.pending
    THEN [m EXCEPT !.writer.pack.body = s,
                   !.writer.pack.offset = m.stream[s].read]
    ELSE m

Addressed(m, s) ==
    IF m.writer.pending
    THEN [m EXCEPT !.writer.pack.body = s,
                   !.writer.pack.offset = m.stream[s].written]
    ELSE m

IndexedPack(m, s) ==
    LET r == m.stream[s]
        units == SprinkleUnits(r)
        typed == IF m.writer.header THEN m.writer.pack.type
                 ELSE IF m.writer.generic THEN "Generic" ELSE "Body"
    IN IF ~m.writer.pending THEN m
       ELSE IF r.state = "BodyNoIndex" THEN [m EXCEPT !.writer.pack.index = None]
       ELSE [m EXCEPT
               !.stream[s] = IF "Sprinkled" \in r.index THEN Bumped(@, units) ELSE @,
               !.writer.pack.type = typed,
               !.writer.pack.index = s,
               !.writer.table = MakeIndex(s, r, units)]

StartBody(state) ==
    /\ WritePartition(state)
    /\ LET s == CurStream(Machine)
           r == stream[s]
           m == Addressed(BodyPartition(s), s)
           failed == m.writer.pending /\ state = "BodyWithIndex" /\ ~HasManager(r)
       IN \/ /\ failed
             /\ Return(m, 0)
          \/ /\ ~failed
             /\ Become(IndexedPack(m, s))
             /\ \E d \in IF body = NoBody THEN Durations ELSE {body},
                   z \in Sized, c \in Closes :
                  call' = [op |-> "WriteEssence", limited |-> d > 0, left |-> d,
                           sized |-> z, close |-> c, first |-> TRUE, asap |-> FALSE,
                           sparse |-> VBRIndex(r) /\ ~r.pending
                                        /\ "SparseFooter" \in r.index,
                           ret |-> 0]
             /\ UNCHANGED body

(***************************************************************************)
(* The return of WriteEssence to WritePartition.                           *)
(***************************************************************************)
\* Mutant: the next stream is chosen before the post-body index table.
LeaveAlways(m, s) == SetNextStream(m)

Leave(m, s) == IF m.stream[s].state = "PostBodyIndex" THEN m ELSE SetNextStream(m)

Writing == call.op = "WriteEssence"

(***************************************************************************)
(* WriteEssence of a clip: everything the source has, as one item.         *)
(***************************************************************************)
ClipEssence ==
    /\ Writing
    /\ LET s == CurStream(Machine)
           r == stream[s]
           m == Flushed([Machine EXCEPT
                    !.writer.generic = IF writer.sid # s THEN r.profile.generic ELSE @])
           clip == [i \in 1 .. r.profile.units - r.read |-> <<s, r.read + i - 1>>]
           all == [r EXCEPT !.read = r.profile.units, !.written = r.profile.units,
                            !.eos = TRUE]
           m1 == [m EXCEPT
                    !.file[Len(m.file)].essence = @ \o clip,
                    !.stream[s] = [all EXCEPT !.sparse =
                        IF VBRIndex(r) THEN @ \cup {LastNewEditUnit(all)} ELSE @]]
       IN /\ r.profile.clip
          /\ Return(Leave(Advanced(m1, s), s), 0)

(***************************************************************************)
(* WriteEssence of frames.  The first read that brings nothing ends it.    *)
(***************************************************************************)
Noted(r) == IF call.sparse THEN r.sparse \cup {r.read} ELSE r.sparse

\* Mutant: essence that is already in the writer is not noticed.
ReadAgain(r) == TRUE

Reading(r) == ~r.pending

GenericNow(r) == IF writer.sid = None THEN r.profile.generic ELSE writer.generic

EssenceEnds ==
    /\ Writing
    /\ LET s == CurStream(Machine)
           r == stream[s]
           m == [Machine EXCEPT !.writer.generic = GenericNow(r),
                                !.stream[s].eos = TRUE,
                                !.stream[s].sparse = Noted(r)]
       IN /\ ~r.profile.clip /\ Reading(r) /\ r.read = r.profile.units
          /\ Return(Leave(Advanced(m, s), s), call.ret)

(***************************************************************************)
(* A turn that has essence in the writer: read now, or held by the last    *)
(* call.  The pack that is pending goes out on the first turn.             *)
(***************************************************************************)
Fetched(s) ==
    LET r == stream[s]
        m == IF Reading(r)
             THEN [Machine EXCEPT !.writer.generic = GenericNow(r),
                                  !.writer.sid = s,
                                  !.stream[s] = [r EXCEPT !.read = @ + 1,
                                                          !.sparse = Noted(r)]]
             ELSE Machine
    IN IF call.first THEN Flushed(m) ELSE m

HasEssence(r) == ~r.profile.clip /\ (r.pending \/ r.read < r.profile.units)

\* Whether to leave as soon as possible: a limit on the size or the duration.
Asap(burst) == call.asap \/ burst \/ (call.limited /\ call.left = 0)

\* Mutant: the count of a stream without a limit runs below zero.
LessUnguarded(n) == n - 1

Less(n) == IF n > 0 THEN n - 1 ELSE 0

(***************************************************************************)
(* The partition is full: the essence stays in the writer for the next.    *)
(* The source decides whether this is an edit point, the sizes whether     *)
(* this turn would burst the partition.                                    *)
(***************************************************************************)
EssenceHeld(burst) ==
    /\ Writing
    /\ LET s == CurStream(Machine)
           m == Fetched(s)
           r == m.stream[s]
           sparse == IF VBRIndex(r) /\ "SparseFooter" \in r.index
                     THEN r.sparse \cup {LastNewEditUnit(r)} ELSE r.sparse
           held == [r EXCEPT !.pending = TRUE, !.stopAfter = Less(@), !.sparse = sparse]
           m1 == [m EXCEPT
                    !.writer.done = @ \/ r.stopAfter = 1 \/ call.close,
                    !.stream[s] = IF call.close THEN GetNextState(held) ELSE held]
       IN /\ HasEssence(stream[s])
          /\ Asap(burst) /\ ~call.first
          /\ Return(Leave(m1, s), call.ret + 1)

EssenceWritten(burst, editPoint) ==
    /\ Writing
    /\ LET s == CurStream(Machine)
           m == Fetched(s)
           r == m.stream[s]
           last == r.stopAfter = 1
           out == [r EXCEPT !.pending = FALSE, !.stopAfter = Less(@), !.written = @ + 1]
           m1 == [m EXCEPT
                    !.file[Len(m.file)].essence = Append(@, <<s, r.read - 1>>),
                    !.writer.done = @ \/ last,
                    !.stream[s] = IF last THEN GetNextState(out) ELSE out]
       IN /\ HasEssence(stream[s])
          /\ call.first \/ ~Asap(burst) \/ ~editPoint
          /\ \/ last /\ Return(Leave(m1, s), call.ret + 1)
             \/ /\ ~last
                /\ Become(m1)
                /\ call' = [call EXCEPT !.first = FALSE, !.asap = Asap(burst),
                                        !.left = Less(@), !.ret = @ + 1,
                                        !.sparse = IF Reading(stream[s]) THEN FALSE ELSE @]
                /\ UNCHANGED body

WriteEssence ==
    \/ ClipEssence
    \/ EssenceEnds
    \/ \E burst \in IF Writing /\ call.sized THEN BOOLEAN ELSE {FALSE} :
          EssenceHeld(burst)
    \/ \E burst \in IF Writing /\ call.sized THEN BOOLEAN ELSE {FALSE} :
       \E editPoint \in IF Writing /\ stream[CurStream(Machine)].profile.align
                        THEN BOOLEAN ELSE {TRUE} :
          EssenceWritten(burst, editPoint)

-----------------------------------------------------------------------------
(***************************************************************************)
(* WriteFooter: the call, one turn for each index table that is due, the   *)
(* footer itself.                                                          *)
(***************************************************************************)
FooterKinds == {"FullFooter", "SparseFooter", "Sprinkled", "SprinkledIsolated", "CBRFooter"}

WriteFooter ==
    /\ Caller
    /\ writer.state = "Footer"
    /\ Become(SetNextStream([Machine EXCEPT
          !.writer.pack = [type |-> "Body", body |-> None, offset |-> 0, index |-> None],
          !.writer.sid = None, !.writer.generic = FALSE, !.writer.cur = 0]))
    /\ \E meta \in BOOLEAN : call' = [op |-> "WriteFooter", meta |-> meta]
    /\ UNCHANGED body

Due(r) == (r.index \ r.footDone) \cap FooterKinds

\* The kinds of table that this turn writes, {} where the code asserts.
DueNow(r) ==
    LET first == {{"Sprinkled", "SprinkledIsolated"}, {"FullFooter"}, {"SparseFooter"}}
        Later(k) == IF k = {"SparseFooter"} THEN {"Sprinkled", "SprinkledIsolated", "FullFooter"}
                    ELSE IF k = {"FullFooter"} THEN {"Sprinkled", "SprinkledIsolated"}
                    ELSE {}
    IN IF r.profile.cbr THEN Due(r) \cap {"CBRFooter"}
       ELSE UNION {Due(r) \cap k : k \in {f \in first : Due(r) \cap Later(f) = {}}}

FooterUnits(r, kinds) ==
    IF Wants([r EXCEPT !.index = kinds], {"Sprinkled", "SprinkledIsolated"}) THEN SprinkleUnits(r)
    ELSE IF kinds = {"FullFooter"} THEN CompleteEntries(r, 0, r.written)
    ELSE {u \in r.sparse : u \in CompleteEntries(r, 0, r.written)}

FooterIndex ==
    /\ call.op = "WriteFooter"
    /\ writer.cur # 0
    /\ LET s == CurStream(Machine)
           r == stream[s]
           kinds == DueNow(r)
           table == MakeIndex(s, r, FooterUnits(r, kinds))
           m == Ended(Machine)
           m1 == IF HasIndexData(table)
                 THEN [m EXCEPT !.writer.pack.index = s, !.writer.table = table,
                                !.writer.pending = TRUE]
                 ELSE m
           over == GetNextState(IF Due(r) = {} THEN [r EXCEPT !.index = {}] ELSE r)
       IN \/ /\ Due(r) = {} \/ ~HasManager(r)
             /\ Become(SetNextStream([Machine EXCEPT !.stream[s] = over]))
             /\ UNCHANGED call
          \/ /\ Due(r) # {} /\ HasManager(r) /\ kinds # {}
             /\ Become(SetNextStream([m1 EXCEPT !.stream[s].footDone = @ \cup kinds]))
             /\ UNCHANGED call
          \/ /\ Due(r) # {} /\ HasManager(r) /\ kinds = {}
             /\ call' = [op |-> "Aborted"]
             /\ UNCHANGED <<writer, stream, file>>
    /\ UNCHANGED body

FooterEnd ==
    /\ call.op = "WriteFooter"
    /\ writer.cur = 0
    /\ LET alone == /\ ~IndexShares /\ call.meta /\ writer.pending
                    /\ writer.table # None
           m == IF alone THEN EndPartition(Machine) ELSE Machine
           m1 == EndPartition([m EXCEPT !.writer.pack.type = "Footer",
                                        !.writer.pending = TRUE,
                                        !.writer.footer = TRUE,
                                        !.writer.meta = call.meta])
       IN Become([m1 EXCEPT !.writer.state = "Done"])
    /\ call' = Idle
    /\ UNCHANGED body

-----------------------------------------------------------------------------
Finished == (writer.state = "Done" \/ call.op = "Aborted") /\ UNCHANGED vars

Step ==
    \/ HeaderIndex \/ HeaderEnd
    \/ NoCurrentStream \/ PreBodyIndex \/ PostBodyIndex
    \/ \E state \in BodyStates : StartBody(state)
    \/ WriteEssence
    \/ FooterIndex \/ FooterEnd

Next ==
    \/ \E s \in Stream : AddStream(s)
    \/ ClearStreams
    \/ WriteHeader \/ WriteBody \/ CallEndPartition \/ WriteFooter
    \/ Step
    \/ Finished

Spec == Init /\ [][Next]_vars

-----------------------------------------------------------------------------
(***************************************************************************)
(* PROPERTIES.  A place is a partition number and a place in its essence.  *)
(***************************************************************************)
Places == UNION {{i} \X DOMAIN file[i].essence : i \in DOMAIN file}

SidAt(q) == file[q[1]].essence[q[2]][1]

UnitAt(q) == file[q[1]].essence[q[2]][2]

Before(p, q) == p[1] < q[1] \/ (p[1] = q[1] /\ p[2] < q[2])

Holds(i, s) == \E k \in DOMAIN file[i].essence : file[i].essence[k][1] = s

(***************************************************************************)
(* The essence of each stream is on file from its first edit unit on, in   *)
(* order, without a gap and without a repetition, whatever was held in the *)
(* writer over a change of partition or of stream.                         *)
(***************************************************************************)
EssenceInOrder ==
    /\ \A p, q \in Places :
          (SidAt(p) = SidAt(q) /\ Before(p, q)) => UnitAt(p) < UnitAt(q)
    /\ \A q \in Places : \A u \in 0 .. UnitAt(q) :
          \E p \in Places : SidAt(p) = SidAt(q) /\ UnitAt(p) = u

(***************************************************************************)
(* The BodyOffset of a partition pack is the amount of essence of its      *)
(* BodySID in all earlier partitions (the units below it are there, the    *)
(* others are not), although the pack is prepared before other streams     *)
(* have had their turn.                                                    *)
(***************************************************************************)
BodyOffsetTrue ==
    \A i \in DOMAIN file : file[i].body # None =>
        /\ \A q \in Places : SidAt(q) = file[i].body =>
              (q[1] < i <=> UnitAt(q) < file[i].offset)
        /\ \A u \in 0 .. file[i].offset - 1 :
              \E q \in Places : SidAt(q) = file[i].body /\ UnitAt(q) = u

(***************************************************************************)
(* Essence goes only into partitions whose pack carries its BodySID, which *)
(* is decided from PartitionBodySID and the pending flags alone.           *)
(***************************************************************************)
OwnPartition == \A q \in Places : SidAt(q) = file[q[1]].body

(***************************************************************************)
(* SetMetadataSharing is obeyed: header metadata never shares a partition  *)
(* with essence or index data that may not.                                *)
(***************************************************************************)
MetadataAlone ==
    \A i \in DOMAIN file : file[i].meta =>
        /\ EssenceShares \/ file[i].essence = << >>
        /\ IndexShares \/ ~HasIndexData(file[i].table)

(***************************************************************************)
(* Index data and the IndexSID of the pack that precedes it agree.         *)
(***************************************************************************)
TableLabelled ==
    \A i \in DOMAIN file :
        /\ HasIndexData(file[i].table) => file[i].table.stream = file[i].index
        /\ file[i].index # None => HasIndexData(file[i].table)

(***************************************************************************)
(* A file with essence starts with its only header partition, and a file   *)
(* that is done ends with its only footer partition.                       *)
(***************************************************************************)
HeaderAndFooter ==
    /\ (\E i \in DOMAIN file : file[i].essence # << >>) =>
          \A i \in DOMAIN file : file[i].type = "Header" <=> i = 1
    /\ \A i \in DOMAIN file : file[i].type = "Footer" =>
          i = Len(file) /\ writer.state = "Done"
    /\ writer.state = "Done" => file # << >> /\ file[Len(file)].type = "Footer"

(***************************************************************************)
(* What is in a partition may be there and is what its pack says it is,    *)
(* also when the pack was prepared for another stream or another use.      *)
(***************************************************************************)
ContentsTrue == MetadataAlone /\ TableLabelled /\ HeaderAndFooter

(***************************************************************************)
(* When the writer is done every unit that the sources had is on file and  *)
(* none is left in a writer.                                               *)
(***************************************************************************)
AllWritten ==
    writer.state = "Done" => \A s \in Listed(Machine) :
        stream[s].written = stream[s].profile.units /\ ~stream[s].pending

(***************************************************************************)
(* Sprinkled tables (of one kind, and no other VBR table) index each edit  *)
(* unit on file exactly once; a full table indexes them all; the sparse    *)
(* table has the first edit unit of every partition.                       *)
(***************************************************************************)
TablesWith(s, u) ==
    {i \in DOMAIN file : LET t == file[i].table IN
        t # None /\ t.stream = s /\ u \in t.units}

UnitsIndexed ==
    writer.state = "Done" => \A s \in Listed(Machine) :
        LET p == stream[s].profile
            asked == p.index \cap {"Sprinkled", "SprinkledIsolated", "FullFooter"}
        IN (p.managed /\ ~p.cbr /\ asked # {}) =>
             \A u \in 0 .. stream[s].written - 1 :
                /\ TablesWith(s, u) # {}
                /\ Cardinality(asked) = 1 /\ "SparseFooter" \notin p.index =>
                      Cardinality(TablesWith(s, u)) = 1

SparseStarts ==
    \A i \in DOMAIN file : file[i].essence # << >> =>
        LET s == file[i].essence[1][1]
        IN ("SparseFooter" \in stream[s].index /\ VBRIndex(stream[s])) =>
              file[i].essence[1][2] \in stream[s].sparse

IndexComplete == UnitsIndexed /\ SparseStarts

(***************************************************************************)
(* Isolated tables are where their names say: one right after, one right   *)
(* before each essence partition of the stream, and never with essence.    *)
(***************************************************************************)
IsolatedFor(i, s) ==
    /\ i \in DOMAIN file
    /\ file[i].body = None /\ file[i].essence = << >>
    /\ file[i].table # None /\ file[i].table.stream = s

IsolatedInPlace ==
    \A i \in DOMAIN file, s \in Listed(Machine) :
        (Holds(i, s) /\ stream[s].profile.managed) =>
            /\ (stream[s].profile.index \cap {"CBRIsolated", "SprinkledIsolated"} # {}
                  /\ (i < Len(file) \/ writer.state = "Done")) => IsolatedFor(i + 1, s)
            /\ "CBRPreIsolated" \in stream[s].profile.index => IsolatedFor(i - 1, s)

(***************************************************************************)
(* Streams take turns: between two partitions of one stream every stream   *)
(* that still has essence to come gets a partition of its own.             *)
(***************************************************************************)
TakeTurns ==
    \A i, j, k \in DOMAIN file, s, t \in Stream :
        (i < j /\ j < k /\ Holds(i, s) /\ Holds(j, s) /\ Holds(k, t) /\ t # s) =>
            \E h \in i+1 .. j-1 : Holds(h, s) \/ Holds(h, t)

(***************************************************************************)
(* Whatever streams, tables and limits there are, what the writer does is  *)
(* to write a file once from its start to its end, stream by stream: it    *)
(* implements MuxedFile.                                                   *)
(***************************************************************************)
Mux == INSTANCE MuxedFile WITH
    Streams <- Stream,
    parts <- [i \in DOMAIN file |->
                [kind |-> file[i].type, sid |-> file[i].body, units |-> file[i].essence]],
    delivered <- [s \in Stream |-> IF stream[s] = None THEN 0 ELSE stream[s].written]

WritesMuxedFile == Mux!Spec

(***************************************************************************)
(* Claims of the documentation and comments that the code does not keep;   *)
(* each is checked by a run that finds the counterexample.                 *)
(*                                                                         *)
(* AddStream: the writer stops writing a stream after StopAfter units.     *)
(***************************************************************************)
StopAfterObeyed ==
    \A s \in Listed(Machine) :
        stream[s].profile.stopAfter > 0 => stream[s].written <= stream[s].profile.stopAfter

(***************************************************************************)
(* The caller goes on: it writes the header, partition after partition     *)
(* until BodyDone (the loop of libprocesswrap/process.cpp), the footer.    *)
(* This is WF_vars(Progress) with its ENABLED written out as ~AtRest; a    *)
(* stream without the index manager it needs is counted as at rest.        *)
(***************************************************************************)
Progress == WriteHeader \/ WriteFooter \/ Step

AtRest ==
    \/ writer.state = "Done" \/ call.op = "Aborted"
    \/ /\ call = Idle /\ writer.state = "Body"
       /\ writer.cur = 0 \/ ~stream[CurStream(Machine)].profile.managed

FairSpec == Spec /\ ([]<>AtRest \/ []<><<Progress>>_vars)

(***************************************************************************)
(* Every file gets finished, and without an assertion that fails: a caller *)
(* that is aborted does not go on.                                         *)
(***************************************************************************)
Finishes == <>(writer.state = "Done")

=============================================================================
