----------------------------- MODULE BodyReader -----------------------------
(***************************************************************************)
(* Reading the essence of a file: BodyReader and GCReader of               *)
(* mxflib/essence.cpp with Partition::SeekEssence and RIP::FindPartition.  *)
(*                                                                         *)
(* Positions count in lengths of a key: a KLV (and a pack) has one unit of *)
(* key and one of length and value, junk between KLVs has one unit.  A KLV *)
(* is handled in a step of its own, with every answer a handler can give.  *)
(***************************************************************************)
EXTENDS Integers, Sequences, FiniteSets

CONSTANTS
    Scenes,     \* files and what is done with them, see below
    JunkSize,   \* what the length behind a key of junk decodes to
    MaxLog      \* bound on the KLVs a handler accepted

\* What is in a file: where it is, the BodySID, and of a pack BodyOffset and
\* the bytes of metadata and index that it counts.
Item == [type : {"pack", "klv", "fill", "meta", "rip", "junk"}, at : Nat, sid : Nat, offset : Nat, meta : Nat]

SizeOf(item) == IF item.type = "junk" THEN 1 ELSE 2

\* Is an item of file f essence of a body stream, and how many bytes of its
\* stream are before it?
EssenceIn(f, i) == f[i].type \in {"klv", "fill"} /\ f[i].sid # 0

OffsetIn(f, i) == 2 * Cardinality({j \in 1..(i - 1) : EssenceIn(f, j) /\ f[j].sid = f[i].sid})

\* Item j is in the partition that begins with the pack i.
InPartition(f, i, j) == i < j /\ f[i].type = "pack" /\ \A k \in (i + 1)..j : f[k].type # "pack"

\* Where a partition has its essence: behind the pack, a filler and the bytes
\* of metadata and index.
HeadEnd(f, i) == f[i].at + 2 + f[i].meta + (IF i < Len(f) /\ f[i + 1].type = "fill" THEN 2 ELSE 0)

\* Item e is where the essence of the partition of pack i begins, and there is
\* nothing else in it from there on.
Begins(f, i, e) ==
    /\ InPartition(f, i, e) /\ f[e].at = HeadEnd(f, i)
    /\ f[e].type = "klv" /\ f[i].offset = OffsetIn(f, e)
    /\ \A j \in e..Len(f) : InPartition(f, i, j) => EssenceIn(f, j) /\ f[j].sid = f[i].sid

VARIABLES
    scene,      \* what is read, and by whom
    file,       \* the file read
    body,       \* the BodyReader: CurrentPos, NewPos, AtPartition, AtEOF, CurrentBodySID
    gc,         \* its GCReaders: FileOffset, StreamOffset, PushBackRequested
    rip,        \* FileRIP: known pack, estimate and essence start of each partition
    call,       \* the call in progress
    result,     \* what the last call returned
    log         \* the KLVs handlers accepted since the last seek: item and offset

vars == <<scene, file, body, gc, rip, call, result, log>>

(***************************************************************************)
(* A scene.                                                                *)
(***************************************************************************)
Files == scene.files        \* the files: sequences of items
Sids == scene.sids          \* the body streams with a GCReader
Handled == scene.handled    \* kinds of KLV ("klv", "fill") that some handler takes
Answers == scene.answers    \* of handlers: subset of {"ok", "fail", "stop", "push"}
Modes == scene.modes        \* arguments of ReadFromFile: single KLV or not
Starts == scene.starts      \* positions to seek to
Targets == scene.targets    \* <<stream, offset>> to seek to
Loops == scene.loops        \* the caller reads until it is told to stop

ASSUME ReaderAssumption ==
    /\ JunkSize \in Nat \ {0} /\ MaxLog \in Nat
    /\ \A x \in Scenes :
          /\ \A f \in x.files :
                /\ f \in Seq(Item) /\ f # <<>> /\ f[1].at = 0
                /\ \A i \in 2..Len(f) : f[i].at = f[i - 1].at + SizeOf(f[i - 1])
          /\ x.answers \subseteq {"ok", "fail", "stop", "push"} /\ x.modes \subseteq BOOLEAN
          /\ x.sids \subseteq Nat \ {0} /\ x.starts \subseteq Nat
          /\ \A t \in x.targets : t[1] \in Nat \ {0} /\ t[2] \in Nat
          /\ x.loops \in BOOLEAN

\* A file as it should be: essence is in a partition of its stream, behind what
\* its pack counts; a partition of a stream has some, and another one follows.
\* No pack follows a pack, where SeekEssence takes it for essence.
WellWritten(f) ==
    /\ \A j \in DOMAIN f : EssenceIn(f, j) =>
          \E i \in DOMAIN f : InPartition(f, i, j) /\ f[i].sid = f[j].sid /\ f[j].at >= HeadEnd(f, i)
    /\ \A i \in DOMAIN f : f[i].type = "pack" =>
          /\ \A k \in DOMAIN f : k > i /\ f[k].type = "pack" =>
                f[k].at >= HeadEnd(f, i) /\ k # i + 1 /\ ~(k = i + 2 /\ f[i + 1].type = "fill")
          /\ f[i].sid # 0 => (\E e \in DOMAIN f : Begins(f, i, e))
                            /\ \E k \in DOMAIN f : k > i /\ f[k].type = "pack"

\* What FindPartition needs to estimate: no later partition of a stream has
\* less metadata and index, as it takes for all what it knows of one.
Estimable(f) ==
    \A i, k \in DOMAIN f :
        (i < k /\ f[i].type = "pack" /\ f[k].type = "pack" /\ f[i].sid = f[k].sid /\ f[i].sid # 0)
          => f[i].meta <= f[k].meta

\* What is sought is where a KLV may begin, and a handler that pushes back is
\* not used KLV by KLV, as the request stays.
Usable(x) ==
    /\ \A f \in x.files : WellWritten(f) /\ Estimable(f)
    /\ \A t \in x.targets : t[2] % 2 = 0
    /\ "push" \in x.answers => TRUE \notin x.modes

TypeOK ==
    /\ file \in Files
    /\ body \in [pos : Nat, new : BOOLEAN, atPartition : BOOLEAN, atEof : BOOLEAN, sid : Nat]
    /\ gc \in [Sids -> [file : Nat, stream : Int, push : BOOLEAN]]
    /\ call.op \in {"idle", "read", "find", "seek"}
    /\ result.kind \in {"none", "read", "seek"}
-----------------------------------------------------------------------------
(***************************************************************************)
(* The file                                                                *)
(***************************************************************************)
Items == DOMAIN file

StartOf(i) == file[i].at

FileEnd == file[Len(file)].at + SizeOf(file[Len(file)])

\* The item whose key is at p; values and junk are no keys.
ItemsAt(p) == {i \in Items : StartOf(i) = p}

IsA(p, type) == \E i \in Items : file[i].at = p /\ file[i].type = type

CanReadKey(p) == p < FileEnd

IsPartitionKey(p) == IsA(p, "pack")

\* Is a standard key at p?
IsKey(p) == \E i \in Items : file[i].at = p /\ file[i].type # "junk"

Packs == {i \in Items : file[i].type = "pack"}

\* Where the first item of the types from p on starts, or the end.
FirstFrom(p, types) ==
    IF \E i \in Items : file[i].at >= p /\ file[i].type \in types
      THEN file[CHOOSE i \in Items :
                  /\ file[i].at >= p /\ file[i].type \in types
                  /\ \A j \in 1..(i - 1) : file[j].at < p \/ file[j].type \notin types].at
    ELSE FileEnd

LeastOf(S) == CHOOSE x \in S : \A y \in S : x <= y

\* SeekEssence of the pack that is item i: does it succeed, and where is the
\* file pointer then?
SeekEssence(i) ==
    LET behind == StartOf(i) + 2
        filled == IF IsA(behind, "fill") THEN behind + 2 ELSE behind
    IN IF ~CanReadKey(behind) \/ ~CanReadKey(filled) THEN [ok |-> FALSE, tell |-> FileEnd]
       ELSE IF IsPartitionKey(filled) THEN [ok |-> FALSE, tell |-> filled + 1]
       ELSE [ok |-> TRUE, tell |-> filled + file[i].meta]
-----------------------------------------------------------------------------
(***************************************************************************)
(* Resynchronising                                                         *)
(***************************************************************************)

\* KLVs are skipped one by one up to the next partition pack, the end, or
\* something that is no key.
SkipKLVs(p) == IF IsKey(p) THEN FirstFrom(p, {"pack", "junk"}) ELSE p

\* From something that is no key on: byte by byte.  The key just tested has
\* been read, so the first buffer starts one key behind p; the position is
\* counted from p.
ScanBytes(p) ==
    LET q == FirstFrom(p + 1, {"pack"})
    IN IF q = FileEnd THEN [ok |-> FALSE, pos |-> q] ELSE [ok |-> TRUE, pos |-> q - 1]

ReSyncBeyond(b) ==
    LET p == FirstFrom(b.pos + 1, {"pack"})
    IN [ok |-> CanReadKey(p), body |-> [b EXCEPT !.pos = p, !.atEof = ~CanReadKey(p), !.new = TRUE]]

\* ReSync: the BodyReader afterwards, and the result.
ReSyncOf(b) ==
    IF b.atPartition \/ (CanReadKey(b.pos) /\ IsPartitionKey(b.pos)) THEN [ok |-> TRUE, body |-> b]
    ELSE LET p == SkipKLVs(b.pos)
         IN IF ~CanReadKey(p) THEN [ok |-> FALSE, body |-> [b EXCEPT !.pos = p, !.atEof = TRUE]]
            ELSE LET s == IF IsPartitionKey(p) THEN [ok |-> TRUE, pos |-> p] ELSE ScanBytes(p)
                 IN IF s.ok
                      THEN [ok |-> TRUE, body |-> [b EXCEPT !.pos = s.pos, !.atPartition = TRUE, !.new = TRUE]]
                    ELSE [ok |-> FALSE, body |-> [b EXCEPT !.pos = s.pos]]
-----------------------------------------------------------------------------
(***************************************************************************)
(* Finding a partition                                                     *)
(***************************************************************************)

\* Locals of FindPartition: stream is StreamPosition, prev the last partition
\* of the stream, end where it ends, size PartitionEstimate; at is the pack
\* looked at.
Finding(sid, want) ==
    [op |-> "find", sid |-> sid, want |-> want, at |-> 0, stream |-> 0, prev |-> 0, end |-> -1, size |-> 0]

\* Where the partition before the one of pack i ends, and what follows of it
\* for the offset of that one.
EndBefore(i) == IF call.prev # 0 /\ call.end = -1 THEN StartOf(i) ELSE call.end

Estimate(i) ==
    IF rip[i].est # -1 THEN rip[i].est ELSE call.stream + (EndBefore(i) - (StartOf(call.prev) + call.size))
-----------------------------------------------------------------------------
(***************************************************************************)
(* Operations                                                              *)
(***************************************************************************)
Idle == [op |-> "idle"]

NewReader == [file |-> 0, stream |-> 0, push |-> FALSE]

Init ==
    /\ scene \in Scenes /\ file \in Files
    /\ body = [pos |-> 0, new |-> TRUE, atPartition |-> FALSE, atEof |-> FALSE, sid |-> 0]
    /\ gc = [s \in Sids |-> NewReader]
    /\ \E known \in BOOLEAN : rip = [i \in Packs |-> [known |-> known, est |-> -1, start |-> -1]]
    /\ call = Idle /\ result = [kind |-> "none"]
    /\ log = [from |-> 0, seen |-> <<>>]

Return(value) == call' = Idle /\ result' = value

\* ReadFromFile returns ok, Seek a position.
ReadReturn(ok) == Return([kind |-> "read", ok |-> ok])

\* Seek to a position in the file.
Seek(p) ==
    /\ call = Idle
    /\ body' = [pos |-> p, new |-> TRUE, atPartition |-> FALSE, atEof |-> FALSE, sid |-> 0]
    /\ log' = [from |-> p, seen |-> <<>>]
    /\ Return([kind |-> "seek", at |-> p, sid |-> 0, want |-> p])
    /\ UNCHANGED <<file, gc, rip>>

\* Seek to an offset in a stream: FindPartition begins.
SeekStream(sid, want) ==
    /\ call = Idle
    /\ call' = Finding(sid, want)
    /\ UNCHANGED <<file, body, gc, rip, result, log>>

SeekReturn(at) == Return([kind |-> "seek", at |-> at, sid |-> call.sid, want |-> call.want])

\* The search goes on from what was found.
Found ==
    IF call.prev = 0 THEN SeekReturn(-1)
    ELSE /\ call' = [op |-> "seek", sid |-> call.sid, want |-> call.want, part |-> call.prev, last |-> -1]
         /\ UNCHANGED result

\* Pack i is of the stream and its offset, known or guessed, not beyond.
Continue(i, offset, size) ==
    /\ call' = [call EXCEPT !.at = i, !.stream = offset, !.prev = i, !.end = -1, !.size = size]
    /\ UNCHANGED result

\* A turn of FindPartition.  No caller sets the StreamOffset of an entry.  The
\* removal of the header byte count from the estimate is never reached: it
\* wants a known pack in the branch for unknown ones.
FindRound ==
    /\ call.op = "find"
    /\ LET later == {j \in Packs : j > call.at}
           i == LeastOf(later)
       IN \/ later = {} /\ Found /\ UNCHANGED rip
          \/ /\ later # {} /\ file[i].sid # call.sid
             /\ call' = [call EXCEPT !.at = i, !.end = EndBefore(i)]
             /\ UNCHANGED <<rip, result>>
          \/ /\ later # {} /\ file[i].sid = call.sid /\ rip[i].known
             /\ rip' = [rip EXCEPT ![i].est = file[i].offset]
             /\ \/ file[i].offset > call.want /\ Found
                \/ file[i].offset <= call.want /\ Continue(i, file[i].offset, file[i].meta + 2)
          \/ /\ later # {} /\ file[i].sid = call.sid /\ ~rip[i].known /\ call.prev = 0
             /\ Continue(i, 0, call.size) /\ UNCHANGED rip
          \/ /\ later # {} /\ file[i].sid = call.sid /\ ~rip[i].known /\ call.prev # 0
             /\ rip' = [rip EXCEPT ![i].est = Estimate(i)]
             /\ \/ Estimate(i) > call.want /\ Found
                \/ Estimate(i) <= call.want /\ Continue(i, Estimate(i), call.size)
    /\ UNCHANGED <<file, body, gc, log>>

\* Where the offset would be if it were in the partition of this round.
Predicted(start) == start + (call.want - file[call.part].offset)

\* lower_bound(PredictedPos) instead of lower_bound(PredictedPos + 1)
PartitionNext(p) == IF \E i \in Packs : StartOf(i) >= p THEN LeastOf({i \in Packs : StartOf(i) >= p}) ELSE LeastOf(Packs)

\* The partition at or before p.
PartitionOf(p) ==
    LET before == {i \in Packs : StartOf(i) <= p}
    IN IF before = {} THEN LeastOf(Packs) ELSE CHOOSE i \in before : \A j \in before : j <= i

ArriveUnset(p) ==
    /\ body' = [body EXCEPT !.pos = p, !.sid = call.sid, !.new = call.sid \notin Sids]
    /\ gc' = [s \in Sids |-> IF s = call.sid THEN [gc[s] EXCEPT !.file = p] ELSE gc[s]]
    /\ log' = [from |-> p, seen |-> <<>>]
    /\ SeekReturn(p)

\* The reader, if there is one, continues at p.
Arrive(p) ==
    /\ body' = [body EXCEPT !.pos = p, !.sid = call.sid, !.new = call.sid \notin Sids]
    /\ gc' = [s \in Sids |-> IF s = call.sid THEN [gc[s] EXCEPT !.file = p, !.stream = call.want] ELSE gc[s]]
    /\ log' = [from |-> p, seen |-> <<>>]
    /\ SeekReturn(p)

\* One round of the search: read the pack, find its essence, predict, and go
\* on with the next partition of the stream if the prediction is beyond.
SeekRound ==
    /\ call.op = "seek"
    /\ LET i == call.part
           essence == SeekEssence(i)
           start == IF rip[i].start # -1 THEN rip[i].start ELSE essence.tell
           p == Predicted(start)
           here == PartitionOf(p)
           later == {j \in Packs : j >= here /\ file[j].sid = call.sid}
       IN /\ rip' = [rip EXCEPT ![i].known = TRUE, ![i].start = IF essence.ok THEN start ELSE @]
          /\ \/ /\ \/ rip[i].start = -1 /\ ~essence.ok
                   \/ p = call.last
                   \/ p < 0 /\ here = i
                /\ SeekReturn(-1) /\ UNCHANGED <<body, gc, log>>
             \/ /\ rip[i].start # -1 \/ essence.ok
                /\ p # call.last
                /\ \/ /\ \A j \in Packs : StartOf(j) <= p
                      /\ SeekReturn(0) /\ UNCHANGED <<body, gc, log>>
                   \/ /\ \E j \in Packs : StartOf(j) > p
                      /\ \/ here = i /\ p >= 0 /\ Arrive(p)
                         \/ /\ here # i /\ later = {}
                            /\ SeekReturn(-1) /\ UNCHANGED <<body, gc, log>>
                         \/ /\ here # i /\ later # {}
                            /\ call' = [call EXCEPT !.part = LeastOf(later), !.last = p]
                            /\ UNCHANGED <<body, gc, result, log>>
    /\ UNCHANGED file

\* The loop of the GCReader begins.
StartReading(single) ==
    call' = [op |-> "read", stopNow |-> single, stopCalled |-> FALSE]

\* ReadFromFile after a seek, a stop, an error or at a partition pack: find
\* the next pack first.
ReadAnew(single) ==
    /\ call = Idle /\ body.new
    /\ \E r \in {ReSyncOf(body)} :
          \/ /\ ~r.ok \/ ~IsPartitionKey(r.body.pos)
             /\ body' = r.body
             /\ ReadReturn(FALSE) /\ UNCHANGED gc
          \/ \E i \in ItemsAt(r.body.pos) :
             /\ r.ok /\ IsPartitionKey(r.body.pos) /\ file[i].sid \in Sids
             /\ body' = [r.body EXCEPT !.sid = file[i].sid]
             /\ gc' = [gc EXCEPT ![file[i].sid] = [@ EXCEPT !.file = SeekEssence(i).tell, !.stream = file[i].offset]]
             /\ StartReading(single) /\ UNCHANGED result
          \/ \E i \in ItemsAt(r.body.pos) :
             /\ r.ok /\ IsPartitionKey(r.body.pos) /\ file[i].sid \notin Sids
             /\ \E next \in {ReSyncOf([r.body EXCEPT !.sid = file[i].sid, !.pos = SeekEssence(i).tell,
                                                      !.atPartition = FALSE])} :
                   body' = next.body /\ ReadReturn(next.ok)
             /\ UNCHANGED gc
    /\ UNCHANGED <<file, rip, log>>

\* ReadFromFile goes on where the reader of the stream is.
ReadOn(single) ==
    /\ call = Idle /\ ~body.new
    /\ StartReading(single)
    /\ UNCHANGED <<file, body, gc, rip, result, log>>

ReturnedOnce(r, ret) ==
    /\ body' = [body EXCEPT !.pos = r.file, !.atPartition = FALSE, !.atEof = @ \/ (ret /\ ~CanReadKey(r.file)),
                            !.new = ~ret]
    /\ ReadReturn(ret)

\* Back in the BodyReader.
Returned(r, ret) ==
    /\ LET p == r.file
       IN body' = [body EXCEPT !.pos = p, !.atPartition = FALSE, !.atEof = @ \/ (ret /\ ~CanReadKey(p)),
                               !.new = ~ret \/ (CanReadKey(p) /\ IsPartitionKey(p))]
    /\ ReadReturn(ret)

\* What no handler takes, and what the file does not have, ends or continues
\* the loop without an answer.
Reader == gc[body.sid]

\* No KLV can be read, or the next partition begins.
ReachEnd ==
    /\ call.op = "read"
    /\ ~CanReadKey(Reader.file + 1) \/ IsPartitionKey(Reader.file)
    /\ Returned(Reader, CanReadKey(Reader.file + 1))
    /\ UNCHANGED <<file, gc, rip, log>>

KLVSize(p) == IF IsKey(p) THEN 2 ELSE JunkSize

\* Is there a handler for the KLV at p?  Fillers are discarded without one.
Taken(p) == IF IsA(p, "fill") THEN "fill" \in Handled ELSE "klv" \in Handled

\* A KLV is dispatched, and its handler answers; the reader advances unless
\* the KLV is pushed back.
HandleData(answer) ==
    /\ call.op = "read"
    /\ CanReadKey(Reader.file + 1) /\ ~IsPartitionKey(Reader.file)
    /\ Taken(Reader.file) \/ answer = "ok"
    /\ answer = "ok" => Len(log.seen) < MaxLog
    /\ LET stop == answer \in {"stop", "push"}
           push == IF stop THEN answer = "push" ELSE Reader.push
           stopNow == call.stopNow \/ stop
           n == KLVSize(Reader.file)
           r == IF stopNow /\ push THEN [Reader EXCEPT !.push = push]
                ELSE [file |-> Reader.file + n, stream |-> Reader.stream + n, push |-> push]
       IN /\ gc' = [gc EXCEPT ![body.sid] = r]
          /\ log' = IF answer # "push" /\ Taken(Reader.file)
                      THEN [log EXCEPT !.seen = Append(@, [at |-> Reader.file, stream |-> Reader.stream, sid |-> body.sid])]
                    ELSE log
          /\ \/ answer = "fail" /\ Returned(r, FALSE)
             \/ answer # "fail" /\ stopNow /\ Returned(r, ~(call.stopCalled \/ stop))
             \/ /\ answer # "fail" /\ ~stopNow
                /\ UNCHANGED <<body, call, result>>
    /\ UNCHANGED <<file, rip>>

\* IsAtPartition and Eof, asked by the caller, note the end of the file.
IsAtPartition ==
    /\ call = Idle
    /\ body' = [body EXCEPT !.atEof = @ \/ (~body.atPartition /\ ~CanReadKey(body.pos))]
    /\ UNCHANGED <<file, gc, rip, call, result, log>>

Read == \E single \in Modes : ReadAnew(single) \/ ReadOn(single)

Step == FindRound \/ SeekRound \/ ReachEnd \/ \E answer \in Answers : HandleData(answer)

\* Callers that seek and read as they like.
Freely ==
    \/ \E p \in Starts : Seek(p)
    \/ \E t \in Targets : SeekStream(t[1], t[2])
    \/ Read \/ Step \/ IsAtPartition

\* A caller that reads until it is told to stop, one thread that goes on.
Ended == result = [kind |-> "read", ok |-> FALSE]

Loop ==
    /\ Loops
    /\ (~Ended /\ Read) \/ Step \/ (Ended /\ call = Idle /\ UNCHANGED vars)
    /\ UNCHANGED scene

Next == Loop \/ (~Loops /\ Freely /\ UNCHANGED scene)

Spec == Init /\ [][Next]_vars /\ WF_vars(Loop)
-----------------------------------------------------------------------------
(***************************************************************************)
(* Properties                                                              *)
(***************************************************************************)

IsEssence(i) == EssenceIn(file, i)

TrueOffset(i) == OffsetIn(file, i)

\* Every KLV a handler gets is one of the stream the reader is for, at the
\* offset in that stream that the handler is told.
RightStream ==
    \A n \in DOMAIN log.seen :
        \E i \in ItemsAt(log.seen[n].at) :
            IsEssence(i) /\ file[i].sid = log.seen[n].sid /\ log.seen[n].stream = TrueOffset(i)

\* No KLV is handled twice and none before an earlier one.
InOrder ==
    \A m, n \in DOMAIN log.seen : m < n => log.seen[m].at < log.seen[n].at

\* Handlers get the essence of their streams, in its order and once, with
\* its place, whatever was skipped, refused or searched for before.
Delivered == TypeOK /\ RightStream /\ InOrder

\* Unless handlers refuse KLVs, when the end of the file is reached every KLV
\* of the streams that has a handler has been handled, from the first partition
\* after the seek on.
Complete ==
    Answers = {"ok"} /\ call = Idle /\ body.atEof /\ body.pos >= FileEnd =>
        \A i \in Items :
            /\ file[i].type = "klv" /\ file[i].sid \in Sids /\ "klv" \in Handled
            /\ \E k \in Packs : k < i /\ StartOf(k) >= log.from
            => \E n \in DOMAIN log.seen : log.seen[n].at = StartOf(i)

Sought == result.kind = "seek" /\ result.sid # 0

\* A seek to an offset of a stream that says it arrived did arrive there.
Arrived ==
    Sought /\ result.at > 0 =>
        \E i \in ItemsAt(result.at) : file[i].sid = result.sid /\ TrueOffset(i) = result.want

\* Offsets that a stream has are found.
SeekFinds ==
    Sought /\ (\E i \in Items : IsEssence(i) /\ file[i].sid = result.sid /\ TrueOffset(i) = result.want)
        => result.at > 0

\* A seek, from whatever is known of the partitions so far, leads to the place
\* that was asked for, and finds it if there is one.
SeekTrue == Arrived /\ SeekFinds

\* A loop that reads until it is told to stop ends.
LoopEnds == Loops ~> Ended
=============================================================================
