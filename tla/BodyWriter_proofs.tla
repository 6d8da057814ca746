------------------------ MODULE BodyWriter_proofs ------------------------
(***************************************************************************)
(* Proofs that the body writer is type correct and that, whatever the      *)
(* streams, their index tables and the order of the calls, the file keeps  *)
(* the essence: in partitions of its stream, in order, without a gap, and  *)
(* with true BodyOffsets; that nothing is left behind if the streams are   *)
(* there from the start, and that they take turns; and that it implements  *)
(* MuxedFile.                                                              *)
(*                                                                         *)
(* The properties are not inductive: a pack is prepared long before it is  *)
(* written, other streams may have their turn in between, and a unit may   *)
(* be held in the writer meanwhile.  IInv adds what ties them together:    *)
(* the pending pack has the offset of its stream (Template), the partition *)
(* that is open belongs to PartitionBodySID (Open), WriteEssence always    *)
(* has a partition of its stream at hand (Serving), at most the one unit   *)
(* read last is not on file (StreamInv), and the amounts of the streams    *)
(* describe the whole file (FileOK).                                       *)
(*                                                                         *)
(* 1. Scheduling (SetNextStream and GetNextState) changes no amount.       *)
(* 2. The file: an empty partition, more essence in the last partition.    *)
(* 3. The operators from machine to machine keep Good.                     *)
(* 4. Each action keeps IInv.                                              *)
(* 5. The theorems.                                                        *)
(* 6. The refinement of MuxedFile, with Closing.                           *)
(* 7. The streams take turns, with TurnInv.                                *)
(***************************************************************************)
EXTENDS BodyWriter, FiniteSetTheorems, WellFoundedInduction, TLAPS

\* A stream changed by state decisions only: what was read and written stays.
Kept(r, q) ==
    /\ q \in StreamType
    /\ q.read = r.read /\ q.written = r.written /\ q.pending = r.pending
    /\ q.profile = r.profile

\* Typing of NextState and of the helpers that it uses.
LEMMA IndexedBodyType ==
    ASSUME NEW r, NEW kinds
    PROVE  IndexedBody(r, kinds) \in StateType
BY DEF IndexedBody, StateType

\* See IndexedBodyType.
LEMMA FooterStateType ==
    ASSUME NEW r, NEW kinds
    PROVE  FooterState(r, kinds) \in StateType
BY DEF FooterState, StateType

\* See IndexedBodyType.
LEMMA FirstBodyType ==
    ASSUME NEW r
    PROVE  FirstBody(r) \in StateType
BY IndexedBodyType DEF FirstBody, StateType

\* See IndexedBodyType.
LEMMA NextStateType ==
    ASSUME NEW r, r.state \in StateType
    PROVE  NextState(r) \in StateType
<1>1. CASE r.state \in {"Start", "HeadIndex"}
  BY <1>1, FirstBodyType DEF NextState, StateType, BodyStates
<1>2. CASE r.state = "PreBodyIndex"
  BY <1>2, IndexedBodyType DEF NextState, BodyStates
<1>3. CASE r.state \in BodyStates
  BY <1>3, FooterStateType DEF NextState, StateType, BodyStates
<1>4. CASE r.state = "PostBodyIndex"
  BY <1>4, FooterStateType, IndexedBodyType DEF NextState, StateType, BodyStates
<1>5. CASE r.state \in {"FootIndex", "Done"}
  BY <1>5 DEF NextState, StateType, BodyStates
<1> QED BY <1>1, <1>2, <1>3, <1>4, <1>5 DEF StateType, BodyStates

\* GetNextState decides a state and touches no amount.
LEMMA GetNextStateKept ==
    ASSUME NEW r \in StreamType
    PROVE  Kept(r, GetNextState(r))
<1>1. NextState(r) \in StateType
  BY NextStateType DEF StreamType
<1> QED BY <1>1 DEF GetNextState, Kept, StreamType

\* The first look at a stream touches no amount.
LEMMA SettledKept ==
    ASSUME NEW r \in StreamType
    PROVE  Kept(r, Settled(r))
BY GetNextStateKept DEF Settled, Kept

\* The type of what the operators of BodyWriter take and return.
MachineType ==
    [writer: WriterType, stream: [Stream -> StreamType \cup {None}],
     file: Seq(Partition)]

\* What is in the writer is the one unit read and not written; a clip is
\* never held, and a source gives no more than it has.
StreamInv(r) ==
    /\ r.read = r.written + (IF r.pending THEN 1 ELSE 0)
    /\ r.read <= r.profile.units
    /\ r.profile.clip => ~r.pending

\* The part of the invariant that makes the operators well defined.
MachineOK(m) ==
    /\ m \in MachineType
    /\ m.writer.cur \in 0 .. Len(m.writer.list)
    /\ \A i \in DOMAIN m.writer.list : m.stream[m.writer.list[i]] # None
    /\ \A s \in Stream : m.stream[s] # None => StreamInv(m.stream[s])

\* CurrentStream exists when CurrentBodySID is not 0.
LEMMA CurStreamType ==
    ASSUME NEW m, MachineOK(m), m.writer.cur # 0
    PROVE  /\ CurStream(m) \in Stream
           /\ m.stream[CurStream(m)] \in StreamType
<1>1. /\ m.writer.list \in Seq(Stream)
      /\ m.writer.cur \in 1 .. Len(m.writer.list)
      /\ m.stream \in [Stream -> StreamType \cup {None}]
  BY DEF MachineOK, MachineType, WriterType
<1>2. CurStream(m) \in Stream /\ m.stream[CurStream(m)] # None
  BY <1>1 DEF MachineOK, CurStream
<1> QED BY <1>1, <1>2

(***************************************************************************)
(* n is m after steps of scheduling.                                       *)
(***************************************************************************)
Scheduled(m, n) ==
    /\ n \in MachineType
    /\ n.file = m.file
    /\ n.writer.list = m.writer.list /\ n.writer.cur \in 0 .. Len(m.writer.list)
    /\ n.writer.done = m.writer.done /\ n.writer.pending = m.writer.pending
    /\ n.writer.sid = m.writer.sid /\ n.writer.pack = m.writer.pack
    /\ n.writer.header = m.writer.header /\ n.writer.generic = m.writer.generic
    /\ m.writer.state # "Done" => n.writer.state # "Done"
    /\ \A s \in Stream : IF m.stream[s] = None THEN n.stream[s] = None
                         ELSE Kept(m.stream[s], n.stream[s])

\* Advancing one stream is a scheduling step.
LEMMA AdvancedScheduled ==
    ASSUME NEW m, MachineOK(m), NEW s \in Stream, m.stream[s] \in StreamType
    PROVE  Scheduled(m, Advanced(m, s))
<1> DEFINE n == Advanced(m, s)
<1>1. /\ m \in MachineType
      /\ m.writer \in WriterType
      /\ m.stream \in [Stream -> StreamType \cup {None}]
      /\ m.file \in Seq(Partition)
  BY DEF MachineOK, MachineType
<1>2. Kept(m.stream[s], GetNextState(m.stream[s]))
  BY GetNextStateKept
<1>3. n.writer = m.writer /\ n.file = m.file
  BY <1>1 DEF Advanced, MachineType
<1>4. n.stream = [m.stream EXCEPT ![s] = GetNextState(@)]
  BY <1>1 DEF Advanced, MachineType
<1>5. \A t \in Stream : IF m.stream[t] = None THEN n.stream[t] = None
                        ELSE Kept(m.stream[t], n.stream[t])
  BY <1>1, <1>2, <1>4, NoneAssumption DEF Kept
<1>6. n \in MachineType
  BY <1>1, <1>2, <1>4 DEF Advanced, MachineType, Kept
<1> QED BY <1>1, <1>3, <1>5, <1>6 DEF Scheduled, MachineOK

\* The place in the list is computed with %.
LEMMA Remainder ==
    ASSUME NEW a \in Nat, NEW n \in Nat, n > 0
    PROVE  a % n \in 0 .. n - 1
BY SMT

\* The types of the parts of a machine.
LEMMA MachineParts ==
    ASSUME NEW m, MachineOK(m)
    PROVE  /\ m \in MachineType
           /\ m.writer \in WriterType
           /\ m.stream \in [Stream -> StreamType \cup {None}]
           /\ m.file \in Seq(Partition)
           /\ m.writer.list \in Seq(Stream)
           /\ m.writer.cur \in 0 .. Len(m.writer.list)
BY DEF MachineOK, MachineType, WriterType

\* Where the search of Look ends.
LEMMA FirstHit ==
    ASSUME NEW n \in Nat, NEW first, first \subseteq 0 .. n-1, NEW last,
           last = IF first = {} THEN n-1 ELSE CHOOSE k \in first : TRUE
    PROVE  /\ last \in Int /\ last < n
           /\ first # {} => last \in 0 .. n-1
<1>1. CASE first = {}
  BY <1>1
<1>2. CASE first # {}
  <2>1. \E k \in first : TRUE
    BY <1>2
  <2>2. (CHOOSE k \in first : TRUE) \in first
    BY <2>1
  <2>3. last \in 0 .. n-1
    BY <2>2, <1>2
  <2> QED BY <2>3, <1>2
<1> QED BY <1>1, <1>2

\* The values of the writer's State.
Phases == {"Start", "Header", "Body", "Footer", "Done"}

\* A search through the list is a scheduling step.
LEMMA LookScheduled ==
    ASSUME NEW m, MachineOK(m), NEW phase \in Phases, phase # "Done",
           NEW start \in Nat, start > 0
    PROVE  /\ Scheduled(m, Look(m, phase, start))
           /\ Look(m, phase, start).writer.state = phase
<1> DEFINE list == m.writer.list
           n == Len(list)
           Place(k) == ((start + k - 1) % n) + 1
           hits == Hits(m, phase, start)
           first == {k \in hits : \A h \in hits : k <= h}
           last == IF first = {} THEN n-1 ELSE CHOOSE k \in first : TRUE
           seen == {At(list, start, k) : k \in 0 .. last}
           cur == IF first = {} THEN 0 ELSE Place(last)
           str == [s \in Stream |->
              IF s \in seen /\ m.stream[s].active THEN Visited(Settled(m.stream[s]))
              ELSE m.stream[s]]
           q == Look(m, phase, start)
<1>1. /\ m \in MachineType
      /\ m.writer \in WriterType
      /\ m.stream \in [Stream -> StreamType \cup {None}]
      /\ m.file \in Seq(Partition)
      /\ list \in Seq(Stream) /\ n \in Nat
  BY MachineParts
<1>2. q = [m EXCEPT !.writer.state = phase, !.writer.cur = cur, !.stream = str]
  BY DEF Look, Chosen
<1>3. \A k \in 0 .. n-1 : Place(k) \in 1 .. n
  <2> TAKE k \in 0 .. n-1
  <2>1. n > 0 /\ start + k - 1 \in Nat
    BY <1>1
  <2>2. (start + k - 1) % n \in 0 .. n-1
    BY <2>1, <1>1, Remainder
  <2> HIDE DEF n
  <2> QED BY <2>2, <1>1
<1>4. /\ last \in Int /\ last < n
      /\ first # {} => last \in 0 .. n-1
  <2>1. first \subseteq 0 .. n-1
    BY DEF Hits
  <2>2. last = IF first = {} THEN n-1 ELSE CHOOSE k \in first : TRUE
    OBVIOUS
  <2> HIDE DEF first, n, last
  <2> QED BY <2>1, <2>2, <1>1, FirstHit
<1> HIDE DEF last, first
<1>5. cur \in 0 .. n
  <2> HIDE DEF Place
  <2>1. CASE first = {}
    BY <2>1, <1>1
  <2>2. CASE first # {}
    BY <2>2, <1>3, <1>4, <1>1
  <2> QED BY <2>1, <2>2
<1>6. \A s \in seen : m.stream[s] \in StreamType
  <2> TAKE s \in seen
  <2>1. PICK k \in 0 .. last : s = list[Place(k)]
    BY DEF At
  <2> HIDE DEF Place
  <2>2. Place(k) \in DOMAIN list
    BY <1>1, <1>3, <1>4
  <2> QED BY <2>1, <2>2, <1>1 DEF MachineOK
<1>7. \A s \in Stream : IF m.stream[s] = None THEN str[s] = None
                        ELSE Kept(m.stream[s], str[s])
  <2> TAKE s \in Stream
  <2> DEFINE r == m.stream[s]
  <2>1. CASE s \in seen /\ r.active
    <3>1. r \in StreamType
      BY <2>1, <1>6
    <3>2. Kept(r, Settled(r))
      BY <3>1, SettledKept
    <3>3. Kept(r, Visited(Settled(r)))
      BY <3>2 DEF Kept, StreamType, Visited
    <3>4. str[s] = Visited(Settled(r))
      BY <2>1
    <3> QED BY <3>1, <3>3, <3>4, NoneAssumption
  <2>2. CASE ~(s \in seen /\ r.active)
    <3>1. str[s] = r
      BY <2>2
    <3> QED BY <3>1, <1>1 DEF Kept
  <2> QED BY <2>1, <2>2
<1>8. str \in [Stream -> StreamType \cup {None}]
  <2>1. \A s \in Stream : str[s] \in StreamType \cup {None}
    BY <1>7 DEF Kept
  <2> HIDE DEF seen
  <2> QED BY <2>1
<1> HIDE DEF cur, str, seen
<1>9. q.file = m.file /\ q.stream = str
      /\ q.writer = [m.writer EXCEPT !.state = phase, !.cur = cur]
  BY <1>1, <1>2 DEF MachineType, WriterType
<1>10. q.writer \in WriterType
  <2>1. cur \in Nat
    BY <1>1, <1>5
  <2> HIDE DEF n, q
  <2> QED BY <2>1, <1>1, <1>9 DEF WriterType, Phases
<1>11. q \in MachineType
  BY <1>1, <1>2, <1>8, <1>9, <1>10 DEF MachineType
<1> QED BY <1>1, <1>5, <1>7, <1>9, <1>11 DEF Scheduled, WriterType

\* A scheduling step keeps a machine well formed.
LEMMA ScheduledOK ==
    ASSUME NEW m, MachineOK(m), NEW n, Scheduled(m, n)
    PROVE  MachineOK(n)
<1>1. /\ m.stream \in [Stream -> StreamType \cup {None}]
      /\ m.writer.list \in Seq(Stream)
      /\ n \in MachineType
  BY MachineParts DEF Scheduled
<1>2. \A s \in Stream : n.stream[s] = None <=> m.stream[s] = None
  BY <1>1, NoneAssumption DEF Scheduled, Kept
<1>3. \A i \in DOMAIN n.writer.list : n.stream[n.writer.list[i]] # None
  BY <1>1, <1>2 DEF Scheduled, MachineOK
<1>4. \A s \in Stream : n.stream[s] # None => StreamInv(n.stream[s])
  BY <1>1, <1>2 DEF Scheduled, MachineOK, Kept, StreamInv
<1> QED BY <1>1, <1>3, <1>4 DEF MachineOK, Scheduled

\* Two scheduling steps make one.
LEMMA ScheduledTwice ==
    ASSUME NEW m, NEW n, NEW o, MachineOK(m), Scheduled(m, n), Scheduled(n, o)
    PROVE  Scheduled(m, o)
<1>1. m.stream \in [Stream -> StreamType \cup {None}]
  BY MachineParts
<1>2. \A s \in Stream : IF m.stream[s] = None THEN o.stream[s] = None
                        ELSE Kept(m.stream[s], o.stream[s])
  BY <1>1, NoneAssumption DEF Scheduled, Kept
<1> QED BY <1>2 DEF Scheduled

\* No step is a scheduling step.
LEMMA SameScheduled ==
    ASSUME NEW m, MachineOK(m)
    PROVE  Scheduled(m, m)
BY MachineParts DEF Scheduled, Kept

\* SetNextStream is a scheduling step, whichever searches it makes.
LEMMA SetNextStreamScheduled ==
    ASSUME NEW m, MachineOK(m)
    PROVE  Scheduled(m, SetNextStream(m))
<1> DEFINE w == m.writer
           phase == IF w.state = "Start" THEN "Header" ELSE w.state
           here == Look(m, phase, Following(w))
           then == OrInBody(here)
           end == OrInFooter(then)
<1>1. w \in WriterType /\ w.list \in Seq(Stream) /\ w.cur \in 0 .. Len(w.list)
  BY MachineParts
<1>2. phase \in Phases
  BY <1>1 DEF Phases, WriterType
<1>3. Following(w) \in Nat /\ Following(w) > 0
  <2>1. CASE w.cur = 0
    BY <2>1 DEF Following
  <2>2. CASE w.cur # 0
    <3>1. w.cur \in Nat /\ Len(w.list) \in Nat /\ Len(w.list) > 0
      BY <1>1, <2>2
    <3>2. w.cur % Len(w.list) \in 0 .. Len(w.list) - 1
      BY <3>1, Remainder
    <3>3. w.cur % Len(w.list) \in Nat
      BY <3>1, <3>2
    <3> QED BY <3>3, <2>2 DEF Following
  <2> QED BY <2>1, <2>2
<1> SUFFICES ASSUME w.state # "Done"
             PROVE  Scheduled(m, SetNextStream(m))
  BY SameScheduled DEF SetNextStream
<1>a. phase # "Done"
  OBVIOUS
<1> HIDE DEF phase
<1>4. Scheduled(m, here)
  BY <1>2, <1>3, <1>a, LookScheduled
<1>5. MachineOK(here)
  BY <1>4, ScheduledOK
<1> HIDE DEF here
<1>6. Scheduled(here, then)
  BY <1>5, LookScheduled, SameScheduled DEF OrInBody, Phases
<1>7. MachineOK(then)
  BY <1>5, <1>6, ScheduledOK
<1> HIDE DEF then
<1>8. Scheduled(then, end)
  BY <1>7, LookScheduled, SameScheduled DEF OrInFooter, Phases
<1>9. Scheduled(m, then)
  BY <1>4, <1>6, ScheduledTwice
<1>10. Scheduled(m, end)
  BY <1>8, <1>9, ScheduledTwice
<1> QED BY <1>10 DEF SetNextStream, here, then, phase

(***************************************************************************)
(* When the writer is done.  Over is what ties the writer's State to the   *)
(* streams: a stream waits for its footer only when its source is at its   *)
(* end, and the writer is in its footer only when every stream waits for   *)
(* it.  SetNextStream is what has to be right for that.                    *)
(***************************************************************************)
Early == {"Start", "HeadIndex"}

\* See above.
Spent == {"FootIndex", "Done"}

\* What a stream's state says of its source and of its writer.
StreamEnd(r) ==
    /\ r.eos => r.read = r.profile.units /\ ~r.pending
    /\ r.state \in Spent => r.eos
    /\ ~r.active => r.state = "Done"

\* WriteBody never has a limit, so that it does not end the body early.
Unlimited == Bodies \subseteq {0}

\* See above.
Over(m) ==
    /\ \A s \in Stream : m.stream[s] # None => StreamEnd(m.stream[s])
    /\ m.writer.state = "Start" => m.writer.cur = 0
    /\ m.writer.state # "Start" =>
          \A i \in DOMAIN m.writer.list : m.stream[m.writer.list[i]].state \notin Early
    /\ (Unlimited /\ m.writer.state \in {"Footer", "Done"}) =>
          \A i \in DOMAIN m.writer.list : m.stream[m.writer.list[i]].state \in Spent

\* A stream goes on: it does not fall back, and it ends only at its end.
Later(r, q) ==
    /\ StreamEnd(r) => StreamEnd(q)
    /\ r.state # "Start" => q.state # "Start"
    /\ r.state \notin Early => q.state \notin Early
    /\ r.state \in Spent => q.state \in Spent

\* No state leads back to the header, and only the end of the source to the end.
LEMMA NextStateLater ==
    ASSUME NEW r, r.state \in StateType
    PROVE  /\ NextState(r) # "Start"
           /\ r.state # "Start" => NextState(r) \notin Early
           /\ r.state \in Spent => NextState(r) = "Done"
           /\ NextState(r) \in Spent => r.eos \/ r.state \in Spent
<1>1. CASE r.state = "Start"
  BY <1>1 DEF NextState, FirstBody, IndexedBody, Early, Spent, BodyStates
<1>2. CASE r.state = "HeadIndex"
  BY <1>2 DEF NextState, FirstBody, IndexedBody, Early, Spent, BodyStates
<1>3. CASE r.state = "PreBodyIndex"
  BY <1>3 DEF NextState, IndexedBody, Early, Spent, BodyStates
<1>4. CASE r.state \in BodyStates
  BY <1>4 DEF NextState, FooterState, Early, Spent, BodyStates
<1>5. CASE r.state = "PostBodyIndex"
  BY <1>5 DEF NextState, FooterState, IndexedBody, Early, Spent, BodyStates
<1>6. CASE r.state \in Spent
  BY <1>6 DEF NextState, Early, Spent, BodyStates
<1> QED BY <1>1, <1>2, <1>3, <1>4, <1>5, <1>6 DEF StateType, BodyStates, Spent

\* GetNextState goes on.
LEMMA GetNextStateLater ==
    ASSUME NEW r \in StreamType
    PROVE  /\ Later(r, GetNextState(r))
           /\ GetNextState(r).state # "Start"
           /\ r.state # "Start" => GetNextState(r).state \notin Early
<1> DEFINE q == GetNextState(r)
<1>1. r.state \in StateType
  BY DEF StreamType
<1>2. /\ q.state = NextState(r) /\ q.eos = r.eos /\ q.read = r.read
      /\ q.profile = r.profile /\ q.pending = r.pending /\ q.active = r.active
  BY DEF GetNextState, StreamType
<1> HIDE DEF q
<1>3. Later(r, q)
  BY <1>1, <1>2, NextStateLater DEF Later, StreamEnd, Early, Spent
<1> QED BY <1>1, <1>2, <1>3, NextStateLater DEF q

\* The streams of the list.
LEMMA ListedType ==
    ASSUME NEW m, MachineOK(m), NEW i \in DOMAIN m.writer.list
    PROVE  /\ m.writer.list[i] \in Stream
           /\ m.stream[m.writer.list[i]] \in StreamType
<1>1. /\ m.writer.list \in Seq(Stream)
      /\ m.stream \in [Stream -> StreamType \cup {None}]
  BY MachineParts
<1> QED BY <1>1 DEF MachineOK

\* Streams that go on keep Over.
LEMMA OverKept ==
    ASSUME NEW m, MachineOK(m), Over(m), NEW n,
           n.writer.list = m.writer.list, n.writer.state = m.writer.state,
           n.writer.state = "Start" => n.writer.cur = 0,
           \A s \in Stream : m.stream[s] # None => Later(m.stream[s], n.stream[s]),
           \A s \in Stream : m.stream[s] = None => n.stream[s] = None
    PROVE  Over(n)
<1>1. \A i \in DOMAIN m.writer.list :
        Later(m.stream[m.writer.list[i]], n.stream[m.writer.list[i]])
  BY ListedType, NoneAssumption
<1>2. \A s \in Stream : n.stream[s] # None => StreamEnd(n.stream[s])
  BY DEF Over, Later
<1> QED BY <1>1, <1>2 DEF Over, Later

\* The same for one stream.
LEMMA OverChanged ==
    ASSUME NEW m, MachineOK(m), Over(m), NEW n,
           n.writer.list = m.writer.list, n.writer.state = m.writer.state,
           n.writer.cur = m.writer.cur,
           NEW s \in Stream, m.stream[s] # None,
           NEW q, n.stream = [m.stream EXCEPT ![s] = q], Later(m.stream[s], q)
    PROVE  Over(n)
<1>1. m.stream \in [Stream -> StreamType \cup {None}]
  BY MachineParts
<1>2. n.writer.state = "Start" => n.writer.cur = 0
  BY DEF Over
<1>3. \A t \in Stream : m.stream[t] # None => Later(m.stream[t], n.stream[t])
  BY <1>1 DEF Later
<1>4. \A t \in Stream : m.stream[t] = None => n.stream[t] = None
  BY <1>1
<1> QED BY <1>2, <1>3, <1>4, OverKept

\* The same for none.
LEMMA OverSame ==
    ASSUME NEW m, MachineOK(m), Over(m), NEW n,
           n.writer.list = m.writer.list, n.writer.state = m.writer.state,
           n.writer.cur = m.writer.cur, n.stream = m.stream
    PROVE  Over(n)
BY DEF Over

\* A set of natural numbers has a least one.
LEMMA Least ==
    ASSUME NEW S \in SUBSET Nat, S # {}
    PROVE  \E m \in S : \A k \in S : m <= k
<1> DEFINE R == OpToRel(<, Nat)
<1>1. IsWellFoundedOn(R, Nat)
  BY NatLessThanWellFounded
<1>2. \A x, y \in Nat : <<x, y>> \in R <=> x < y
  BY DEF OpToRel
<1> HIDE DEF R
<1>3. PICK m \in S : \A k \in S : ~(<<k, m>> \in R)
  BY <1>1, WFMin
<1>4. m \in Nat /\ \A k \in S : k \in Nat
  OBVIOUS
<1>5. \A k \in S : ~(k < m)
  BY <1>2, <1>3, <1>4
<1> QED BY <1>4, <1>5

\* The remainder of a number below twice the divisor.
LEMMA RemainderOnce ==
    ASSUME NEW n \in Nat, n > 0, NEW a \in 0 .. n - 1
    PROVE  a % n = a /\ (a + n) % n = a
BY SMT

\* A search that starts anywhere in the list comes to each place of it.
LEMMA WholeList ==
    ASSUME NEW n \in Nat, NEW start \in 1 .. n, NEW i \in 1 .. n
    PROVE  \E k \in 0 .. n - 1 : ((start + k - 1) % n) + 1 = i
<1>1. CASE start <= i
  <2> DEFINE k == i - start
  <2>1. k \in 0 .. n - 1 /\ start + k - 1 = i - 1 /\ i - 1 \in 0 .. n - 1
    BY <1>1
  <2> HIDE DEF k
  <2>2. (i - 1) % n = i - 1
    BY <2>1, RemainderOnce
  <2>3. ((start + k - 1) % n) + 1 = i
    BY <2>1, <2>2
  <2> QED BY <2>1, <2>3
<1>2. CASE start > i
  <2> DEFINE k == i - start + n
  <2>1. /\ k \in 0 .. n - 1 /\ start + k - 1 = (i - 1) + n
        /\ i - 1 \in 0 .. n - 1 /\ n > 0
    BY <1>2
  <2> HIDE DEF k
  <2>2. ((i - 1) + n) % n = i - 1
    BY <2>1, RemainderOnce
  <2>3. ((start + k - 1) % n) + 1 = i
    BY <2>1, <2>2
  <2> QED BY <2>1, <2>3
<1> QED BY <1>1, <1>2

\* A visit to a stream that is out of Start only deactivates it when it is done.
LEMMA VisitedLater ==
    ASSUME NEW r \in StreamType, r.state \notin Early
    PROVE  /\ Settled(r) = r
           /\ Later(r, Visited(Settled(r))) /\ Visited(Settled(r)).state = r.state
<1>1. Settled(r) = r
  BY DEF Settled, Early
<1> DEFINE q == Visited(r)
<1>2. /\ q.state = r.state /\ q.eos = r.eos /\ q.read = r.read
      /\ q.profile = r.profile /\ q.pending = r.pending /\ q.active = (r.state # "Done")
  BY DEF Visited, StreamType
<1> HIDE DEF q
<1>3. Later(r, q)
  BY <1>2 DEF Later, StreamEnd
<1> QED BY <1>1, <1>2, <1>3 DEF q

(***************************************************************************)
(* A search keeps Over, and when it finds no stream that has essence then  *)
(* there is none: it has come to every stream of the list.                 *)
(***************************************************************************)
LEMMA LookOver ==
    ASSUME NEW m, MachineOK(m), Over(m), m.writer.state \notin {"Start", "Done"},
           NEW phase \in {"Header", "Body", "Footer"},
           (Unlimited /\ phase = "Footer") =>
              \A i \in DOMAIN m.writer.list : m.stream[m.writer.list[i]].state \in Spent,
           NEW start \in Nat, start > 0, start = 1 \/ start <= Len(m.writer.list)
    PROVE  LET n == Look(m, phase, start) IN
           /\ Over(n) /\ n.writer.state = phase
           /\ phase = "Body" /\ n.writer.cur = 0 =>
                 \A i \in DOMAIN n.writer.list : n.stream[n.writer.list[i]].state \in Spent
<1> DEFINE list == m.writer.list
           n == Len(list)
           Place(k) == ((start + k - 1) % n) + 1
           hits == Hits(m, phase, start)
           first == {k \in hits : \A h \in hits : k <= h}
           last == IF first = {} THEN n-1 ELSE CHOOSE k \in first : TRUE
           seen == {At(list, start, k) : k \in 0 .. last}
           cur == IF first = {} THEN 0 ELSE Place(last)
           str == [s \in Stream |->
              IF s \in seen /\ m.stream[s].active THEN Visited(Settled(m.stream[s]))
              ELSE m.stream[s]]
           q == Look(m, phase, start)
<1>1. /\ m \in MachineType
      /\ m.writer \in WriterType
      /\ m.stream \in [Stream -> StreamType \cup {None}]
      /\ m.file \in Seq(Partition)
      /\ list \in Seq(Stream) /\ n \in Nat
  BY MachineParts
<1>2. q = [m EXCEPT !.writer.state = phase, !.writer.cur = cur, !.stream = str]
  BY DEF Look, Chosen
<1>3. \A k \in 0 .. n-1 : Place(k) \in 1 .. n
  <2> TAKE k \in 0 .. n-1
  <2>1. n > 0 /\ start + k - 1 \in Nat
    BY <1>1
  <2>2. (start + k - 1) % n \in 0 .. n-1
    BY <2>1, <1>1, Remainder
  <2> HIDE DEF n
  <2> QED BY <2>2, <1>1
<1>4. /\ last \in Int /\ last < n
      /\ first # {} => last \in 0 .. n-1
  <2>1. first \subseteq 0 .. n-1
    BY DEF Hits
  <2>2. last = IF first = {} THEN n-1 ELSE CHOOSE k \in first : TRUE
    OBVIOUS
  <2> HIDE DEF first, n, last
  <2> QED BY <2>1, <2>2, <1>1, FirstHit
<1>5. first = {} => hits = {}
  <2>1. hits \in SUBSET Nat
    BY <1>1 DEF Hits
  <2> HIDE DEF hits
  <2> QED BY <2>1, Least
<1>6. first = {} => last = n - 1
  OBVIOUS
<1>7. cur = 0 => first = {}
  <2>1. ASSUME first # {} PROVE cur # 0
    <3>1. cur = Place(last) /\ Place(last) \in 1 .. n
      BY <2>1, <1>3, <1>4
    <3> HIDE DEF cur, Place, last, first
    <3> QED BY <3>1, <1>1
  <2> HIDE DEF cur, first
  <2> QED BY <2>1
<1> HIDE DEF last, first
<1>8. \A s \in seen : m.stream[s] \in StreamType /\ m.stream[s].state \notin Early
  <2> TAKE s \in seen
  <2>1. PICK k \in 0 .. last : s = list[Place(k)]
    BY DEF At
  <2> HIDE DEF Place
  <2>4. k \in 0 .. n-1
    BY <1>1, <1>4
  <2>5. Place(k) \in 1 .. n /\ DOMAIN list = 1 .. n
    BY <2>4, <1>1, <1>3
  <2>2. Place(k) \in DOMAIN list
    BY <2>5
  <2>3. m.stream[list[Place(k)]] \in StreamType
    BY <2>2, ListedType
  <2> QED BY <2>1, <2>2, <2>3 DEF Over
<1>9. \A s \in Stream : m.stream[s] # None =>
         /\ Later(m.stream[s], str[s]) /\ str[s].state = m.stream[s].state
         /\ s \in seen => (~m.stream[s].active \/ str[s] = Visited(m.stream[s]))
  <2> TAKE s \in Stream
  <2> DEFINE r == m.stream[s]
  <2>1. CASE s \in seen /\ r.active
    <3>1. r \in StreamType /\ r.state \notin Early
      BY <2>1, <1>8
    <3>2. /\ Settled(r) = r
          /\ Later(r, Visited(Settled(r))) /\ Visited(Settled(r)).state = r.state
      BY <3>1, VisitedLater
    <3>3. str[s] = Visited(Settled(r))
      BY <2>1
    <3> QED BY <3>2, <3>3
  <2>2. CASE ~(s \in seen /\ r.active)
    <3>1. str[s] = r
      BY <2>2
    <3> QED BY <2>2, <3>1 DEF Later
  <2> QED BY <2>1, <2>2
<1>10. \A s \in Stream : m.stream[s] = None => str[s] = None
  <2> TAKE s \in Stream
  <2> HAVE m.stream[s] = None
  <2>1. s \notin seen
    BY <1>8, NoneAssumption
  <2> HIDE DEF seen
  <2> QED BY <2>1
<1> HIDE DEF str
<1>11. \A i \in DOMAIN list :
         /\ list[i] \in Stream /\ m.stream[list[i]] \in StreamType
         /\ m.stream[list[i]] # None /\ m.stream[list[i]].state \notin Early
  BY ListedType, NoneAssumption DEF Over
<1>12. (phase = "Body" /\ cur = 0) => \A i \in DOMAIN list : str[list[i]].state \in Spent
  <2> SUFFICES ASSUME phase = "Body", cur = 0, NEW i \in DOMAIN list
               PROVE  str[list[i]].state \in Spent
    OBVIOUS
  <2>1. i \in 1 .. n /\ n > 0
    BY <1>1
  <2>2. start \in 1 .. n
    BY <2>1, <1>1
  <2>3. PICK k \in 0 .. n - 1 : Place(k) = i
    BY <2>1, <2>2, <1>1, WholeList
  <2>4. At(list, start, k) = list[i]
    BY <2>3 DEF At
  <2>5. hits = {}
    BY <1>5, <1>7
  <2>6. ~Usable(Settled(m.stream[list[i]]), phase)
    BY <2>3, <2>4, <2>5 DEF Hits
  <2> DEFINE r == m.stream[list[i]]
  <2>7. r \in StreamType /\ r.state \notin Early /\ Settled(r) = r
    BY <1>11 DEF Settled, Early
  <2>8. StreamEnd(r)
    BY <1>11 DEF Over
  <2>9. r.state \in Spent
    BY <2>6, <2>7, <2>8 DEF Usable, StreamEnd, Spent, Early
  <2>10. str[list[i]].state = r.state
    BY <1>9, <1>11
  <2> QED BY <2>9, <2>10
<1> HIDE DEF cur, seen, hits, Place
<1>13. /\ q.stream = str /\ q.writer = [m.writer EXCEPT !.state = phase, !.cur = cur]
  BY <1>1, <1>2 DEF MachineType, WriterType
<1>14. q.writer.state = phase /\ q.writer.cur = cur /\ q.writer.list = list
  BY <1>1, <1>13 DEF WriterType
<1> HIDE DEF q
<1>15. Over(q)
  <2>1. \A s \in Stream : q.stream[s] # None => StreamEnd(q.stream[s])
    BY <1>9, <1>10, <1>13 DEF Over, Later
  <2>2. \A i \in DOMAIN q.writer.list : q.stream[q.writer.list[i]].state \notin Early
    BY <1>9, <1>11, <1>13, <1>14
  <2>3. (Unlimited /\ phase = "Footer") =>
          \A i \in DOMAIN q.writer.list : q.stream[q.writer.list[i]].state \in Spent
    BY <1>9, <1>11, <1>13, <1>14
  <2> QED BY <2>1, <2>2, <2>3, <1>14 DEF Over
<1> QED BY <1>12, <1>13, <1>14, <1>15 DEF q

\* SetNextStream keeps Over: it is in the footer only if all streams wait for it.
LEMMA SetNextStreamOver ==
    ASSUME NEW m, MachineOK(m), Over(m), m.writer.state # "Start"
    PROVE  LET n == SetNextStream(m) IN
           /\ Over(n) /\ n.writer.state # "Start"
           /\ m.writer.state = "Footer" => n.writer.state = "Footer"
<1> DEFINE w == m.writer
           phase == IF w.state = "Start" THEN "Header" ELSE w.state
           here == Look(m, phase, Following(w))
           then == OrInBody(here)
           end == OrInFooter(then)
           Empty(n) == \A i \in DOMAIN n.writer.list : n.stream[n.writer.list[i]].state \in Spent
<1>1. w \in WriterType /\ w.list \in Seq(Stream) /\ w.cur \in 0 .. Len(w.list)
  BY MachineParts
<1>2. CASE w.state = "Done"
  BY <1>2 DEF SetNextStream
<1> SUFFICES ASSUME w.state # "Done"
             PROVE  /\ Over(end) /\ end.writer.state # "Start"
                    /\ w.state = "Footer" => end.writer.state = "Footer"
  BY <1>2 DEF SetNextStream
<1>3. phase = w.state /\ phase \in {"Header", "Body", "Footer"}
  BY <1>1 DEF WriterType
<1> HIDE DEF phase
<1>4. /\ Following(w) \in Nat /\ Following(w) > 0
      /\ Following(w) = 1 \/ Following(w) <= Len(w.list)
  <2>1. CASE w.cur = 0
    BY <2>1 DEF Following
  <2>2. CASE w.cur # 0
    <3>1. w.cur \in Nat /\ Len(w.list) \in Nat /\ Len(w.list) > 0
      BY <1>1, <2>2
    <3>2. w.cur % Len(w.list) \in 0 .. Len(w.list) - 1
      BY <3>1, Remainder
    <3> DEFINE x == w.cur % Len(w.list)
    <3>3. x \in Nat /\ x + 1 <= Len(w.list)
      BY <3>1, <3>2
    <3>4. Following(w) = x + 1
      BY <2>2 DEF Following
    <3> HIDE DEF x
    <3> QED BY <3>3, <3>4
  <2> QED BY <2>1, <2>2
<1>5. (Unlimited /\ phase = "Footer") => Empty(m)
  BY <1>3 DEF Over
<1>6. /\ Over(here) /\ here.writer.state = phase /\ MachineOK(here)
      /\ phase = "Body" /\ here.writer.cur = 0 => Empty(here)
  <2>1. phase \in Phases /\ phase # "Done" /\ w.state \notin {"Start", "Done"}
    BY <1>3 DEF Phases
  <2>2. Scheduled(m, here)
    BY <2>1, <1>4, LookScheduled
  <2>3. MachineOK(here)
    BY <2>2, ScheduledOK
  <2>4. /\ Over(here) /\ here.writer.state = phase
        /\ phase = "Body" /\ here.writer.cur = 0 => Empty(here)
    BY <2>1, <1>3, <1>4, <1>5, LookOver
  <2> QED BY <2>3, <2>4
<1> HIDE DEF here
<1>7. /\ Over(then) /\ MachineOK(then) /\ then.writer.state # "Start" /\ then.writer.state # "Done"
      /\ then.writer.cur = 0 /\ then.writer.state # "Footer" => Empty(then)
      /\ phase = "Footer" => then = here
  <2>1. CASE here.writer.cur # 0 \/ here.writer.state # "Header"
    <3>1. then = here
      BY <2>1 DEF OrInBody
    <3> QED BY <2>1, <3>1, <1>3, <1>6
  <2>2. CASE ~(here.writer.cur # 0 \/ here.writer.state # "Header")
    <3>1. then = Look(here, "Body", 1)
      BY <2>2 DEF OrInBody
    <3>2. PICK b \in {"Header", "Body", "Footer"} : b = "Body"
      OBVIOUS
    <3>3. PICK one \in Nat : one = 1
      OBVIOUS
    <3>4. Scheduled(here, Look(here, b, one))
      BY <3>2, <3>3, <1>6, LookScheduled DEF Phases
    <3>5. MachineOK(Look(here, b, one))
      BY <3>4, <1>6, ScheduledOK
    <3>6. LET n == Look(here, b, one) IN
          /\ Over(n) /\ n.writer.state = b
          /\ b = "Body" /\ n.writer.cur = 0 => Empty(n)
      <4>1. here.writer.state \notin {"Start", "Done"} /\ b # "Footer" /\ one > 0
        BY <2>2, <3>2, <3>3
      <4> QED BY <4>1, <3>3, <1>6, LookOver
    <3> HIDE DEF then
    <3> QED BY <2>2, <3>1, <3>2, <3>3, <3>5, <3>6, <1>6
  <2> QED BY <2>1, <2>2
<1> HIDE DEF then
<1>8. CASE then.writer.cur # 0 \/ then.writer.state = "Footer"
  <2>1. end = then
    BY <1>8 DEF OrInFooter
  <2> QED BY <2>1, <1>3, <1>6, <1>7
<1>9. CASE ~(then.writer.cur # 0 \/ then.writer.state = "Footer")
  <2>1. end = Look(then, "Footer", 1)
    BY <1>9 DEF OrInFooter
  <2>2. PICK f \in {"Header", "Body", "Footer"} : f = "Footer"
    OBVIOUS
  <2>3. PICK one \in Nat : one = 1
    OBVIOUS
  <2>4. then.writer.state \notin {"Start", "Done"} /\ one > 0 /\ Empty(then)
    BY <1>7, <1>9, <2>3
  <2>5. LET n == Look(then, f, one) IN Over(n) /\ n.writer.state = f
    BY <2>3, <2>4, <1>7, LookOver
  <2> HIDE DEF end
  <2> QED BY <2>1, <2>2, <2>3, <2>5
<1> QED BY <1>8, <1>9

(***************************************************************************)
(* What is on file.  Amounts is the number of edit units written.          *)
(***************************************************************************)
Amounts(str) == [s \in Stream |-> IF str[s] = None THEN 0 ELSE str[s].written]

\* The places of a partition's essence, and what is at each of them.
Items(f, i) == DOMAIN f[i].essence

\* See Items.
Sid(f, i, k) == f[i].essence[k][1]

\* See Items.
Unit(f, i, k) == f[i].essence[k][2]

\* Essence is in a partition of its stream and counted as written.
OwnOK(f, w) ==
    \A i \in DOMAIN f : \A k \in Items(f, i) :
        Sid(f, i, k) = f[i].body /\ Unit(f, i, k) < w[f[i].body]

\* Along the file, the units of a stream increase.
OrderOK(f) ==
    \A i, j \in DOMAIN f : \A k \in Items(f, i), l \in Items(f, j) :
        (f[i].body = f[j].body /\ (i < j \/ (i = j /\ k < l)))
            => Unit(f, i, k) < Unit(f, j, l)

\* Every unit counted as written is on file.
AllOK(f, w) ==
    \A s \in Stream, u \in Nat : u < w[s] =>
        \E i \in DOMAIN f : \E k \in Items(f, i) : f[i].body = s /\ Unit(f, i, k) = u

\* The units of a stream in earlier partitions are those below BodyOffset.
OffsetOK(f, w) ==
    \A i \in DOMAIN f : f[i].body # None =>
        /\ f[i].offset <= w[f[i].body]
        /\ \A j \in DOMAIN f : \A k \in Items(f, j) :
              f[j].body = f[i].body => (j < i <=> Unit(f, j, k) < f[i].offset)

\* The file agrees with w, the number of units written of each stream.
FileOK(f, w) == OwnOK(f, w) /\ OrderOK(f) /\ AllOK(f, w) /\ OffsetOK(f, w)

\* A pack that waits to be written has the offset of the units to come.
Template(m) ==
    (m.writer.pending /\ m.writer.pack.body # None) =>
        m.writer.pack.offset = Amounts(m.stream)[m.writer.pack.body]

\* PartitionBodySID, when set and nothing is pending, is that of the last
\* partition: what is written next may go there.
Open(m) ==
    (~m.writer.pending /\ m.writer.sid # None) =>
        m.file # << >> /\ m.file[Len(m.file)].body = m.writer.sid

\* The invariant of the machine: the file agrees with the streams, and the
\* pack that waits, or the partition that is open, agrees with both.
Good(m) == MachineOK(m) /\ FileOK(m.file, Amounts(m.stream)) /\ Template(m) /\ Open(m)

\* Scheduling writes nothing.
LEMMA ScheduledAmounts ==
    ASSUME NEW m, MachineOK(m), NEW n, Scheduled(m, n)
    PROVE  Amounts(n.stream) = Amounts(m.stream)
<1>1. m.stream \in [Stream -> StreamType \cup {None}]
  BY MachineParts
<1> QED BY <1>1, NoneAssumption DEF Scheduled, Kept, Amounts

\* Scheduling keeps the invariant.
LEMMA ScheduledGood ==
    ASSUME NEW m, Good(m), NEW n, Scheduled(m, n)
    PROVE  Good(n)
<1>1. MachineOK(m) /\ MachineOK(n) /\ Amounts(n.stream) = Amounts(m.stream)
  BY ScheduledOK, ScheduledAmounts DEF Good
<1> QED BY <1>1 DEF Good, Template, Open, Scheduled

\* FileOK taken apart.
LEMMA FileParts ==
    ASSUME NEW f \in Seq(Partition)
    PROVE  /\ DOMAIN f = 1 .. Len(f) /\ Len(f) \in Nat
           /\ \A i \in DOMAIN f : /\ f[i] \in Partition
                                  /\ f[i].body \in Stream \cup {None} /\ f[i].offset \in Nat
                                  /\ f[i].essence \in Seq(Stream \X Nat)
                                  /\ Items(f, i) = 1 .. Len(f[i].essence)
           /\ \A i \in DOMAIN f : \A k \in Items(f, i) :
                 Sid(f, i, k) \in Stream /\ Unit(f, i, k) \in Nat
<1>1. ASSUME NEW i \in DOMAIN f
      PROVE  f[i] \in Partition /\ f[i].essence \in Seq(Stream \X Nat)
  <2>1. f[i] \in Partition
    OBVIOUS
  <2> QED BY <2>1 DEF Partition
<1>2. ASSUME NEW i \in DOMAIN f
      PROVE  Items(f, i) = 1 .. Len(f[i].essence)
  <2>1. f[i].essence \in Seq(Stream \X Nat)
    BY <1>1
  <2> QED BY <2>1 DEF Items
<1>3. \A i \in DOMAIN f : f[i].body \in Stream \cup {None} /\ f[i].offset \in Nat
  BY <1>1 DEF Partition
<1>4. ASSUME NEW i \in DOMAIN f, NEW k \in Items(f, i)
      PROVE  Sid(f, i, k) \in Stream /\ Unit(f, i, k) \in Nat
  <2>1. f[i].essence[k] \in Stream \X Nat
    BY <1>1 DEF Items
  <2> QED BY <2>1 DEF Sid, Unit
<1> QED BY <1>1, <1>2, <1>3, <1>4

\* A pack with the right offset may be appended to a good file.
LEMMA EmptyPartition ==
    ASSUME NEW f \in Seq(Partition), NEW w \in [Stream -> Nat], FileOK(f, w),
           NEW p \in Partition, p.essence = << >>,
           p.body # None => p.offset = w[p.body]
    PROVE  /\ FileOK(Append(f, p), w)
           /\ Append(f, p) \in Seq(Partition)
<1> DEFINE g == Append(f, p)
<1>1. /\ DOMAIN g = 1 .. Len(f) + 1 /\ DOMAIN f = 1 .. Len(f) /\ Len(f) \in Nat
      /\ \A i \in DOMAIN f : g[i] = f[i] /\ i < Len(f) + 1
      /\ g[Len(f) + 1] = p
      /\ DOMAIN p.essence = {}
      /\ g \in Seq(Partition)
  OBVIOUS
<1> HIDE DEF g
<1>2. \A i \in DOMAIN g : \A k \in Items(g, i) :
         i \in DOMAIN f /\ g[i] = f[i] /\ k \in Items(f, i)
            /\ Sid(g, i, k) = Sid(f, i, k) /\ Unit(g, i, k) = Unit(f, i, k)
  BY <1>1 DEF Items, Sid, Unit
<1>3. OwnOK(g, w)
  BY <1>2 DEF OwnOK, FileOK
<1>4. OrderOK(g)
  BY <1>2 DEF OrderOK, FileOK
<1>5. AllOK(g, w)
  <2>1. \A i \in DOMAIN f : \A k \in Items(f, i) :
           i \in DOMAIN g /\ g[i] = f[i] /\ k \in Items(g, i) /\ Unit(g, i, k) = Unit(f, i, k)
    BY <1>1 DEF Items, Unit
  <2> QED BY <2>1 DEF AllOK, FileOK
<1>6. OffsetOK(g, w)
  <2> SUFFICES ASSUME NEW i \in DOMAIN g, g[i].body # None
               PROVE  /\ g[i].offset <= w[g[i].body]
                      /\ \A j \in DOMAIN g : \A k \in Items(g, j) :
                            g[j].body = g[i].body => (j < i <=> Unit(g, j, k) < g[i].offset)
    BY DEF OffsetOK
  <2>1. CASE i \in DOMAIN f
    BY <2>1, <1>1, <1>2 DEF OffsetOK, FileOK
  <2>2. CASE i = Len(f) + 1
    <3>1. g[i] = p /\ p.body \in Stream /\ p.offset = w[p.body] /\ p.offset \in Nat
      BY <2>2, <1>1 DEF Partition
    <3>2. \A j \in DOMAIN g : \A k \in Items(g, j) :
             g[j].body = p.body => j < i /\ Unit(g, j, k) < p.offset
      BY <1>1, <1>2, <2>2, <3>1 DEF OwnOK, FileOK
    <3> QED BY <3>1, <3>2
  <2> QED BY <1>1, <2>1, <2>2
<1> QED BY <1>1, <1>3, <1>4, <1>5, <1>6 DEF FileOK, g

(***************************************************************************)
(* Essence old followed by the n edit units of s from number c on.         *)
(***************************************************************************)
Continues(e, old, n, s, c) ==
    /\ Len(e) = Len(old) + n
    /\ \A k \in 1 .. Len(old) : e[k] = old[k]
    /\ \A k \in 1 .. n : e[Len(old) + k] = <<s, c + k - 1>>

\* What Continues means, item by item.
Added(e, old, n, s, c) ==
    /\ DOMAIN old = 1 .. Len(old) /\ Len(old) \in Nat
    /\ \A k \in DOMAIN old : k \in DOMAIN e /\ e[k] = old[k]
    /\ \A k \in DOMAIN e : k \notin DOMAIN old =>
          /\ k \in Nat /\ k > Len(old)
          /\ e[k][1] = s /\ e[k][2] = c + (k - Len(old)) - 1
          /\ e[k][2] \in Nat /\ c <= e[k][2] /\ e[k][2] < c + n
    /\ \A u \in Nat : c <= u /\ u < c + n =>
          \E k \in DOMAIN e : e[k][2] = u

\* A sequence that continues another has the old items and the new ones.
LEMMA NewItems ==
    ASSUME NEW old \in Seq(Stream \X Nat), NEW n \in Nat, NEW s \in Stream,
           NEW c \in Nat, NEW e \in Seq(Stream \X Nat), Continues(e, old, n, s, c)
    PROVE  Added(e, old, n, s, c)
<1> DEFINE a == Len(old)
<1>1. DOMAIN old = 1 .. a /\ a \in Nat /\ DOMAIN e = 1 .. a + n
  BY DEF Continues
<1>2. \A k \in 1 .. n : e[a + k] = <<s, c + k - 1>>
  BY DEF Continues
<1> HIDE DEF a
<1>a. \A k \in 1 .. n : e[a + k][1] = s /\ e[a + k][2] = c + k - 1
  BY <1>2
<1>3. ASSUME NEW k \in DOMAIN e, k \notin DOMAIN old
      PROVE  /\ k \in Nat /\ k > a
             /\ e[k][1] = s /\ e[k][2] = c + (k - a) - 1
             /\ e[k][2] \in Nat /\ c <= e[k][2] /\ e[k][2] < c + n
  <2>1. k \in Nat /\ k > a /\ k - a \in 1 .. n /\ a + (k - a) = k
    BY <1>1, <1>3
  <2>2. e[k][1] = s /\ e[k][2] = c + (k - a) - 1
    BY <1>a, <2>1
  <2> QED BY <2>1, <2>2
<1>4. ASSUME NEW u \in Nat, c <= u, u < c + n
      PROVE  \E k \in DOMAIN e : e[k][2] = u
  <2> DEFINE k == u - c + 1
  <2>1. k \in 1 .. n /\ a + k \in 1 .. a + n /\ c + k - 1 = u
    BY <1>1, <1>4
  <2> HIDE DEF k
  <2> QED BY <2>1, <1>1, <1>a
<1>5. \A k \in DOMAIN old : k \in DOMAIN e /\ e[k] = old[k]
  BY <1>1 DEF Continues, a
<1> QED BY <1>1, <1>3, <1>4, <1>5 DEF a, Added

(***************************************************************************)
(* The next n edit units of a stream, written to the last partition.       *)
(***************************************************************************)
LEMMA ItemsWritten ==
    ASSUME NEW f \in Seq(Partition), NEW w \in [Stream -> Nat], FileOK(f, w),
           NEW s \in Stream, f # << >>, f[Len(f)].body = s,
           NEW n \in Nat, NEW e \in Seq(Stream \X Nat),
           Continues(e, f[Len(f)].essence, n, s, w[s])
    PROVE  /\ FileOK([f EXCEPT ![Len(f)].essence = e], [w EXCEPT ![s] = @ + n])
           /\ [f EXCEPT ![Len(f)].essence = e] \in Seq(Partition)
<1> DEFINE z == Len(f)
           a == Len(f[z].essence)
           c == w[s]
           g == [f EXCEPT ![z].essence = e]
           v == [w EXCEPT ![s] = @ + n]
<1>1. /\ z \in DOMAIN f /\ DOMAIN f \subseteq Nat
      /\ \A i \in DOMAIN f : i <= z
      /\ \A i \in DOMAIN f : f[i] \in Partition /\ f[i].body \in Stream \cup {None}
                                 /\ f[i].offset \in Nat /\ Items(f, i) \subseteq Nat
      /\ \A i \in DOMAIN f : \A k \in Items(f, i) : Unit(f, i, k) \in Nat
      /\ f[z].body = s /\ c \in Nat
      /\ f[z].essence \in Seq(Stream \X Nat)
  <2>1. DOMAIN f = 1 .. z /\ z \in Nat /\ z # 0
    BY FileParts
  <2>2. z \in DOMAIN f /\ DOMAIN f \subseteq Nat /\ \A i \in DOMAIN f : i <= z
    BY <2>1
  <2> HIDE DEF z
  <2>3. \A i \in DOMAIN f : Items(f, i) \subseteq Nat
    BY FileParts
  <2> QED BY <2>2, <2>3, FileParts DEF z
<1>2. /\ DOMAIN g = DOMAIN f
      /\ \A i \in DOMAIN f : g[i].body = f[i].body /\ g[i].offset = f[i].offset
      /\ \A i \in DOMAIN f : i # z => g[i] = f[i]
      /\ g[z].essence = e
      /\ g \in Seq(Partition)
  <2> DEFINE q == [f[z] EXCEPT !.essence = e]
  <2>1. q \in Partition /\ q.body = f[z].body /\ q.offset = f[z].offset /\ q.essence = e
    BY <1>1 DEF Partition
  <2>2. g = [f EXCEPT ![z] = q]
    OBVIOUS
  <2> HIDE DEF q, g, z
  <2>3. DOMAIN g = DOMAIN f /\ \A i \in DOMAIN f : g[i] = IF i = z THEN q ELSE f[i]
    BY <2>2
  <2>4. g \in Seq(Partition)
    BY <1>1, <2>1, <2>2
  <2> QED BY <1>1, <2>1, <2>3, <2>4
<1>3. /\ v[s] = c + n
      /\ \A t \in Stream : w[t] \in Nat /\ v[t] \in Nat /\ w[t] <= v[t]
      /\ \A t \in Stream : t # s => v[t] = w[t]
  OBVIOUS
<1>4. /\ \A k \in Items(f, z) : k <= a /\ k \in DOMAIN e /\ e[k] = f[z].essence[k]
      /\ \A k \in DOMAIN e : k \notin Items(f, z) =>
            /\ k \in Nat /\ k > a
            /\ e[k][1] = s /\ e[k][2] = c + (k - a) - 1
            /\ e[k][2] \in Nat /\ c <= e[k][2] /\ e[k][2] < c + n
      /\ \A u \in Nat : c <= u /\ u < c + n => \E k \in DOMAIN e : e[k][2] = u
      /\ a \in Nat
  <2> DEFINE old == f[z].essence
  <2>1. old \in Seq(Stream \X Nat) /\ c \in Nat /\ Continues(e, old, n, s, c)
    BY <1>1
  <2>2. Items(f, z) = DOMAIN old /\ a = Len(old)
    BY DEF Items
  <2> HIDE DEF old, z, a, c
  <2>3. Added(e, old, n, s, c)
    BY <2>1, NewItems
  <2> QED BY <2>2, <2>3 DEF old, Added
<1> HIDE DEF g, v, z, a, c
<1>5. ASSUME NEW i \in DOMAIN f, NEW k \in Items(f, i)
      PROVE  /\ k \in Items(g, i) /\ Sid(g, i, k) = Sid(f, i, k)
             /\ Unit(g, i, k) = Unit(f, i, k)
  <2>1. CASE i = z
    BY <2>1, <1>2, <1>4 DEF Items, Sid, Unit
  <2>2. CASE i # z
    BY <2>2, <1>2 DEF Items, Sid, Unit
  <2> QED BY <2>1, <2>2
<1>6. ASSUME NEW i \in DOMAIN f, NEW k \in Items(g, i), k \notin Items(f, i)
      PROVE  /\ i = z /\ k \in Nat /\ k > a
             /\ Sid(g, i, k) = s /\ Unit(g, i, k) = c + (k - a) - 1
             /\ Unit(g, i, k) \in Nat /\ c <= Unit(g, i, k) /\ Unit(g, i, k) < c + n
  <2>1. i = z
    BY <1>6, <1>2 DEF Items
  <2> QED BY <2>1, <1>6, <1>2, <1>4 DEF Items, Sid, Unit
<1>7. \A u \in Nat : c <= u /\ u < c + n => \E k \in Items(g, z) : Unit(g, z, k) = u
  BY <1>2, <1>4 DEF Items, Unit
<1>8. \A i \in DOMAIN f : \A k \in Items(f, i) : f[i].body = s => Unit(f, i, k) < c
  BY DEF OwnOK, FileOK, c
<1>9. OwnOK(g, v)
  <2> SUFFICES ASSUME NEW i \in DOMAIN g, NEW k \in Items(g, i)
               PROVE  Sid(g, i, k) = g[i].body /\ Unit(g, i, k) < v[g[i].body]
    BY DEF OwnOK
  <2>1. CASE k \in Items(f, i)
    <3>1. /\ Sid(f, i, k) = f[i].body /\ Unit(f, i, k) < w[f[i].body]
          /\ f[i].body \in Stream /\ Unit(f, i, k) \in Nat
      BY <2>1, <1>2, FileParts DEF OwnOK, FileOK
    <3> QED BY <2>1, <3>1, <1>2, <1>3, <1>5
  <2>2. CASE k \notin Items(f, i)
    BY <2>2, <1>1, <1>2, <1>3, <1>6
  <2> QED BY <2>1, <2>2
<1>10. OrderOK(g)
  <2> SUFFICES ASSUME NEW i \in DOMAIN g, NEW j \in DOMAIN g,
                      NEW k \in Items(g, i), NEW l \in Items(g, j),
                      g[i].body = g[j].body, i < j \/ (i = j /\ k < l)
               PROVE  Unit(g, i, k) < Unit(g, j, l)
    BY DEF OrderOK
  <2>1. CASE k \in Items(f, i) /\ l \in Items(f, j)
    BY <2>1, <1>2, <1>5 DEF OrderOK, FileOK
  <2>2. CASE k \in Items(f, i) /\ l \notin Items(f, j)
    <3>1. Unit(f, i, k) < c /\ Unit(f, i, k) \in Nat
      BY <2>2, <1>1, <1>2, <1>6, <1>8
    <3>2. c <= Unit(g, j, l) /\ Unit(g, j, l) \in Nat /\ c \in Nat
      BY <2>2, <1>1, <1>2, <1>6
    <3>3. Unit(g, i, k) = Unit(f, i, k)
      BY <2>2, <1>2, <1>5
    <3> QED BY <3>1, <3>2, <3>3
  <2>3. CASE k \notin Items(f, i)
    <3>1. i = z /\ k \in Nat /\ k > a /\ Unit(g, i, k) = c + (k - a) - 1
      BY <2>3, <1>2, <1>6
    <3>2. j = z /\ k < l
      BY <3>1, <1>1, <1>2
    <3>3. l \notin Items(f, j)
      BY <3>1, <3>2, <1>1, <1>4
    <3>4. l \in Nat /\ Unit(g, j, l) = c + (l - a) - 1
      BY <3>3, <1>2, <1>6
    <3> QED BY <3>1, <3>2, <3>4, <1>1, <1>4
  <2> QED BY <2>1, <2>2, <2>3
<1>11. AllOK(g, v)
  <2> SUFFICES ASSUME NEW t \in Stream, NEW u \in Nat, u < v[t]
               PROVE  \E i \in DOMAIN g : \E k \in Items(g, i) :
                          g[i].body = t /\ Unit(g, i, k) = u
    BY DEF AllOK
  <2>1. CASE u < w[t]
    <3>1. \E i \in DOMAIN f : \E k \in Items(f, i) : f[i].body = t /\ Unit(f, i, k) = u
      BY <2>1 DEF AllOK, FileOK
    <3> QED BY <3>1, <1>2, <1>5
  <2>2. CASE ~(u < w[t])
    <3>1. t = s /\ c <= u /\ u < c + n
      BY <2>2, <1>3 DEF c
    <3> QED BY <3>1, <1>1, <1>2, <1>7
  <2> QED BY <2>1, <2>2
<1>12. OffsetOK(g, v)
  <2> SUFFICES ASSUME NEW i \in DOMAIN g, g[i].body # None
               PROVE  /\ g[i].offset <= v[g[i].body]
                      /\ \A j \in DOMAIN g : \A k \in Items(g, j) :
                            g[j].body = g[i].body => (j < i <=> Unit(g, j, k) < g[i].offset)
    BY DEF OffsetOK
  <2>1. /\ g[i].body \in Stream /\ g[i].offset \in Nat
        /\ g[i].offset <= w[g[i].body]
    BY <1>1, <1>2 DEF OffsetOK, FileOK
  <2>2. g[i].offset <= v[g[i].body]
    BY <2>1, <1>3
  <2>3. ASSUME NEW j \in DOMAIN g, NEW k \in Items(g, j), g[j].body = g[i].body
        PROVE  j < i <=> Unit(g, j, k) < g[i].offset
    <3>1. CASE k \in Items(f, j)
      <4>1. j < i <=> Unit(f, j, k) < f[i].offset
        BY <3>1, <2>1, <2>3, <1>2 DEF OffsetOK, FileOK
      <4> QED BY <4>1, <3>1, <1>2, <1>5
    <3>2. CASE k \notin Items(f, j)
      <4>1. j = z /\ c <= Unit(g, j, k) /\ Unit(g, j, k) \in Nat
        BY <3>2, <1>2, <1>6
      <4>2. ~ (j < i)
        BY <4>1, <1>1, <1>2
      <4>3. g[i].offset <= c
        BY <4>1, <2>1, <2>3, <1>1, <1>2 DEF c
      <4> QED BY <4>1, <4>2, <4>3, <2>1, <1>1
    <3> QED BY <3>1, <3>2
  <2> QED BY <2>2, <2>3
<1> QED BY <1>2, <1>9, <1>10, <1>11, <1>12 DEF FileOK, g, v, z

(***************************************************************************)
(* Kin: n is m after the writer has looked after itself: partitions ended, *)
(* streams settled and advanced, nothing read or written.                  *)
(***************************************************************************)
Kin(m, n) ==
    /\ n.writer.list = m.writer.list
    /\ n.writer.pack.body = m.writer.pack.body
    /\ \A s \in Stream : IF m.stream[s] = None THEN n.stream[s] = None
                         ELSE Kept(m.stream[s], n.stream[s])

(***************************************************************************)
(* Ahead: from m to n the file has at most got partitions without essence, *)
(* nothing was counted as written, and a file that was not at its end is   *)
(* not at its end.                                                         *)
(***************************************************************************)
Longer(f, g) ==
    /\ g \in Seq(Partition) /\ Len(f) <= Len(g)
    /\ \A i \in 1 .. Len(f) : g[i] = f[i]
    /\ \A i \in Len(f) + 1 .. Len(g) : g[i].essence = << >>

\* Neither the footer nor a pack that would be one.
Unfinished(m) ==
    /\ m.writer.state # "Done" /\ m.writer.pack.type # "Footer"
    /\ \A i \in 1 .. Len(m.file) : m.file[i].type # "Footer"

\* See above.
Ahead(m, n) ==
    /\ Longer(m.file, n.file)
    /\ Amounts(n.stream) = Amounts(m.stream)
    /\ Unfinished(m) => Unfinished(n)

\* The same without a new partition.
Quiet(m, n) ==
    /\ n.file = m.file
    /\ Amounts(n.stream) = Amounts(m.stream)
    /\ Unfinished(m) => Unfinished(n)

\* A change of the writer's members that leaves the file alone.
LEMMA QuietAhead ==
    ASSUME NEW m, MachineOK(m), NEW n, n.file = m.file, Amounts(n.stream) = Amounts(m.stream),
           Unfinished(m) => n.writer.state # "Done" /\ n.writer.pack.type # "Footer"
    PROVE  Ahead(m, n) /\ Quiet(m, n)
<1>1. m.file \in Seq(Partition)
  BY MachineParts
<1>2. Len(m.file) \in Nat
  BY <1>1
<1>3. Longer(m.file, n.file)
  BY <1>1, <1>2 DEF Longer
<1> QED BY <1>3 DEF Ahead, Quiet, Unfinished

\* Longer is transitive.
LEMMA LongerTwice ==
    ASSUME NEW f \in Seq(Partition), NEW g, NEW h, Longer(f, g), Longer(g, h)
    PROVE  Longer(f, h)
<1>1. Len(f) \in Nat /\ Len(g) \in Nat /\ Len(h) \in Nat /\ h \in Seq(Partition)
  BY DEF Longer
<1>2. Len(f) <= Len(h)
  BY <1>1 DEF Longer
<1>3. \A i \in 1 .. Len(f) : h[i] = f[i]
  BY <1>1 DEF Longer
<1>4. \A i \in Len(f) + 1 .. Len(h) : h[i].essence = << >>
  BY <1>1 DEF Longer
<1> QED BY <1>1, <1>2, <1>3, <1>4 DEF Longer

\* Ahead is transitive.
LEMMA AheadTwice ==
    ASSUME NEW m, MachineOK(m), NEW n, NEW o, Ahead(m, n), Ahead(n, o)
    PROVE  Ahead(m, o)
<1>1. m.file \in Seq(Partition)
  BY MachineParts
<1>2. Longer(m.file, o.file)
  BY <1>1, LongerTwice DEF Ahead
<1> QED BY <1>2 DEF Ahead

\* Streams that are kept keep the amounts.
LEMMA KeptAmounts ==
    ASSUME NEW m, MachineOK(m), NEW str,
           \A s \in Stream : IF m.stream[s] = None THEN str[s] = None
                             ELSE Kept(m.stream[s], str[s])
    PROVE  Amounts(str) = Amounts(m.stream)
BY MachineParts, NoneAssumption DEF Kept, Amounts

\* A machine is kin to itself.
LEMMA SameKin ==
    ASSUME NEW m, MachineOK(m)
    PROVE  Kin(m, m) /\ Ahead(m, m)
BY MachineParts, QuietAhead DEF Kin, Kept, Unfinished

\* Scheduling leaves the list and the template's BodySID alone.
LEMMA ScheduledKin ==
    ASSUME NEW m, MachineOK(m), NEW n, Scheduled(m, n)
    PROVE  Kin(m, n) /\ Ahead(m, n) /\ Quiet(m, n)
<1>1. Amounts(n.stream) = Amounts(m.stream)
  BY ScheduledAmounts
<1>2. Ahead(m, n) /\ Quiet(m, n)
  BY <1>1, QuietAhead DEF Scheduled, Unfinished
<1> QED BY <1>2 DEF Kin, Scheduled

\* Kin is transitive.
LEMMA KinTwice ==
    ASSUME NEW m, NEW n, NEW o, MachineOK(m), Kin(m, n), Kin(n, o)
    PROVE  Kin(m, o)
<1>1. m.stream \in [Stream -> StreamType \cup {None}]
  BY MachineParts
<1>2. \A s \in Stream : IF m.stream[s] = None THEN o.stream[s] = None
                        ELSE Kept(m.stream[s], o.stream[s])
  BY <1>1, NoneAssumption DEF Kin, Kept
<1> QED BY <1>2 DEF Kin

\* Amounts written are natural numbers.
LEMMA AmountsType ==
    ASSUME NEW m, MachineOK(m)
    PROVE  Amounts(m.stream) \in [Stream -> Nat]
<1>1. m.stream \in [Stream -> StreamType \cup {None}]
  BY MachineParts
<1>2. \A s \in Stream : m.stream[s] # None => m.stream[s].written \in Nat
  BY <1>1 DEF StreamType
<1> QED BY <1>2 DEF Amounts

\* WritePartitionPack keeps the invariant and opens a partition.
LEMMA PackWritten ==
    ASSUME NEW m, Good(m), m.writer.pending
    PROVE  LET n == WritePartitionPack(m) IN
           /\ Good(n) /\ Kin(m, n) /\ Ahead(m, n)
           /\ ~n.writer.pending /\ n.writer.cur = m.writer.cur
           /\ n.stream = m.stream
           /\ n.file # << >> /\ n.file[Len(n.file)].body = m.writer.pack.body
<1> DEFINE w == m.writer
           pack == [w.pack EXCEPT !.type = IF w.generic THEN "Generic" ELSE @]
           hm == w.header \/ w.meta \/ (~w.footer /\ HandlerMetadata)
           p == [type |-> pack.type, body |-> pack.body, offset |-> pack.offset,
                 index |-> pack.index, table |-> w.table, meta |-> hm,
                 essence |-> << >>]
           next == IF w.table = None THEN pack ELSE [pack EXCEPT !.index = None]
           v == [w EXCEPT
              !.pack = next,
              !.table = None, !.pending = FALSE, !.header = FALSE,
              !.footer = FALSE, !.meta = FALSE, !.done = FALSE, !.sid = None,
              !.generic = FALSE]
           n == WritePartitionPack(m)
<1>1. /\ MachineOK(m) /\ m \in MachineType /\ w \in WriterType
      /\ m.stream \in [Stream -> StreamType \cup {None}] /\ m.file \in Seq(Partition)
      /\ FileOK(m.file, Amounts(m.stream))
      /\ Amounts(m.stream) \in [Stream -> Nat]
  BY MachineParts, AmountsType DEF Good
<1>2. n = [m EXCEPT !.file = Append(@, p), !.writer = v]
  BY DEF WritePartitionPack
<1>3. /\ pack \in Pack /\ pack.body = w.pack.body /\ pack.offset = w.pack.offset
      /\ w.pack.type # "Footer" => pack.type # "Footer"
  BY <1>1 DEF Pack, PackType, WriterType
<1>4. hm \in BOOLEAN
  OBVIOUS
<1>a. next \in Pack /\ next.body = w.pack.body /\ next.type = pack.type
  BY <1>3 DEF Pack
<1> HIDE DEF hm, pack, next
<1>5. /\ p \in Partition /\ p.body = w.pack.body /\ p.offset = w.pack.offset /\ p.essence = << >>
      /\ p.type = pack.type
  BY <1>1, <1>3, <1>4 DEF Pack, Partition, WriterType
<1>6. /\ v \in WriterType /\ ~v.pending /\ v.sid = None /\ v.cur = w.cur /\ v.list = w.list
      /\ v.pack.body = w.pack.body /\ v.pack.type = pack.type /\ v.state = w.state
  BY <1>1, <1>a DEF WriterType
<1> HIDE DEF p, v
<1>7. n.writer = v /\ n.stream = m.stream /\ n.file = Append(m.file, p)
  BY <1>1, <1>2 DEF MachineType
<1>8. /\ FileOK(n.file, Amounts(n.stream)) /\ n.file \in Seq(Partition)
  <2>1. p.body # None => p.offset = Amounts(m.stream)[p.body]
    BY <1>5 DEF Good, Template
  <2> QED BY <2>1, <1>1, <1>5, <1>7, EmptyPartition
<1>9. n \in MachineType
  BY <1>1, <1>2, <1>6, <1>7, <1>8 DEF MachineType
<1>10. MachineOK(n)
  BY <1>1, <1>6, <1>7, <1>9 DEF MachineOK
<1>11. Kin(m, n)
  BY <1>1, <1>6, <1>7, SameKin DEF Kin
<1>12. n.file # << >> /\ n.file[Len(n.file)] = p
  BY <1>1, <1>5, <1>7
<1> HIDE DEF n
<1>14. Ahead(m, n)
  <2>1. Len(m.file) \in Nat /\ Len(n.file) = Len(m.file) + 1
    BY <1>1, <1>5, <1>7
  <2>2. /\ \A i \in 1 .. Len(m.file) : n.file[i] = m.file[i]
        /\ n.file[Len(m.file) + 1] = p
    BY <1>1, <1>5, <1>7
  <2>3. Longer(m.file, n.file)
    BY <2>1, <2>2, <1>5, <1>8 DEF Longer
  <2>4. Unfinished(m) => Unfinished(n)
    BY <2>1, <2>2, <1>3, <1>5, <1>6, <1>7 DEF Unfinished
  <2> QED BY <2>3, <2>4, <1>7 DEF Ahead
<1>13. Good(n)
  BY <1>6, <1>7, <1>8, <1>10 DEF Good, Template, Open
<1> QED BY <1>5, <1>6, <1>7, <1>11, <1>12, <1>13, <1>14 DEF n

\* So does writing the pending pack, if there is one.
LEMMA FlushedGood ==
    ASSUME NEW m, Good(m)
    PROVE  LET n == Flushed(m) IN
           /\ Good(n) /\ Kin(m, n) /\ Ahead(m, n)
           /\ ~n.writer.pending /\ n.writer.cur = m.writer.cur
           /\ n.stream = m.stream
           /\ m.writer.pending =>
                 n.file # << >> /\ n.file[Len(n.file)].body = m.writer.pack.body
           /\ ~m.writer.pending => n = m
<1>1. CASE m.writer.pending
  BY <1>1, PackWritten DEF Flushed
<1>2. CASE ~m.writer.pending
  <2>1. MachineOK(m) /\ Kin(m, m) /\ Ahead(m, m)
    BY SameKin DEF Good
  <2> QED BY <1>2, <2>1 DEF Flushed
<1> QED BY <1>1, <1>2

\* EndPartition keeps the invariant.
LEMMA EndPartitionGood ==
    ASSUME NEW m, Good(m)
    PROVE  LET n == EndPartition(m) IN
           Good(n) /\ Kin(m, n) /\ Ahead(m, n) /\ ~n.writer.pending
<1> DEFINE m1 == [m EXCEPT !.writer.done = TRUE]
           s == CurStream(m)
           m2 == Advanced(m1, s)
           o == IF m.writer.cur = 0 \/ m.stream[s].state \notin BodyStates THEN m1
                ELSE IF m2.stream[s].state = "PostBodyIndex" THEN m2
                ELSE SetNextStream(m2)
<1>1. /\ MachineOK(m) /\ m \in MachineType /\ m.writer \in WriterType
      /\ m.stream \in [Stream -> StreamType \cup {None}]
  BY MachineParts DEF Good
<1>2. /\ m1 \in MachineType /\ m1.stream = m.stream /\ m1.file = m.file
      /\ m1.writer = [m.writer EXCEPT !.done = TRUE]
  BY <1>1 DEF MachineType, WriterType
<1>3. /\ m1.writer.list = m.writer.list /\ m1.writer.cur = m.writer.cur
      /\ m1.writer.pending = m.writer.pending /\ m1.writer.sid = m.writer.sid
      /\ m1.writer.pack = m.writer.pack /\ m1.writer.state = m.writer.state
  BY <1>1, <1>2 DEF WriterType
<1> HIDE DEF m1
<1>4. Good(m1)
  BY <1>1, <1>2, <1>3 DEF Good, MachineOK, Template, Open
<1>5. Kin(m, m1) /\ Ahead(m, m1)
  <2>1. Ahead(m, m1)
    BY <1>1, <1>2, <1>3, QuietAhead DEF Unfinished
  <2> QED BY <2>1, <1>1, <1>2, <1>3, SameKin DEF Kin
<1>6. MachineOK(m1)
  BY <1>4 DEF Good
<1>7. Scheduled(m1, o)
  <2>1. CASE m.writer.cur = 0
    BY <2>1, <1>6, SameScheduled
  <2>2. CASE m.writer.cur # 0
    <3>1. s \in Stream /\ m1.stream[s] \in StreamType
      BY <2>2, <1>1, <1>2, CurStreamType
    <3>2. Scheduled(m1, m2)
      BY <3>1, <1>6, AdvancedScheduled
    <3>3. MachineOK(m2)
      BY <3>2, <1>6, ScheduledOK
    <3> HIDE DEF m2, s
    <3>4. Scheduled(m1, SetNextStream(m2))
      BY <3>2, <3>3, <1>6, SetNextStreamScheduled, ScheduledTwice
    <3> QED BY <3>2, <3>4, <1>6, SameScheduled
  <2> QED BY <2>1, <2>2
<1>8. EndPartition(m) = Flushed(o)
  BY DEF EndPartition, m1
<1> HIDE DEF o
<1>9. Good(o) /\ Kin(m1, o) /\ Ahead(m1, o)
  BY <1>4, <1>6, <1>7, ScheduledGood, ScheduledKin
<1>10. Good(Flushed(o)) /\ Kin(o, Flushed(o)) /\ Ahead(o, Flushed(o)) /\ ~Flushed(o).writer.pending
  BY <1>9, FlushedGood
<1>11. Kin(m, o) /\ Ahead(m, o)
  BY <1>1, <1>5, <1>9, KinTwice, AheadTwice
<1>12. Kin(m, Flushed(o)) /\ Ahead(m, Flushed(o))
  BY <1>1, <1>10, <1>11, KinTwice, AheadTwice
<1> QED BY <1>8, <1>10, <1>12

\* So does ending the pending partition, if there is one.
LEMMA EndedGood ==
    ASSUME NEW m, Good(m)
    PROVE  LET n == Ended(m) IN
           Good(n) /\ Kin(m, n) /\ Ahead(m, n) /\ ~n.writer.pending
<1>1. CASE m.writer.pending
  BY <1>1, EndPartitionGood DEF Ended
<1>2. CASE ~m.writer.pending
  BY <1>2, SameKin DEF Ended, Good
<1> QED BY <1>1, <1>2

\* Advancing a stream keeps the invariant.
LEMMA AdvancedGood ==
    ASSUME NEW m, Good(m), NEW s \in Stream, m.stream[s] \in StreamType
    PROVE  LET n == Advanced(m, s) IN Good(n) /\ Scheduled(m, n) /\ Ahead(m, n) /\ Quiet(m, n)
<1>1. Scheduled(m, Advanced(m, s))
  BY AdvancedScheduled DEF Good
<1> QED BY <1>1, ScheduledGood, ScheduledKin DEF Good

\* Choosing the next stream keeps the invariant.
LEMMA SetNextStreamGood ==
    ASSUME NEW m, Good(m)
    PROVE  LET n == SetNextStream(m) IN Good(n) /\ Scheduled(m, n) /\ Ahead(m, n) /\ Quiet(m, n)
<1>1. Scheduled(m, SetNextStream(m))
  BY SetNextStreamScheduled DEF Good
<1> QED BY <1>1, ScheduledGood, ScheduledKin DEF Good

\* What looks at the streams and at the place in the list does not notice a pack.
Alike(m, n) ==
    /\ n.stream = m.stream
    /\ n.writer.list = m.writer.list /\ n.writer.cur = m.writer.cur
    /\ n.writer.state = m.writer.state

\* Machines that are alike keep Over.
LEMMA AlikeOver ==
    ASSUME NEW m, Over(m), NEW n, Alike(m, n)
    PROVE  Over(n)
BY DEF Over, Alike

\* Writing the pending pack changes no stream.
LEMMA FlushedAlike ==
    ASSUME NEW m, Good(m)
    PROVE  Alike(m, Flushed(m))
<1> DEFINE w == m.writer
           pack == [w.pack EXCEPT !.type = IF w.generic THEN "Generic" ELSE @]
           next == IF w.table = None THEN pack ELSE [pack EXCEPT !.index = None]
           p == [type |-> pack.type, body |-> pack.body, offset |-> pack.offset,
                 index |-> pack.index, table |-> w.table,
                 meta |-> w.header \/ w.meta \/ (~w.footer /\ HandlerMetadata),
                 essence |-> << >>]
           v == [w EXCEPT
              !.pack = next,
              !.table = None, !.pending = FALSE, !.header = FALSE,
              !.footer = FALSE, !.meta = FALSE, !.done = FALSE, !.sid = None,
              !.generic = FALSE]
           n == WritePartitionPack(m)
<1>1. m \in MachineType /\ w \in WriterType
  BY MachineParts DEF Good
<1>2. n = [m EXCEPT !.file = Append(@, p), !.writer = v]
  BY DEF WritePartitionPack
<1> HIDE DEF p, next
<1>3. v.list = w.list /\ v.cur = w.cur /\ v.state = w.state
  BY <1>1 DEF WriterType
<1> HIDE DEF v
<1>4. n.writer = v /\ n.stream = m.stream
  BY <1>1, <1>2 DEF MachineType
<1> QED BY <1>3, <1>4 DEF Flushed, Alike

\* Only a body leads to PostBodyIndex.
LEMMA NextStatePlain ==
    ASSUME NEW r, r.state \in StateType, r.state \notin BodyStates
    PROVE  NextState(r) # "PostBodyIndex"
<1>1. CASE r.state = "Start"
  BY <1>1 DEF NextState, FirstBody, IndexedBody, BodyStates
<1>2. CASE r.state = "HeadIndex"
  BY <1>2 DEF NextState, FirstBody, IndexedBody, BodyStates
<1>3. CASE r.state = "PreBodyIndex"
  BY <1>3 DEF NextState, IndexedBody, BodyStates
<1>4. CASE r.state = "PostBodyIndex"
  BY <1>4 DEF NextState, FooterState, IndexedBody, BodyStates
<1>5. CASE r.state \in {"FootIndex", "Done"}
  BY <1>5 DEF NextState, BodyStates
<1> QED BY <1>1, <1>2, <1>3, <1>4, <1>5 DEF StateType, BodyStates

\* So the first look at a stream does not.
LEMMA SettledPlain ==
    ASSUME NEW r \in StreamType, r.state # "PostBodyIndex"
    PROVE  Settled(r).state # "PostBodyIndex" /\ Visited(Settled(r)).state # "PostBodyIndex"
<1>1. CASE r.state = "Start"
  <2>1. NextState(r) # "PostBodyIndex"
    BY <1>1, NextStatePlain DEF StateType, BodyStates
  <2>2. GetNextState(r).state = NextState(r) /\ Settled(r) = GetNextState(r)
    BY <1>1 DEF GetNextState, Settled, StreamType
  <2>3. Settled(r) \in StreamType
    BY SettledKept DEF Kept
  <2> QED BY <2>1, <2>2, <2>3 DEF Visited, StreamType
<1>2. CASE r.state # "Start"
  <2>1. Settled(r) = r
    BY <1>2 DEF Settled
  <2> QED BY <2>1 DEF Visited, StreamType
<1> QED BY <1>1, <1>2

(***************************************************************************)
(* Orderly: n is m after steps that keep the writer with its stream, and   *)
(* that let no stream wait for its post-body table which did not.          *)
(***************************************************************************)
Orderly(m, n) ==
    /\ n.writer.list = m.writer.list /\ n.writer.cur = m.writer.cur
    /\ n.writer.state = m.writer.state
    /\ \A s \in Stream : n.stream[s] # None =>
          /\ m.stream[s] # None /\ n.stream[s].profile = m.stream[s].profile
          /\ n.stream[s].state = "PostBodyIndex" => m.stream[s].state = "PostBodyIndex"

\* Orderly is transitive, and machines that are alike are in order.
LEMMA OrderlyTwice ==
    ASSUME NEW m, NEW n, NEW o, Orderly(m, n)
    PROVE  /\ Orderly(n, o) => Orderly(m, o)
           /\ Alike(n, o) => Orderly(m, o)
BY DEF Orderly, Alike

\* See above.
LEMMA AlikeOrderly ==
    ASSUME NEW m, NEW n, Alike(m, n)
    PROVE  Orderly(m, n)
BY DEF Orderly, Alike

\* One stream goes on to another state.
LEMMA ChangedOrderly ==
    ASSUME NEW m, MachineOK(m), NEW n,
           n.writer.list = m.writer.list, n.writer.cur = m.writer.cur,
           n.writer.state = m.writer.state,
           NEW s \in Stream, m.stream[s] # None, NEW q,
           n.stream = [m.stream EXCEPT ![s] = q], q.profile = m.stream[s].profile,
           q.state = "PostBodyIndex" => m.stream[s].state = "PostBodyIndex"
    PROVE  Orderly(m, n)
<1>1. DOMAIN m.stream = Stream
  BY MachineParts
<1> QED BY <1>1 DEF Orderly

\* The step out of a state that is not a body.
LEMMA AdvancedOrderly ==
    ASSUME NEW m, MachineOK(m), NEW s \in Stream, m.stream[s] \in StreamType,
           m.stream[s].state \notin BodyStates
    PROVE  LET n == Advanced(m, s) IN
           Orderly(m, n) /\ n.stream[s].state # "PostBodyIndex"
<1> DEFINE n == Advanced(m, s)
           q == GetNextState(m.stream[s])
<1>1. m \in MachineType /\ m.stream \in [Stream -> StreamType \cup {None}]
  BY MachineParts
<1>2. q.profile = m.stream[s].profile
  BY GetNextStateKept DEF Kept
<1>3. q.state # "PostBodyIndex"
  <2>1. m.stream[s].state \in StateType /\ q.state = NextState(m.stream[s])
    BY DEF GetNextState, StreamType
  <2> QED BY <2>1, NextStatePlain
<1>4. n.stream = [m.stream EXCEPT ![s] = q] /\ n.writer = m.writer
  BY <1>1 DEF Advanced, MachineType
<1> HIDE DEF n, q
<1>5. n.stream[s] = q
  BY <1>1, <1>4
<1>6. Orderly(m, n)
  BY <1>2, <1>3, <1>4, NoneAssumption, ChangedOrderly
<1> QED BY <1>3, <1>5, <1>6 DEF n

\* The end of a partition of any other stream than one in its body.
LEMMA EndPartitionAlike ==
    ASSUME NEW m, Good(m), m.writer.cur = 0 \/ m.stream[CurStream(m)].state \notin BodyStates
    PROVE  Alike(m, EndPartition(m)) /\ Alike(m, Ended(m))
<1> DEFINE m1 == [m EXCEPT !.writer.done = TRUE]
<1>1. /\ m \in MachineType /\ m.writer \in WriterType
      /\ m.stream \in [Stream -> StreamType \cup {None}]
  BY MachineParts DEF Good
<1>2. /\ m1 \in MachineType /\ m1.stream = m.stream /\ m1.file = m.file
      /\ m1.writer = [m.writer EXCEPT !.done = TRUE]
  BY <1>1 DEF MachineType, WriterType
<1>3. /\ m1.writer.list = m.writer.list /\ m1.writer.cur = m.writer.cur
      /\ m1.writer.pending = m.writer.pending /\ m1.writer.sid = m.writer.sid
      /\ m1.writer.pack = m.writer.pack /\ m1.writer.state = m.writer.state
  BY <1>1, <1>2 DEF WriterType
<1>4. EndPartition(m) = Flushed(m1)
  BY DEF EndPartition
<1> HIDE DEF m1
<1>5. Good(m1)
  BY <1>1, <1>2, <1>3 DEF Good, MachineOK, Template, Open
<1>6. Alike(m1, Flushed(m1))
  BY <1>5, FlushedAlike
<1> QED BY <1>2, <1>3, <1>4, <1>6 DEF Alike, Ended

\* Advancing a stream keeps Over.
LEMMA AdvancedOver ==
    ASSUME NEW m, MachineOK(m), Over(m), NEW s \in Stream, m.stream[s] \in StreamType
    PROVE  LET n == Advanced(m, s) IN Over(n) /\ n.writer = m.writer
<1> DEFINE n == Advanced(m, s)
           q == GetNextState(m.stream[s])
<1>1. m \in MachineType /\ m.stream \in [Stream -> StreamType \cup {None}]
  BY MachineParts
<1>2. Later(m.stream[s], q)
  BY GetNextStateLater
<1>3. n.stream = [m.stream EXCEPT ![s] = q] /\ n.writer = m.writer
  BY <1>1 DEF Advanced, MachineType
<1> HIDE DEF n, q
<1>4. Over(n)
  BY <1>2, <1>3, NoneAssumption, OverChanged
<1> QED BY <1>3, <1>4 DEF n

(***************************************************************************)
(* Aged: n is m after steps that keep Over, and that neither begin the     *)
(* body nor leave the footer.                                              *)
(***************************************************************************)
Aged(m, n) ==
    /\ Over(n) /\ n.writer.list = m.writer.list
    /\ m.writer.state = "Start" =>
          /\ n.writer.state = "Start"
          /\ \A s \in Stream : m.stream[s] # None =>
                n.stream[s] # None /\ Later(m.stream[s], n.stream[s])
    /\ m.writer.state # "Start" => n.writer.state # "Start"
    /\ m.writer.state = "Footer" => n.writer.state = "Footer"

\* Aged is transitive.
LEMMA AgedTwice ==
    ASSUME NEW m, NEW n, NEW o, Aged(m, n), Aged(n, o)
    PROVE  Aged(m, o)
BY DEF Aged, Later

\* Machines that are alike are of an age.
LEMMA AlikeAged ==
    ASSUME NEW m, Over(m), NEW n, Alike(m, n)
    PROVE  Aged(m, n)
BY AlikeOver DEF Aged, Alike, Later

\* A stream that goes on makes a machine older.
LEMMA ChangedAged ==
    ASSUME NEW m, MachineOK(m), Over(m), NEW n,
           n.writer.list = m.writer.list, n.writer.state = m.writer.state,
           n.writer.cur = m.writer.cur,
           NEW s \in Stream, m.stream[s] # None,
           NEW q, q # None, n.stream = [m.stream EXCEPT ![s] = q], Later(m.stream[s], q)
    PROVE  Aged(m, n)
<1>1. Over(n)
  BY OverChanged
<1>2. m.stream \in [Stream -> StreamType \cup {None}]
  BY MachineParts
<1>3. \A t \in Stream : m.stream[t] # None =>
         n.stream[t] # None /\ Later(m.stream[t], n.stream[t])
  BY <1>2 DEF Later
<1> QED BY <1>1, <1>3 DEF Aged

\* The first look at a stream, and advancing it.
LEMMA SettledLater ==
    ASSUME NEW r \in StreamType
    PROVE  Later(r, Settled(r)) /\ Settled(r).state # "Start"
BY GetNextStateLater DEF Settled, Later

\* See SettledLater.
LEMMA AdvancedAged ==
    ASSUME NEW m, MachineOK(m), Over(m), NEW s \in Stream, m.stream[s] \in StreamType
    PROVE  LET n == Advanced(m, s) IN
           /\ Aged(m, n)
           /\ m.stream[s].state # "Start" => n.stream[s].state \notin Early
<1> DEFINE n == Advanced(m, s)
           q == GetNextState(m.stream[s])
<1>1. m \in MachineType /\ m.stream \in [Stream -> StreamType \cup {None}]
  BY MachineParts
<1>2. /\ Later(m.stream[s], q) /\ q \in StreamType
      /\ m.stream[s].state # "Start" => q.state \notin Early
  BY GetNextStateLater, GetNextStateKept DEF Kept
<1>3. n.stream = [m.stream EXCEPT ![s] = q] /\ n.writer = m.writer
  BY <1>1 DEF Advanced, MachineType
<1> HIDE DEF n, q
<1>4. Aged(m, n)
  BY <1>2, <1>3, NoneAssumption, ChangedAged
<1> QED BY <1>1, <1>2, <1>3, <1>4 DEF n

\* EndPartition keeps Over.
LEMMA EndPartitionOver ==
    ASSUME NEW m, Good(m), Over(m)
    PROVE  Aged(m, EndPartition(m))
<1> DEFINE m1 == [m EXCEPT !.writer.done = TRUE]
           s == CurStream(m)
           m2 == Advanced(m1, s)
           o == IF m.writer.cur = 0 \/ m.stream[s].state \notin BodyStates THEN m1
                ELSE IF m2.stream[s].state = "PostBodyIndex" THEN m2
                ELSE SetNextStream(m2)
<1>1. /\ MachineOK(m) /\ m \in MachineType /\ m.writer \in WriterType
      /\ m.stream \in [Stream -> StreamType \cup {None}]
  BY MachineParts DEF Good
<1>2. /\ m1 \in MachineType /\ m1.stream = m.stream /\ m1.file = m.file
      /\ m1.writer = [m.writer EXCEPT !.done = TRUE]
  BY <1>1 DEF MachineType, WriterType
<1>3. /\ m1.writer.list = m.writer.list /\ m1.writer.cur = m.writer.cur
      /\ m1.writer.pending = m.writer.pending /\ m1.writer.sid = m.writer.sid
      /\ m1.writer.pack = m.writer.pack /\ m1.writer.state = m.writer.state
  BY <1>1, <1>2 DEF WriterType
<1> HIDE DEF m1
<1>4. Good(m1)
  BY <1>1, <1>2, <1>3 DEF Good, MachineOK, Template, Open
<1>5. Aged(m, m1) /\ Over(m1) /\ MachineOK(m1)
  BY <1>2, <1>3, <1>4, AlikeAged DEF Alike, Aged, Good
<1>6. CASE m.writer.cur = 0
  <2>1. o = m1
    BY <1>6
  <2> HIDE DEF o
  <2>2. Aged(m1, Flushed(o))
    BY <2>1, <1>4, <1>5, FlushedAlike, AlikeAged
  <2>3. EndPartition(m) = Flushed(o)
    BY DEF EndPartition, m1, o
  <2> QED BY <2>2, <2>3, <1>5, AgedTwice
<1>7. CASE m.writer.cur # 0
  <2>1. s \in Stream /\ m1.stream[s] \in StreamType
    BY <1>7, <1>1, <1>2, CurStreamType
  <2>2. m.writer.state # "Start"
    BY <1>7 DEF Over
  <2>3. Scheduled(m1, m2) /\ MachineOK(m2) /\ Good(m2)
    BY <2>1, <1>4, <1>5, AdvancedScheduled, ScheduledOK, ScheduledGood
  <2>4. Over(m2) /\ m2.writer = m1.writer
    BY <2>1, <1>5, AdvancedOver
  <2> HIDE DEF m2, s
  <2>5. Aged(m1, m2)
    BY <2>2, <2>4, <1>3 DEF Aged
  <2>6. LET n == SetNextStream(m2) IN Good(n) /\ Aged(m2, n)
    <3>1. LET n == SetNextStream(m2) IN Good(n) /\ n.writer.list = m2.writer.list
      BY <2>3, SetNextStreamGood DEF Scheduled
    <3>2. m2.writer.state # "Start"
      BY <2>2, <2>4, <1>3
    <3> QED BY <3>1, <3>2, <2>3, <2>4, SetNextStreamOver DEF Aged
  <2>7. Good(o) /\ Aged(m1, o)
    <3> DEFINE n == SetNextStream(m2)
    <3> HIDE DEF n
    <3>1. Good(n) /\ Aged(m1, n)
      BY <2>5, <2>6, AgedTwice DEF n
    <3>2. Aged(m1, m1)
      BY <1>5, AlikeAged DEF Alike
    <3>3. o = m1 \/ o = m2 \/ o = n
      BY DEF n
    <3> QED BY <3>1, <3>2, <3>3, <2>3, <2>5, <1>4
  <2>8. EndPartition(m) = Flushed(o)
    BY DEF EndPartition, m1, m2, s, o
  <2> HIDE DEF o
  <2>9. Aged(o, Flushed(o))
    BY <2>7, FlushedAlike, AlikeAged DEF Aged
  <2> QED BY <2>7, <2>8, <2>9, <1>5, AgedTwice
<1> QED BY <1>6, <1>7

\* So does ending the pending partition, if there is one.
LEMMA EndedOver ==
    ASSUME NEW m, Good(m), Over(m)
    PROVE  Aged(m, Ended(m))
BY EndPartitionOver, AlikeAged DEF Ended, Alike

(***************************************************************************)
(* What a change of the writer's members must respect.                     *)
(***************************************************************************)
LEMMA Adjusted ==
    ASSUME NEW m, Good(m), NEW n \in MachineType,
           n.file = m.file, n.writer.list = m.writer.list,
           n.writer.cur \in 0 .. Len(m.writer.list),
           \A s \in Stream : IF m.stream[s] = None THEN n.stream[s] = None
                             ELSE Kept(m.stream[s], n.stream[s]),
           (n.writer.pending /\ n.writer.pack.body # None) =>
              n.writer.pack.offset = Amounts(m.stream)[n.writer.pack.body],
           (~n.writer.pending /\ n.writer.sid # None) =>
              m.file # << >> /\ m.file[Len(m.file)].body = n.writer.sid
    PROVE  /\ Good(n)
           /\ (Unfinished(m) => n.writer.state # "Done" /\ n.writer.pack.type # "Footer")
                 => Ahead(m, n)
<1>1. /\ MachineOK(m) /\ m.stream \in [Stream -> StreamType \cup {None}]
      /\ m.writer.list \in Seq(Stream)
  BY MachineParts DEF Good
<1>2. Amounts(n.stream) = Amounts(m.stream)
  BY <1>1, NoneAssumption DEF Kept, Amounts
<1>3. \A i \in DOMAIN n.writer.list : n.stream[n.writer.list[i]] # None
  BY <1>1, NoneAssumption DEF MachineOK, Kept
<1>4. \A s \in Stream : n.stream[s] # None => StreamInv(n.stream[s])
  BY <1>1, NoneAssumption DEF MachineOK, Kept, StreamInv
<1>5. MachineOK(n)
  BY <1>3, <1>4 DEF MachineOK
<1>6. (Unfinished(m) => n.writer.state # "Done" /\ n.writer.pack.type # "Footer")
         => Ahead(m, n)
  BY <1>1, <1>2, QuietAhead
<1> QED BY <1>2, <1>5, <1>6 DEF Good, Template, Open

\* The types of the fields of a stream.
LEMMA ProfileParts ==
    ASSUME NEW r \in StreamType
    PROVE  /\ r.profile \in ProfileType
           /\ r.profile.cbr \in BOOLEAN /\ r.profile.units \in Nat
           /\ r.profile.generic \in BOOLEAN /\ r.profile.stopAfter \in Nat
           /\ r.read \in Nat /\ r.written \in Nat /\ r.pending \in BOOLEAN
           /\ r.nextSprinkled \in Nat /\ r.sparse \subseteq Int
           /\ r.stopAfter \in Nat
<1>1. r.profile \in ProfileType
  BY ProfilesAssumption DEF StreamType
<1> QED BY <1>1 DEF ProfileType, StreamType

\* LastNewEditUnit is a number, perhaps -1.
LEMMA LastNewEditUnitType ==
    ASSUME NEW r \in StreamType
    PROVE  LastNewEditUnit(r) \in Int
BY ProfileParts DEF LastNewEditUnit

\* An index table has finitely many entries.
LEMMA CompleteEntriesFinite ==
    ASSUME NEW r \in StreamType, NEW a \in Int, NEW b \in Int
    PROVE  /\ CompleteEntries(r, a, b) \subseteq Int
           /\ Cardinality(CompleteEntries(r, a, b)) \in Nat
<1>1. CompleteEntries(r, a, b) \subseteq a .. b
  BY DEF CompleteEntries
<1>2. IsFiniteSet(a .. b)
  BY FS_Interval
<1>3. IsFiniteSet(CompleteEntries(r, a, b))
  BY <1>1, <1>2, FS_Subset
<1> QED BY <1>1, <1>3, FS_CardinalityType

\* The entries of a sprinkled table are a finite set of numbers.
LEMMA SprinkleUnitsType ==
    ASSUME NEW r \in StreamType
    PROVE  SprinkleUnits(r) \subseteq Int /\ Cardinality(SprinkleUnits(r)) \in Nat
BY ProfileParts, LastNewEditUnitType, CompleteEntriesFinite DEF SprinkleUnits

\* MakeIndex builds a table.
LEMMA MakeIndexType ==
    ASSUME NEW s \in Stream, NEW r \in StreamType, NEW units \in SUBSET Int
    PROVE  MakeIndex(s, r, units) \in TableType
BY ProfileParts DEF MakeIndex, TableType

\* Counting the sprinkled entries touches no amount.
LEMMA BumpedKept ==
    ASSUME NEW r \in StreamType, NEW units, Cardinality(units) \in Nat
    PROVE  Kept(r, Bumped(r, units))
BY ProfileParts DEF Bumped, Kept, StreamType

\* It decides no state.
LEMMA BumpedLater ==
    ASSUME NEW r \in StreamType, NEW units
    PROVE  Later(r, Bumped(r, units)) /\ Later(r, r)
<1> DEFINE q == Bumped(r, units)
<1>1. /\ q.state = r.state /\ q.eos = r.eos /\ q.read = r.read /\ q.active = r.active
      /\ q.profile = r.profile /\ q.pending = r.pending
  BY DEF Bumped, StreamType
<1> HIDE DEF q
<1> QED BY <1>1 DEF Later, StreamEnd, q

\* An isolated index table keeps the invariant.
LEMMA IsolatedIndexGood ==
    ASSUME NEW m, Good(m), NEW s \in Stream, m.stream[s] \in StreamType, NEW bump
    PROVE  LET n == IsolatedIndex(m, s, bump) IN
           /\ Good(n) /\ Ahead(m, n) /\ n.stream[s] \in StreamType
           /\ Over(m) => Aged(m, n)
           /\ (m.writer.cur = 0 \/ m.stream[CurStream(m)].state \notin BodyStates) =>
                 Orderly(m, n) /\ n.stream[s].state = m.stream[s].state
<1> DEFINE r == m.stream[s]
           units == SprinkleUnits(r)
           pack == [type |-> "Body", body |-> None, offset |-> 0, index |-> s]
           table == MakeIndex(s, r, units)
           q == IF bump THEN Bumped(r, units) ELSE r
           v == [m.writer EXCEPT !.pack = pack, !.sid = None, !.generic = FALSE,
                                 !.table = table, !.pending = TRUE]
           o == [m EXCEPT
                  !.stream[s] = IF bump THEN Bumped(@, units) ELSE @,
                  !.writer.pack = pack,
                  !.writer.sid = None,
                  !.writer.generic = FALSE,
                  !.writer.table = table,
                  !.writer.pending = TRUE]
<1>1. /\ MachineOK(m) /\ m \in MachineType /\ m.writer \in WriterType
      /\ m.stream \in [Stream -> StreamType \cup {None}]
      /\ m.writer.cur \in 0 .. Len(m.writer.list)
  BY MachineParts DEF Good
<1>2. units \in SUBSET Int /\ Cardinality(units) \in Nat
  BY SprinkleUnitsType
<1>3. table \in TableType
  BY <1>2, MakeIndexType
<1>4. pack \in Pack /\ pack.body = None /\ pack.type # "Footer"
  BY DEF Pack, PackType
<1>5. Kept(r, q)
  BY <1>2, BumpedKept DEF Kept
<1>a. Later(r, q)
  BY BumpedLater
<1>b. q.state = r.state
  BY DEF Bumped, StreamType
<1> HIDE DEF table, pack, units
<1>6. /\ v \in WriterType /\ v.pending /\ v.sid = None /\ v.cur = m.writer.cur
      /\ v.list = m.writer.list /\ v.pack = pack /\ v.state = m.writer.state
  BY <1>1, <1>3, <1>4 DEF WriterType
<1>7. o.writer = v /\ o.file = m.file /\ o.stream = [m.stream EXCEPT ![s] = q]
  BY <1>1 DEF MachineType, WriterType
<1> HIDE DEF v, q, r
<1>8. o.stream \in [Stream -> StreamType \cup {None}]
  BY <1>1, <1>5, <1>7 DEF Kept
<1>9. o \in MachineType
  BY <1>1, <1>6, <1>7, <1>8 DEF MachineType
<1>10. \A t \in Stream : IF m.stream[t] = None THEN o.stream[t] = None
                         ELSE Kept(m.stream[t], o.stream[t])
  BY <1>1, <1>5, <1>7, NoneAssumption DEF Kept, r
<1> HIDE DEF o
<1>11. Good(o) /\ Ahead(m, o)
  BY <1>1, <1>4, <1>6, <1>7, <1>9, <1>10, Adjusted DEF Unfinished
<1>12. o.stream[s] \in StreamType
  BY <1>1, <1>5, <1>7 DEF Kept
<1>13. IsolatedIndex(m, s, bump) = EndPartition(o)
  BY DEF IsolatedIndex, o, units, table, pack, r
<1>14. Good(EndPartition(o)) /\ Kin(o, EndPartition(o)) /\ Ahead(m, EndPartition(o))
  BY <1>1, <1>11, EndPartitionGood, AheadTwice
<1>15. ASSUME Over(m) PROVE Aged(m, EndPartition(o))
  <2>1. Aged(m, o)
    <3>1. q # None /\ m.stream[s] # None
      BY <1>5, NoneAssumption DEF Kept
    <3>2. Later(m.stream[s], q)
      BY <1>a DEF r
    <3> QED BY <3>1, <3>2, <1>1, <1>6, <1>7, <1>15, ChangedAged
  <2> QED BY <1>11, <2>1, EndPartitionOver, AgedTwice DEF Aged
<1>16. ASSUME m.writer.cur = 0 \/ m.stream[CurStream(m)].state \notin BodyStates
       PROVE  LET n == EndPartition(o) IN
              Orderly(m, n) /\ n.stream[s].state = m.stream[s].state
  <2>1. q.profile = m.stream[s].profile
    BY <1>5 DEF Kept, r
  <2>2. q.state = m.stream[s].state
    BY <1>b DEF r
  <2>3. m.stream[s] # None
    BY NoneAssumption
  <2>4. /\ o.writer.list = m.writer.list /\ o.writer.cur = m.writer.cur
        /\ o.writer.state = m.writer.state
    BY <1>6, <1>7
  <2>5. Orderly(m, o)
    BY <1>1, <1>7, <2>1, <2>2, <2>3, <2>4, ChangedOrderly
  <2>6. o.stream[s].state = m.stream[s].state /\ \A t \in Stream : t # s => o.stream[t] = m.stream[t]
    BY <1>1, <1>7, <2>2
  <2>7. o.writer.cur = 0 \/ o.stream[CurStream(o)].state \notin BodyStates
    <3>1. CASE m.writer.cur = 0
      BY <2>4, <3>1
    <3>2. CASE m.writer.cur # 0
      <4>1. CurStream(o) = CurStream(m) /\ CurStream(m) \in Stream
        BY <1>1, <2>4, <3>2, CurStreamType DEF CurStream
      <4> QED BY <1>16, <2>6, <3>2, <4>1
    <3> QED BY <3>1, <3>2
  <2>8. Alike(o, EndPartition(o))
    BY <1>11, <2>7, EndPartitionAlike
  <2> QED BY <2>5, <2>6, <2>8, OrderlyTwice DEF Alike
<1> QED BY <1>12, <1>13, <1>14, <1>15, <1>16, NoneAssumption DEF Kin, Kept

\* Two changes of the template pack make one.
LEMMA PackTwice ==
    ASSUME NEW w \in WriterType, NEW a, NEW b, NEW table
    PROVE  /\ [[w EXCEPT !.pack = a] EXCEPT !.pack = b] = [w EXCEPT !.pack = b]
           /\ [[w EXCEPT !.pack = a] EXCEPT !.pack = b, !.table = table]
                 = [w EXCEPT !.pack = b, !.table = table]
BY DEF WriterType

\* Completing the pack gives it the offset that Template asks for.
LEMMA AddressedGood ==
    ASSUME NEW m, Good(m), NEW o \in MachineType, o.file = m.file, o.stream = m.stream,
           o.writer.list = m.writer.list, o.writer.cur = m.writer.cur, o.writer.pending,
           NEW s \in Stream, m.stream[s] \in StreamType
    PROVE  LET n == Addressed(o, s) IN
           /\ Good(n) /\ n.writer.pending /\ n.writer.pack.body = s
           /\ n.writer.list = m.writer.list /\ n.writer.cur = m.writer.cur
           /\ n.writer.state = o.writer.state
           /\ n.stream = m.stream /\ n.file = m.file
           /\ (Unfinished(m) => o.writer.state # "Done" /\ o.writer.pack.type # "Footer")
                 => Ahead(m, n)
<1> DEFINE n == Addressed(o, s)
           pack == [o.writer.pack EXCEPT !.body = s, !.offset = o.stream[s].written]
           v == [o.writer EXCEPT !.pack = pack]
<1>1. /\ MachineOK(m) /\ o.writer \in WriterType
      /\ m.stream \in [Stream -> StreamType \cup {None}]
      /\ m.writer.cur \in 0 .. Len(m.writer.list)
  BY MachineParts DEF Good, MachineType
<1>2. m.stream[s].written \in Nat /\ m.stream[s] # None
  BY ProfileParts, NoneAssumption
<1>3. /\ pack \in Pack /\ pack.body = s /\ pack.offset = m.stream[s].written
      /\ pack.type = o.writer.pack.type
  BY <1>1, <1>2 DEF Pack, WriterType
<1>4. n = [o EXCEPT !.writer.pack.body = s, !.writer.pack.offset = o.stream[s].written]
  BY DEF Addressed
<1>5. n.writer = v /\ n.stream = o.stream /\ n.file = o.file
  <2> DEFINE x == o.stream[s].written
             p1 == [o.writer.pack EXCEPT !.body = s]
             o1 == [o EXCEPT !.writer.pack.body = s]
  <2>1. /\ o1.writer = [o.writer EXCEPT !.pack = p1]
        /\ o1.stream = o.stream /\ o1.file = o.file /\ o1.writer.pack = p1
    BY <1>1 DEF MachineType, WriterType
  <2>2. n = [o1 EXCEPT !.writer.pack.offset = x]
    BY <1>1, <1>4 DEF MachineType
  <2>3. pack = [p1 EXCEPT !.offset = x]
    OBVIOUS
  <2>4. o1.writer = [o.writer EXCEPT !.pack = p1] /\ DOMAIN o1 = DOMAIN o
    BY <2>1
  <2> HIDE DEF x, p1, pack, n
  <2>5. /\ n.writer = [o1.writer EXCEPT !.pack = [p1 EXCEPT !.offset = x]]
        /\ n.stream = o1.stream /\ n.file = o1.file
    BY <2>1, <2>2, <1>1 DEF MachineType, WriterType
  <2> HIDE DEF o1
  <2>6. n.writer = [[o.writer EXCEPT !.pack = p1] EXCEPT !.pack = pack]
    BY <2>1, <2>3, <2>5
  <2> QED BY <2>1, <2>5, <2>6, <1>1, PackTwice
<1> HIDE DEF pack
<1>6. /\ v \in WriterType /\ v.pending = o.writer.pending /\ v.list = o.writer.list
      /\ v.cur = o.writer.cur /\ v.pack = pack /\ v.state = o.writer.state
  BY <1>1, <1>3 DEF WriterType
<1> HIDE DEF v
<1>7. n \in MachineType
  BY <1>1, <1>4, <1>5, <1>6 DEF MachineType
<1>8. Kin(m, m)
  BY <1>1, SameKin
<1>9. Amounts(m.stream)[s] = m.stream[s].written
  BY <1>2 DEF Amounts
<1> HIDE DEF n
<1>12. /\ n.file = m.file /\ n.writer.list = m.writer.list
       /\ n.writer.cur \in 0 .. Len(m.writer.list)
       /\ n.writer.pending /\ n.writer.pack.body = s
       /\ n.writer.pack.offset = Amounts(m.stream)[s]
  BY <1>1, <1>3, <1>5, <1>6, <1>9
<1>13. \A t \in Stream : IF m.stream[t] = None THEN n.stream[t] = None
                         ELSE Kept(m.stream[t], n.stream[t])
  BY <1>5, <1>8 DEF Kin
<1>10. Good(n)
  BY <1>7, <1>12, <1>13, Adjusted
<1>11. (Unfinished(m) => o.writer.state # "Done" /\ o.writer.pack.type # "Footer")
          => Ahead(m, n)
  BY <1>1, <1>3, <1>5, <1>6, QuietAhead
<1> QED BY <1>3, <1>5, <1>6, <1>10, <1>11 DEF n

\* The writer is about to write essence of the current stream: into the
\* partition whose pack waits, or into the last one of the file.
Serving(m, first) ==
    /\ m.writer.cur # 0
    /\ m.writer.pending => first /\ m.writer.pack.body = CurStream(m)
    /\ ~m.writer.pending =>
          m.file # << >> /\ m.file[Len(m.file)].body = CurStream(m)

\* The fields of Machine.
LEMMA MachineFields ==
    /\ Machine.writer = writer /\ Machine.stream = stream /\ Machine.file = file
BY DEF Machine

\* Continuing a partition or queueing a new one keeps the invariant and
\* leaves a writer that serves the current stream.
LEMMA BodyPartitionGood ==
    ASSUME Good(Machine), writer.cur # 0
    PROVE  LET s == CurStream(Machine)
               n == Addressed(BodyPartition(s), s)
           IN /\ Good(n) /\ Serving(n, TRUE) /\ n.stream = stream /\ Ahead(Machine, n)
              /\ CurStream(n) = s /\ n.writer.cur = writer.cur
              /\ Alike(Machine, n)
<1> DEFINE s == CurStream(Machine)
           n == Addressed(BodyPartition(s), s)
           m1 == Flushed(Machine)
           o == NewBodyPartition(Machine)
<1>1. /\ MachineOK(Machine) /\ Machine.writer = writer /\ Machine.stream = stream
      /\ Machine \in MachineType /\ Machine.file = file
  BY MachineFields, MachineParts DEF Good
<1>2. s \in Stream /\ stream[s] \in StreamType
  BY <1>1, CurStreamType
<1>3. ASSUME NEW q, Good(q), q.writer.pending, q.writer.pack.body = s,
             q.writer.list = writer.list, q.writer.cur = writer.cur
      PROVE  Serving(q, TRUE) /\ CurStream(q) = s
  BY <1>1, <1>3 DEF Serving, CurStream
<1>4. CASE Continued(s) /\ writer.pending
  <2>1. n = Addressed(Machine, s)
    BY <1>4 DEF BodyPartition
  <2> HIDE DEF s
  <2>2. /\ Good(n) /\ n.writer.pending /\ n.writer.pack.body = s
        /\ n.writer.list = writer.list /\ n.writer.cur = writer.cur
        /\ n.writer.state = writer.state
        /\ n.stream = stream /\ Ahead(Machine, n)
    BY <2>1, <1>1, <1>2, <1>4, AddressedGood DEF Unfinished
  <2> HIDE DEF n
  <2>3. Alike(Machine, n)
    BY <2>2, <1>1 DEF Alike
  <2> QED BY <2>2, <2>3, <1>3 DEF n, s
<1>5. CASE Continued(s) /\ ~writer.pending
  <2>1. n = Machine
    BY <1>1, <1>5 DEF BodyPartition, Addressed
  <2>4. Ahead(Machine, n)
    BY <2>1, <1>1, SameKin
  <2>2. writer.sid = s /\ s # None
    BY <1>2, <1>5, NoneAssumption DEF Continued
  <2>3. file # << >> /\ file[Len(file)].body = s
    BY <1>1, <1>5, <2>2 DEF Good, Open
  <2> HIDE DEF n, s
  <2>5. Alike(Machine, n)
    BY <2>1 DEF Alike
  <2> QED BY <2>1, <2>3, <2>4, <2>5, <1>1, <1>5 DEF Serving, n, s
<1>6. CASE ~Continued(s)
  <2>1. n = Addressed(o, s)
    BY <1>6 DEF BodyPartition
  <2>2. /\ Good(m1) /\ m1.stream = stream /\ m1.writer.cur = writer.cur /\ Kin(Machine, m1)
        /\ Ahead(Machine, m1) /\ Alike(Machine, m1)
    BY <1>1, FlushedGood, FlushedAlike
  <2>3. m1.writer.list = writer.list
    BY <1>1, <2>2 DEF Kin
  <2>4. m1 \in MachineType /\ m1.writer \in WriterType
    BY <2>2, MachineParts DEF Good
  <2> HIDE DEF m1
  <2> DEFINE type == IF m1.writer.generic THEN "Generic" ELSE "Body"
             pack == [m1.writer.pack EXCEPT !.type = type]
  <2>5. pack \in Pack /\ pack.type # "Footer"
    BY <2>4 DEF Pack, PackType, WriterType
  <2>6. o = [m1 EXCEPT !.writer.pack.type = type, !.writer.pending = TRUE]
    BY DEF NewBodyPartition, m1
  <2> HIDE DEF type
  <2>7. /\ o.writer = [m1.writer EXCEPT !.pack = pack, !.pending = TRUE]
        /\ o.file = m1.file /\ o.stream = m1.stream
    BY <2>4, <2>6 DEF MachineType, WriterType
  <2> HIDE DEF pack
  <2>8. /\ o.writer \in WriterType /\ o.writer.pending
        /\ o.writer.list = writer.list /\ o.writer.cur = writer.cur
        /\ o.writer.pack = pack /\ o.writer.state = m1.writer.state
    BY <2>2, <2>3, <2>4, <2>5, <2>7 DEF WriterType
  <2>9. o \in MachineType
    BY <2>4, <2>6, <2>7, <2>8 DEF MachineType
  <2> HIDE DEF o, s
  <2>10. /\ Good(n) /\ n.writer.pending /\ n.writer.pack.body = s
         /\ n.writer.list = writer.list /\ n.writer.cur = writer.cur
         /\ n.stream = stream /\ Ahead(Machine, n) /\ n.writer.state = writer.state
    <3>1. /\ o.file = m1.file /\ o.stream = m1.stream /\ o.writer.pending
          /\ o.writer.list = m1.writer.list /\ o.writer.cur = m1.writer.cur
          /\ m1.stream[s] \in StreamType /\ Good(m1)
      BY <2>2, <2>3, <2>7, <2>8, <1>2
    <3>2. LET a == Addressed(o, s) IN
          /\ Good(a) /\ a.writer.pending /\ a.writer.pack.body = s
          /\ a.writer.list = m1.writer.list /\ a.writer.cur = m1.writer.cur
          /\ a.stream = m1.stream /\ a.file = m1.file /\ Ahead(m1, a)
          /\ a.writer.state = o.writer.state
      <4>1. Unfinished(m1) => o.writer.state # "Done" /\ o.writer.pack.type # "Footer"
        BY <2>5, <2>8 DEF Unfinished
      <4> QED BY <4>1, <3>1, <2>9, <1>2, AddressedGood
    <3>3. Ahead(Machine, n)
      BY <3>2, <2>1, <2>2, <1>1, AheadTwice
    <3>4. n.writer.state = writer.state
      BY <3>2, <2>1, <2>2, <2>8, <1>1 DEF Alike
    <3> QED BY <3>2, <3>3, <3>4, <2>1, <2>2, <2>3
  <2> HIDE DEF n
  <2>11. Alike(Machine, n)
    BY <2>10, <1>1 DEF Alike
  <2> QED BY <2>10, <2>11, <1>3 DEF n, s
<1> QED BY <1>4, <1>5, <1>6

\* So does putting index data into the pack.
LEMMA IndexedPackGood ==
    ASSUME NEW m, Good(m), Serving(m, TRUE), NEW s, s = CurStream(m)
    PROVE  LET n == IndexedPack(m, s) IN
           Good(n) /\ Serving(n, TRUE) /\ Ahead(m, n) /\ (Over(m) => Over(n)) /\ Orderly(m, n)
<1> DEFINE r == m.stream[s]
           units == SprinkleUnits(r)
           typed == IF m.writer.header THEN m.writer.pack.type
                    ELSE IF m.writer.generic THEN "Generic" ELSE "Body"
           table == MakeIndex(s, r, units)
           q == IF "Sprinkled" \in r.index THEN Bumped(r, units) ELSE r
           n == IndexedPack(m, s)
<1>1. /\ MachineOK(m) /\ m \in MachineType /\ m.writer \in WriterType
      /\ m.stream \in [Stream -> StreamType \cup {None}]
      /\ m.writer.cur \in 0 .. Len(m.writer.list) /\ m.writer.cur # 0
      /\ m.writer.pack \in Pack
  BY MachineParts DEF Good, Serving, WriterType
<1>2. s \in Stream /\ r \in StreamType
  BY <1>1, CurStreamType
<1>3. ASSUME NEW o \in MachineType, o.file = m.file, o.writer.list = m.writer.list,
             o.writer.cur = m.writer.cur, o.writer.pending = m.writer.pending,
             o.writer.sid = m.writer.sid, o.writer.pack.body = m.writer.pack.body,
             o.writer.pack.offset = m.writer.pack.offset,
             o.writer.state = m.writer.state,
             m.writer.pack.type # "Footer" => o.writer.pack.type # "Footer",
             \A t \in Stream : IF m.stream[t] = None THEN o.stream[t] = None
                               ELSE Kept(m.stream[t], o.stream[t])
      PROVE  Good(o) /\ Serving(o, TRUE) /\ Ahead(m, o)
  <2>1. Good(o) /\ Ahead(m, o)
    BY <1>1, <1>3, Adjusted DEF Good, Template, Open, Unfinished
  <2>2. Serving(o, TRUE)
    BY <1>3 DEF Serving, CurStream
  <2> QED BY <2>1, <2>2
<1>4. CASE ~m.writer.pending
  <2>1. IndexedPack(m, s) = m
    BY <1>4 DEF IndexedPack
  <2> QED BY <2>1, <1>1, SameKin, AlikeOrderly DEF Alike
<1>5. CASE m.writer.pending /\ r.state = "BodyNoIndex"
  <2> DEFINE pack == [m.writer.pack EXCEPT !.index = None]
  <2>1. n = [m EXCEPT !.writer.pack.index = None]
    BY <1>5 DEF IndexedPack
  <2>2. /\ pack \in Pack /\ pack.body = m.writer.pack.body
        /\ pack.offset = m.writer.pack.offset /\ pack.type = m.writer.pack.type
    BY <1>1 DEF Pack
  <2>3. /\ n.writer = [m.writer EXCEPT !.pack = pack]
        /\ n.file = m.file /\ n.stream = m.stream
    BY <2>1, <1>1 DEF MachineType, WriterType
  <2> HIDE DEF pack
  <2>4. /\ n.writer \in WriterType /\ n.writer.list = m.writer.list
        /\ n.writer.cur = m.writer.cur /\ n.writer.pending = m.writer.pending
        /\ n.writer.sid = m.writer.sid /\ n.writer.pack = pack
        /\ n.writer.state = m.writer.state
    BY <2>2, <2>3, <1>1 DEF WriterType
  <2>5. n \in MachineType
    BY <2>1, <2>3, <2>4, <1>1 DEF MachineType
  <2>6. Kin(m, m)
    BY <1>1, SameKin
  <2>7. (Over(m) => Over(n)) /\ Orderly(m, n)
    BY <2>3, <2>4, AlikeOver, AlikeOrderly DEF Alike
  <2> HIDE DEF n
  <2> QED BY <2>2, <2>3, <2>4, <2>5, <2>6, <2>7, <1>3 DEF n, Kin
<1>6. CASE m.writer.pending /\ r.state # "BodyNoIndex"
  <2> DEFINE pack == [m.writer.pack EXCEPT !.type = typed, !.index = s]
  <2>1. n = [m EXCEPT
               !.stream[s] = IF "Sprinkled" \in r.index THEN Bumped(@, units) ELSE @,
               !.writer.pack.type = typed,
               !.writer.pack.index = s,
               !.writer.table = table]
    BY <1>6 DEF IndexedPack
  <2>2. typed \in PackType /\ (m.writer.pack.type # "Footer" => typed # "Footer")
    BY <1>1 DEF PackType, Pack
  <2>3. units \in SUBSET Int /\ Cardinality(units) \in Nat
    BY <1>2, SprinkleUnitsType
  <2>4. table \in TableType
    BY <1>2, <2>3, MakeIndexType
  <2>5. Kept(r, q)
    BY <1>2, <2>3, BumpedKept DEF Kept
  <2>a. Later(r, q)
    BY <1>2, BumpedLater
  <2>b. q.state = r.state
    BY <1>2 DEF Bumped, StreamType
  <2> HIDE DEF typed, table, units
  <2>6. /\ pack \in Pack /\ pack.body = m.writer.pack.body
        /\ pack.offset = m.writer.pack.offset /\ pack.type = typed
    BY <1>1, <1>2, <2>2 DEF Pack
  <2>7. /\ n.writer = [m.writer EXCEPT !.pack = pack, !.table = table]
        /\ n.file = m.file /\ n.stream = [m.stream EXCEPT ![s] = q]
    <3> DEFINE p1 == [m.writer.pack EXCEPT !.type = typed]
               m1 == [m EXCEPT
                       !.stream[s] = IF "Sprinkled" \in r.index THEN Bumped(@, units) ELSE @,
                       !.writer.pack.type = typed]
    <3>1. /\ m1.writer = [m.writer EXCEPT !.pack = p1]
          /\ m1.file = m.file /\ m1.stream = [m.stream EXCEPT ![s] = q]
          /\ m1.writer.pack = p1
      BY <1>1, <1>2 DEF MachineType, WriterType
    <3>2. n = [m1 EXCEPT !.writer.pack.index = s, !.writer.table = table]
      BY <2>1
    <3>3. pack = [p1 EXCEPT !.index = s]
      OBVIOUS
    <3>4. DOMAIN m1 = DOMAIN m
      OBVIOUS
    <3> HIDE DEF m1, p1, pack, q, r, n
    <3>5. /\ n.writer = [m1.writer EXCEPT !.pack = [p1 EXCEPT !.index = s], !.table = table]
          /\ n.stream = m1.stream /\ n.file = m1.file
      BY <3>1, <3>2, <3>4, <1>1 DEF MachineType, WriterType
    <3>6. n.writer = [[m.writer EXCEPT !.pack = p1] EXCEPT !.pack = pack, !.table = table]
      BY <3>1, <3>3, <3>5
    <3> QED BY <3>1, <3>5, <3>6, <1>1, PackTwice
  <2> HIDE DEF pack, q, r
  <2>8. /\ n.writer \in WriterType /\ n.writer.list = m.writer.list
        /\ n.writer.cur = m.writer.cur /\ n.writer.pending = m.writer.pending
        /\ n.writer.sid = m.writer.sid /\ n.writer.pack = pack
        /\ n.writer.state = m.writer.state
    BY <2>4, <2>6, <2>7, <1>1 DEF WriterType
  <2>9. n.stream \in [Stream -> StreamType \cup {None}]
    BY <2>5, <2>7, <1>1, <1>2 DEF Kept
  <2>10. n \in MachineType
    BY <2>1, <2>7, <2>8, <2>9, <1>1 DEF MachineType
  <2>11. \A t \in Stream : IF m.stream[t] = None THEN n.stream[t] = None
                           ELSE Kept(m.stream[t], n.stream[t])
    BY <2>5, <2>7, <1>1, <1>2, NoneAssumption DEF Kept, r
  <2> HIDE DEF n
  <2>12. Over(m) => Over(n)
    <3>1. m.stream[s] # None /\ Later(m.stream[s], q)
      BY <2>a, <1>2, NoneAssumption DEF r
    <3> QED BY <3>1, <2>7, <2>8, <1>1, <1>2, OverChanged
  <2>13. Orderly(m, n)
    <3>1. m.stream[s] # None /\ q.profile = m.stream[s].profile /\ q.state = m.stream[s].state
      BY <2>5, <2>b, <1>2, NoneAssumption DEF r, Kept
    <3>2. /\ n.writer.list = m.writer.list /\ n.writer.cur = m.writer.cur
          /\ n.writer.state = m.writer.state /\ n.stream = [m.stream EXCEPT ![s] = q]
      BY <2>7, <2>8
    <3>3. MachineOK(m) /\ s \in Stream /\ q.profile = m.stream[s].profile
          /\ (q.state = "PostBodyIndex" => m.stream[s].state = "PostBodyIndex")
      BY <3>1, <1>1, <1>2
    <3> QED BY <3>1, <3>2, <3>3, ChangedOrderly
  <2> QED BY <2>2, <2>6, <2>7, <2>8, <2>10, <2>11, <2>12, <2>13, <1>3 DEF n
<1> QED BY <1>4, <1>5, <1>6

(***************************************************************************)
(* The inductive invariant.                                                *)
(***************************************************************************)
CallInv ==
    /\ call.op = "WriteEssence" => Serving(Machine, call.first)
    /\ call.op \in {"WriteHeader", "WriteFooter"} => writer.pack.body = None

\* The inductive invariant.
IInv == Good(Machine) /\ call \in CallType /\ body \in Nat \cup {NoBody} /\ CallInv

(***************************************************************************)
(* What completes it when the streams are not changed after the header and *)
(* WriteBody has no limit: Over, and what the loops of WriteHeader and of  *)
(* WriteFooter have done.                                                  *)
(***************************************************************************)
CallOver ==
    /\ Unlimited => body \in {0, NoBody}
    /\ call.op = "WriteHeader" =>
          /\ writer.state = "Start"
          /\ \A i \in DOMAIN writer.list :
                i < call.pos => stream[writer.list[i]].state \notin Early
    /\ call.op = "WriteFooter" => writer.state = "Footer"

\* See above.
OverInv == ~LateStreams /\ Over(Machine) /\ CallOver

\* No method is in progress.
LEMMA IdleCall == Idle \in CallType /\ Idle.op = "Idle"
BY DEF Idle, CallType

\* A state is the machine that it became.
LEMMA Becoming ==
    ASSUME NEW m, Good(m), Become(m)
    PROVE  Machine' = m
<1>1. m \in MachineType
  BY DEF Good, MachineOK
<1> QED BY <1>1 DEF Become, Machine, MachineType

\* The invariant taken apart.
LEMMA Parts ==
    ASSUME IInv
    PROVE  /\ Good(Machine) /\ MachineOK(Machine) /\ Machine \in MachineType
           /\ Machine.writer = writer /\ Machine.stream = stream /\ Machine.file = file
           /\ writer \in WriterType /\ stream \in [Stream -> StreamType \cup {None}]
           /\ file \in Seq(Partition) /\ writer.list \in Seq(Stream)
           /\ writer.cur \in 0 .. Len(writer.list) /\ writer.pack \in Pack
           /\ Kin(Machine, Machine) /\ Ahead(Machine, Machine)
<1>1. Good(Machine) /\ MachineOK(Machine)
  BY DEF IInv, Good
<1>2. /\ Machine \in MachineType
      /\ writer \in WriterType /\ stream \in [Stream -> StreamType \cup {None}]
      /\ file \in Seq(Partition) /\ writer.list \in Seq(Stream)
      /\ writer.cur \in 0 .. Len(writer.list)
  BY <1>1, MachineParts, MachineFields
<1>3. writer.pack \in Pack
  BY <1>2 DEF WriterType
<1> QED BY <1>1, <1>2, <1>3, MachineFields, SameKin

\* A method that returns keeps the invariant if its machine is good.
LEMMA IdleInv ==
    ASSUME NEW m, Good(m), Become(m), call' = Idle, body' \in Nat \cup {NoBody}
    PROVE  IInv' /\ Machine' = m
<1>1. Machine' = m
  BY Becoming
<1>2. Good(Machine)'
  BY <1>1
<1>3. CallInv'
  BY IdleCall DEF CallInv
<1> QED BY <1>1, <1>2, <1>3, IdleCall DEF IInv

\* So does OverInv.
LEMMA IdleOver ==
    ASSUME OverInv, NEW m, Good(m), Over(m), Become(m), call' = Idle,
           Unlimited => body' \in {0, NoBody}
    PROVE  OverInv'
<1>1. Machine' = m
  BY Becoming
<1>2. Over(Machine)'
  BY <1>1
<1>3. CallOver'
  BY IdleCall DEF CallOver
<1> QED BY <1>2, <1>3 DEF OverInv

\* The writer's State does not matter to the invariant.
LEMMA StateChanged ==
    ASSUME NEW m, Good(m), NEW state \in Phases
    PROVE  LET n == [m EXCEPT !.writer.state = state] IN
           /\ Good(n) /\ n.file = m.file /\ n.stream = m.stream
           /\ n.writer.state = state /\ n.writer.pack = m.writer.pack
           /\ n.writer.list = m.writer.list /\ n.writer.cur = m.writer.cur
           /\ state # "Done" => Ahead(m, n)
<1> DEFINE n == [m EXCEPT !.writer.state = state]
<1>1. /\ MachineOK(m) /\ m \in MachineType /\ m.writer \in WriterType
      /\ m.writer.cur \in 0 .. Len(m.writer.list) /\ Kin(m, m)
  BY MachineParts, SameKin DEF Good
<1>2. /\ n.writer = [m.writer EXCEPT !.state = state]
      /\ n.file = m.file /\ n.stream = m.stream
  BY <1>1 DEF MachineType
<1>3. n.writer \in WriterType
  BY <1>1, <1>2 DEF WriterType, Phases
<1>4. n \in MachineType
  BY <1>1, <1>2, <1>3 DEF MachineType
<1>5. /\ n.writer.list = m.writer.list /\ n.writer.cur = m.writer.cur
      /\ n.writer.pending = m.writer.pending /\ n.writer.sid = m.writer.sid
      /\ n.writer.pack = m.writer.pack /\ n.writer.state = state
  BY <1>1, <1>2 DEF WriterType
<1> HIDE DEF n
<1>6. Good(n)
  BY <1>1, <1>2, <1>4, <1>5, Adjusted DEF Good, Kin, Template, Open
<1>7. state # "Done" => Ahead(m, n)
  BY <1>1, <1>2, <1>5, QuietAhead DEF Unfinished
<1> QED BY <1>2, <1>5, <1>6, <1>7 DEF n

\* The return of WritePartition keeps the invariant.
LEMMA ReturnInv ==
    ASSUME IInv, NEW m, Good(m), NEW ret \in Nat, Return(m, ret)
    PROVE  /\ IInv' /\ Ahead(m, Machine') /\ Quiet(m, Machine')
           /\ (OverInv /\ Over(m) /\ m.writer.state # "Start") => OverInv'
<1> DEFINE enough == body > 0 /\ ret >= body
           state == IF enough THEN "Footer" ELSE m.writer.state
           end == [m EXCEPT !.writer.state = state]
<1>1. m.writer \in WriterType /\ body \in Nat \cup {NoBody} /\ m \in MachineType
  BY MachineParts DEF Good, IInv
<1>2. state \in Phases
  BY <1>1 DEF Phases, WriterType
<1> HIDE DEF state
<1>3. Good(end)
  BY <1>2, StateChanged
<1>4. end = [m EXCEPT !.writer.state = IF enough THEN "Footer" ELSE @]
  BY <1>1 DEF state, MachineType
<1>5. /\ Become(end) /\ call' = Idle
      /\ body' = IF end.writer.state = "Footer" THEN NoBody
                 ELSE IF body > 0 THEN body - ret ELSE body
  BY <1>4 DEF Return
<1>6. end.writer.state = state
  BY <1>1 DEF MachineType, WriterType
<1>7. body' \in Nat \cup {NoBody}
  <2>1. CASE end.writer.state = "Footer"
    BY <2>1, <1>5
  <2>2. CASE end.writer.state # "Footer" /\ body > 0
    <3>1. ~enough
      BY <2>2, <1>6 DEF state
    <3>2. body \in Nat /\ body - ret \in Nat
      BY <3>1, <2>2, <1>1 DEF NoBody
    <3> QED BY <2>2, <3>2, <1>5
  <2>3. CASE end.writer.state # "Footer" /\ ~(body > 0)
    BY <2>3, <1>1, <1>5
  <2> QED BY <2>1, <2>2, <2>3
<1>8. Ahead(m, end) /\ Quiet(m, end)
  <2>1. end.file = m.file /\ end.stream = m.stream /\ end.writer.pack = m.writer.pack
    BY <1>2, StateChanged
  <2>2. state = "Done" => m.writer.state = "Done"
    BY DEF state
  <2> HIDE DEF end
  <2> QED BY <2>1, <2>2, <1>6, QuietAhead DEF Unfinished, Good
<1>9. ASSUME OverInv, Over(m), m.writer.state # "Start" PROVE OverInv'
  <2>1. Unlimited => body \in {0, NoBody} /\ ~(body > 0)
    BY <1>9 DEF OverInv, CallOver, NoBody
  <2>2. Unlimited => state = m.writer.state
    BY <2>1 DEF state
  <2>3. /\ end.stream = m.stream /\ end.writer.list = m.writer.list
        /\ end.writer.cur = m.writer.cur
    BY <1>2, StateChanged
  <2>6. state # "Start"
    BY <1>9 DEF state
  <2> HIDE DEF end
  <2>4. Over(end)
    BY <2>2, <2>3, <2>6, <1>6, <1>9 DEF Over
  <2>5. Unlimited => body' \in {0, NoBody}
    BY <2>1, <1>5
  <2> QED BY <1>3, <1>5, <1>9, <2>4, <2>5, IdleOver
<1> HIDE DEF end
<1> QED BY <1>3, <1>5, <1>7, <1>8, <1>9, IdleInv

\* The constructor establishes the invariant.
LEMMA InitInv == Init => IInv
<1> SUFFICES ASSUME Init PROVE IInv
  OBVIOUS
<1>1. writer \in WriterType /\ ~writer.pending /\ writer.sid = None /\ writer.cur = 0
      /\ writer.list = << >>
  BY DEF Init, WriterType, Pack, PackType
<1>2. /\ \A s \in Stream : stream[s] = None
      /\ stream \in [Stream -> StreamType \cup {None}]
      /\ file = << >> /\ file \in Seq(Partition)
  BY DEF Init
<1>3. Machine \in MachineType
  BY <1>1, <1>2 DEF Machine, MachineType
<1>4. MachineOK(Machine)
  BY <1>1, <1>2, <1>3, MachineFields DEF MachineOK
<1>5. \A s \in Stream : Amounts(stream)[s] = 0
  BY <1>2 DEF Amounts
<1>6. FileOK(file, Amounts(stream))
  BY <1>2, <1>5 DEF FileOK, OwnOK, OrderOK, AllOK, OffsetOK
<1>7. Good(Machine)
  BY <1>1, <1>4, <1>6, MachineFields DEF Good, Template, Open
<1>8. call = Idle /\ body = NoBody
  BY DEF Init
<1> QED BY <1>7, <1>8, IdleCall DEF IInv, CallInv

\* And what completes it.
LEMMA InitOver ==
    ASSUME Init, ~LateStreams
    PROVE  OverInv
<1>1. /\ Machine.writer.state = "Start" /\ Machine.writer.cur = 0
      /\ \A s \in Stream : Machine.stream[s] = None
  BY MachineFields DEF Init
<1>2. Over(Machine)
  BY <1>1 DEF Over
<1>3. CallOver
  BY DEF Init, CallOver, Idle
<1> QED BY <1>2, <1>3 DEF OverInv

(***************************************************************************)
(* One lemma for each action of the caller.                                *)
(***************************************************************************)
LEMMA NewStreamType ==
    ASSUME NEW p \in Profiles
    PROVE  NewStream(p) \in StreamType /\ StreamInv(NewStream(p)) /\ NewStream(p).written = 0
<1>1. p \in ProfileType
  BY ProfilesAssumption
<1>2. p.index \in SUBSET IndexType /\ p.stopAfter \in Nat /\ p.units \in Nat
  BY <1>1 DEF ProfileType
<1> QED BY <1>2 DEF NewStream, StreamType, StreamInv, StateType

\* AddStream keeps the invariant: a new stream has nothing on file.
LEMMA AddStreamInv ==
    ASSUME IInv, NEW s \in Stream, AddStream(s)
    PROVE  IInv' /\ Ahead(Machine, Machine') /\ (OverInv => OverInv')
<1>1. /\ Good(Machine) /\ MachineOK(Machine) /\ writer \in WriterType
      /\ stream \in [Stream -> StreamType \cup {None}] /\ file \in Seq(Partition)
      /\ writer.list \in Seq(Stream) /\ writer.cur \in 0 .. Len(writer.list)
  BY Parts
<1>2. /\ writer' = [writer EXCEPT !.list = Append(@, s)] /\ file' = file
      /\ call' = call /\ body' = body /\ call = Idle
  BY DEF AddStream, Caller
<1>3. PICK q : /\ stream' = [stream EXCEPT ![s] = q]
               /\ q \in StreamType /\ StreamInv(q)
               /\ q.written = Amounts(stream)[s]
               /\ OverInv => StreamEnd(q)
  <2>1. CASE stream[s] = None
    <3>1. PICK p \in Profiles : stream' = [stream EXCEPT ![s] = NewStream(p)]
      BY <2>1 DEF AddStream
    <3> DEFINE q == NewStream(p)
    <3>2. Amounts(stream)[s] = 0
      BY <2>1 DEF Amounts
    <3>3. q \in StreamType /\ StreamInv(q) /\ q.written = 0
      BY NewStreamType
    <3>4. stream' = [stream EXCEPT ![s] = q]
      BY <3>1
    <3>5. StreamEnd(q)
      BY DEF StreamEnd, NewStream, Spent
    <3> HIDE DEF q
    <3> QED BY <3>2, <3>3, <3>4, <3>5
  <2>2. CASE stream[s] # None
    <3> DEFINE r == stream[s]
               q == [r EXCEPT !.active = TRUE, !.stopAfter = r.profile.stopAfter]
    <3>1. stream' = [stream EXCEPT ![s].active = TRUE,
                                   ![s].stopAfter = stream[s].profile.stopAfter]
      BY <2>2 DEF AddStream
    <3>2. r \in StreamType /\ StreamInv(r)
      BY <1>1, <2>2, MachineFields DEF MachineOK
    <3>3. r.profile.stopAfter \in Nat
      BY <3>2, ProfileParts
    <3>4. /\ q \in StreamType /\ q.read = r.read /\ q.written = r.written
          /\ q.pending = r.pending /\ q.profile = r.profile
          /\ q.eos = r.eos /\ q.state = r.state /\ q.active = TRUE
      BY <3>2, <3>3 DEF StreamType
    <3>5. StreamInv(q)
      BY <3>2, <3>4 DEF StreamInv
    <3>6. stream' = [stream EXCEPT ![s] = q]
      BY <1>1, <3>1
    <3>7. q.written = Amounts(stream)[s]
      BY <3>4, <2>2 DEF Amounts
    <3>8. OverInv => StreamEnd(r)
      BY <2>2, Parts DEF OverInv, Over
    <3>9. OverInv => StreamEnd(q)
      BY <3>4, <3>8 DEF StreamEnd
    <3> HIDE DEF q
    <3> QED BY <3>4, <3>5, <3>6, <3>7, <3>9
  <2> QED BY <2>1, <2>2
<1>4. /\ writer'.list = Append(writer.list, s) /\ writer'.cur = writer.cur
      /\ writer'.pending = writer.pending /\ writer'.sid = writer.sid
      /\ writer'.pack = writer.pack /\ writer' \in WriterType
  <2> DEFINE list == Append(writer.list, s)
  <2>1. list \in Seq(Stream) /\ writer' = [writer EXCEPT !.list = list]
    BY <1>1, <1>2 DEF WriterType
  <2> HIDE DEF list
  <2>2. writer' \in WriterType /\ writer'.list = list
    BY <1>1, <2>1 DEF WriterType
  <2> QED BY <1>1, <2>1, <2>2 DEF WriterType, list
<1>5. stream' \in [Stream -> StreamType \cup {None}]
  BY <1>1, <1>3
<1>6. Amounts(stream') = Amounts(stream)
  <2>1. \A t \in Stream : Amounts(stream')[t] = Amounts(stream)[t]
    BY <1>1, <1>3, NoneAssumption DEF Amounts
  <2> QED BY <2>1 DEF Amounts
<1>7. MachineOK(Machine')
  <2>1. /\ Machine'.writer = writer' /\ Machine'.stream = stream' /\ Machine'.file = file'
        /\ Machine' \in MachineType
    BY <1>1, <1>2, <1>4, <1>5 DEF Machine, MachineType
  <2>2. /\ writer'.cur \in 0 .. Len(writer'.list)
    BY <1>1, <1>4
  <2>3. \A i \in DOMAIN writer'.list : stream'[writer'.list[i]] # None
    <3> TAKE i \in DOMAIN writer'.list
    <3>1. CASE i \in DOMAIN writer.list
      <4>1. writer'.list[i] = writer.list[i] /\ writer.list[i] \in Stream
        BY <3>1, <1>1, <1>4
      <4>2. stream[writer.list[i]] # None
        BY <3>1, <1>1, MachineFields DEF MachineOK
      <4> QED BY <4>1, <4>2, <1>1, <1>3, NoneAssumption
    <3>2. CASE i \notin DOMAIN writer.list
      <4>1. writer'.list[i] = s
        BY <3>2, <1>1, <1>4
      <4> QED BY <4>1, <1>1, <1>3, NoneAssumption
    <3> QED BY <3>1, <3>2
  <2>4. \A t \in Stream : stream'[t] # None => StreamInv(stream'[t])
    BY <1>1, <1>3, MachineFields DEF MachineOK
  <2> QED BY <2>1, <2>2, <2>3, <2>4 DEF MachineOK
<1>8. /\ Machine'.writer = writer' /\ Machine'.stream = stream' /\ Machine'.file = file'
  BY DEF Machine
<1>9. Good(Machine')
  BY <1>1, <1>2, <1>4, <1>6, <1>7, <1>8, MachineFields DEF Good, Template, Open
<1>10. Good(Machine)'
  BY <1>9
<1>11. Ahead(Machine, Machine')
  <2>1. writer'.state = writer.state /\ writer'.pack = writer.pack
    BY <1>1, <1>2 DEF WriterType
  <2> DEFINE n == Machine'
  <2>2. n.file = Machine.file /\ n.writer = writer' /\ Amounts(n.stream) = Amounts(Machine.stream)
    BY <1>2, <1>6, <1>8, MachineFields
  <2>3. Unfinished(Machine) => n.writer.state # "Done" /\ n.writer.pack.type # "Footer"
    BY <2>1, <2>2, MachineFields DEF Unfinished
  <2> HIDE DEF n
  <2>4. Ahead(Machine, n)
    BY <2>2, <2>3, <1>1, QuietAhead
  <2> QED BY <2>4 DEF n
<1>12. ASSUME OverInv PROVE OverInv'
  <2>1. writer'.state = "Start" /\ writer'.cur = 0
    <3>1. writer.state = "Start" /\ writer.cur = 0
      BY <1>12, Parts DEF AddStream, OverInv, Over
    <3> QED BY <3>1, <1>1, <1>2, <1>4 DEF WriterType
  <2>2. \A t \in Stream : stream'[t] # None => StreamEnd(stream'[t])
    BY <1>1, <1>3, <1>12, Parts DEF OverInv, Over
  <2>3. Over(Machine')
    BY <2>1, <2>2, <1>8 DEF Over
  <2>4. Over(Machine)'
    BY <2>3
  <2>5. CallOver'
    BY <1>2, <1>12, IdleCall DEF OverInv, CallOver
  <2> QED BY <2>4, <2>5, <1>12 DEF OverInv
<1> QED BY <1>2, <1>10, <1>11, <1>12, IdleCall DEF IInv, CallInv

\* ClearStreams keeps the invariant: what is on file stays counted.
LEMMA ClearStreamsInv ==
    ASSUME IInv, ClearStreams
    PROVE  IInv' /\ Ahead(Machine, Machine') /\ (OverInv => OverInv')
<1>1. /\ Good(Machine) /\ MachineOK(Machine) /\ Machine \in MachineType
      /\ writer \in WriterType /\ stream \in [Stream -> StreamType \cup {None}]
      /\ file \in Seq(Partition)
  BY Parts
<1>2. /\ writer' = [writer EXCEPT !.list = << >>, !.cur = 0] /\ file' = file
      /\ stream' = stream /\ call' = call /\ body' = body /\ call = Idle
  BY DEF ClearStreams, Caller
<1>3. /\ writer'.list = << >> /\ writer'.cur = 0
      /\ writer'.pending = writer.pending /\ writer'.sid = writer.sid
      /\ writer'.pack = writer.pack /\ writer'.state = writer.state
      /\ writer' \in WriterType
  <2> DEFINE list == << >>
  <2>1. list \in Seq(Stream) /\ writer' = [writer EXCEPT !.list = list, !.cur = 0]
    BY <1>2
  <2> HIDE DEF list
  <2>2. writer' \in WriterType /\ writer'.list = list
    BY <1>1, <2>1 DEF WriterType
  <2> QED BY <1>1, <2>1, <2>2 DEF WriterType, list
<1>4. /\ Machine'.writer = writer' /\ Machine'.stream = stream /\ Machine'.file = file
      /\ Machine' \in MachineType
  BY <1>1, <1>2, <1>3 DEF Machine, MachineType
<1>5. MachineOK(Machine')
  BY <1>1, <1>3, <1>4, MachineFields DEF MachineOK
<1>6. Good(Machine')
  BY <1>1, <1>3, <1>4, <1>5, MachineFields DEF Good, Template, Open
<1>7. Good(Machine)'
  BY <1>6
<1>8. Ahead(Machine, Machine')
  BY <1>1, <1>3, <1>4, MachineFields, QuietAhead DEF Unfinished
<1>9. OverInv => OverInv'
  BY DEF ClearStreams, OverInv
<1> QED BY <1>2, <1>7, <1>8, <1>9, IdleCall DEF IInv, CallInv

\* The call of WriteBody keeps the invariant.
LEMMA WriteBodyInv ==
    ASSUME IInv, WriteBody
    PROVE  IInv' /\ Ahead(Machine, Machine') /\ (OverInv => OverInv')
<1>1. /\ writer' = writer /\ stream' = stream /\ file' = file /\ call' = call
      /\ body' \in Nat /\ call = Idle
  BY WriterAssumption DEF WriteBody, Caller
<1>2. Machine' = Machine
  BY <1>1 DEF Machine
<1>3. Good(Machine)'
  BY <1>2 DEF IInv
<1>4. ASSUME OverInv PROVE OverInv'
  <2>1. Over(Machine)'
    BY <1>2, <1>4 DEF OverInv
  <2>2. Unlimited => body' \in {0, NoBody}
    BY DEF WriteBody, Unlimited
  <2>3. CallOver'
    BY <1>1, <2>2, IdleCall DEF CallOver
  <2> QED BY <2>1, <2>3, <1>4 DEF OverInv
<1> QED BY <1>1, <1>2, <1>3, <1>4, Parts, IdleCall DEF IInv, CallInv

\* EndPartition called by the user keeps the invariant.
LEMMA CallEndPartitionInv ==
    ASSUME IInv, CallEndPartition
    PROVE  IInv' /\ Ahead(Machine, Machine') /\ (OverInv => OverInv')
<1>1. Good(EndPartition(Machine)) /\ Ahead(Machine, EndPartition(Machine))
  BY Parts, EndPartitionGood
<1>2. /\ Become(EndPartition(Machine)) /\ call' = Idle /\ body' \in Nat \cup {NoBody}
  BY DEF CallEndPartition, Caller, IInv
<1>3. ASSUME OverInv PROVE OverInv'
  <2>1. Over(EndPartition(Machine))
    BY <1>3, Parts, EndPartitionOver DEF OverInv, Aged
  <2>2. Unlimited => body' \in {0, NoBody}
    BY <1>3 DEF CallEndPartition, OverInv, CallOver
  <2> QED BY <2>1, <2>2, <1>1, <1>2, <1>3, IdleOver
<1> QED BY <1>1, <1>2, <1>3, IdleInv

\* WritePartition without a current stream keeps the invariant.
LEMMA NoCurrentStreamInv ==
    ASSUME IInv, NoCurrentStream
    PROVE  IInv' /\ Ahead(Machine, Machine') /\ (OverInv => OverInv')
<1>1. /\ Good(Machine) /\ Return(Machine, 0) /\ (OverInv => Over(Machine))
      /\ Machine.writer.state # "Start"
  BY Parts DEF NoCurrentStream, OverInv
<1> QED BY <1>1, Parts, ReturnInv

\* The current stream under the invariant.
LEMMA CurrentStream ==
    ASSUME IInv, writer.cur # 0
    PROVE  /\ CurStream(Machine) \in Stream
           /\ stream[CurStream(Machine)] \in StreamType
           /\ StreamInv(stream[CurStream(Machine)])
<1>1. CurStream(Machine) \in Stream /\ stream[CurStream(Machine)] \in StreamType
  BY Parts, CurStreamType
<1> QED BY <1>1, Parts, NoneAssumption DEF MachineOK

\* The common part of the two kinds of isolated table.
LEMMA IsolatedStep ==
    ASSUME IInv, writer.cur # 0, NEW bump
    PROVE  LET s == CurStream(Machine)
               m == Ended(Machine)
               n == Advanced(IsolatedIndex(m, s, bump), s)
           IN /\ Good(m) /\ Ahead(Machine, m)
              /\ Good(n) /\ Ahead(Machine, n)
              /\ Over(Machine) => /\ Over(m) /\ m.writer.state # "Start"
                                  /\ Over(n) /\ n.writer.state # "Start"
              /\ stream[s].state \notin BodyStates =>
                    /\ Alike(Machine, m)
                    /\ Orderly(Machine, n) /\ n.stream[s].state # "PostBodyIndex"
<1> DEFINE s == CurStream(Machine)
           m == Ended(Machine)
<1>1. Good(m) /\ Kin(Machine, m) /\ Ahead(Machine, m)
  BY Parts, EndedGood
<1>2. s \in Stream /\ stream[s] \in StreamType
  BY CurrentStream
<1>3. m.stream[s] \in StreamType
  BY <1>1, <1>2, MachineFields, NoneAssumption DEF Kin, Kept
<1> HIDE DEF m, s
<1>4. LET o == IsolatedIndex(m, s, bump) IN
        /\ Good(o) /\ Ahead(m, o) /\ o.stream[s] \in StreamType
        /\ Over(m) => Aged(m, o)
        /\ (m.writer.cur = 0 \/ m.stream[CurStream(m)].state \notin BodyStates) =>
              Orderly(m, o) /\ o.stream[s].state = m.stream[s].state
  BY <1>1, <1>2, <1>3, IsolatedIndexGood
<1> DEFINE o == IsolatedIndex(m, s, bump)
<1> HIDE DEF o
<1>6. /\ Good(o) /\ Ahead(m, o) /\ o.stream[s] \in StreamType
      /\ Over(m) => Aged(m, o)
      /\ (m.writer.cur = 0 \/ m.stream[CurStream(m)].state \notin BodyStates) =>
            Orderly(m, o) /\ o.stream[s].state = m.stream[s].state
  BY <1>4 DEF o
<1>7. Good(Advanced(o, s)) /\ Ahead(o, Advanced(o, s))
  BY <1>2, <1>6, AdvancedGood
<1>8. Ahead(Machine, Advanced(o, s))
  BY <1>1, <1>6, <1>7, Parts, AheadTwice DEF Good
<1>5. Good(Advanced(o, s)) /\ Ahead(Machine, Advanced(o, s))
  BY <1>7, <1>8
<1>9. ASSUME Over(Machine)
      PROVE  /\ Over(m) /\ m.writer.state # "Start"
             /\ Over(Advanced(o, s)) /\ Advanced(o, s).writer.state # "Start"
  <2>1. Machine.writer.state # "Start"
    BY <1>9, MachineFields DEF Over
  <2>2. Aged(Machine, m)
    BY <1>9, Parts, EndedOver DEF m
  <2>3. Aged(m, o) /\ MachineOK(o)
    BY <1>6, <2>2 DEF Aged, Good
  <2>4. LET n == Advanced(o, s) IN Over(n) /\ n.writer = o.writer
    BY <1>2, <1>6, <2>3, AdvancedOver DEF Aged
  <2> QED BY <2>1, <2>2, <2>3, <2>4 DEF Aged
<1>10. ASSUME stream[s].state \notin BodyStates
       PROVE  /\ Alike(Machine, m)
              /\ LET n == Advanced(o, s) IN
                 Orderly(Machine, n) /\ n.stream[s].state # "PostBodyIndex"
  <2>1. Alike(Machine, m)
    BY <1>10, Parts, EndPartitionAlike DEF m, s
  <2>2. /\ m.stream = stream /\ m.writer.list = writer.list /\ m.writer.cur = writer.cur
        /\ CurStream(m) = s
    BY <2>1, MachineFields DEF Alike, CurStream, s
  <2>3. Orderly(m, o) /\ o.stream[s].state = stream[s].state
    BY <2>2, <1>6, <1>10
  <2>4. Orderly(Machine, o)
    BY <2>1, <2>3, AlikeOrderly, OrderlyTwice
  <2>5. LET n == Advanced(o, s) IN Orderly(o, n) /\ n.stream[s].state # "PostBodyIndex"
    BY <2>3, <1>2, <1>6, <1>10, AdvancedOrderly DEF Good
  <2> QED BY <2>1, <2>4, <2>5, OrderlyTwice
<1> QED BY <1>1, <1>5, <1>9, <1>10 DEF m, s, o

\* A table before the body keeps the invariant.
LEMMA PreBodyIndexInv ==
    ASSUME IInv, PreBodyIndex
    PROVE  IInv' /\ Ahead(Machine, Machine') /\ (OverInv => OverInv')
<1> DEFINE s == CurStream(Machine)
           m == Ended(Machine)
           n == Advanced(IsolatedIndex(m, s, TRUE), s)
<1>1. Return(IF HasManager(stream[s]) THEN n ELSE m, 0) /\ writer.cur # 0
  BY DEF PreBodyIndex, WritePartition
<1>2. /\ Good(m) /\ Good(n) /\ Ahead(Machine, m) /\ Ahead(Machine, n)
      /\ Over(Machine) => /\ Over(m) /\ m.writer.state # "Start"
                          /\ Over(n) /\ n.writer.state # "Start"
  BY <1>1, IsolatedStep
<1> HIDE DEF m, n
<1> DEFINE o == IF HasManager(stream[s]) THEN n ELSE m
<1>3. /\ Good(o) /\ Ahead(Machine, o) /\ Return(o, 0)
      /\ Over(Machine) => Over(o) /\ o.writer.state # "Start"
  BY <1>1, <1>2
<1> HIDE DEF o
<1>4. IInv' /\ Ahead(o, Machine') /\ (OverInv => OverInv')
  BY <1>3, ReturnInv DEF OverInv
<1> QED BY <1>3, <1>4, Parts, AheadTwice

\* A table after the body keeps the invariant.
LEMMA PostBodyIndexInv ==
    ASSUME IInv, PostBodyIndex
    PROVE  IInv' /\ Ahead(Machine, Machine') /\ (OverInv => OverInv')
<1> DEFINE s == CurStream(Machine)
           m == Ended(Machine)
           bump == "Sprinkled" \notin stream[s].index
           n == Advanced(IsolatedIndex(m, s, bump), s)
<1>1. /\ Return(IF HasManager(stream[s]) THEN SetNextStream(n) ELSE m, 0)
      /\ writer.cur # 0
  BY DEF PostBodyIndex, WritePartition
<1> HIDE DEF bump
<1>2. /\ Good(m) /\ Good(n) /\ Ahead(Machine, m) /\ Ahead(Machine, n)
      /\ Over(Machine) => /\ Over(m) /\ m.writer.state # "Start"
                          /\ Over(n) /\ n.writer.state # "Start"
  BY <1>1, IsolatedStep
<1> HIDE DEF m, n
<1> DEFINE o == IF HasManager(stream[s]) THEN SetNextStream(n) ELSE m
<1>3. /\ Good(SetNextStream(n)) /\ Ahead(n, SetNextStream(n))
      /\ Over(Machine) => /\ Over(SetNextStream(n))
                          /\ SetNextStream(n).writer.state # "Start"
  <2>1. Good(SetNextStream(n)) /\ Ahead(n, SetNextStream(n)) /\ MachineOK(n)
    BY <1>2, SetNextStreamGood DEF Good
  <2> QED BY <1>2, <2>1, SetNextStreamOver
<1>4. /\ Good(o) /\ Ahead(Machine, o) /\ Return(o, 0)
      /\ Over(Machine) => Over(o) /\ o.writer.state # "Start"
  BY <1>1, <1>2, <1>3, Parts, AheadTwice
<1> HIDE DEF o
<1>5. IInv' /\ Ahead(o, Machine') /\ (OverInv => OverInv')
  BY <1>4, ReturnInv DEF OverInv
<1> QED BY <1>4, <1>5, Parts, AheadTwice

\* A turn of WriteHeader or of WriteFooter keeps the invariant if its machine
\* is good and its template names no essence.
LEMMA BusyInv ==
    ASSUME IInv, NEW m, Good(m), Become(m), call' \in CallType, body' = body,
           call'.op \in {"WriteHeader", "WriteFooter"}, m.writer.pack.body = None
    PROVE  IInv' /\ Machine' = m
<1>1. Machine' = m
  BY Becoming
<1>2. Good(Machine)' /\ writer'.pack.body = None
  BY <1>1 DEF Become
<1>3. CallInv'
  BY <1>2 DEF CallInv
<1> QED BY <1>1, <1>2, <1>3 DEF IInv

\* The call of WriteHeader keeps the invariant.
LEMMA WriteHeaderInv ==
    ASSUME IInv, WriteHeader
    PROVE  IInv' /\ Ahead(Machine, Machine') /\ (OverInv => OverInv')
<1> DEFINE pack == [writer.pack EXCEPT !.type = "Header", !.body = None, !.offset = 0]
           pending == writer.pending \/ ~IndexShares
           v == [writer EXCEPT !.pack = pack, !.sid = None, !.header = TRUE,
                               !.generic = FALSE, !.pending = pending]
           n == [Machine EXCEPT !.writer = v]
<1>1. writer' = v
  <2>1. writer' = [writer EXCEPT
          !.pack.type = "Header", !.pack.body = None, !.pack.offset = 0,
          !.sid = None, !.header = TRUE, !.generic = FALSE,
          !.pending = @ \/ ~IndexShares]
    BY DEF WriteHeader
  <2> QED BY <2>1, Parts DEF WriterType, Pack
<1>2. pack \in Pack /\ pack.body = None /\ pack.type # "Footer"
  BY Parts DEF Pack, PackType
<1>3. pending \in BOOLEAN
  OBVIOUS
<1> HIDE DEF pack, pending
<1>4. /\ v \in WriterType /\ v.list = writer.list /\ v.cur = writer.cur
      /\ v.sid = None /\ v.pack = pack /\ v.state = writer.state
  BY <1>2, <1>3, Parts DEF WriterType
<1> HIDE DEF v
<1>5. /\ n \in MachineType /\ n.writer = v /\ n.stream = stream /\ n.file = file
  BY <1>4, Parts DEF MachineType
<1> HIDE DEF n
<1>6. Good(n) /\ Ahead(Machine, n)
  BY <1>2, <1>4, <1>5, Parts, Adjusted DEF Kin, Unfinished
<1>7. Become(n) /\ body' = body
  BY <1>1, <1>5 DEF WriteHeader, Become
<1>8. call' \in CallType /\ call'.op = "WriteHeader"
  <2>1. (~IndexShares) \in BOOLEAN
    OBVIOUS
  <2> QED BY <2>1 DEF WriteHeader, CallType
<1>9. IInv' /\ Machine' = n
  BY <1>2, <1>4, <1>5, <1>6, <1>7, <1>8, BusyInv
<1>10. ASSUME OverInv PROVE OverInv'
  <2>1. Over(n)
    BY <1>4, <1>5, <1>10, Parts, AlikeOver DEF Alike, OverInv
  <2>2. Over(Machine)'
    BY <1>9, <2>1
  <2>3. writer'.state = "Start" /\ call'.pos = 1 /\ writer'.list \in Seq(Stream)
    BY <1>1, <1>4, Parts DEF WriteHeader
  <2>4. CallOver'
    BY <1>7, <1>8, <1>10, <2>3 DEF OverInv, CallOver
  <2> QED BY <1>10, <2>2, <2>4 DEF OverInv
<1> QED BY <1>6, <1>9, <1>10

\* The locals of WriteHeader.
LEMMA HeaderCall ==
    ASSUME IInv, call.op = "WriteHeader"
    PROVE  /\ call \in [op: {"WriteHeader"}, pos: Nat \ {0}, written: BOOLEAN]
           /\ writer.pack.body = None
BY DEF IInv, CallInv, CallType, Idle

\* A turn of WriteHeader keeps the invariant.
LEMMA HeaderIndexInv ==
    ASSUME IInv, HeaderIndex
    PROVE  /\ IInv' /\ Ahead(Machine, Machine') /\ (OverInv => OverInv')
           /\ writer.cur = 0 => Orderly(Machine, Machine')
<1> DEFINE s == writer.list[call.pos]
           r == Settled(stream[s])
           m == [Machine EXCEPT !.stream[s] = r]
           built == r.state = "HeadIndex" /\ HasManager(r) /\ r.profile.cbr
           m1 == Ended(m)
           type == IF call.written THEN "Body" ELSE m1.writer.pack.type
           table == MakeIndex(s, r, {})
           done == "CBRHeaderIsolated" \in r.index
           m2 == [m1 EXCEPT
                    !.writer.sid = s,
                    !.writer.pack.type = IF call.written THEN "Body" ELSE @,
                    !.writer.pack.index = s,
                    !.writer.table = table,
                    !.writer.pending = TRUE,
                    !.writer.done = done]
           m3 == IF built THEN m2 ELSE m
           n == IF r.state = "HeadIndex" THEN Advanced(m3, s) ELSE m3
<1>1. /\ call \in [op: {"WriteHeader"}, pos: Nat \ {0}, written: BOOLEAN]
      /\ writer.pack.body = None /\ call.pos \in DOMAIN writer.list
  <2>1. call.op = "WriteHeader" /\ call.pos <= Len(writer.list)
    BY DEF HeaderIndex
  <2>2. /\ call \in [op: {"WriteHeader"}, pos: Nat \ {0}, written: BOOLEAN]
        /\ writer.pack.body = None
    BY <2>1, HeaderCall
  <2>3. writer.list \in Seq(Stream) /\ call.pos \in Nat \ {0}
    BY <2>2, Parts
  <2> QED BY <2>1, <2>2, <2>3
<1>2. s \in Stream /\ stream[s] \in StreamType /\ stream[s] # None
  BY <1>1, Parts DEF MachineOK
<1>3. Become(n) /\ call' = [call EXCEPT !.pos = @ + 1, !.written = @ \/ built] /\ body' = body
  BY DEF HeaderIndex
<1>4. call' \in CallType /\ call'.op = "WriteHeader"
  <2> DEFINE either == call.written \/ built
  <2>1. either \in BOOLEAN
    OBVIOUS
  <2>a. call' = [call EXCEPT !.pos = @ + 1, !.written = either]
    BY <1>1, <1>3
  <2> DEFINE next == call.pos + 1
  <2>b. next \in Nat \ {0} /\ call' = [call EXCEPT !.pos = next, !.written = either]
    BY <2>a, <1>1
  <2> HIDE DEF built, either, next
  <2>2. call' \in [op: {"WriteHeader"}, pos: Nat \ {0}, written: BOOLEAN]
    BY <2>1, <2>b, <1>1
  <2> QED BY <2>2 DEF CallType
<1> HIDE DEF s
<1>5. Kept(stream[s], r)
  BY <1>2, SettledKept
<1>6. /\ m \in MachineType /\ m.writer = writer /\ m.file = file
      /\ m.stream = [stream EXCEPT ![s] = r]
  <2> HIDE DEF r
  <2>1. [stream EXCEPT ![s] = r] \in [Stream -> StreamType \cup {None}]
    BY <1>5, Parts DEF Kept
  <2> QED BY <2>1, Parts DEF MachineType
<1>7. \A t \in Stream : IF stream[t] = None THEN m.stream[t] = None
                        ELSE Kept(stream[t], m.stream[t])
  BY <1>2, <1>5, <1>6, Parts DEF Kin
<1>8. r \in StreamType
  BY <1>5 DEF Kept
<1>f. stream[s].state # "PostBodyIndex" => r.state # "PostBodyIndex"
  BY <1>2, SettledPlain
<1>a. r.state # "Start" /\ Later(stream[s], r) /\ r # None
  BY <1>2, <1>8, SettledLater, NoneAssumption
<1> HIDE DEF r, m
<1>9. Good(m) /\ m.stream[s] = r /\ Ahead(Machine, m)
  <2>1. m.stream[s] = r
    BY <1>2, <1>6, Parts
  <2>2. /\ Machine.writer = writer /\ Machine.stream = stream /\ Machine.file = file
        /\ Good(Machine) /\ writer.cur \in 0 .. Len(writer.list)
    BY Parts
  <2>3. (~writer.pending /\ writer.sid # None) => file # << >> /\ file[Len(file)].body = writer.sid
    BY <2>2 DEF Good, Open
  <2>4. Good(m)
    BY <2>1, <2>2, <2>3, <1>1, <1>6, <1>7, Adjusted
  <2>5. Amounts(m.stream) = Amounts(stream)
    BY <2>2, <1>7, Parts, KeptAmounts
  <2>6. Ahead(Machine, m)
    BY <2>2, <2>5, <1>6, Parts, QuietAhead DEF Unfinished
  <2> QED BY <2>1, <2>4, <2>6
<1>10. Good(m1) /\ Kin(m, m1) /\ Ahead(Machine, m1)
  BY <1>9, Parts, EndedGood, AheadTwice
<1>11. m1.stream[s] \in StreamType /\ m1.writer.pack.body = None
  BY <1>1, <1>2, <1>6, <1>8, <1>9, <1>10, NoneAssumption DEF Kin, Kept
<1> HIDE DEF m1
<1>12. /\ Good(m2) /\ Ahead(m1, m2) /\ m2.stream[s] \in StreamType
       /\ m2.writer.pack.body = None /\ Alike(m1, m2)
  <2> DEFINE pack == [m1.writer.pack EXCEPT !.type = type, !.index = s]
             v == [m1.writer EXCEPT !.sid = s, !.pack = pack, !.table = table,
                                    !.pending = TRUE, !.done = done]
  <2>1. /\ m1 \in MachineType /\ m1.writer \in WriterType /\ m1.writer.pack \in Pack
        /\ m1.writer.cur \in 0 .. Len(m1.writer.list) /\ Kin(m1, m1)
    BY <1>10, MachineParts, SameKin DEF Good, WriterType
  <2>2. table \in TableType
    BY <1>2, <1>8, MakeIndexType
  <2>3. done \in BOOLEAN
    OBVIOUS
  <2>4. type \in PackType /\ (m1.writer.pack.type # "Footer" => type # "Footer")
    BY <2>1 DEF Pack, PackType
  <2>5. m2.writer = v /\ m2.stream = m1.stream /\ m2.file = m1.file
    <3>1. m2 = [m1 EXCEPT !.writer.sid = s, !.writer.pack.type = type,
                          !.writer.pack.index = s, !.writer.table = table,
                          !.writer.pending = TRUE, !.writer.done = done]
      OBVIOUS
    <3> HIDE DEF m2, type, table, done
    <3>2. m2.stream = m1.stream /\ m2.file = m1.file
      BY <2>1, <3>1 DEF MachineType
    <3>3. m2.writer = [m1.writer EXCEPT !.sid = s, !.pack.type = type, !.pack.index = s,
                                        !.table = table, !.pending = TRUE, !.done = done]
      BY <2>1, <3>1 DEF MachineType
    <3>4. m2.writer = v
      <4> DEFINE w == m1.writer
      <4>1. w \in WriterType /\ m2.writer = [w EXCEPT !.sid = s, !.pack.type = type,
                   !.pack.index = s, !.table = table, !.pending = TRUE, !.done = done]
        BY <2>1, <3>3
      <4> HIDE DEF w
      <4>2. m2.writer = [w EXCEPT !.sid = s, !.pack = [w.pack EXCEPT !.type = type, !.index = s],
                                  !.table = table, !.pending = TRUE, !.done = done]
        BY <4>1 DEF WriterType
      <4> QED BY <4>2 DEF w
    <3> QED BY <3>2, <3>4
  <2>6. pack \in Pack /\ pack.body = None /\ pack.type = type
    BY <2>1, <2>4, <1>2, <1>11 DEF Pack
  <2> HIDE DEF pack, table, done
  <2>7. /\ v \in WriterType /\ v.list = m1.writer.list /\ v.cur = m1.writer.cur
        /\ v.pending /\ v.pack = pack /\ v.state = m1.writer.state
    BY <2>1, <2>2, <2>3, <2>6, <1>2 DEF WriterType
  <2> HIDE DEF v
  <2>8. m2 \in MachineType
    BY <2>1, <2>5, <2>7 DEF MachineType
  <2> HIDE DEF m2
  <2>9. Good(m2)
    BY <1>10, <2>1, <2>5, <2>6, <2>7, <2>8, Adjusted DEF Kin
  <2>10. Ahead(m1, m2)
    BY <2>4, <2>5, <2>6, <2>7, <1>10, QuietAhead DEF Good, Unfinished
  <2>11. Alike(m1, m2)
    BY <2>5, <2>7 DEF Alike
  <2> QED BY <2>5, <2>6, <2>7, <2>9, <2>10, <2>11, <1>11
<1> HIDE DEF m2
<1>13. Good(m3) /\ Ahead(Machine, m3) /\ m3.stream[s] \in StreamType /\ m3.writer.pack.body = None
  <2>1. Ahead(Machine, m2)
    BY <1>10, <1>12, Parts, AheadTwice
  <2> QED BY <2>1, <1>1, <1>6, <1>8, <1>9, <1>12
<1>b. ASSUME OverInv
      PROVE  /\ Aged(Machine, m) /\ Aged(m, m3) /\ Aged(Machine, m3)
             /\ writer.state = "Start"
  <2>1. /\ MachineOK(Machine) /\ Over(Machine) /\ writer.state = "Start"
        /\ Machine.writer = writer /\ Machine.stream = stream
    BY <1>1, <1>b, Parts DEF OverInv, CallOver
  <2>2. Aged(Machine, m)
    <3>1. /\ m.writer.list = Machine.writer.list /\ m.writer.state = Machine.writer.state
          /\ m.writer.cur = Machine.writer.cur
          /\ Machine.stream[s] # None /\ m.stream = [Machine.stream EXCEPT ![s] = r]
          /\ Later(Machine.stream[s], r) /\ s \in Stream
      BY <2>1, <1>2, <1>6, <1>a
    <3> QED BY <2>1, <3>1, <1>a, ChangedAged
  <2>3. Aged(m, m1)
    BY <2>2, <1>9, EndedOver DEF Aged, m1
  <2>4. Aged(m1, m2)
    BY <2>3, <1>12, AlikeAged DEF Aged
  <2>5. Aged(m, m)
    BY <2>2, AlikeAged DEF Aged, Alike
  <2>6. Aged(m, m3)
    BY <2>3, <2>4, <2>5, AgedTwice
  <2> QED BY <2>1, <2>2, <2>6, AgedTwice
<1> HIDE DEF m3
<1>14. Good(n) /\ n.writer.pack.body = None /\ Ahead(Machine, n)
  <2>1. LET o == Advanced(m3, s) IN Good(o) /\ o.writer.pack.body = None /\ Ahead(m3, o)
    BY <1>2, <1>13, AdvancedGood DEF Scheduled
  <2> QED BY <2>1, <1>13, Parts, AheadTwice
<1>c. ASSUME OverInv
      PROVE  Aged(Machine, n) /\ n.stream[s].state \notin Early
  <2>1. m.writer.state = "Start" /\ m3.writer.state = "Start"
    BY <1>b, <1>c, <1>6, MachineFields DEF Aged
  <2>2. Later(r, m3.stream[s]) /\ Over(m3) /\ MachineOK(m3)
    BY <2>1, <1>b, <1>c, <1>2, <1>9, <1>13, <1>a DEF Aged, Good
  <2>3. CASE r.state = "HeadIndex"
    <3>1. LET o == Advanced(m3, s) IN
          /\ Aged(m3, o)
          /\ m3.stream[s].state # "Start" => o.stream[s].state \notin Early
      BY <2>2, <1>2, <1>13, AdvancedAged
    <3>2. n = Advanced(m3, s) /\ m3.stream[s].state # "Start"
      BY <2>2, <2>3, <1>a DEF Later
    <3> QED BY <3>1, <3>2, <1>b, <1>c, AgedTwice
  <2>4. CASE r.state # "HeadIndex"
    BY <2>2, <2>4, <1>a, <1>b, <1>c DEF Later, Early
  <2> QED BY <2>3, <2>4
<1>g. ASSUME writer.cur = 0 PROVE Orderly(Machine, n)
  <2>1. Orderly(Machine, m)
    <3>1. /\ MachineOK(Machine) /\ Machine.stream = stream /\ Machine.writer = writer
          /\ r.profile = stream[s].profile
          /\ (r.state = "PostBodyIndex" => stream[s].state = "PostBodyIndex")
      BY <1>5, <1>f, Parts DEF Kept
    <3>2. /\ m.writer.list = Machine.writer.list /\ m.writer.cur = Machine.writer.cur
          /\ m.writer.state = Machine.writer.state
          /\ m.stream = [Machine.stream EXCEPT ![s] = r] /\ Machine.stream[s] # None
          /\ r.profile = Machine.stream[s].profile
          /\ (r.state = "PostBodyIndex" => Machine.stream[s].state = "PostBodyIndex")
      BY <1>2, <1>6, <3>1
    <3> QED BY <1>2, <3>1, <3>2, ChangedOrderly
  <2>2. Alike(m, m1)
    BY <1>6, <1>9, <1>g, EndPartitionAlike DEF m1
  <2>3. Alike(m, m3)
    BY <2>2, <1>12 DEF Alike, m3
  <2>4. Orderly(Machine, m3) /\ m3.stream[s] = r
    BY <2>1, <2>3, <1>9, OrderlyTwice DEF Alike
  <2>5. CASE r.state = "HeadIndex"
    <3>1. Orderly(m3, Advanced(m3, s))
      BY <2>4, <2>5, <1>2, <1>13, AdvancedOrderly DEF Good, BodyStates
    <3> QED BY <2>4, <2>5, <3>1, OrderlyTwice
  <2>6. CASE r.state # "HeadIndex"
    BY <2>4, <2>6
  <2> QED BY <2>5, <2>6
<1> HIDE DEF n
<1>d. IInv' /\ Machine' = n
  BY <1>3, <1>4, <1>14, BusyInv
<1>e. ASSUME OverInv PROVE OverInv'
  <2>1. /\ Over(n) /\ n.writer.list = writer.list /\ n.writer.state = "Start"
        /\ \A t \in Stream : stream[t] # None => Later(stream[t], n.stream[t])
    BY <1>b, <1>c, <1>e, MachineFields DEF Aged
  <2>2. Over(Machine)'
    BY <1>d, <2>1
  <2>3. writer' = n.writer /\ stream' = n.stream /\ call'.pos = call.pos + 1
    BY <1>1, <1>3 DEF Become
  <2>4. \A i \in DOMAIN writer.list : i < call.pos + 1 =>
           n.stream[writer.list[i]].state \notin Early
    <3> TAKE i \in DOMAIN writer.list
    <3> HAVE i < call.pos + 1
    <3>1. i \in Nat /\ call.pos \in Nat
      BY <1>1, Parts
    <3>2. CASE i < call.pos
      <4>1. stream[writer.list[i]].state \notin Early
        BY <3>2, <1>1, <1>e DEF OverInv, CallOver
      <4>2. writer.list[i] \in Stream /\ stream[writer.list[i]] # None
        BY Parts DEF MachineOK
      <4> QED BY <4>1, <4>2, <2>1 DEF Later
    <3>3. CASE i = call.pos
      BY <3>3, <1>c, <1>e DEF s
    <3> QED BY <3>1, <3>2, <3>3
  <2>5. CallOver'
    BY <1>3, <1>4, <1>e, <2>1, <2>3, <2>4 DEF OverInv, CallOver
  <2> QED BY <2>2, <2>5, <1>e DEF OverInv
<1> QED BY <1>14, <1>d, <1>e, <1>g

(***************************************************************************)
(* A pack without a BodySID may be queued at any time.                     *)
(***************************************************************************)
LEMMA QueuedGood ==
    ASSUME NEW m, Good(m), m.writer.pack.body = None, NEW v \in WriterType,
           v.pending, v.list = m.writer.list, v.cur = m.writer.cur, v.pack.body = None,
           NEW n \in MachineType, n.writer = v, n.stream = m.stream, n.file = m.file
    PROVE  /\ Good(n)
           /\ (Unfinished(m) => v.state # "Done" /\ v.pack.type # "Footer") => Ahead(m, n)
<1>1. /\ m \in MachineType /\ m.writer.cur \in 0 .. Len(m.writer.list) /\ Kin(m, m)
  BY MachineParts, SameKin DEF Good
<1> QED BY <1>1, Adjusted DEF Kin

\* The end of WriteHeader keeps the invariant.
LEMMA HeaderEndInv ==
    ASSUME IInv, HeaderEnd
    PROVE  /\ IInv' /\ Ahead(Machine, Machine') /\ (OverInv => OverInv')
           /\ writer.cur = 0 =>
                 \E m : /\ Good(m) /\ Ahead(Machine, m) /\ m.writer.state = "Header"
                       /\ m.stream = stream /\ m.writer.list = writer.list
                       /\ Become(SetNextStream(m)) /\ call' = Idle
<1> DEFINE pack == [writer.pack EXCEPT !.index = None]
           v == [writer EXCEPT !.pack = pack, !.table = None, !.pending = TRUE]
           n == [Machine EXCEPT !.writer.pack.index = None,
                                !.writer.table = None, !.writer.pending = TRUE]
           m == IF call.written THEN Machine ELSE n
           m1 == IF m.writer.done THEN EndPartition(m) ELSE m
           m2 == [m1 EXCEPT !.writer.state = "Header"]
<1>1. /\ Become(SetNextStream(m2)) /\ call' = Idle /\ body' = body
  BY DEF HeaderEnd
<1>2. writer.pack.body = None
  BY HeaderCall DEF HeaderEnd
<1>3. Good(n) /\ Ahead(Machine, n) /\ Alike(Machine, n)
  <2>1. n.writer = v /\ n.stream = stream /\ n.file = file
    BY Parts DEF MachineType, WriterType
  <2>2. pack \in Pack /\ pack.body = None /\ pack.type = writer.pack.type
    BY <1>2, Parts DEF Pack
  <2> HIDE DEF pack
  <2>3. /\ v \in WriterType /\ v.list = writer.list /\ v.cur = writer.cur
        /\ v.pending /\ v.pack = pack /\ v.state = writer.state
    BY <2>2, Parts DEF WriterType
  <2> HIDE DEF v
  <2>4. n \in MachineType
    BY <2>1, <2>3, Parts DEF MachineType
  <2> HIDE DEF n
  <2>5. Alike(Machine, n)
    BY <2>1, <2>3, MachineFields DEF Alike
  <2> QED BY <1>2, <2>1, <2>2, <2>3, <2>4, <2>5, Parts, QueuedGood DEF Unfinished
<1> HIDE DEF n
<1>4. Good(m) /\ Ahead(Machine, m) /\ Alike(Machine, m)
  BY <1>3, Parts DEF Alike
<1> HIDE DEF m
<1>5. Good(m1) /\ Ahead(Machine, m1)
  BY <1>4, Parts, EndPartitionGood, AheadTwice
<1>a. ASSUME OverInv
      PROVE  /\ Over(m1) /\ m1.writer.list = writer.list
             /\ \A i \in DOMAIN writer.list : m1.stream[writer.list[i]].state \notin Early
  <2>1. /\ Machine.writer = writer /\ Machine.stream = stream /\ Over(Machine)
        /\ call.op = "WriteHeader" /\ call.pos > Len(writer.list)
        /\ writer.list \in Seq(Stream)
    BY <1>a, Parts DEF OverInv, HeaderEnd
  <2>2. Aged(Machine, m) /\ Aged(m, m)
    BY <2>1, <1>4, AlikeAged DEF Aged, Alike
  <2>3. Aged(m, m1)
    BY <2>2, <1>4, EndPartitionOver DEF m1, Aged
  <2>4. Aged(Machine, m1)
    BY <2>2, <2>3, AgedTwice
  <2>5. writer.state = "Start"
    BY <2>1, <1>a DEF OverInv, CallOver
  <2>6. ASSUME NEW i \in DOMAIN writer.list
        PROVE  m1.stream[writer.list[i]].state \notin Early
    <3>1. i < call.pos
      <4>1. i \in Nat /\ i <= Len(writer.list) /\ Len(writer.list) \in Nat /\ call.pos \in Nat
        BY <2>1, HeaderCall
      <4> QED BY <4>1, <2>1
    <3>2. stream[writer.list[i]].state \notin Early
      BY <3>1, <2>1, <1>a DEF OverInv, CallOver
    <3>3. writer.list[i] \in Stream /\ stream[writer.list[i]] # None
      BY <2>1, Parts DEF MachineOK
    <3> QED BY <3>2, <3>3, <2>1, <2>4, <2>5 DEF Aged, Later
  <2> QED BY <2>1, <2>4, <2>6 DEF Aged
<1>e. ASSUME writer.cur = 0 PROVE Alike(m, m1)
  BY <1>4, <1>e, MachineFields, EndPartitionAlike DEF m1, Alike
<1> HIDE DEF m1
<1>6. Good(m2) /\ Ahead(m1, m2)
  BY <1>5, StateChanged DEF Phases
<1>b. /\ m2.stream = m1.stream /\ m2.writer.state = "Header"
      /\ m2.writer.list = m1.writer.list
  BY <1>5, StateChanged DEF Phases
<1> HIDE DEF m2
<1>c. ASSUME OverInv PROVE Over(SetNextStream(m2))
  <2>1. Over(m2) /\ m2.writer.state # "Start"
    BY <1>a, <1>b, <1>c DEF Over
  <2> QED BY <2>1, <1>6, SetNextStreamOver DEF Good
<1>7. Good(SetNextStream(m2)) /\ Ahead(m2, SetNextStream(m2))
  BY <1>6, SetNextStreamGood
<1>9. Ahead(Machine, SetNextStream(m2))
  BY <1>5, <1>6, <1>7, Parts, AheadTwice
<1>8. body' \in Nat \cup {NoBody}
  BY <1>1 DEF IInv
<1>d. ASSUME OverInv PROVE OverInv'
  BY <1>1, <1>7, <1>c, <1>d, IdleOver DEF OverInv, CallOver
<1>f. ASSUME writer.cur = 0
      PROVE  /\ Good(m2) /\ Ahead(Machine, m2) /\ m2.writer.state = "Header"
             /\ m2.stream = stream /\ m2.writer.list = writer.list
             /\ Become(SetNextStream(m2)) /\ call' = Idle
  <2>1. Ahead(Machine, m2)
    BY <1>5, <1>6, Parts, AheadTwice
  <2> QED BY <2>1, <1>1, <1>4, <1>6, <1>b, <1>e, <1>f, MachineFields DEF Alike
<1> QED BY <1>1, <1>7, <1>8, <1>9, <1>d, <1>f, IdleInv

\* The calls of WriteEssence.
EssenceCalls ==
    [op: {"WriteEssence"}, limited: BOOLEAN, left: Nat, sized: BOOLEAN,
     close: BOOLEAN, first: BOOLEAN, asap: BOOLEAN, sparse: BOOLEAN, ret: Nat]

\* The start of a body partition keeps the invariant.
LEMMA StartBodyInv ==
    ASSUME IInv, NEW state \in BodyStates, StartBody(state)
    PROVE  IInv' /\ Ahead(Machine, Machine') /\ (OverInv => OverInv')
<1> DEFINE s == CurStream(Machine)
           r == stream[s]
           m == Addressed(BodyPartition(s), s)
           n == IndexedPack(m, s)
           failed == m.writer.pending /\ state = "BodyWithIndex" /\ ~HasManager(r)
           sparse == VBRIndex(r) /\ ~r.pending /\ "SparseFooter" \in r.index
<1>1. writer.cur # 0
  BY DEF StartBody, WritePartition
<1>2. /\ Good(m) /\ Serving(m, TRUE) /\ CurStream(m) = s /\ Ahead(Machine, m)
      /\ Alike(Machine, m)
  BY <1>1, Parts, BodyPartitionGood
<1>a. OverInv => Over(m) /\ m.writer.state # "Start"
  BY <1>2, AlikeOver, MachineFields DEF OverInv, StartBody, WritePartition, Alike
<1>3. CASE failed
  <2>1. Return(m, 0)
    BY <1>3 DEF StartBody
  <2> HIDE DEF m
  <2> QED BY <2>1, <1>2, <1>a, Parts, ReturnInv, AheadTwice
<1>4. CASE ~failed
  <2>1. /\ Become(n) /\ body' = body
        /\ \E d \in IF body = NoBody THEN Durations ELSE {body},
                   z \in Sized, c \in Closes :
                  call' = [op |-> "WriteEssence", limited |-> d > 0, left |-> d,
                           sized |-> z, close |-> c, first |-> TRUE, asap |-> FALSE,
                           sparse |-> sparse, ret |-> 0]
    BY <1>4 DEF StartBody
  <2> HIDE DEF m, s, r
  <2>2. PICK d \in IF body = NoBody THEN Durations ELSE {body}, z \in Sized, c \in Closes :
           call' = [op |-> "WriteEssence", limited |-> d > 0, left |-> d,
                    sized |-> z, close |-> c, first |-> TRUE, asap |-> FALSE,
                    sparse |-> sparse, ret |-> 0]
    BY <2>1
  <2>3. sparse \in BOOLEAN
    OBVIOUS
  <2> HIDE DEF sparse
  <2>4. d \in Nat /\ (d > 0) \in BOOLEAN /\ z \in BOOLEAN /\ c \in BOOLEAN
    <3>1. d \in Nat
      BY WriterAssumption DEF IInv
    <3> QED BY <3>1, WriterAssumption
  <2>5. call' \in EssenceCalls /\ call'.op = "WriteEssence" /\ call'.first = TRUE
    BY <2>2, <2>3, <2>4 DEF EssenceCalls
  <2>6. call' \in CallType
    BY <2>5 DEF CallType, EssenceCalls
  <2>7. Good(n) /\ Serving(n, TRUE) /\ Ahead(Machine, n) /\ (OverInv => Over(n))
    <3>1. Good(n) /\ Serving(n, TRUE) /\ Ahead(m, n) /\ (Over(m) => Over(n))
      BY <1>2, IndexedPackGood
    <3> HIDE DEF n
    <3> QED BY <3>1, <1>2, <1>a, Parts, AheadTwice
  <2> HIDE DEF n
  <2>8. Machine' = n
    BY <2>1, <2>7, Becoming
  <2>9. Good(Machine)' /\ Serving(Machine', TRUE)
    BY <2>7, <2>8
  <2>10. CallInv'
    BY <2>5, <2>9 DEF CallInv
  <2>11. ASSUME OverInv PROVE OverInv'
    <3>1. Over(Machine)'
      BY <2>7, <2>8, <2>11
    <3>2. CallOver'
      BY <2>1, <2>5, <2>11 DEF OverInv, CallOver
    <3> QED BY <3>1, <3>2, <2>11 DEF OverInv
  <2> QED BY <2>1, <2>6, <2>7, <2>8, <2>9, <2>10, <2>11 DEF IInv
<1> QED BY <1>3, <1>4

\* A turn of WriteFooter keeps OverInv.
LEMMA FooterOver ==
    ASSUME OverInv, NEW m, Over(m), m.writer.state = "Footer", Become(m), Machine' = m,
           call'.op = "WriteFooter", body' = body
    PROVE  OverInv'
<1>1. Over(Machine)'
  OBVIOUS
<1>2. CallOver'
  BY DEF OverInv, CallOver, Become
<1> QED BY <1>1, <1>2 DEF OverInv

\* The call of WriteFooter keeps the invariant.
LEMMA WriteFooterInv ==
    ASSUME IInv, WriteFooter
    PROVE  IInv' /\ Ahead(Machine, Machine') /\ (OverInv => OverInv')
<1> DEFINE pack == [type |-> "Body", body |-> None, offset |-> 0, index |-> None]
           v == [writer EXCEPT !.pack = pack, !.sid = None, !.generic = FALSE, !.cur = 0]
           m == [Machine EXCEPT !.writer.pack = pack,
                   !.writer.sid = None, !.writer.generic = FALSE, !.writer.cur = 0]
           n == SetNextStream(m)
<1>1. Become(n) /\ body' = body
  BY DEF WriteFooter
<1>2. call' \in CallType /\ call'.op = "WriteFooter"
  BY DEF WriteFooter, CallType
<1>3. pack \in Pack /\ pack.body = None /\ pack.type # "Footer"
  BY DEF Pack, PackType
<1> HIDE DEF pack
<1>4. m.writer = v /\ m.stream = stream /\ m.file = file
  BY Parts DEF MachineType, WriterType
<1>5. /\ v \in WriterType /\ v.list = writer.list /\ v.cur = 0
      /\ v.sid = None /\ v.pack = pack /\ v.state = writer.state
  BY <1>3, Parts DEF WriterType
<1> HIDE DEF v
<1>6. m \in MachineType
  BY <1>4, <1>5, Parts DEF MachineType
<1> HIDE DEF m
<1>a. ASSUME OverInv
      PROVE  Over(m) /\ m.writer.state = "Footer"
  <2>1. writer.state = "Footer" /\ Over(Machine)
    BY <1>a DEF WriteFooter, OverInv
  <2> QED BY <2>1, <1>4, <1>5, MachineFields DEF Over
<1>7. Good(m) /\ Ahead(Machine, m)
  BY <1>3, <1>4, <1>5, <1>6, Parts, Adjusted DEF Kin, Unfinished
<1>8. Good(n) /\ n.writer.pack.body = None /\ Ahead(m, n)
  BY <1>3, <1>4, <1>5, <1>7, SetNextStreamGood DEF Scheduled
<1>9. Ahead(Machine, n)
  BY <1>7, <1>8, Parts, AheadTwice
<1>b. ASSUME OverInv
      PROVE  Over(n) /\ n.writer.state = "Footer"
  <2>1. /\ MachineOK(m) /\ Over(m) /\ m.writer.state = "Footer"
        /\ m.writer.state # "Start"
    BY <1>a, <1>b, <1>7 DEF Good
  <2> QED BY <2>1, SetNextStreamOver
<1> HIDE DEF n
<1>10. IInv' /\ Machine' = n
  BY <1>1, <1>2, <1>8, BusyInv
<1>11. OverInv => OverInv'
  BY <1>1, <1>2, <1>b, <1>10, FooterOver
<1> QED BY <1>9, <1>10, <1>11

\* The locals of WriteFooter.
LEMMA FooterCall ==
    ASSUME IInv, call.op = "WriteFooter"
    PROVE  call.meta \in BOOLEAN /\ writer.pack.body = None
BY DEF IInv, CallInv, CallType, Idle

\* What a turn of WriteFooter writes are kinds of table.
LEMMA DueNowType ==
    ASSUME NEW r
    PROVE  DueNow(r) \subseteq r.index
BY DEF DueNow, Due

\* The entries of a footer table are numbers.
LEMMA FooterUnitsType ==
    ASSUME NEW r \in StreamType, NEW kinds
    PROVE  FooterUnits(r, kinds) \in SUBSET Int
<1>1. SprinkleUnits(r) \subseteq Int
  BY SprinkleUnitsType
<1>2. CompleteEntries(r, 0, r.written) \subseteq Int
  BY ProfileParts, CompleteEntriesFinite
<1> QED BY <1>1, <1>2, ProfileParts DEF FooterUnits

\* A turn of WriteFooter keeps the invariant.
LEMMA FooterIndexInv ==
    ASSUME IInv, FooterIndex
    PROVE  IInv' /\ Ahead(Machine, Machine') /\ (OverInv => OverInv')
<1> DEFINE s == CurStream(Machine)
           r == stream[s]
           kinds == DueNow(r)
           table == MakeIndex(s, r, FooterUnits(r, kinds))
           m == Ended(Machine)
           o == [m EXCEPT !.writer.pack.index = s, !.writer.table = table,
                          !.writer.pending = TRUE]
           m1 == IF HasIndexData(table) THEN o ELSE m
           over == GetNextState(IF Due(r) = {} THEN [r EXCEPT !.index = {}] ELSE r)
           n1 == [Machine EXCEPT !.stream[s] = over]
           n2 == [m1 EXCEPT !.stream[s].footDone = @ \cup kinds]
<1>1. writer.cur # 0 /\ call.op = "WriteFooter" /\ body' = body
  BY DEF FooterIndex
<1>2. s \in Stream /\ r \in StreamType
  BY <1>1, CurrentStream
<1>3. writer.pack.body = None
  BY <1>1, FooterCall
<1>a. ASSUME OverInv PROVE Over(Machine) /\ writer.state = "Footer"
  BY <1>a, <1>1 DEF OverInv, CallOver
<1>4. CASE Become(SetNextStream(n1)) /\ call' = call
  <2>1. Kept(r, over)
    <3> DEFINE q == IF Due(r) = {} THEN [r EXCEPT !.index = {}] ELSE r
    <3>1. Kept(r, q)
      BY <1>2 DEF Kept, StreamType
    <3>2. Kept(q, GetNextState(q))
      BY <3>1, GetNextStateKept DEF Kept
    <3> HIDE DEF q
    <3>3. Kept(r, GetNextState(q))
      BY <3>1, <3>2 DEF Kept
    <3> QED BY <3>3 DEF q
  <2>a. Later(r, over) /\ over # None
    <3> DEFINE q == IF Due(r) = {} THEN [r EXCEPT !.index = {}] ELSE r
    <3>1. /\ q \in StreamType /\ q.state = r.state /\ q.eos = r.eos /\ q.read = r.read
          /\ q.active = r.active /\ q.profile = r.profile /\ q.pending = r.pending
      BY <1>2 DEF StreamType
    <3> HIDE DEF q
    <3>2. Later(r, q)
      BY <3>1 DEF Later, StreamEnd
    <3>3. Later(q, GetNextState(q))
      BY <3>1, GetNextStateLater
    <3>4. Later(r, GetNextState(q))
      BY <3>2, <3>3 DEF Later
    <3>5. over # None
      BY <2>1, NoneAssumption DEF Kept
    <3> QED BY <3>4, <3>5 DEF q
  <2> HIDE DEF over, s
  <2>2. n1.writer = writer /\ n1.file = file /\ n1.stream = [stream EXCEPT ![s] = over]
    BY Parts DEF MachineType
  <2>3. n1.stream \in [Stream -> StreamType \cup {None}]
    BY <2>1, <2>2, Parts DEF Kept
  <2>4. n1 \in MachineType
    BY <2>2, <2>3, Parts DEF MachineType
  <2>5. \A t \in Stream : IF stream[t] = None THEN n1.stream[t] = None
                          ELSE Kept(stream[t], n1.stream[t])
    BY <2>1, <2>2, <1>2, Parts, NoneAssumption DEF Kin
  <2>b. ASSUME OverInv PROVE Over(n1) /\ n1.writer.state = "Footer"
    <3> HIDE DEF n1
    <3>1. /\ n1.writer.list = Machine.writer.list /\ n1.writer.state = Machine.writer.state
          /\ n1.writer.cur = Machine.writer.cur /\ MachineOK(Machine) /\ Over(Machine)
          /\ Machine.stream[s] # None /\ n1.stream = [Machine.stream EXCEPT ![s] = over]
          /\ Later(Machine.stream[s], over)
      BY <2>2, <2>a, <2>b, <1>2, <1>a, Parts, NoneAssumption
    <3> QED BY <3>1, <1>2, <2>2, <2>b, <1>a, OverChanged
  <2> HIDE DEF n1
  <2>6. Scheduled(Machine, n1)
    BY <2>2, <2>4, <2>5, Parts DEF Scheduled
  <2>7. Good(n1) /\ n1.writer.pack.body = None /\ Ahead(Machine, n1)
    BY <2>2, <2>6, <1>3, Parts, ScheduledGood, ScheduledKin
  <2> DEFINE n == SetNextStream(n1)
  <2>8. Good(n) /\ n.writer.pack.body = None /\ Ahead(Machine, n)
    BY <2>7, Parts, SetNextStreamGood, AheadTwice DEF Scheduled
  <2>9. ASSUME OverInv PROVE Over(n) /\ n.writer.state = "Footer"
    <3>1. n1.writer.state # "Start" /\ MachineOK(n1)
      BY <2>7, <2>b, <2>9 DEF Good
    <3> QED BY <3>1, <2>b, <2>9, SetNextStreamOver
  <2> HIDE DEF n
  <2>10. Become(n) /\ call' = call
    BY <1>4 DEF n
  <2>11. IInv' /\ Machine' = n
    BY <2>8, <2>10, <1>1, BusyInv DEF IInv
  <2>12. OverInv => OverInv'
    BY <2>9, <2>10, <2>11, <1>1, FooterOver
  <2> QED BY <2>8, <2>11, <2>12
<1>5. CASE Become(SetNextStream(n2)) /\ call' = call
  <2>1. Good(m) /\ Kin(Machine, m) /\ Ahead(Machine, m)
    BY Parts, EndedGood
  <2>2. m.writer.pack.body = None /\ m.stream[s] \in StreamType
    BY <2>1, <1>2, <1>3, MachineFields, NoneAssumption DEF Kin, Kept
  <2>3. table \in TableType
    BY <1>2, FooterUnitsType, MakeIndexType
  <2>4. kinds \subseteq IndexType
    BY <1>2, DueNowType DEF StreamType
  <2>a. OverInv => Aged(Machine, m)
    BY <1>a, Parts, EndedOver
  <2> HIDE DEF table, s, kinds, m, r
  <2>5. /\ Good(o) /\ o.writer.pack.body = None /\ o.stream = m.stream
        /\ Ahead(m, o) /\ Alike(m, o)
    <3> DEFINE pack == [m.writer.pack EXCEPT !.index = s]
               v == [m.writer EXCEPT !.pack = pack, !.table = table, !.pending = TRUE]
    <3>1. m \in MachineType /\ m.writer \in WriterType /\ m.writer.pack \in Pack
      BY <2>1, MachineParts DEF Good, WriterType
    <3>2. o.writer = v /\ o.stream = m.stream /\ o.file = m.file
      BY <3>1 DEF MachineType, WriterType
    <3>3. pack \in Pack /\ pack.body = None /\ pack.type = m.writer.pack.type
      BY <2>2, <3>1, <1>2 DEF Pack
    <3> HIDE DEF pack
    <3>4. /\ v \in WriterType /\ v.list = m.writer.list /\ v.cur = m.writer.cur
          /\ v.pending /\ v.pack = pack /\ v.state = m.writer.state
      BY <2>3, <3>1, <3>3 DEF WriterType
    <3> HIDE DEF v
    <3>5. o \in MachineType
      BY <3>1, <3>2, <3>4 DEF MachineType
    <3> HIDE DEF o
    <3>6. Alike(m, o)
      BY <3>2, <3>4 DEF Alike
    <3> QED BY <2>1, <2>2, <3>2, <3>3, <3>4, <3>5, <3>6, QueuedGood DEF Unfinished
  <2> HIDE DEF o
  <2>b. ASSUME OverInv PROVE Over(m1) /\ m1.writer.state = "Footer"
    <3>1. Over(m) /\ m.writer.state = "Footer"
      BY <2>a, <2>b, <1>a, MachineFields DEF Aged
    <3>2. Over(o) /\ o.writer.state = "Footer"
      BY <3>1, <2>5, AlikeOver DEF Alike
    <3> QED BY <3>1, <3>2
  <2>6. /\ Good(m1) /\ m1.writer.pack.body = None /\ m1.stream[s] \in StreamType
        /\ Ahead(Machine, m1)
    BY <2>1, <2>2, <2>5, Parts, AheadTwice
  <2> HIDE DEF m1
  <2>7. /\ Good(n2) /\ n2.writer.pack.body = None /\ Ahead(m1, n2)
        /\ OverInv => Over(n2) /\ n2.writer.state = "Footer"
    <3> DEFINE x == m1.stream[s]
               q == [x EXCEPT !.footDone = @ \cup kinds]
    <3>1. Kept(x, q)
      BY <2>4, <2>6 DEF Kept, StreamType
    <3>a. Later(x, q)
      BY <2>6 DEF Later, StreamEnd, StreamType
    <3>2. /\ m1 \in MachineType /\ m1.stream \in [Stream -> StreamType \cup {None}]
          /\ m1.writer.cur \in 0 .. Len(m1.writer.list) /\ Kin(m1, m1)
      BY <2>6, MachineParts, SameKin DEF Good
    <3>3. n2.writer = m1.writer /\ n2.file = m1.file /\ n2.stream = [m1.stream EXCEPT ![s] = q]
      BY <3>2, <1>2 DEF MachineType
    <3> HIDE DEF q
    <3>4. n2.stream \in [Stream -> StreamType \cup {None}]
      BY <3>1, <3>2, <3>3 DEF Kept
    <3>5. n2 \in MachineType
      BY <3>2, <3>3, <3>4 DEF MachineType
    <3>6. \A t \in Stream : IF m1.stream[t] = None THEN n2.stream[t] = None
                            ELSE Kept(m1.stream[t], n2.stream[t])
      BY <3>1, <3>2, <3>3, <2>6, <1>2, NoneAssumption DEF Kin
    <3> HIDE DEF n2
    <3>7. Scheduled(m1, n2)
      BY <3>2, <3>3, <3>5, <3>6 DEF Scheduled
    <3>8. ASSUME OverInv PROVE Over(n2) /\ n2.writer.state = "Footer"
      <4>1. m1.stream[s] # None /\ Later(m1.stream[s], q) /\ MachineOK(m1)
        BY <3>a, <2>6, NoneAssumption DEF Good
      <4>2. /\ n2.writer.list = m1.writer.list /\ n2.writer.state = m1.writer.state
            /\ n2.writer.cur = m1.writer.cur
        BY <3>3
      <4> QED BY <4>1, <4>2, <3>3, <3>8, <2>b, <1>2, OverChanged
    <3> QED BY <2>6, <3>3, <3>7, <3>8, ScheduledGood, ScheduledKin DEF Good
  <2> HIDE DEF n2
  <2> DEFINE n == SetNextStream(n2)
  <2>9. Ahead(Machine, n2)
    BY <2>6, <2>7, Parts, AheadTwice
  <2>8. Good(n) /\ n.writer.pack.body = None /\ Ahead(Machine, n)
    BY <2>7, <2>9, Parts, SetNextStreamGood, AheadTwice DEF Scheduled
  <2>10. ASSUME OverInv PROVE Over(n) /\ n.writer.state = "Footer"
    <3>1. n2.writer.state # "Start" /\ MachineOK(n2)
      BY <2>7, <2>10 DEF Good
    <3> QED BY <3>1, <2>7, <2>10, SetNextStreamOver
  <2> HIDE DEF n
  <2>11. Become(n) /\ call' = call
    BY <1>5 DEF n
  <2>12. IInv' /\ Machine' = n
    BY <2>8, <2>11, <1>1, BusyInv DEF IInv
  <2>13. OverInv => OverInv'
    BY <2>10, <2>11, <2>12, <1>1, FooterOver
  <2> QED BY <2>8, <2>12, <2>13
<1>6. CASE /\ call' = [op |-> "Aborted"]
           /\ UNCHANGED <<writer, stream, file>>
  <2>1. call' \in CallType /\ call'.op = "Aborted"
    BY <1>6 DEF CallType
  <2>2. Machine' = Machine
    BY <1>6 DEF Machine
  <2>3. Good(Machine)'
    BY <2>2 DEF IInv
  <2>4. ASSUME OverInv PROVE OverInv'
    <3>1. Over(Machine)'
      BY <2>2, <1>a, <2>4
    <3>2. CallOver'
      BY <2>1, <2>4, <1>1 DEF OverInv, CallOver
    <3> QED BY <3>1, <3>2, <2>4 DEF OverInv
  <2> QED BY <2>1, <2>2, <2>3, <2>4, <1>1, Parts DEF IInv, CallInv
<1> QED BY <1>4, <1>5, <1>6 DEF FooterIndex

\* The step that writes the footer.
Ends ==
    /\ Longer(file, file') /\ Amounts(stream') = Amounts(stream)
    /\ writer'.state = "Done" /\ call' = Idle

\* The footer keeps the invariant.
LEMMA FooterEndInv ==
    ASSUME IInv, FooterEnd
    PROVE  IInv' /\ Ends /\ (OverInv => OverInv')
<1> DEFINE alone == /\ ~IndexShares /\ call.meta /\ writer.pending
                    /\ writer.table # None
           m == IF alone THEN EndPartition(Machine) ELSE Machine
           o == [m EXCEPT !.writer.pack.type = "Footer", !.writer.pending = TRUE,
                          !.writer.footer = TRUE, !.writer.meta = call.meta]
           n == [EndPartition(o) EXCEPT !.writer.state = "Done"]
<1>1. /\ Become(n) /\ call' = Idle /\ body' = body /\ call.op = "WriteFooter"
  BY DEF FooterEnd
<1>2. call.meta \in BOOLEAN /\ writer.pack.body = None
  BY <1>1, FooterCall
<1>3. Good(m) /\ m.writer.pack.body = None /\ Ahead(Machine, m)
  <2>1. /\ Good(EndPartition(Machine)) /\ Kin(Machine, EndPartition(Machine))
        /\ Ahead(Machine, EndPartition(Machine))
    BY Parts, EndPartitionGood
  <2> QED BY <2>1, <1>2, Parts DEF Kin
<1>a. ASSUME OverInv PROVE Over(m) /\ m.writer.state = "Footer"
  <2>1. Over(Machine) /\ Machine.writer.state = "Footer"
    BY <1>a, <1>1, MachineFields DEF OverInv, CallOver
  <2>2. Aged(Machine, EndPartition(Machine))
    BY <2>1, Parts, EndPartitionOver
  <2> QED BY <2>1, <2>2 DEF Aged
<1> HIDE DEF m
<1>4. Good(o) /\ o.stream = m.stream /\ o.file = m.file /\ Alike(m, o)
  <2> DEFINE pack == [m.writer.pack EXCEPT !.type = "Footer"]
             v == [m.writer EXCEPT !.pack = pack, !.pending = TRUE,
                                   !.footer = TRUE, !.meta = call.meta]
  <2>1. m \in MachineType /\ m.writer \in WriterType /\ m.writer.pack \in Pack
    BY <1>3, MachineParts DEF Good, WriterType
  <2>2. o.writer = v /\ o.stream = m.stream /\ o.file = m.file
    BY <2>1 DEF MachineType, WriterType
  <2>3. pack \in Pack /\ pack.body = None
    BY <1>3, <2>1 DEF Pack, PackType
  <2> HIDE DEF pack
  <2>4. /\ v \in WriterType /\ v.list = m.writer.list /\ v.cur = m.writer.cur
        /\ v.pending /\ v.pack = pack /\ v.state = m.writer.state
    BY <1>2, <2>1, <2>3 DEF WriterType
  <2> HIDE DEF v
  <2>5. o \in MachineType
    BY <2>1, <2>2, <2>4 DEF MachineType
  <2> HIDE DEF o
  <2>6. Alike(m, o)
    BY <2>2, <2>4 DEF Alike
  <2> QED BY <1>3, <2>2, <2>3, <2>4, <2>5, <2>6, QueuedGood
<1> HIDE DEF o
<1> DEFINE p == EndPartition(o)
<1>5. Good(p) /\ Ahead(o, p)
  BY <1>4, EndPartitionGood
<1>b. ASSUME OverInv PROVE Over(p) /\ p.writer.state = "Footer"
  <2>1. Over(o) /\ o.writer.state = "Footer"
    BY <1>a, <1>b, <1>4, AlikeOver DEF Alike
  <2> QED BY <2>1, <1>4, EndPartitionOver DEF Aged
<1> HIDE DEF p
<1>6. Good(n) /\ n.file = p.file /\ n.stream = p.stream /\ n.writer.state = "Done"
      /\ n.writer.list = p.writer.list
  BY <1>5, StateChanged DEF Phases, p
<1> HIDE DEF n
<1>8. Longer(Machine.file, m.file) /\ Longer(m.file, p.file)
  BY <1>3, <1>4, <1>5 DEF Ahead
<1>9. Longer(file, n.file) /\ Amounts(n.stream) = Amounts(stream)
  BY <1>3, <1>4, <1>5, <1>6, <1>8, Parts, LongerTwice DEF Ahead
<1>7. body' \in Nat \cup {NoBody}
  BY <1>1 DEF IInv
<1>10. ASSUME OverInv PROVE OverInv'
  <2>1. Over(n)
    BY <1>6, <1>b, <1>10 DEF Over
  <2> QED BY <2>1, <1>1, <1>6, <1>10, IdleOver DEF OverInv, CallOver
<1> QED BY <1>1, <1>6, <1>7, <1>9, <1>10, IdleInv DEF Become, Ends

(***************************************************************************)
(* One lemma for each action of WriteEssence.                              *)
(***************************************************************************)
LEMMA StreamChanged ==
    ASSUME NEW m, Good(m), NEW s \in Stream, m.stream[s] # None,
           NEW q \in StreamType, StreamInv(q), q.written = m.stream[s].written,
           NEW o \in MachineType, o.file = m.file,
           o.stream = [m.stream EXCEPT ![s] = q],
           o.writer.list = m.writer.list, o.writer.cur = m.writer.cur,
           o.writer.pending = m.writer.pending, o.writer.sid = m.writer.sid,
           o.writer.pack = m.writer.pack
    PROVE  Good(o) /\ (o.writer.state = m.writer.state => Ahead(m, o))
<1>1. /\ MachineOK(m) /\ m.stream \in [Stream -> StreamType \cup {None}]
      /\ m.writer.list \in Seq(Stream)
  BY MachineParts DEF Good
<1>2. Amounts(o.stream) = Amounts(m.stream)
  BY <1>1, NoneAssumption DEF Amounts
<1>3. \A t \in Stream : m.stream[t] # None => o.stream[t] # None
  BY <1>1, NoneAssumption
<1>4. \A i \in DOMAIN o.writer.list : o.stream[o.writer.list[i]] # None
  BY <1>1, <1>3 DEF MachineOK
<1>5. \A t \in Stream : o.stream[t] # None => StreamInv(o.stream[t])
  BY <1>1 DEF MachineOK
<1>6. MachineOK(o)
  BY <1>1, <1>4, <1>5 DEF MachineOK
<1>7. o.writer.state = m.writer.state => Ahead(m, o)
  BY <1>1, <1>2, QuietAhead DEF Unfinished
<1> QED BY <1>2, <1>6, <1>7 DEF Good, Template, Open

(***************************************************************************)
(* The machine that has put essence into its last partition: the items e   *)
(* of that partition continue the old ones by n units of s.                *)
(***************************************************************************)
Written(m, v, s, q, e) ==
    [writer |-> v, stream |-> [m.stream EXCEPT ![s] = q],
     file |-> [m.file EXCEPT ![Len(m.file)].essence = e]]

\* From m to n the last partition, one of s, gets the next k units of s.
Delivered(m, n) ==
    \E s \in Stream, k \in Nat, e \in Seq(Stream \X Nat) :
        /\ m.file # << >> /\ m.file[Len(m.file)].body = s
        /\ Continues(e, m.file[Len(m.file)].essence, k, s, Amounts(m.stream)[s])
        /\ n.file = [m.file EXCEPT ![Len(m.file)].essence = e]
        /\ Amounts(n.stream) = [Amounts(m.stream) EXCEPT ![s] = @ + k]
        /\ Unfinished(m) => Unfinished(n)

\* So it does, perhaps after other partitions were begun.
Wrote(m, n) == \E h : MachineOK(h) /\ Ahead(m, h) /\ Delivered(h, n)

\* What the writer does to itself afterwards does not matter.
LEMMA DeliveredQuiet ==
    ASSUME NEW m, NEW n, NEW o, Delivered(m, n), Quiet(n, o)
    PROVE  Delivered(m, o)
BY DEF Delivered, Quiet

\* Two quiet steps make one.
LEMMA QuietTwice ==
    ASSUME NEW m, NEW n, NEW o, Quiet(m, n), Quiet(n, o)
    PROVE  Quiet(m, o)
BY DEF Quiet

\* Essence that is added leaves the BodySID of the last partition.
LEMMA SameBody ==
    ASSUME NEW f \in Seq(Partition), f # << >>, NEW e, NEW g \in Seq(Partition),
           g = [f EXCEPT ![Len(f)].essence = e]
    PROVE  g # << >> /\ Len(g) = Len(f) /\ g[Len(g)].body = f[Len(f)].body
           /\ \A i \in 1 .. Len(f) : g[i].type = f[i].type
<1>1. /\ DOMAIN g = DOMAIN f /\ DOMAIN f = 1 .. Len(f)
      /\ Len(f) \in Nat /\ Len(f) # 0
  OBVIOUS
<1>2. Len(g) = Len(f) /\ g # << >>
  BY <1>1
<1>3. f[Len(f)] \in Partition /\ Len(f) \in DOMAIN f
  BY <1>1
<1>4. \A i \in 1 .. Len(f) : g[i].type = f[i].type
  BY <1>1, <1>3 DEF Partition
<1> QED BY <1>2, <1>3, <1>4 DEF Partition

\* Writing the next units of s into the last partition, one of s, keeps the
\* invariant.
LEMMA WrittenGood ==
    ASSUME NEW m, Good(m), ~m.writer.pending, NEW s \in Stream, m.stream[s] \in StreamType,
           m.file # << >>, m.file[Len(m.file)].body = s,
           NEW n \in Nat, NEW e \in Seq(Stream \X Nat),
           Continues(e, m.file[Len(m.file)].essence, n, s, m.stream[s].written),
           NEW q \in StreamType, StreamInv(q), q.written = m.stream[s].written + n,
           NEW v \in WriterType, v.list = m.writer.list, v.cur = m.writer.cur,
           ~v.pending, v.sid = m.writer.sid
    PROVE  LET o == Written(m, v, s, q, e) IN
           /\ Good(o)
           /\ (v.state = m.writer.state /\ v.pack.type = m.writer.pack.type) => Delivered(m, o)
<1> DEFINE w == Amounts(m.stream)
           o == Written(m, v, s, q, e)
<1>0. /\ o.file = [m.file EXCEPT ![Len(m.file)].essence = e]
      /\ o.stream = [m.stream EXCEPT ![s] = q] /\ o.writer = v
      /\ o = [writer |-> o.writer, stream |-> o.stream, file |-> o.file]
  BY DEF Written
<1> HIDE DEF o
<1>1. /\ MachineOK(m) /\ m.stream \in [Stream -> StreamType \cup {None}]
      /\ m.writer.list \in Seq(Stream) /\ m.file \in Seq(Partition)
      /\ w \in [Stream -> Nat] /\ FileOK(m.file, w)
  BY MachineParts, AmountsType DEF Good
<1>2. w[s] = m.stream[s].written /\ m.stream[s].written \in Nat
  BY ProfileParts, NoneAssumption DEF Amounts
<1>3. Amounts(o.stream) = [w EXCEPT ![s] = @ + n]
  BY <1>0, <1>1, <1>2, NoneAssumption DEF Amounts
<1> HIDE DEF w
<1>4. FileOK(o.file, Amounts(o.stream)) /\ o.file \in Seq(Partition)
  <2> DEFINE f == m.file
  <2>1. /\ f \in Seq(Partition) /\ w \in [Stream -> Nat] /\ FileOK(f, w)
        /\ f # << >> /\ f[Len(f)].body = s /\ o.file = [f EXCEPT ![Len(f)].essence = e]
    BY <1>0, <1>1
  <2>2. Continues(e, f[Len(f)].essence, n, s, w[s])
    BY <1>2
  <2> HIDE DEF f
  <2>3. /\ FileOK([f EXCEPT ![Len(f)].essence = e], [w EXCEPT ![s] = @ + n])
        /\ [f EXCEPT ![Len(f)].essence = e] \in Seq(Partition)
    BY <2>1, <2>2, ItemsWritten
  <2> QED BY <1>3, <2>1, <2>3
<1>5. \A t \in Stream : m.stream[t] # None => o.stream[t] # None
  BY <1>0, <1>1, NoneAssumption
<1>6. \A i \in DOMAIN o.writer.list : o.stream[o.writer.list[i]] # None
  BY <1>0, <1>1, <1>5 DEF MachineOK
<1>7. \A t \in Stream : o.stream[t] # None => StreamInv(o.stream[t])
  BY <1>0, <1>1 DEF MachineOK
<1>8. o \in MachineType
  <2>1. o.stream \in [Stream -> StreamType \cup {None}]
    BY <1>0, <1>1
  <2> QED BY <1>0, <1>4, <2>1 DEF MachineType
<1>9. MachineOK(o)
  BY <1>0, <1>1, <1>6, <1>7, <1>8 DEF MachineOK
<1>10. /\ o.file # << >> /\ Len(o.file) = Len(m.file) /\ o.file[Len(o.file)].body = s
       /\ \A i \in 1 .. Len(m.file) : o.file[i].type = m.file[i].type
  BY <1>0, <1>1, <1>4, SameBody
<1>11. Open(o)
  BY <1>0, <1>10 DEF Good, Open
<1>12. Good(o)
  BY <1>0, <1>4, <1>9, <1>11 DEF Good, Template
<1>13. ASSUME v.state = m.writer.state, v.pack.type = m.writer.pack.type
       PROVE  Delivered(m, o)
  <2>1. Unfinished(m) => Unfinished(o)
    BY <1>0, <1>10, <1>13 DEF Unfinished
  <2>2. Continues(e, m.file[Len(m.file)].essence, n, s, w[s])
    BY <1>2
  <2> QED BY <2>1, <2>2, <1>0, <1>3 DEF Delivered, w
<1> QED BY <1>12, <1>13 DEF o

\* What WriteEssence starts from.
LEMMA EssenceCall ==
    ASSUME IInv, Writing
    PROVE  /\ call \in EssenceCalls /\ Serving(Machine, call.first) /\ writer.cur # 0
           /\ CurStream(Machine) \in Stream
           /\ stream[CurStream(Machine)] \in StreamType
           /\ StreamInv(stream[CurStream(Machine)])
<1>1. call \in EssenceCalls /\ Serving(Machine, call.first)
  BY DEF IInv, CallInv, CallType, Idle, Writing, EssenceCalls
<1>2. writer.cur # 0
  BY <1>1, MachineFields DEF Serving
<1> QED BY <1>1, <1>2, CurrentStream

\* A state decision keeps the invariant of a stream.
LEMMA KeptInv ==
    ASSUME NEW r, NEW q, Kept(r, q), StreamInv(r)
    PROVE  StreamInv(q)
BY DEF Kept, StreamInv

\* Leaving WriteEssence keeps the invariant.
LEMMA LeaveGood ==
    ASSUME NEW m, Good(m), NEW s
    PROVE  LET n == Leave(m, s) IN Good(n) /\ Ahead(m, n) /\ Quiet(m, n)
BY SetNextStreamGood, SameKin DEF Leave, Good, Quiet

\* And Over.
LEMMA LeaveOver ==
    ASSUME NEW m, Good(m), Over(m), m.writer.cur # 0, NEW s
    PROVE  Over(Leave(m, s)) /\ Leave(m, s).writer.state # "Start"
<1>1. MachineOK(m) /\ m.writer.state # "Start"
  BY DEF Good, Over
<1> QED BY <1>1, SetNextStreamOver DEF Leave

(***************************************************************************)
(* While the current stream writes: its new state q goes on, and the       *)
(* writer then leaves.                                                     *)
(***************************************************************************)
LEMMA WritingOver ==
    ASSUME IInv, OverInv, NEW m, Good(m), NEW s, s \in Stream, stream[s] # None,
           m.writer.list = writer.list, m.writer.state = writer.state,
           m.writer.cur = writer.cur, writer.cur # 0,
           NEW q, m.stream = [stream EXCEPT ![s] = q], Later(stream[s], q)
    PROVE  Over(m) /\ Over(Leave(m, s)) /\ Leave(m, s).writer.state # "Start"
<1>1. /\ MachineOK(Machine) /\ Over(Machine)
      /\ Machine.writer = writer /\ Machine.stream = stream
  BY Parts DEF OverInv
<1>2. Over(m)
  BY <1>1, OverChanged
<1> QED BY <1>2, LeaveOver

\* What the writer has done with its current stream before it leaves WriteEssence.
Worked(n) ==
    LET s == CurStream(Machine) IN
    /\ Good(n) /\ (OverInv => Over(n))
    /\ n.writer.list = writer.list /\ n.writer.cur = writer.cur
    /\ n.writer.state = writer.state
    /\ \A t \in Stream : t # s => n.stream[t] = stream[t]
    /\ n.stream[s] \in StreamType /\ n.stream[s].profile = stream[s].profile

\* Leaving it keeps the invariant.
LEMMA WorkedInv ==
    ASSUME IInv, Writing, NEW n, Worked(n), NEW ret \in Nat, NEW s, Return(Leave(n, s), ret)
    PROVE  IInv' /\ Ahead(n, Machine') /\ Quiet(n, Machine') /\ (OverInv => OverInv')
<1> DEFINE l == Leave(n, s)
<1>1. Good(n) /\ (OverInv => Over(n)) /\ n.writer.cur # 0
  BY EssenceCall DEF Worked
<1>2. Good(l) /\ Ahead(n, l) /\ Quiet(n, l) /\ Return(l, ret)
  BY <1>1, LeaveGood
<1>3. OverInv => Over(l) /\ l.writer.state # "Start"
  BY <1>1, LeaveOver
<1> HIDE DEF l
<1>4. IInv' /\ Ahead(l, Machine') /\ Quiet(l, Machine') /\ (OverInv => OverInv')
  BY <1>2, <1>3, ReturnInv
<1>5. MachineOK(n)
  BY <1>1 DEF Good
<1> QED BY <1>2, <1>4, <1>5, AheadTwice, QuietTwice

(***************************************************************************)
(* A writer that serves s has s in the last partition once it has flushed. *)
(***************************************************************************)
LEMMA FlushedServing ==
    ASSUME NEW m, Good(m), NEW first, Serving(m, first)
    PROVE  LET n == IF first THEN Flushed(m) ELSE m IN
           /\ Good(n) /\ ~n.writer.pending /\ n.stream = m.stream /\ Ahead(m, n)
           /\ n.writer.list = m.writer.list /\ n.writer.cur = m.writer.cur
           /\ n.file # << >> /\ n.file[Len(n.file)].body = CurStream(m)
           /\ Alike(m, n)
<1>1. CASE first
  <2>1. LET n == Flushed(m) IN
        /\ Good(n) /\ Kin(m, n) /\ Ahead(m, n) /\ ~n.writer.pending /\ n.writer.cur = m.writer.cur
        /\ n.stream = m.stream
        /\ m.writer.pending =>
              n.file # << >> /\ n.file[Len(n.file)].body = m.writer.pack.body
        /\ ~m.writer.pending => n = m
        /\ Alike(m, n)
    BY FlushedGood, FlushedAlike
  <2> QED BY <1>1, <2>1 DEF Serving, Kin
<1>2. CASE ~first
  BY <1>2, SameKin DEF Serving, Good, Alike
<1> QED BY <1>1, <1>2

\* The machine after the flags of the partition were set on a read.
Labelled(generic, sid) ==
    [Machine EXCEPT !.writer.generic = generic, !.writer.sid = sid]

\* Setting them keeps the invariant: the partition is that of the stream.
LEMMA GenericGood ==
    ASSUME IInv, NEW generic \in BOOLEAN, NEW sid, NEW first, Serving(Machine, first),
           sid = writer.sid \/ sid = CurStream(Machine)
    PROVE  LET n == Labelled(generic, sid) IN
           Good(n) /\ Serving(n, first) /\ CurStream(n) = CurStream(Machine)
             /\ n.stream = stream /\ n.writer.list = writer.list
             /\ n.writer.cur = writer.cur /\ Ahead(Machine, n)
             /\ Alike(Machine, n)
<1> DEFINE v == [writer EXCEPT !.generic = generic, !.sid = sid]
           n == Labelled(generic, sid)
<1>1. n.writer = v /\ n.stream = stream /\ n.file = file
  BY Parts DEF MachineType, WriterType, Labelled
<1>2. sid \in Stream \cup {None}
  <2>1. writer.cur # 0
    BY MachineFields DEF Serving
  <2> QED BY <2>1, Parts, CurrentStream DEF WriterType
<1>3. /\ v \in WriterType /\ v.list = writer.list /\ v.cur = writer.cur
      /\ v.pending = writer.pending /\ v.sid = sid /\ v.pack = writer.pack
      /\ v.state = writer.state
  BY <1>2, Parts DEF WriterType
<1> HIDE DEF v
<1>4. n \in MachineType
  BY <1>1, <1>3, Parts DEF MachineType, Labelled
<1> HIDE DEF n
<1>5. (~writer.pending /\ sid # None) => file # << >> /\ file[Len(file)].body = sid
  BY Parts DEF Good, Open, Serving
<1>6. (writer.pending /\ writer.pack.body # None) =>
         writer.pack.offset = Amounts(stream)[writer.pack.body]
  BY Parts DEF Good, Template
<1>7. Good(n) /\ Ahead(Machine, n)
  BY <1>1, <1>3, <1>4, <1>5, <1>6, Parts, Adjusted DEF Kin, Unfinished
<1>8. Serving(n, first) /\ CurStream(n) = CurStream(Machine)
  BY <1>1, <1>3, MachineFields DEF Serving, CurStream
<1>9. Alike(Machine, n)
  BY <1>1, <1>3, MachineFields DEF Alike
<1> QED BY <1>1, <1>3, <1>7, <1>8, <1>9 DEF n

\* The end of a source.
LEMMA EssenceEndsStep ==
    ASSUME IInv, EssenceEnds
    PROVE  LET s == CurStream(Machine) IN
           \E n : /\ Worked(n) /\ Ahead(Machine, n)
                  /\ n.stream[s].written = n.stream[s].profile.units
                  /\ Return(Leave(n, s), call.ret)
<1> DEFINE s == CurStream(Machine)
           r == stream[s]
           g == GenericNow(r)
           sp == Noted(r)
           q == [r EXCEPT !.eos = TRUE, !.sparse = sp]
           v == [writer EXCEPT !.generic = g]
           m == [Machine EXCEPT !.writer.generic = GenericNow(r),
                                !.stream[s].eos = TRUE,
                                !.stream[s].sparse = Noted(r)]
<1>1. Return(Leave(Advanced(m, s), s), call.ret)
  BY DEF EssenceEnds
<1>2. /\ call \in EssenceCalls /\ s \in Stream /\ r \in StreamType /\ StreamInv(r)
      /\ r # None
  BY EssenceCall, NoneAssumption DEF EssenceEnds
<1>3. call.ret \in Nat
  BY <1>2 DEF EssenceCalls
<1>a. ~r.pending /\ r.read = r.profile.units /\ writer.cur # 0
  BY EssenceCall DEF EssenceEnds, Reading
<1>4. g \in BOOLEAN
  BY <1>2, ProfileParts, Parts DEF GenericNow, WriterType
<1>5. sp \subseteq Int
  BY <1>2, ProfileParts DEF Noted
<1>6. m.stream = [stream EXCEPT ![s] = q] /\ m.writer = v /\ m.file = file
  BY <1>2, Parts DEF MachineType, WriterType, StreamType
<1> HIDE DEF g, sp
<1>7. q \in StreamType /\ StreamInv(q) /\ q.written = r.written
  BY <1>2, <1>5 DEF StreamType, StreamInv
<1>b. Later(r, q)
  BY <1>2, <1>5, <1>a DEF StreamType, Later, StreamEnd
<1>8. /\ v \in WriterType /\ v.list = writer.list /\ v.cur = writer.cur
      /\ v.pending = writer.pending /\ v.sid = writer.sid /\ v.pack = writer.pack
      /\ v.state = writer.state
  BY <1>4, Parts DEF WriterType
<1> HIDE DEF q, v
<1>9. m \in MachineType
  <2>1. m.stream \in [Stream -> StreamType \cup {None}]
    <3>1. stream \in [Stream -> StreamType \cup {None}] /\ q \in StreamType
      BY <1>7, Parts
    <3> HIDE DEF m, r
    <3> QED BY <1>6, <3>1
  <2>2. m = [writer |-> m.writer, stream |-> m.stream, file |-> m.file]
    <3>1. Machine \in [writer : WriterType, stream : [Stream -> StreamType \cup {None}],
                       file : Seq(Partition)]
      BY Parts DEF MachineType
    <3>2. m = [Machine EXCEPT !.writer.generic = g, !.stream[s].eos = TRUE,
                              !.stream[s].sparse = sp]
      BY DEF g, sp
    <3> HIDE DEF m, r, s
    <3> QED BY <3>1, <3>2
  <2>3. m.writer \in WriterType /\ m.file \in Seq(Partition)
    BY <1>6, <1>8, Parts
  <2> HIDE DEF m
  <2> QED BY <2>1, <2>2, <2>3 DEF MachineType
<1>10. m.stream[s] \in StreamType
  BY <1>2, <1>6, <1>7, Parts
<1> HIDE DEF m
<1>11. Good(Machine) /\ Machine.stream = stream /\ Machine.writer = writer /\ Machine.file = file
  BY Parts
<1>12. Good(m) /\ Ahead(Machine, m)
  BY <1>2, <1>6, <1>7, <1>8, <1>9, <1>11, StreamChanged
<1>c. ASSUME OverInv PROVE Over(m) /\ m.writer.cur # 0
  BY <1>2, <1>6, <1>8, <1>a, <1>b, <1>c, <1>12, WritingOver
<1> DEFINE a == Advanced(m, s)
<1>13. Good(a) /\ Ahead(m, a) /\ Scheduled(m, a) /\ (OverInv => Over(a))
  BY <1>2, <1>10, <1>12, <1>c, AdvancedGood, AdvancedOver DEF Good
<1>14. a.writer = m.writer /\ a.stream = [m.stream EXCEPT ![s] = GetNextState(@)]
  BY <1>9 DEF Advanced, MachineType
<1> HIDE DEF a
<1>15. Ahead(Machine, a)
  BY <1>12, <1>13, Parts, AheadTwice
<1>16. Kept(q, a.stream[s])
  <2>1. m.stream[s] = q
    BY <1>2, <1>6, Parts
  <2>2. m.stream[s] # None
    BY <1>10, NoneAssumption
  <2> QED BY <1>2, <1>13, <2>1, <2>2 DEF Scheduled
<1>17. q.profile = r.profile /\ q.written = r.profile.units
  <2>1. q.profile = r.profile
    BY <1>2, <1>5 DEF q, StreamType
  <2>2. r.written = r.read
    BY <1>2, <1>a, ProfileParts DEF StreamInv
  <2> QED BY <1>7, <1>a, <2>1, <2>2
<1>18. \A t \in Stream : t # s => a.stream[t] = stream[t]
  <2> HIDE DEF r
  <2> QED BY <1>2, <1>6, <1>14, Parts
<1>19. a.stream[s].profile = r.profile /\ a.stream[s].written = r.profile.units
  BY <1>16, <1>17 DEF Kept
<1>20. Worked(a)
  BY <1>8, <1>6, <1>13, <1>14, <1>16, <1>18, <1>19 DEF Worked, Kept
<1> QED BY <1>1, <1>15, <1>19, <1>20 DEF a

\* It keeps the invariant.
LEMMA EssenceEndsInv ==
    ASSUME IInv, EssenceEnds
    PROVE  IInv' /\ Ahead(Machine, Machine') /\ (OverInv => OverInv')
<1>1. PICK n : Worked(n) /\ Ahead(Machine, n) /\ Return(Leave(n, CurStream(Machine)), call.ret)
  BY EssenceEndsStep
<1>2. Writing /\ call.ret \in Nat
  BY EssenceCall DEF EssenceEnds, EssenceCalls
<1>3. IInv' /\ Ahead(n, Machine') /\ (OverInv => OverInv')
  BY <1>1, <1>2, WorkedInv
<1> QED BY <1>1, <1>3, Parts, AheadTwice

(***************************************************************************)
(* The essence of a whole clip continues the last partition.               *)
(***************************************************************************)
LEMMA ClipContinues ==
    ASSUME NEW old \in Seq(Stream \X Nat), NEW s \in Stream, NEW n \in Nat, NEW c \in Nat,
           NEW clip, clip = [i \in 1 .. n |-> <<s, c + i - 1>>]
    PROVE  old \o clip \in Seq(Stream \X Nat) /\ Continues(old \o clip, old, n, s, c)
<1>1. \A i \in 1 .. n : <<s, c + i - 1>> \in Stream \X Nat
  OBVIOUS
<1>2. clip \in [1 .. n -> Stream \X Nat]
  BY <1>1
<1>3. clip \in Seq(Stream \X Nat) /\ Len(clip) = n
  BY <1>2
<1>4. /\ old \o clip \in Seq(Stream \X Nat) /\ Len(old \o clip) = Len(old) + n
      /\ \A k \in 1 .. Len(old) : (old \o clip)[k] = old[k]
      /\ \A k \in 1 .. n : (old \o clip)[Len(old) + k] = clip[k]
  BY <1>3
<1>5. \A k \in 1 .. n : clip[k] = <<s, c + k - 1>>
  OBVIOUS
<1> QED BY <1>4, <1>5 DEF Continues

\* One more unit continues the last partition.
LEMMA ItemContinues ==
    ASSUME NEW old \in Seq(Stream \X Nat), NEW s \in Stream, NEW c \in Nat
    PROVE  /\ Append(old, <<s, c>>) \in Seq(Stream \X Nat)
           /\ Continues(Append(old, <<s, c>>), old, 1, s, c)
<1> DEFINE e == Append(old, <<s, c>>)
<1>1. e \in Seq(Stream \X Nat) /\ Len(e) = Len(old) + 1
  OBVIOUS
<1>2. \A k \in 1 .. Len(old) : e[k] = old[k]
  OBVIOUS
<1>3. e[Len(old) + 1] = <<s, c>>
  OBVIOUS
<1>4. \A k \in 1 .. 1 : k = 1 /\ c + k - 1 = c
  OBVIOUS
<1> HIDE DEF e
<1> QED BY <1>1, <1>2, <1>3, <1>4 DEF Continues

\* Writing a whole clip.
LEMMA ClipEssenceStep ==
    ASSUME IInv, ClipEssence
    PROVE  LET s == CurStream(Machine) IN
           \E n, h : /\ Worked(n) /\ MachineOK(h) /\ Ahead(Machine, h) /\ Delivered(h, n)
                     /\ ~call.first => h.file = file
                     /\ h.file[Len(h.file)].body = s
                     /\ n.stream[s].written = n.stream[s].profile.units
                     /\ Return(Leave(n, s), 0)
<1> DEFINE s == CurStream(Machine)
           r == stream[s]
           g == [Machine EXCEPT
                    !.writer.generic = IF writer.sid # s THEN r.profile.generic ELSE @]
           m == Flushed(g)
           clip == [i \in 1 .. r.profile.units - r.read |-> <<s, r.read + i - 1>>]
           all == [r EXCEPT !.read = r.profile.units, !.written = r.profile.units,
                            !.eos = TRUE]
           sp == IF VBRIndex(r) THEN r.sparse \cup {LastNewEditUnit(all)} ELSE r.sparse
           q == [all EXCEPT !.sparse = sp]
           n == r.profile.units - r.read
           m1 == [m EXCEPT
                    !.file[Len(m.file)].essence = @ \o clip,
                    !.stream[s] = [all EXCEPT !.sparse =
                        IF VBRIndex(r) THEN @ \cup {LastNewEditUnit(all)} ELSE @]]
<1>1. r.profile.clip /\ Return(Leave(Advanced(m1, s), s), 0)
  BY DEF ClipEssence
<1>2. /\ call \in EssenceCalls /\ s \in Stream /\ r \in StreamType /\ StreamInv(r)
      /\ Serving(Machine, call.first) /\ writer.cur # 0
  BY EssenceCall DEF ClipEssence
<1>3. /\ n \in Nat /\ r.read = r.written /\ r.read \in Nat /\ r.profile.units \in Nat
      /\ ~r.pending /\ r.written + n = r.profile.units
  BY <1>1, <1>2, ProfileParts DEF StreamInv
<1>4. all \in StreamType /\ all.profile = r.profile /\ all.sparse = r.sparse
      /\ all.read = r.profile.units /\ all.written = r.profile.units
      /\ all.pending = r.pending /\ all.eos
      /\ all.state = r.state /\ all.active = r.active
  BY <1>2, <1>3 DEF StreamType
<1>5. sp \subseteq Int
  BY <1>2, <1>4, ProfileParts, LastNewEditUnitType
<1>6. /\ q = [all EXCEPT !.sparse =
                        IF VBRIndex(r) THEN @ \cup {LastNewEditUnit(all)} ELSE @]
      /\ q.written = r.written + n
  BY <1>3, <1>4 DEF StreamType
<1> HIDE DEF sp, all, clip, m, g, m1
<1>d. q.profile = r.profile
  BY <1>4, <1>5 DEF StreamType
<1>a. Later(r, q)
  <2>1. /\ q.read = all.read /\ q.profile = all.profile /\ q.pending = all.pending
        /\ q.eos = all.eos /\ q.state = all.state /\ q.active = all.active
    BY <1>4, <1>5 DEF StreamType
  <2> HIDE DEF q
  <2> QED BY <2>1, <1>3, <1>4 DEF Later, StreamEnd
<1>7. q \in StreamType /\ StreamInv(q)
  <2>1. /\ q \in StreamType /\ q.read = all.read /\ q.written = all.written
        /\ q.pending = all.pending /\ q.profile = all.profile
    BY <1>4, <1>5 DEF StreamType
  <2> HIDE DEF q
  <2> QED BY <2>1, <1>3, <1>4 DEF StreamInv
<1> HIDE DEF q
<1>8. /\ Good(m) /\ ~m.writer.pending /\ m.stream = stream
      /\ m.writer \in WriterType /\ m.file \in Seq(Partition) /\ m \in MachineType
      /\ m.file # << >> /\ m.file[Len(m.file)].body = s
      /\ Ahead(Machine, m) /\ Alike(Machine, m) /\ (~call.first => m.file = file)
  <2> DEFINE generic == IF writer.sid # s THEN r.profile.generic ELSE writer.generic
             h == Labelled(generic, writer.sid)
  <2>1. g = h
    BY Parts DEF MachineType, WriterType, g, Labelled
  <2>2. generic \in BOOLEAN
    BY <1>2, ProfileParts, Parts DEF WriterType
  <2> HIDE DEF generic, r
  <2>3. /\ Good(h) /\ Serving(h, call.first) /\ CurStream(h) = s /\ h.stream = stream
        /\ Ahead(Machine, h) /\ Alike(Machine, h)
    <3>1. Serving(Machine, call.first)
      BY <1>2
    <3> QED BY <2>2, <3>1, GenericGood
  <2> HIDE DEF h
  <2>4. /\ Serving(g, TRUE) /\ Good(g) /\ CurStream(g) = s /\ g.stream = stream
        /\ Ahead(Machine, g) /\ Alike(Machine, g)
    BY <2>1, <2>3 DEF Serving
  <2> HIDE DEF s
  <2>5. /\ Good(m) /\ ~m.writer.pending /\ m.stream = g.stream
        /\ m.file # << >> /\ m.file[Len(m.file)].body = CurStream(g)
        /\ Ahead(g, m) /\ Alike(g, m)
    <3> DEFINE f == Flushed(g)
    <3>1. /\ Good(f) /\ ~f.writer.pending /\ f.stream = g.stream
          /\ f.file # << >> /\ f.file[Len(f.file)].body = CurStream(g)
          /\ Ahead(g, f) /\ Alike(g, f)
      BY <2>4, FlushedServing
    <3> QED BY <3>1 DEF m
  <2>6. m.writer \in WriterType /\ m.file \in Seq(Partition) /\ m \in MachineType
    BY <2>5, MachineParts DEF Good
  <2>7. Ahead(Machine, m)
    BY <2>4, <2>5, Parts, AheadTwice
  <2>8. Alike(Machine, m)
    BY <2>4, <2>5 DEF Alike
  <2>9. ASSUME ~call.first PROVE m.file = file
    <3>1. g.file = file
      BY <2>1, Parts DEF Labelled, h
    <3> QED BY <2>1, <2>3, <2>9, <3>1 DEF m, Flushed, Serving
  <2> QED BY <2>4, <2>5, <2>6, <2>7, <2>8, <2>9
<1> DEFINE old == m.file[Len(m.file)].essence
           e == old \o clip
<1>9. old \in Seq(Stream \X Nat)
  <2>1. Len(m.file) \in DOMAIN m.file
    BY <1>8
  <2>2. m.file[Len(m.file)] \in Partition
    BY <1>8, <2>1
  <2> QED BY <2>2 DEF Partition
<1> DEFINE fs == [m.file EXCEPT ![Len(m.file)].essence = e]
           ss == [m.stream EXCEPT ![s] = q]
<1>10. m1 = [writer |-> m.writer, stream |-> ss, file |-> fs]
  <2> DEFINE x == [all EXCEPT !.sparse =
                        IF VBRIndex(r) THEN @ \cup {LastNewEditUnit(all)} ELSE @]
  <2>1. m1 = [m EXCEPT !.file[Len(m.file)].essence = @ \o clip, !.stream[s] = x]
    BY DEF m1
  <2>2. x = q
    BY <1>6
  <2> HIDE DEF x, r, s
  <2>3. m = [writer |-> m.writer, stream |-> m.stream, file |-> m.file]
    BY <1>8 DEF MachineType
  <2> QED BY <2>1, <2>2, <2>3
<1>11. m1 = Written(m, m.writer, s, q, e) /\ m1.stream = ss
  BY <1>10 DEF Written
<1>b. m1.writer = m.writer
  BY <1>10
<1>12. clip = [i \in 1 .. n |-> <<s, r.written + i - 1>>]
  BY <1>3 DEF clip
<1> HIDE DEF n, old, s, r, fs, ss
<1>13. e \in Seq(Stream \X Nat) /\ Continues(e, old, n, s, r.written)
  BY <1>2, <1>3, <1>9, <1>12, ClipContinues
<1> HIDE DEF e
<1>14. Continues(e, m.file[Len(m.file)].essence, n, s, m.stream[s].written)
  BY <1>13, <1>8 DEF old, r
<1>15. m.stream[s] \in StreamType /\ q.written = m.stream[s].written + n
  BY <1>2, <1>6, <1>8 DEF r
<1>16. Good(m1) /\ Delivered(m, m1)
  <2>1. /\ s \in Stream /\ n \in Nat /\ q \in StreamType /\ StreamInv(q)
        /\ e \in Seq(Stream \X Nat) /\ Good(m) /\ ~m.writer.pending
        /\ m.file # << >> /\ m.file[Len(m.file)].body = s /\ m.stream[s] \in StreamType
    BY <1>2, <1>3, <1>7, <1>8, <1>13, <1>15
  <2>2. m.writer \in WriterType /\ ~m.writer.pending
    BY <1>8
  <2> DEFINE v == m.writer
             c == m.stream[s].written
             last == m.file[Len(m.file)].essence
  <2>3. /\ v \in WriterType /\ v.list = m.writer.list /\ v.cur = m.writer.cur
        /\ ~v.pending /\ v.sid = m.writer.sid
        /\ v.state = m.writer.state /\ v.pack.type = m.writer.pack.type
    BY <2>2
  <2> HIDE DEF v
  <2>4. Good(Written(m, v, s, q, e)) /\ Delivered(m, Written(m, v, s, q, e))
    BY <2>1, <2>3, <1>14, <1>15, WrittenGood
  <2> QED BY <2>4, <1>11 DEF v
<1>17. m1.stream[s] \in StreamType
  BY <1>2, <1>7, <1>8, <1>11, Parts DEF ss
<1>c. ASSUME OverInv PROVE Over(m1) /\ m1.writer.cur # 0
  <2>1. /\ m1.writer.list = writer.list /\ m1.writer.state = writer.state
        /\ m1.writer.cur = writer.cur
    BY <1>8, <1>b, MachineFields DEF Alike
  <2>2. m1.stream = [stream EXCEPT ![s] = q]
    BY <1>8, <1>11 DEF ss
  <2>3. stream[s] # None /\ Later(stream[s], q)
    BY <1>2, <1>a, NoneAssumption DEF r
  <2> QED BY <1>2, <1>c, <1>16, <2>1, <2>2, <2>3, WritingOver
<1> DEFINE a == Advanced(m1, s)
<1>18. Good(a) /\ Quiet(m1, a) /\ Scheduled(m1, a) /\ (OverInv => Over(a))
  BY <1>2, <1>16, <1>17, <1>c, AdvancedGood, AdvancedOver DEF Good
<1>20. a.writer = m1.writer /\ a.stream = [m1.stream EXCEPT ![s] = GetNextState(@)]
  BY <1>10 DEF Advanced
<1> HIDE DEF a, m1
<1>21. Delivered(m, a)
  BY <1>16, <1>18, DeliveredQuiet
<1>22. Kept(q, a.stream[s])
  <2>1. m1.stream[s] = q
    BY <1>2, <1>8, <1>11, Parts DEF ss
  <2>2. m1.stream[s] # None
    BY <1>17, NoneAssumption
  <2> QED BY <1>2, <1>18, <2>1, <2>2 DEF Scheduled
<1>23. q.profile = r.profile /\ q.written = r.profile.units
  BY <1>3, <1>6, <1>d
<1>24. \A t \in Stream : t # s => a.stream[t] = stream[t]
  BY <1>2, <1>8, <1>11, <1>20, Parts DEF ss
<1>25. a.stream[s].profile = stream[s].profile /\ a.stream[s].written = r.profile.units
  BY <1>22, <1>23 DEF Kept, r
<1>26. /\ a.writer.list = writer.list /\ a.writer.cur = writer.cur
       /\ a.writer.state = writer.state
  BY <1>8, <1>20, <1>b, MachineFields DEF Alike
<1>27. Worked(a)
  BY <1>18, <1>22, <1>24, <1>25, <1>26 DEF Worked, Kept, s
<1>28. a.stream[s].written = a.stream[s].profile.units
  BY <1>25 DEF r
<1>19. Return(Leave(a, s), 0)
  BY <1>1 DEF s, a, m1
<1> QED BY <1>8, <1>19, <1>21, <1>27, <1>28 DEF Good, s

\* It keeps the invariant.
LEMMA ClipEssenceInv ==
    ASSUME IInv, ClipEssence
    PROVE  IInv' /\ Wrote(Machine, Machine') /\ (OverInv => OverInv')
<1>1. PICK n, h : /\ Worked(n) /\ MachineOK(h) /\ Ahead(Machine, h) /\ Delivered(h, n)
                  /\ Return(Leave(n, CurStream(Machine)), 0)
  BY ClipEssenceStep
<1>2. Writing
  BY DEF ClipEssence
<1>3. IInv' /\ Quiet(n, Machine') /\ (OverInv => OverInv')
  BY <1>1, <1>2, WorkedInv
<1> QED BY <1>1, <1>3, DeliveredQuiet DEF Wrote

(***************************************************************************)
(* Fetched(s) taken apart: the machine that has not read yet and the       *)
(* stream that has.                                                        *)
(***************************************************************************)
Unread(s) ==
    LET g == IF Reading(stream[s]) THEN Labelled(GenericNow(stream[s]), s) ELSE Machine
    IN IF call.first THEN Flushed(g) ELSE g

\* See Unread.
ReadStream(s) ==
    LET r == stream[s]
    IN IF Reading(r) THEN [r EXCEPT !.read = @ + 1, !.sparse = Noted(r)] ELSE r

\* WritePartitionPack neither reads nor changes the streams.
LEMMA StreamBlind ==
    ASSUME NEW m \in MachineType, NEW str, NEW n,
           n = [writer |-> m.writer, stream |-> str, file |-> m.file]
    PROVE  Flushed(n) = [writer |-> Flushed(m).writer, stream |-> str,
                         file |-> Flushed(m).file]
<1>1. m = [writer |-> m.writer, stream |-> m.stream, file |-> m.file]
  BY DEF MachineType
<1>2. n.writer = m.writer /\ n.file = m.file /\ n.stream = str
  OBVIOUS
<1>3. CASE ~m.writer.pending
  BY <1>2, <1>3 DEF Flushed
<1>4. CASE m.writer.pending
  <2> DEFINE w == m.writer
             pack == [w.pack EXCEPT !.type = IF w.generic THEN "Generic" ELSE @]
             meta == w.header \/ w.meta \/ (~w.footer /\ HandlerMetadata)
             p == [type |-> pack.type, body |-> pack.body, offset |-> pack.offset,
                   index |-> pack.index, table |-> w.table, meta |-> meta,
                   essence |-> << >>]
             v == [w EXCEPT
                     !.pack = IF w.table = None THEN pack ELSE [pack EXCEPT !.index = None],
                     !.table = None, !.pending = FALSE, !.header = FALSE,
                     !.footer = FALSE, !.meta = FALSE, !.done = FALSE, !.sid = None,
                     !.generic = FALSE]
  <2>1. WritePartitionPack(m) = [m EXCEPT !.file = Append(m.file, p), !.writer = v]
    BY DEF WritePartitionPack
  <2>2. WritePartitionPack(n) = [n EXCEPT !.file = Append(m.file, p), !.writer = v]
    BY <1>2 DEF WritePartitionPack
  <2> HIDE DEF p, v
  <2>3. /\ Flushed(m) = [m EXCEPT !.file = Append(m.file, p), !.writer = v]
        /\ Flushed(n) = [n EXCEPT !.file = Append(m.file, p), !.writer = v]
    BY <1>2, <1>4, <2>1, <2>2 DEF Flushed
  <2>4. Flushed(m) = [writer |-> v, stream |-> m.stream, file |-> Append(m.file, p)]
    BY <1>1, <2>3
  <2>5. Flushed(n) = [writer |-> v, stream |-> str, file |-> Append(m.file, p)]
    BY <2>3
  <2> QED BY <2>4, <2>5
<1> QED BY <1>3, <1>4

\* Fetched is Unread with the stream that has read.
LEMMA FetchedParts ==
    ASSUME IInv, Writing
    PROVE  LET s == CurStream(Machine) IN
           Fetched(s) = [writer |-> Unread(s).writer,
                         stream |-> [stream EXCEPT ![s] = ReadStream(s)],
                         file |-> Unread(s).file]
<1> DEFINE s == CurStream(Machine)
           r == stream[s]
           g == IF Reading(r) THEN Labelled(GenericNow(r), s) ELSE Machine
           m == IF Reading(r)
                THEN [Machine EXCEPT !.writer.generic = GenericNow(r),
                                     !.writer.sid = s,
                                     !.stream[s] = [r EXCEPT !.read = @ + 1,
                                                             !.sparse = Noted(r)]]
                ELSE Machine
           str == [stream EXCEPT ![s] = ReadStream(s)]
<1>1. s \in Stream /\ r \in StreamType
  BY EssenceCall
<1>2. /\ Machine \in MachineType
      /\ Machine = [writer |-> writer, stream |-> stream, file |-> file]
      /\ stream \in [Stream -> StreamType \cup {None}]
      /\ writer.list \in Seq(Stream)
  BY Parts DEF Machine
<1> HIDE DEF s
<1>3. g = [writer |-> g.writer, stream |-> stream, file |-> file]
  BY <1>2 DEF Labelled
<1>4. m = [writer |-> g.writer, stream |-> str, file |-> g.file]
  <2>1. CASE Reading(r)
    <3> DEFINE gn == GenericNow(r)
               nt == Noted(r)
               q == [r EXCEPT !.read = @ + 1, !.sparse = nt]
    <3> HIDE DEF gn, nt
    <3>1. ReadStream(s) = q
      BY <2>1 DEF ReadStream, nt
    <3>2. m = [Machine EXCEPT !.writer.generic = gn, !.writer.sid = s,
                              !.stream[s] = [r EXCEPT !.read = @ + 1, !.sparse = nt]]
      BY <2>1 DEF gn, nt
    <3>3. g = [Machine EXCEPT !.writer.generic = gn, !.writer.sid = s]
      BY <2>1 DEF gn, Labelled
    <3>4. g.writer = [writer EXCEPT !.generic = gn, !.sid = s]
      BY <1>2, <3>3
    <3>5. m.writer = [writer EXCEPT !.generic = gn, !.sid = s] /\ m.file = file
      BY <1>2, <3>2
    <3>6. m.stream = str
      <4>1. m = [Machine EXCEPT !.writer.generic = gn, !.writer.sid = s, !.stream[s] = q]
        BY <3>2
      <4> HIDE DEF q, m
      <4>2. m.stream = [stream EXCEPT ![s] = q]
        BY <1>2, <4>1
      <4> QED BY <3>1, <4>2
    <3>7. m = [writer |-> m.writer, stream |-> m.stream, file |-> m.file]
      BY <1>2, <3>2
    <3> HIDE DEF m, g, str
    <3> QED BY <1>3, <3>4, <3>5, <3>6, <3>7
  <2>2. CASE ~Reading(r)
    BY <1>1, <1>2, <2>2 DEF ReadStream
  <2> QED BY <2>1, <2>2
<1>5. g \in MachineType
  <2>1. CASE Reading(r)
    <3>1. GenericNow(r) \in BOOLEAN
      BY <1>1, ProfileParts, Parts DEF GenericNow, WriterType
    <3>2. Good(Labelled(GenericNow(r), s))
      BY <3>1, EssenceCall, GenericGood DEF s
    <3> QED BY <2>1, <3>2 DEF Good, MachineOK
  <2>2. CASE ~Reading(r)
    BY <1>2, <2>2
  <2> QED BY <2>1, <2>2
<1>6. Fetched(s) = IF call.first THEN Flushed(m) ELSE m
  BY DEF Fetched
<1>7. Unread(s) = IF call.first THEN Flushed(g) ELSE g
  BY DEF Unread
<1> HIDE DEF m, g, str
<1>8. Flushed(m) = [writer |-> Flushed(g).writer, stream |-> str, file |-> Flushed(g).file]
  BY <1>4, <1>5, StreamBlind
<1>9. Fetched(s) = [writer |-> Unread(s).writer, stream |-> str, file |-> Unread(s).file]
  BY <1>4, <1>6, <1>7, <1>8
<1> QED BY <1>9 DEF s, str

\* Before the read is counted the machine is good and its partition open.
LEMMA UnreadGood ==
    ASSUME IInv, Writing
    PROVE  LET s == CurStream(Machine)
               f == Unread(s)
           IN /\ Good(f) /\ ~f.writer.pending /\ f.stream = stream
              /\ f.writer.list = writer.list /\ f.writer.cur = writer.cur
              /\ f.file # << >> /\ f.file[Len(f.file)].body = s
              /\ Ahead(Machine, f) /\ Alike(Machine, f)
<1> DEFINE s == CurStream(Machine)
           r == stream[s]
           g == IF Reading(r) THEN Labelled(GenericNow(r), s) ELSE Machine
           first == call.first
<1>1. r \in StreamType /\ Serving(Machine, first)
  BY EssenceCall
<1>2. /\ Good(g) /\ Serving(g, first) /\ CurStream(g) = s
      /\ g.stream = stream /\ g.writer.list = writer.list
      /\ g.writer.cur = writer.cur /\ Ahead(Machine, g) /\ Alike(Machine, g)
  <2>1. CASE Reading(r)
    <3>1. GenericNow(r) \in BOOLEAN
      BY <1>1, ProfileParts, Parts DEF GenericNow, WriterType
    <3> DEFINE gn == GenericNow(r)
    <3> HIDE DEF gn, first
    <3>2. LET n == Labelled(gn, s) IN
          /\ Good(n) /\ Serving(n, first) /\ CurStream(n) = CurStream(Machine)
          /\ n.stream = stream /\ n.writer.list = writer.list
          /\ n.writer.cur = writer.cur /\ Ahead(Machine, n) /\ Alike(Machine, n)
      BY <1>1, <3>1, GenericGood DEF gn
    <3>3. g = Labelled(gn, s)
      BY <2>1 DEF gn
    <3> QED BY <3>2, <3>3
  <2>2. CASE ~Reading(r)
    BY <1>1, <2>2, Parts DEF Alike
  <2> QED BY <2>1, <2>2
<1>3. Unread(s) = IF first THEN Flushed(g) ELSE g
  BY DEF Unread
<1> DEFINE f == IF first THEN Flushed(g) ELSE g
<1> HIDE DEF g, first
<1>4. /\ Good(f) /\ ~f.writer.pending /\ f.stream = g.stream
      /\ f.writer.list = g.writer.list /\ f.writer.cur = g.writer.cur
      /\ f.file # << >> /\ f.file[Len(f.file)].body = CurStream(g)
      /\ Ahead(g, f) /\ Alike(g, f)
  BY <1>2, FlushedServing
<1> HIDE DEF f, s
<1>5. /\ Good(f) /\ ~f.writer.pending /\ f.stream = stream
      /\ f.writer.list = writer.list /\ f.writer.cur = writer.cur
      /\ f.file # << >> /\ f.file[Len(f.file)].body = s
      /\ Ahead(Machine, f) /\ Alike(Machine, f)
  BY <1>2, <1>4, Parts, AheadTwice DEF Alike
<1>6. Unread(s) = f
  BY <1>3 DEF f
<1> QED BY <1>5, <1>6 DEF s

\* After it exactly one unit is in the writer.
LEMMA ReadStreamType ==
    ASSUME IInv, Writing, HasEssence(stream[CurStream(Machine)])
    PROVE  LET r == stream[CurStream(Machine)]
               q == ReadStream(CurStream(Machine))
           IN /\ q \in StreamType /\ q.read = r.written + 1 /\ q.written = r.written
              /\ q.read <= q.profile.units /\ ~q.profile.clip
              /\ q.state = r.state /\ q.eos = r.eos /\ q.active = r.active
              /\ q.profile = r.profile
<1> DEFINE s == CurStream(Machine)
           r == stream[s]
           nt == Noted(r)
           q == ReadStream(s)
<1>1. r \in StreamType /\ StreamInv(r)
  BY EssenceCall
<1>2. /\ r.read \in Nat /\ r.written \in Nat /\ r.profile.units \in Nat
      /\ r.sparse \subseteq Int /\ r.pending \in BOOLEAN
  BY <1>1, ProfileParts
<1>3. nt \subseteq Int
  BY <1>2 DEF Noted
<1>4. ~r.profile.clip /\ (r.pending \/ r.read < r.profile.units)
  BY DEF HasEssence
<1>5. q = IF ~r.pending THEN [r EXCEPT !.read = @ + 1, !.sparse = nt] ELSE r
  BY DEF ReadStream, Reading
<1> HIDE DEF r, nt, q
<1>6. CASE r.pending
  BY <1>1, <1>2, <1>4, <1>5, <1>6 DEF StreamInv, r, q
<1>7. CASE ~r.pending
  <2>1. /\ q \in StreamType /\ q.read = r.read + 1 /\ q.written = r.written
        /\ q.profile = r.profile
        /\ q.state = r.state /\ q.eos = r.eos /\ q.active = r.active
    <3>1. q = [r EXCEPT !.read = @ + 1, !.sparse = nt] /\ r.read + 1 \in Nat
      BY <1>2, <1>5, <1>7
    <3>2. r \in StreamType
      BY <1>1 DEF r
    <3> QED BY <3>1, <3>2, <1>3 DEF StreamType
  <2> QED BY <1>1, <1>2, <1>4, <1>7, <2>1 DEF StreamInv, r, q
<1> QED BY <1>6, <1>7

(***************************************************************************)
(* A stream that still has essence is not at its end, so that its writer   *)
(* is not in its footer either; reading or writing a unit is not the end.  *)
(***************************************************************************)
OnAir(r) == ~r.eos /\ r.active /\ r.state \notin Spent

\* See above.
LEMMA OnAirReading ==
    ASSUME NEW r \in StreamType, HasEssence(r)
    PROVE  ~StreamEnd(r) \/ OnAir(r)
<1>1. r.read \in Nat /\ r.profile.units \in Nat /\ r.pending \in BOOLEAN
  BY ProfileParts
<1>2. StreamEnd(r) => ~r.eos
  BY <1>1 DEF StreamEnd, HasEssence
<1> QED BY <1>2 DEF StreamEnd, OnAir, Spent

\* See above.
LEMMA OnAirLater ==
    ASSUME NEW r, ~StreamEnd(r) \/ OnAir(r), NEW q \in StreamType,
           q.state = r.state, q.eos = r.eos, q.active = r.active
    PROVE  Later(r, q) /\ Later(r, GetNextState(q))
<1>1. Later(r, q)
  BY DEF Later, StreamEnd, OnAir, Spent
<1>2. Later(q, GetNextState(q))
  BY GetNextStateLater
<1> QED BY <1>1, <1>2 DEF Later

\* Leaving with a unit held in the writer.
LEMMA EssenceHeldStep ==
    ASSUME IInv, NEW burst \in BOOLEAN, EssenceHeld(burst)
    PROVE  LET s == CurStream(Machine) IN
           ~call.first /\ \E n : /\ Worked(n) /\ Ahead(Machine, n)
                                 /\ Return(Leave(n, s), call.ret + 1)
<1> DEFINE s == CurStream(Machine)
           f == Unread(s)
           m == Fetched(s)
           r == m.stream[s]
           rs == ReadStream(s)
           sp == IF VBRIndex(r) /\ "SparseFooter" \in r.index
                 THEN r.sparse \cup {LastNewEditUnit(r)} ELSE r.sparse
           held == [r EXCEPT !.pending = TRUE, !.stopAfter = Less(@), !.sparse = sp]
           q == IF call.close THEN GetNextState(held) ELSE held
           m1 == [m EXCEPT
                    !.writer.done = @ \/ r.stopAfter = 1 \/ call.close,
                    !.stream[s] = IF call.close THEN GetNextState(held) ELSE held]
<1>1. HasEssence(stream[s]) /\ Writing /\ Return(Leave(m1, s), call.ret + 1)
  BY DEF EssenceHeld
<1>2. /\ call \in EssenceCalls /\ s \in Stream /\ stream[s] \in StreamType
      /\ stream[s] # None /\ writer.cur # 0
  BY <1>1, EssenceCall, NoneAssumption
<1>3. call.ret + 1 \in Nat
  BY <1>2 DEF EssenceCalls
<1>4. m = [writer |-> f.writer, stream |-> [stream EXCEPT ![s] = rs], file |-> f.file]
  BY <1>1, FetchedParts
<1>5. /\ Good(f) /\ ~f.writer.pending /\ f.stream = stream
      /\ f.writer.list = writer.list /\ f.writer.cur = writer.cur
      /\ Ahead(Machine, f) /\ f.writer.state = writer.state
  BY <1>1, UnreadGood, MachineFields DEF Alike
<1>6. /\ rs \in StreamType /\ rs.read = stream[s].written + 1
      /\ rs.written = stream[s].written /\ rs.read <= rs.profile.units
      /\ ~rs.profile.clip /\ rs.state = stream[s].state
      /\ rs.eos = stream[s].eos /\ rs.active = stream[s].active
      /\ rs.profile = stream[s].profile
  BY <1>1, ReadStreamType
<1>a. ~StreamEnd(stream[s]) \/ OnAir(stream[s])
  BY <1>1, <1>2, OnAirReading
<1>7. f.writer \in WriterType /\ f.file \in Seq(Partition) /\ f \in MachineType
  BY <1>5, MachineParts DEF Good
<1> HIDE DEF m, f, rs, s
<1>8. r = rs
  BY <1>2, <1>4, Parts
<1> HIDE DEF r
<1>9. sp \subseteq Int /\ r.stopAfter \in Nat
  BY <1>6, <1>8, ProfileParts, LastNewEditUnitType
<1> HIDE DEF sp
<1>10. Less(r.stopAfter) \in Nat
  BY <1>9 DEF Less
<1>11. /\ held \in StreamType /\ held.read = rs.read /\ held.written = rs.written
       /\ held.pending /\ held.profile = rs.profile
       /\ held.state = rs.state /\ held.eos = rs.eos /\ held.active = rs.active
  BY <1>6, <1>8, <1>9, <1>10 DEF StreamType
<1> HIDE DEF held
<1>12. StreamInv(held)
  BY <1>6, <1>11 DEF StreamInv
<1>13. q \in StreamType /\ StreamInv(q) /\ q.written = stream[s].written
  BY <1>6, <1>11, <1>12, GetNextStateKept, KeptInv DEF Kept
<1>b. Later(stream[s], q)
  BY <1>a, <1>6, <1>11, OnAirLater DEF q
<1> DEFINE v == [f.writer EXCEPT !.done = @ \/ r.stopAfter = 1 \/ call.close]
<1>14. /\ v \in WriterType /\ v.list = f.writer.list /\ v.cur = f.writer.cur
       /\ v.pending = f.writer.pending /\ v.sid = f.writer.sid /\ v.pack = f.writer.pack
       /\ v.state = f.writer.state
  <2> DEFINE done == f.writer.done \/ r.stopAfter = 1 \/ call.close
  <2>1. done \in BOOLEAN
    OBVIOUS
  <2> HIDE DEF done
  <2>2. v = [f.writer EXCEPT !.done = done]
    BY DEF done
  <2> HIDE DEF v
  <2> QED BY <1>7, <2>1, <2>2 DEF WriterType
<1>15. m1.writer = v /\ m1.stream = [stream EXCEPT ![s] = q] /\ m1.file = f.file
       /\ m1 = [writer |-> m1.writer, stream |-> m1.stream, file |-> m1.file]
  <2>1. m1 = [m EXCEPT
                    !.writer.done = @ \/ r.stopAfter = 1 \/ call.close,
                    !.stream[s] = q]
    OBVIOUS
  <2> HIDE DEF q, m1
  <2>2. m.writer = f.writer /\ m.stream = [stream EXCEPT ![s] = rs] /\ m.file = f.file
    BY <1>4
  <2>3. m1.writer = v /\ m1.file = f.file
        /\ m1 = [writer |-> m1.writer, stream |-> m1.stream, file |-> m1.file]
    BY <1>4, <2>1, <2>2
  <2>4. m1.stream = [m.stream EXCEPT ![s] = q]
    BY <1>4, <2>1, <2>2
  <2> QED BY <2>2, <2>3, <2>4
<1> HIDE DEF q, v, m1
<1>16. m1.stream \in [Stream -> StreamType \cup {None}] /\ m1.stream[s] \in StreamType
  <2>1. stream \in [Stream -> StreamType \cup {None}] /\ q \in StreamType /\ s \in Stream
    BY <1>2, <1>13, Parts
  <2> QED BY <1>15, <2>1
<1>17. m1 \in MachineType
  BY <1>7, <1>14, <1>15, <1>16 DEF MachineType
<1>18. Good(m1) /\ Ahead(f, m1)
  BY <1>2, <1>5, <1>13, <1>14, <1>15, <1>17, StreamChanged
<1>19. Ahead(Machine, m1)
  BY <1>5, <1>18, Parts, AheadTwice
<1>20. /\ m1.writer.list = writer.list /\ m1.writer.cur = writer.cur
       /\ m1.writer.state = writer.state
  BY <1>5, <1>14, <1>15
<1>c. OverInv => Over(m1)
  BY <1>2, <1>15, <1>18, <1>20, <1>b, WritingOver
<1>21. q.profile = stream[s].profile
  BY <1>6, <1>11, GetNextStateKept DEF Kept, q
<1>22. /\ \A t \in Stream : t # s => m1.stream[t] = stream[t]
       /\ m1.stream[s] = q
  BY <1>2, <1>15, Parts
<1>23. Worked(m1)
  BY <1>13, <1>18, <1>20, <1>21, <1>22, <1>c DEF Worked, s
<1>24. Return(Leave(m1, s), call.ret + 1) /\ ~call.first
  BY <1>1 DEF EssenceHeld, s
<1> QED BY <1>19, <1>23, <1>24 DEF s

\* It keeps the invariant.
LEMMA EssenceHeldInv ==
    ASSUME IInv, NEW burst \in BOOLEAN, EssenceHeld(burst)
    PROVE  IInv' /\ Ahead(Machine, Machine') /\ (OverInv => OverInv')
<1> DEFINE ret == call.ret + 1
<1>1. PICK n : Worked(n) /\ Ahead(Machine, n) /\ Return(Leave(n, CurStream(Machine)), ret)
  BY EssenceHeldStep
<1>2. Writing /\ ret \in Nat
  BY EssenceCall DEF EssenceHeld, EssenceCalls
<1> HIDE DEF ret
<1>3. IInv' /\ Ahead(n, Machine') /\ (OverInv => OverInv')
  BY <1>1, <1>2, WorkedInv
<1> QED BY <1>1, <1>3, Parts, AheadTwice

\* What the call of WriteEssence goes on with after a unit.
GoesOn(n) == Become(n) /\ call' \in EssenceCalls /\ ~call'.first /\ body' = body

\* Writing the unit.
LEMMA EssenceWrittenStep ==
    ASSUME IInv, NEW burst \in BOOLEAN, NEW editPoint, EssenceWritten(burst, editPoint)
    PROVE  LET s == CurStream(Machine) IN
           \E n, h : /\ Worked(n) /\ MachineOK(h) /\ Ahead(Machine, h) /\ Delivered(h, n)
                     /\ Serving(n, FALSE) /\ CurStream(n) = s
                     /\ ~call.first => h.file = file
                     /\ h.file[Len(h.file)].body = s
                     /\ n.stream[s].written = stream[s].written + 1
                     /\ Return(Leave(n, s), call.ret + 1) \/ GoesOn(n)
<1> DEFINE s == CurStream(Machine)
           f == Unread(s)
           m == Fetched(s)
           r == m.stream[s]
           rs == ReadStream(s)
           last == r.stopAfter = 1
           out == [r EXCEPT !.pending = FALSE, !.stopAfter = Less(@), !.written = @ + 1]
           q == IF last THEN GetNextState(out) ELSE out
           m1 == [m EXCEPT
                    !.file[Len(m.file)].essence = Append(@, <<s, r.read - 1>>),
                    !.writer.done = @ \/ last,
                    !.stream[s] = IF last THEN GetNextState(out) ELSE out]
           now == [call EXCEPT !.first = FALSE, !.asap = Asap(burst),
                               !.left = Less(@), !.ret = @ + 1,
                               !.sparse = IF Reading(stream[s]) THEN FALSE ELSE @]
<1>1. /\ HasEssence(stream[s]) /\ Writing
      /\ \/ Return(Leave(m1, s), call.ret + 1)
         \/ Become(m1) /\ call' = now /\ UNCHANGED body
  BY DEF EssenceWritten
<1>2. /\ call \in EssenceCalls /\ s \in Stream /\ stream[s] \in StreamType
      /\ stream[s] # None /\ writer.cur # 0
  BY <1>1, EssenceCall, NoneAssumption
<1>3. call.ret + 1 \in Nat
  BY <1>2 DEF EssenceCalls
<1>4. m = [writer |-> f.writer, stream |-> [stream EXCEPT ![s] = rs], file |-> f.file]
  BY <1>1, FetchedParts
<1>5. /\ Good(f) /\ ~f.writer.pending /\ f.stream = stream
      /\ f.writer.list = writer.list /\ f.writer.cur = writer.cur
      /\ f.file # << >> /\ f.file[Len(f.file)].body = s
      /\ Ahead(Machine, f) /\ f.writer.state = writer.state
  BY <1>1, UnreadGood, MachineFields DEF Alike
<1>a. ~StreamEnd(stream[s]) \/ OnAir(stream[s])
  BY <1>1, <1>2, OnAirReading
<1>6. /\ rs \in StreamType /\ rs.read = stream[s].written + 1
      /\ rs.written = stream[s].written /\ rs.read <= rs.profile.units
      /\ ~rs.profile.clip /\ rs.state = stream[s].state
      /\ rs.eos = stream[s].eos /\ rs.active = stream[s].active /\ stream[s].written \in Nat
      /\ rs.profile = stream[s].profile
  BY <1>1, <1>2, ReadStreamType, ProfileParts
<1>7. f.writer \in WriterType /\ f.file \in Seq(Partition) /\ f \in MachineType
  BY <1>5, MachineParts DEF Good
<1>8. s = writer.list[writer.cur]
  BY Parts DEF CurStream
<1> HIDE DEF m, f, rs, s
<1>9. r = rs
  BY <1>2, <1>4, Parts
<1> HIDE DEF r
<1>10. Less(r.stopAfter) \in Nat
  BY <1>6, <1>9, ProfileParts DEF Less
<1>11. /\ out \in StreamType /\ out.read = rs.read /\ out.written = stream[s].written + 1
       /\ ~out.pending /\ out.profile = rs.profile
       /\ out.state = rs.state /\ out.eos = rs.eos /\ out.active = rs.active
  BY <1>6, <1>9, <1>10 DEF StreamType
<1> HIDE DEF out, last
<1>12. StreamInv(out)
  BY <1>6, <1>11 DEF StreamInv
<1>13. q \in StreamType /\ StreamInv(q) /\ q.written = stream[s].written + 1
  BY <1>11, <1>12, GetNextStateKept, KeptInv DEF Kept
<1>b. Later(stream[s], q)
  BY <1>a, <1>6, <1>11, OnAirLater DEF q
<1> DEFINE v == [f.writer EXCEPT !.done = @ \/ last]
<1>14. /\ v \in WriterType /\ v.list = f.writer.list /\ v.cur = f.writer.cur
       /\ ~v.pending /\ v.sid = f.writer.sid
       /\ v.state = f.writer.state /\ v.pack.type = f.writer.pack.type
  <2> DEFINE done == f.writer.done \/ last
  <2>1. done \in BOOLEAN
    OBVIOUS
  <2> HIDE DEF done
  <2>2. v = [f.writer EXCEPT !.done = done]
    BY DEF done
  <2> HIDE DEF v
  <2> QED BY <1>5, <1>7, <2>1, <2>2 DEF WriterType
<1> DEFINE old == f.file[Len(f.file)].essence
           c == stream[s].written
           e == Append(old, <<s, c>>)
<1>15. old \in Seq(Stream \X Nat)
  <2>1. Len(f.file) \in DOMAIN f.file
    BY <1>5, <1>7
  <2>2. f.file[Len(f.file)] \in Partition
    BY <1>7, <2>1
  <2> QED BY <2>2 DEF Partition
<1>16. m1 = Written(f, v, s, q, e)
  <2>1. m1 = [m EXCEPT
                    !.file[Len(m.file)].essence = Append(@, <<s, r.read - 1>>),
                    !.writer.done = @ \/ last,
                    !.stream[s] = q]
    OBVIOUS
  <2>2. r.read - 1 = c
    BY <1>6, <1>9
  <2> HIDE DEF q, m1
  <2>3. m.writer = f.writer /\ m.stream = [stream EXCEPT ![s] = rs] /\ m.file = f.file
    BY <1>4
  <2> DEFINE fs == [f.file EXCEPT ![Len(f.file)].essence = e]
             ss == [stream EXCEPT ![s] = q]
  <2>4. [m.stream EXCEPT ![s] = q] = ss
    BY <2>3
  <2>5. [m.file EXCEPT ![Len(m.file)].essence = Append(@, <<s, r.read - 1>>)] = fs
    BY <2>2, <2>3
  <2>6. m1 = [writer |-> [m.writer EXCEPT !.done = @ \/ last],
              stream |-> [m.stream EXCEPT ![s] = q],
              file |-> [m.file EXCEPT ![Len(m.file)].essence = Append(@, <<s, r.read - 1>>)]]
    BY <1>4, <2>1
  <2>7. m1 = [writer |-> v, stream |-> ss, file |-> fs]
    BY <2>3, <2>4, <2>5, <2>6
  <2> QED BY <1>5, <2>7 DEF Written
<1> HIDE DEF q, v, old, m1
<1>17. e \in Seq(Stream \X Nat) /\ Continues(e, old, 1, s, c)
  BY <1>2, <1>6, <1>15, ItemContinues
<1> HIDE DEF e
<1>18. Continues(e, f.file[Len(f.file)].essence, 1, s, f.stream[s].written)
  BY <1>5, <1>17 DEF old
<1>19. LET o == Written(f, v, s, q, e) IN
       Good(o) /\ o.file # << >> /\ o.file[Len(o.file)].body = s /\ Delivered(f, o)
  <2> DEFINE n == 1
  <2>1. /\ f.stream[s] \in StreamType /\ q.written = f.stream[s].written + n /\ n \in Nat
        /\ Continues(e, f.file[Len(f.file)].essence, n, s, f.stream[s].written)
    BY <1>2, <1>5, <1>13, <1>18
  <2> HIDE DEF n
  <2>2. /\ Good(f) /\ ~f.writer.pending /\ f.file # << >>
        /\ f.file[Len(f.file)].body = s /\ s \in Stream
        /\ q \in StreamType /\ StreamInv(q) /\ e \in Seq(Stream \X Nat)
    BY <1>2, <1>5, <1>13, <1>17
  <2>3. /\ v \in WriterType /\ v.list = f.writer.list /\ v.cur = f.writer.cur
        /\ ~v.pending /\ v.sid = f.writer.sid
        /\ v.state = f.writer.state /\ v.pack.type = f.writer.pack.type
    BY <1>14
  <2> DEFINE o == Written(f, v, s, q, e)
  <2>4. Good(o) /\ Delivered(f, o)
    BY <2>1, <2>2, <2>3, WrittenGood
  <2>5. o.file # << >> /\ o.file[Len(o.file)].body = s
    <3>1. f.file \in Seq(Partition) /\ f.file # << >> /\ f.file[Len(f.file)].body = s
      BY <1>7, <2>2
    <3>2. o.file = [f.file EXCEPT ![Len(f.file)].essence = e]
      BY DEF Written
    <3>3. o.file \in Seq(Partition)
      BY <2>4, MachineParts DEF Good
    <3> HIDE DEF o
    <3> QED BY <3>1, <3>2, <3>3, SameBody
  <2> QED BY <2>4, <2>5
<1>20. /\ Good(m1) /\ m1.file # << >> /\ m1.file[Len(m1.file)].body = s
       /\ m1.writer = v /\ Delivered(f, m1)
  BY <1>16, <1>19 DEF Written
<1>c. m1.stream = [stream EXCEPT ![s] = q]
  BY <1>5, <1>16 DEF Written
<1>21. /\ m1.writer.list = writer.list /\ m1.writer.state = writer.state
       /\ m1.writer.cur = writer.cur
  BY <1>5, <1>14, <1>20
<1>d. OverInv => Over(m1)
  BY <1>2, <1>20, <1>b, <1>c, <1>21, WritingOver
<1>22. q.profile = stream[s].profile
  BY <1>6, <1>11, GetNextStateKept DEF Kept, q
<1>23. /\ \A t \in Stream : t # s => m1.stream[t] = stream[t]
       /\ m1.stream[s] = q
  BY <1>2, <1>c, Parts
<1>24. Worked(m1) /\ m1.stream[s].written = stream[s].written + 1
  BY <1>13, <1>20, <1>21, <1>22, <1>23, <1>d DEF Worked, s
<1>25. CurStream(m1) = s
  BY <1>8, <1>21 DEF CurStream
<1>26. Serving(m1, FALSE)
  BY <1>2, <1>14, <1>20, <1>21, <1>25 DEF Serving
<1>27. ~call.first => f.file = file
  <2> SUFFICES ASSUME ~call.first PROVE f.file = file
    OBVIOUS
  <2>1. f.file = Machine.file
    BY DEF f, Unread, Labelled
  <2> QED BY <2>1, MachineFields
<1>28. now \in EssenceCalls /\ ~now.first
  <2> DEFINE asap == Asap(burst)
             sp == IF Reading(stream[s]) THEN FALSE ELSE call.sparse
             left == Less(call.left)
             ret == call.ret + 1
  <2>1. asap \in BOOLEAN
    BY DEF Asap
  <2>2. sp \in BOOLEAN
    BY <1>2 DEF EssenceCalls
  <2>3. left \in Nat
    BY <1>2 DEF EssenceCalls, Less
  <2>4. now = [call EXCEPT !.first = FALSE, !.asap = asap, !.left = left,
                           !.ret = ret, !.sparse = sp]
    OBVIOUS
  <2>5. ret \in Nat
    BY <1>3
  <2> HIDE DEF asap, sp, left, ret, now
  <2> QED BY <1>2, <2>1, <2>2, <2>3, <2>4, <2>5 DEF EssenceCalls
<1>29. \/ Return(Leave(m1, s), call.ret + 1)
       \/ Become(m1) /\ call' = now /\ UNCHANGED body
  BY <1>1 DEF s, m1
<1> HIDE DEF now
<1>30. Return(Leave(m1, s), call.ret + 1) \/ GoesOn(m1)
  BY <1>28, <1>29 DEF GoesOn
<1>31. MachineOK(f) /\ Ahead(Machine, f) /\ Delivered(f, m1) /\ f.file[Len(f.file)].body = s
  BY <1>5, <1>20 DEF Good
<1> QED BY <1>24, <1>25, <1>26, <1>27, <1>30, <1>31 DEF s

\* It keeps the invariant.
LEMMA EssenceWrittenInv ==
    ASSUME IInv, NEW burst \in BOOLEAN, NEW editPoint, EssenceWritten(burst, editPoint)
    PROVE  IInv' /\ Wrote(Machine, Machine') /\ (OverInv => OverInv')
<1> DEFINE ret == call.ret + 1
<1>1. PICK n, h : /\ Worked(n) /\ MachineOK(h) /\ Ahead(Machine, h) /\ Delivered(h, n)
                  /\ Serving(n, FALSE)
                  /\ Return(Leave(n, CurStream(Machine)), ret) \/ GoesOn(n)
  BY EssenceWrittenStep
<1>2. Writing /\ ret \in Nat
  BY EssenceCall DEF EssenceWritten, EssenceCalls
<1> HIDE DEF ret
<1>3. CASE Return(Leave(n, CurStream(Machine)), ret)
  <2>1. IInv' /\ Quiet(n, Machine') /\ (OverInv => OverInv')
    BY <1>1, <1>2, <1>3, WorkedInv
  <2> QED BY <1>1, <2>1, DeliveredQuiet DEF Wrote
<1>4. CASE GoesOn(n)
  <2>1. Machine' = n
    BY <1>1, <1>4, Becoming DEF GoesOn, Worked
  <2>2. call' \in CallType /\ call'.op = "WriteEssence" /\ ~call'.first
    BY <1>4 DEF GoesOn, CallType, EssenceCalls
  <2>3. Good(Machine)' /\ Serving(Machine, call.first)'
    BY <1>1, <2>1, <2>2 DEF Worked, Serving
  <2>4. IInv'
    BY <1>4, <2>2, <2>3 DEF IInv, CallInv, GoesOn
  <2>5. OverInv => OverInv'
    <3>1. OverInv => CallOver'
      BY <1>4, <2>2 DEF OverInv, CallOver, GoesOn
    <3>2. OverInv => Over(Machine)'
      BY <1>1, <2>1 DEF Worked
    <3> QED BY <3>1, <3>2 DEF OverInv
  <2> QED BY <1>1, <2>1, <2>4, <2>5 DEF Wrote
<1> QED BY <1>1, <1>3, <1>4

-----------------------------------------------------------------------------
(***************************************************************************)
(* IInv is an inductive invariant: one case for each action.  A step gets  *)
(* ahead or writes, or it is the one that completes the file.              *)
(***************************************************************************)
Moves == Ahead(Machine, Machine') \/ Wrote(Machine, Machine')

\* Nothing happens.
LEMMA StutterInv ==
    ASSUME IInv, UNCHANGED vars
    PROVE  IInv' /\ Ahead(Machine, Machine') /\ (OverInv => OverInv')
<1>1. /\ Machine' = Machine /\ call' = call /\ body' = body
      /\ writer' = writer /\ stream' = stream
  BY DEF vars, Machine
<1>2. OverInv => OverInv'
  <2>1. OverInv => CallOver'
    BY <1>1 DEF OverInv, CallOver
  <2>2. OverInv => Over(Machine)'
    BY <1>1 DEF OverInv
  <2> QED BY <2>1, <2>2 DEF OverInv
<1>3. IInv' /\ Ahead(Machine, Machine')
  BY <1>1, Parts DEF IInv, CallInv
<1> QED BY <1>2, <1>3

\* A turn of WriteEssence keeps the invariant.
LEMMA WriteEssenceInv ==
    ASSUME IInv, WriteEssence
    PROVE  IInv' /\ Moves /\ (OverInv => OverInv')
<1>1. CASE ClipEssence
  BY <1>1, ClipEssenceInv DEF Moves
<1>2. CASE EssenceEnds
  BY <1>2, EssenceEndsInv DEF Moves
<1>3. ASSUME NEW burst \in BOOLEAN, EssenceHeld(burst)
      PROVE  IInv' /\ Moves /\ (OverInv => OverInv')
  BY <1>3, EssenceHeldInv DEF Moves
<1>4. ASSUME NEW burst \in BOOLEAN, NEW editPoint, EssenceWritten(burst, editPoint)
      PROVE  IInv' /\ Moves /\ (OverInv => OverInv')
  BY <1>4, EssenceWrittenInv DEF Moves
<1>5. (IF Writing /\ call.sized THEN BOOLEAN ELSE {FALSE}) \subseteq BOOLEAN
  OBVIOUS
<1> QED BY <1>1, <1>2, <1>3, <1>4, <1>5 DEF WriteEssence

\* One case for each action.
LEMMA StepInv ==
    ASSUME IInv, [Next]_vars
    PROVE  IInv' /\ (Moves \/ Ends) /\ (OverInv => OverInv')
<1>1. ASSUME NEW s \in Stream, AddStream(s)
      PROVE  IInv' /\ (Moves \/ Ends) /\ (OverInv => OverInv')
  BY <1>1, AddStreamInv DEF Moves
<1>2. CASE ClearStreams
  BY <1>2, ClearStreamsInv DEF Moves
<1>3. CASE WriteHeader
  BY <1>3, WriteHeaderInv DEF Moves
<1>4. CASE WriteBody
  BY <1>4, WriteBodyInv DEF Moves
<1>5. CASE CallEndPartition
  BY <1>5, CallEndPartitionInv DEF Moves
<1>6. CASE WriteFooter
  BY <1>6, WriteFooterInv DEF Moves
<1>7. CASE Step
  <2>1. CASE HeaderIndex \/ HeaderEnd
    BY <2>1, HeaderIndexInv, HeaderEndInv DEF Moves
  <2>2. CASE NoCurrentStream \/ PreBodyIndex \/ PostBodyIndex
    BY <2>2, NoCurrentStreamInv, PreBodyIndexInv, PostBodyIndexInv DEF Moves
  <2>3. ASSUME NEW state \in BodyStates, StartBody(state)
        PROVE  IInv' /\ (Moves \/ Ends) /\ (OverInv => OverInv')
    BY <2>3, StartBodyInv DEF Moves
  <2>4. CASE WriteEssence
    BY <2>4, WriteEssenceInv
  <2>5. CASE FooterIndex \/ FooterEnd
    BY <2>5, FooterIndexInv, FooterEndInv DEF Moves
  <2> QED BY <1>7, <2>1, <2>2, <2>3, <2>4, <2>5 DEF Step
<1>8. CASE Finished
  BY <1>8, StutterInv DEF Finished, Moves
<1>9. CASE UNCHANGED vars
  BY <1>9, StutterInv DEF Moves
<1> QED BY <1>1, <1>2, <1>3, <1>4, <1>5, <1>6, <1>7, <1>8, <1>9 DEF Next

(***************************************************************************)
(* In every reachable state the machine is Good: the essence on file is    *)
(* what the streams count as written, in the partitions that name it.      *)
(***************************************************************************)
THEOREM Invariant == Spec => []IInv
<1>1. Init => IInv
  BY InitInv
<1>2. IInv /\ [Next]_vars => IInv'
  BY StepInv
<1> QED BY <1>1, <1>2, PTL DEF Spec

-----------------------------------------------------------------------------
\* The invariant implies the types.
LEMMA InvariantType == IInv => TypeOK
BY Parts DEF IInv, TypeOK

(***************************************************************************)
(* Every member of the writer, every stream, every partition written and   *)
(* every local variable of a call in progress has its type, whatever the   *)
(* streams and however the public methods are called.                      *)
(***************************************************************************)
THEOREM TypeCorrect == Spec => []TypeOK
BY Invariant, InvariantType, PTL

(***************************************************************************)
(* A place of the file, and what the parts of FileOK say of it.            *)
(***************************************************************************)
LEMMA PlaceParts ==
    ASSUME IInv, NEW q \in Places
    PROVE  /\ q[1] \in DOMAIN file /\ q[2] \in Items(file, q[1])
           /\ q[1] \in Nat /\ q[2] \in Nat
           /\ SidAt(q) = Sid(file, q[1], q[2]) /\ UnitAt(q) = Unit(file, q[1], q[2])
           /\ SidAt(q) \in Stream /\ UnitAt(q) \in Nat
           /\ SidAt(q) = file[q[1]].body
<1>1. PICK i \in DOMAIN file : q \in {i} \X DOMAIN file[i].essence
  BY DEF Places
<1>2. q[1] = i /\ q[2] \in DOMAIN file[i].essence
  BY <1>1
<1>3. file \in Seq(Partition) /\ FileOK(file, Amounts(stream))
  BY Parts DEF Good
<1>4. file[i] \in Partition /\ i \in Nat
  BY <1>1, <1>3
<1>5. file[i].essence \in Seq(Stream \X Nat)
  BY <1>4 DEF Partition
<1>6. file[i].essence[q[2]] \in Stream \X Nat /\ q[2] \in Nat
  BY <1>2, <1>5
<1>7. SidAt(q) = Sid(file, i, q[2]) /\ UnitAt(q) = Unit(file, i, q[2])
  BY <1>2 DEF SidAt, UnitAt, Sid, Unit
<1>8. Sid(file, i, q[2]) = file[i].body
  BY <1>1, <1>2, <1>3 DEF FileOK, OwnOK, Items
<1>9. Sid(file, i, q[2]) \in Stream /\ Unit(file, i, q[2]) \in Nat
  BY <1>6 DEF Sid, Unit
<1> QED BY <1>1, <1>2, <1>4, <1>6, <1>7, <1>8, <1>9 DEF Items

\* A unit counted as written has a place on file.
LEMMA WrittenPlace ==
    ASSUME IInv, NEW s \in Stream, NEW u \in Nat, u < Amounts(stream)[s]
    PROVE  \E q \in Places : SidAt(q) = s /\ UnitAt(q) = u
<1>1. FileOK(file, Amounts(stream))
  BY Parts DEF Good
<1>2. PICK i \in DOMAIN file : \E k \in Items(file, i) :
        file[i].body = s /\ Unit(file, i, k) = u
  BY <1>1 DEF FileOK, AllOK
<1>3. PICK k \in Items(file, i) : file[i].body = s /\ Unit(file, i, k) = u
  BY <1>2
<1>4. <<i, k>> \in Places
  BY <1>3 DEF Places, Items
<1>5. SidAt(<<i, k>>) = file[i].body
  BY <1>4, PlaceParts
<1>6. UnitAt(<<i, k>>) = u
  BY <1>3 DEF UnitAt, Unit
<1> QED BY <1>3, <1>4, <1>5, <1>6

\* The invariant implies OwnPartition.
LEMMA InvariantOwn == IInv => OwnPartition
BY PlaceParts DEF OwnPartition

(***************************************************************************)
(* Essence goes only into partitions whose pack carries its BodySID.       *)
(***************************************************************************)
THEOREM OwnPartitionAlways == Spec => []OwnPartition
BY Invariant, InvariantOwn, PTL

\* The invariant implies EssenceInOrder.
LEMMA InvariantOrder ==
    ASSUME IInv
    PROVE  EssenceInOrder
<1> DEFINE w == Amounts(stream)
<1>1. FileOK(file, w) /\ w \in [Stream -> Nat]
  BY Parts, AmountsType DEF Good
<1> HIDE DEF w
<1>2. ASSUME NEW p \in Places, NEW q \in Places, SidAt(p) = SidAt(q), Before(p, q)
      PROVE  UnitAt(p) < UnitAt(q)
  <2>1. /\ p[1] \in DOMAIN file /\ p[2] \in Items(file, p[1])
        /\ q[1] \in DOMAIN file /\ q[2] \in Items(file, q[1])
        /\ file[p[1]].body = file[q[1]].body
    BY <1>2, PlaceParts
  <2>2. Unit(file, p[1], p[2]) < Unit(file, q[1], q[2])
    BY <1>1, <1>2, <2>1 DEF FileOK, OrderOK, Before
  <2> QED BY <2>2, PlaceParts
<1>3. ASSUME NEW q \in Places, NEW u \in 0 .. UnitAt(q)
      PROVE  \E p \in Places : SidAt(p) = SidAt(q) /\ UnitAt(p) = u
  <2>1. /\ SidAt(q) \in Stream /\ UnitAt(q) \in Nat /\ SidAt(q) = file[q[1]].body
        /\ UnitAt(q) = Unit(file, q[1], q[2])
        /\ q[1] \in DOMAIN file /\ q[2] \in Items(file, q[1])
    BY PlaceParts
  <2>2. UnitAt(q) < w[SidAt(q)]
    BY <1>1, <2>1 DEF FileOK, OwnOK
  <2>3. u \in Nat /\ u < w[SidAt(q)]
    BY <1>1, <2>1, <2>2
  <2> QED BY <2>1, <2>3, WrittenPlace DEF w
<1> QED BY <1>2, <1>3 DEF EssenceInOrder

(***************************************************************************)
(* The essence of each stream is on file from its first edit unit on, in   *)
(* order, without a gap and without a repetition.                          *)
(***************************************************************************)
THEOREM EssenceInOrderAlways == Spec => []EssenceInOrder
BY Invariant, InvariantOrder, PTL

\* The invariant implies BodyOffsetTrue.
LEMMA InvariantOffset ==
    ASSUME IInv
    PROVE  BodyOffsetTrue
<1> DEFINE w == Amounts(stream)
<1>1. FileOK(file, w) /\ w \in [Stream -> Nat] /\ file \in Seq(Partition)
  BY Parts, AmountsType DEF Good
<1> HIDE DEF w
<1>2. SUFFICES ASSUME NEW i \in DOMAIN file, file[i].body # None
               PROVE  /\ \A q \in Places : SidAt(q) = file[i].body =>
                            (q[1] < i <=> UnitAt(q) < file[i].offset)
                      /\ \A u \in 0 .. file[i].offset - 1 :
                            \E q \in Places : SidAt(q) = file[i].body /\ UnitAt(q) = u
  BY DEF BodyOffsetTrue
<1>3. ASSUME NEW q \in Places, SidAt(q) = file[i].body
      PROVE  q[1] < i <=> UnitAt(q) < file[i].offset
  <2>1. /\ q[1] \in DOMAIN file /\ q[2] \in Items(file, q[1])
        /\ file[q[1]].body = file[i].body /\ UnitAt(q) = Unit(file, q[1], q[2])
    BY <1>3, PlaceParts
  <2> QED BY <1>1, <1>2, <2>1 DEF FileOK, OffsetOK
<1>4. ASSUME NEW u \in 0 .. file[i].offset - 1
      PROVE  \E q \in Places : SidAt(q) = file[i].body /\ UnitAt(q) = u
  <2>1. file[i] \in Partition
    BY <1>1
  <2>2. file[i].body \in Stream /\ file[i].offset \in Nat
    BY <1>2, <2>1 DEF Partition
  <2>3. file[i].offset <= w[file[i].body]
    BY <1>1, <1>2 DEF FileOK, OffsetOK
  <2>4. u \in Nat /\ u < w[file[i].body]
    BY <1>1, <2>2, <2>3
  <2> QED BY <2>2, <2>4, WrittenPlace DEF w
<1> QED BY <1>3, <1>4

(***************************************************************************)
(* The BodyOffset of a partition pack is the amount of essence of its      *)
(* BodySID in all earlier partitions.                                      *)
(***************************************************************************)
THEOREM BodyOffsetAlways == Spec => []BodyOffsetTrue
BY Invariant, InvariantOffset, PTL

\* What OverInv says of the streams once the writer is done.
LEMMA OverWritten == Unlimited /\ IInv /\ OverInv => AllWritten
<1> SUFFICES ASSUME Unlimited, IInv, OverInv, writer.state = "Done", NEW s \in Listed(Machine)
             PROVE  stream[s].written = stream[s].profile.units /\ ~stream[s].pending
  BY DEF AllWritten
<1>1. /\ Over(Machine) /\ Machine.writer = writer /\ Machine.stream = stream
      /\ writer.list \in Seq(Stream) /\ MachineOK(Machine)
  BY Parts DEF OverInv
<1>2. PICK i \in DOMAIN writer.list : s = writer.list[i]
  BY <1>1 DEF Listed
<1>3. s \in Stream /\ stream[s] # None /\ StreamInv(stream[s])
  BY <1>1, <1>2 DEF MachineOK
<1>4. stream[s].state \in Spent
  BY <1>1, <1>2 DEF Over
<1>5. StreamEnd(stream[s])
  BY <1>1, <1>3 DEF Over
<1>6. stream[s].read = stream[s].profile.units /\ ~stream[s].pending
  BY <1>4, <1>5 DEF StreamEnd
<1>7. stream[s] \in StreamType
  BY <1>3, Parts
<1> HIDE DEF Listed
<1>8. stream[s].written \in Nat
  BY <1>7, ProfileParts
<1> QED BY <1>3, <1>6, <1>8 DEF StreamInv

(***************************************************************************)
(* When every stream is added before the header and WriteBody is called    *)
(* without a limit, the footer comes after the last unit of every source:  *)
(* no stream is left with essence that was not written, nor with a unit    *)
(* held in its writer.  With a limit the caller may stop early, and a      *)
(* stream added late may find the writer in its footer already.            *)
(***************************************************************************)
THEOREM AllWrittenAlways ==
    ASSUME ~LateStreams, Bodies \subseteq {0}
    PROVE  Spec => []AllWritten
<1>1. Init => IInv /\ OverInv
  BY InitInv, InitOver
<1>3. Unlimited
  BY DEF Unlimited
<1>2. IInv /\ OverInv /\ [Next]_vars => (IInv /\ OverInv)'
  BY StepInv
<1> QED BY <1>1, <1>2, <1>3, OverWritten, PTL DEF Spec

-----------------------------------------------------------------------------
(***************************************************************************)
(* 6. The body writer implements MuxedFile.                                *)
(*                                                                         *)
(* The initial states correspond.  A step of the writer gets ahead (it     *)
(* begins partitions) or writes (it begins partitions and puts units into  *)
(* the last one): both are a Write of MuxedFile, or a stutter.  What has   *)
(* to be added to IInv is that a writer that is not done has no footer,    *)
(* neither on file nor in the template pack, and that one that is done     *)
(* leaves the file alone (Closing).                                        *)
(***************************************************************************)
\* The file is at its end, or nothing in it or in the template is a footer.
Closing == IF writer.state = "Done" THEN call = Idle ELSE Unfinished(Machine)

\* The invariant of the refinement.
MuxInv == IInv /\ Closing

\* A sequence begins with another.
LEMMA Beginning ==
    ASSUME NEW S, NEW a \in Seq(S), NEW b \in Seq(S), Len(a) <= Len(b),
           \A i \in 1 .. Len(a) : b[i] = a[i]
    PROVE  SubSeq(b, 1, Len(a)) = a
<1>1. Len(a) \in Nat /\ Len(b) \in Nat /\ DOMAIN a = 1 .. Len(a)
  OBVIOUS
<1>2. /\ SubSeq(b, 1, Len(a)) \in Seq(S) /\ Len(SubSeq(b, 1, Len(a))) = Len(a)
      /\ \A i \in 1 .. Len(a) : SubSeq(b, 1, Len(a))[i] = b[i]
  BY <1>1
<1> QED BY <1>1, <1>2

\* A writer that is done stays as it is; only its list may be cleared.
LEMMA DoneStays ==
    ASSUME writer.state = "Done", call = Idle, writer \in WriterType, [Next]_vars
    PROVE  file' = file /\ stream' = stream /\ writer'.state = "Done" /\ call' = Idle
<1> USE IdleCall
<1>1. ASSUME NEW s \in Stream, AddStream(s)
      PROVE  FALSE
  BY <1>1 DEF AddStream
<1>2. CASE ClearStreams
  BY <1>2 DEF ClearStreams, WriterType
<1>3. CASE WriteHeader \/ WriteBody \/ CallEndPartition \/ WriteFooter
  BY <1>3 DEF WriteHeader, WriteBody, CallEndPartition, WriteFooter
<1>4. CASE Step
  <2>1. CASE HeaderIndex \/ HeaderEnd
    BY <2>1 DEF HeaderIndex, HeaderEnd
  <2>2. CASE NoCurrentStream \/ PreBodyIndex \/ PostBodyIndex
    BY <2>2 DEF NoCurrentStream, PreBodyIndex, PostBodyIndex, WritePartition
  <2>3. ASSUME NEW state \in BodyStates, StartBody(state)
        PROVE  FALSE
    BY <2>3 DEF StartBody, WritePartition
  <2>4. CASE WriteEssence
    BY <2>4 DEF WriteEssence, ClipEssence, EssenceEnds, EssenceHeld, EssenceWritten, Writing
  <2>5. CASE FooterIndex \/ FooterEnd
    BY <2>5 DEF FooterIndex, FooterEnd
  <2> QED BY <1>4, <2>1, <2>2, <2>3, <2>4, <2>5 DEF Step
<1>5. CASE Finished \/ UNCHANGED vars
  BY <1>5 DEF Finished, vars
<1> QED BY <1>1, <1>2, <1>3, <1>4, <1>5 DEF Next

\* MuxInv is inductive.
LEMMA MuxInvStep ==
    ASSUME MuxInv, [Next]_vars
    PROVE  MuxInv'
<1>1. IInv' /\ (Moves \/ Ends)
  BY StepInv DEF MuxInv
<1>2. CASE writer.state = "Done"
  <2>1. writer'.state = "Done" /\ call' = Idle
    BY <1>2, Parts, DoneStays DEF MuxInv, Closing
  <2> QED BY <1>1, <2>1, IdleCall DEF MuxInv, Closing
<1>3. CASE writer.state # "Done"
  <2>1. Unfinished(Machine)
    BY <1>3 DEF MuxInv, Closing
  <2>2. CASE Moves
    <3>1. Unfinished(Machine')
      BY <2>1, <2>2 DEF Moves, Wrote, Delivered, Ahead
    <3>2. writer'.state # "Done"
      BY <3>1 DEF Unfinished, Machine
    <3>3. Unfinished(Machine)'
      BY <3>1
    <3> QED BY <1>1, <3>2, <3>3 DEF MuxInv, Closing
  <2>3. CASE Ends
    BY <1>1, <2>3 DEF MuxInv, Closing, Ends, Idle
  <2> QED BY <1>1, <2>2, <2>3
<1> QED BY <1>2, <1>3

\* The constructor establishes it.
LEMMA MuxInvInit ==
    ASSUME Init
    PROVE  MuxInv
<1>1. IInv
  BY InitInv
<1>2. Unfinished(Machine)
  BY <1>1, MachineFields DEF Init, Unfinished
<1>3. writer.state # "Done"
  BY DEF Init
<1> QED BY <1>1, <1>2, <1>3 DEF MuxInv, Closing

(***************************************************************************)
(* The refinement mapping, for any file.                                   *)
(***************************************************************************)
Abstract(f) ==
    [i \in DOMAIN f |-> [kind |-> f[i].type, sid |-> f[i].body, units |-> f[i].essence]]

\* What Abstract shows of a file.
LEMMA AbstractParts ==
    ASSUME NEW f \in Seq(Partition)
    PROVE  LET p == Abstract(f) IN
           /\ DOMAIN p = 1 .. Len(f) /\ Len(p) = Len(f) /\ Len(f) \in Nat
           /\ (p = << >>) <=> (f = << >>)
           /\ \A i \in 1 .. Len(f) :
                 /\ p[i].kind = f[i].type /\ p[i].sid = f[i].body /\ p[i].units = f[i].essence
                 /\ f[i].essence \in Seq(Stream \X Nat)
<1> DEFINE p == Abstract(f)
           P == [kind: PackType, sid: Stream \cup {None}, units: Seq(Stream \X Nat)]
<1>1. Len(f) \in Nat /\ DOMAIN f = 1 .. Len(f) /\ \A i \in 1 .. Len(f) : f[i] \in Partition
  OBVIOUS
<1>2. DOMAIN p = 1 .. Len(f)
  BY <1>1 DEF Abstract
<1>3. \A i \in 1 .. Len(f) :
         /\ p[i].kind = f[i].type /\ p[i].sid = f[i].body /\ p[i].units = f[i].essence
         /\ p[i] \in P /\ f[i].essence \in Seq(Stream \X Nat)
  BY <1>1 DEF Abstract, Partition
<1>4. p = [i \in 1 .. Len(f) |-> p[i]]
  BY <1>1 DEF Abstract
<1> HIDE DEF p, P
<1>5. p \in Seq(P)
  BY <1>1, <1>3, <1>4
<1>6. Len(p) = Len(f)
  BY <1>1, <1>2, <1>5
<1>7. p = << >> <=> f = << >>
  BY <1>1, <1>5, <1>6
<1> QED BY <1>1, <1>2, <1>3, <1>6, <1>7 DEF p

-----------------------------------------------------------------------------
(***************************************************************************)
(* MuxedFile under the mapping.                                            *)
(***************************************************************************)
LEMMA MuxVars ==
    /\ Mux!vars = <<Abstract(file), Amounts(stream)>>
    /\ Mux!vars' = <<Abstract(file'), Amounts(stream')>>
BY DEF Mux!vars, Abstract, Amounts

\* How many units the last partition had, and how many it got.
HadUnits(p, q) == IF Len(q) = Len(p) /\ p # << >> THEN Len(p[Len(p)].units) ELSE 0

MoreUnits(p, q) == Len(q[Len(q)].units) - HadUnits(p, q)

\* A write of MuxedFile from p and w to q and v.
Writes(p, q, w, v) ==
    LET last == q[Len(q)]
        had == HadUnits(p, q)
        more == MoreUnits(p, q)
    IN /\ ~(p # << >> /\ p[Len(p)].kind = "Footer")
       /\ Len(p) <= Len(q)
       /\ \A i \in DOMAIN p :
             IF i < Len(q) THEN q[i] = p[i]
             ELSE q[i].kind = p[i].kind /\ q[i].sid = p[i].sid
       /\ q # << >>
       /\ \A i \in Len(p) + 1 .. Len(q) - 1 : q[i].units = << >>
       /\ more >= 0
       /\ had > 0 => SubSeq(last.units, 1, had) = p[Len(p)].units
       /\ \A k \in 1 .. more : last.units[had + k] = <<last.sid, w[last.sid] + k - 1>>
       /\ more > 0 => last.sid \in Stream
       /\ v = [s \in Stream |-> IF more > 0 /\ s = last.sid THEN w[s] + more ELSE w[s]]

\* It is what MuxedFile allows, under the mapping.
LEMMA WriteOf ==
    Writes(Abstract(file), Abstract(file'), Amounts(stream), Amounts(stream')) => Mux!Next
BY DEF Writes, HadUnits, MoreUnits, Mux!Next, Mux!Write, Mux!Complete, Mux!Kept,
       Mux!Continued, Mux!Had, Abstract, Amounts

\* What the invariant says of the file and the amounts.
LEMMA FileTypes ==
    ASSUME MuxInv
    PROVE  file \in Seq(Partition) /\ Amounts(stream) \in [Stream -> Nat]
BY Parts, AmountsType DEF MuxInv

\* Nothing on file is a footer.
LEMMA NoFooter ==
    ASSUME MuxInv, Unfinished(Machine)
    PROVE  LET p == Abstract(file) IN ~(p # << >> /\ p[Len(p)].kind = "Footer")
<1> DEFINE p == Abstract(file)
<1>1. file \in Seq(Partition)
  BY FileTypes
<1>2. /\ Len(p) = Len(file) /\ Len(file) \in Nat /\ (p = << >> <=> file = << >>)
      /\ \A i \in 1 .. Len(file) : p[i].kind = file[i].type
  BY <1>1, AbstractParts
<1> HIDE DEF p
<1>3. \A i \in 1 .. Len(file) : file[i].type # "Footer"
  BY MachineFields DEF Unfinished
<1>4. p # << >> => Len(file) \in 1 .. Len(file)
  BY <1>1, <1>2
<1> QED BY <1>2, <1>3, <1>4 DEF p

\* Partitions that are begun: a write of nothing, or a stutter.
LEMMA Begun ==
    ASSUME MuxInv, MuxInv', Unfinished(Machine),
           Longer(file, file'), Amounts(stream') = Amounts(stream)
    PROVE  Mux!Next \/ UNCHANGED Mux!vars
<1> DEFINE f == file
           g == file'
           p == Abstract(f)
           q == Abstract(g)
           w == Amounts(stream)
           v == Amounts(stream')
<1>1. /\ f \in Seq(Partition) /\ g \in Seq(Partition) /\ w \in [Stream -> Nat]
      /\ v = w
  BY FileTypes DEF Longer
<1>2. /\ DOMAIN p = 1 .. Len(f) /\ Len(p) = Len(f) /\ Len(f) \in Nat
      /\ (p = << >> <=> f = << >>)
      /\ \A i \in 1 .. Len(f) :
            p[i].kind = f[i].type /\ p[i].sid = f[i].body /\ p[i].units = f[i].essence
  BY <1>1, AbstractParts
<1>3. /\ DOMAIN q = 1 .. Len(g) /\ Len(q) = Len(g) /\ Len(g) \in Nat
      /\ (q = << >> <=> g = << >>)
      /\ \A i \in 1 .. Len(g) :
            q[i].kind = g[i].type /\ q[i].sid = g[i].body /\ q[i].units = g[i].essence
  BY <1>1, AbstractParts
<1>4. /\ Len(f) <= Len(g) /\ \A i \in 1 .. Len(f) : g[i] = f[i]
      /\ \A i \in Len(f) + 1 .. Len(g) : g[i].essence = << >>
  BY DEF Longer
<1>5. ~(p # << >> /\ p[Len(p)].kind = "Footer")
  BY NoFooter
<1> HIDE DEF f, g, p, q, w, v
<1>8. /\ Len(p) = Len(f) /\ Len(f) \in Nat
      /\ Len(q) = Len(g) /\ Len(g) \in Nat
      /\ Len(f) <= Len(g)
  BY <1>2, <1>3, <1>4
<1>6. CASE Len(f) = Len(g)
  <2>1. g = f
    BY <1>1, <1>4, <1>6, <1>8
  <2>2. file' = file /\ Amounts(stream') = Amounts(stream)
    BY <2>1 DEF f, g
  <2> QED BY <2>2, MuxVars
<1>7. CASE Len(f) < Len(g)
  <2>1. \A i \in 1 .. Len(f) : q[i] = p[i]
    <3>1. ASSUME NEW i \in 1 .. Len(f)
          PROVE  q[i] = p[i]
      <4>1. g[i] = f[i] /\ i \in DOMAIN f /\ i \in DOMAIN g
        BY <1>1, <1>2, <1>3, <1>4
      <4> QED BY <4>1 DEF Abstract, p, q
    <3> QED BY <3>1
  <2>2. g # << >> /\ Len(g) \in Len(f) + 1 .. Len(g) /\ Len(g) \in 1 .. Len(g)
    BY <1>1, <1>2, <1>3, <1>7
  <2>3. q[Len(q)].units = << >> /\ Len(q[Len(q)].units) = 0
    BY <1>3, <1>4, <2>2
  <2>4. \A i \in Len(p) + 1 .. Len(q) - 1 : q[i].units = << >>
    BY <1>2, <1>3, <1>4
  <2>5. HadUnits(p, q) = 0 /\ MoreUnits(p, q) = 0
    <3>1. Len(q) # Len(p)
      BY <1>8, <1>7
    <3>2. HadUnits(p, q) = 0
      BY <3>1 DEF HadUnits
    <3> QED BY <2>3, <3>2 DEF MoreUnits
  <2>6. v = [s \in Stream |->
                IF MoreUnits(p, q) > 0 /\ s = q[Len(q)].sid THEN w[s] + MoreUnits(p, q) ELSE w[s]]
    BY <1>1, <2>5
  <2>7. Writes(p, q, w, v)
    BY <1>2, <1>3, <1>5, <1>7, <1>8, <2>1, <2>2, <2>4, <2>5, <2>6 DEF Writes
  <2> QED BY <2>7, WriteOf DEF f, g, p, q, w, v
<1> QED BY <1>8, <1>6, <1>7

\* Units that are added to the last partition: a write of them.
LEMMA Extended ==
    ASSUME MuxInv, MuxInv', Unfinished(Machine), Wrote(Machine, Machine')
    PROVE  Mux!Next
<1> DEFINE f == file
           g == file'
           p == Abstract(f)
           q == Abstract(g)
           w == Amounts(stream)
           v == Amounts(stream')
<1>1. f \in Seq(Partition) /\ g \in Seq(Partition) /\ w \in [Stream -> Nat]
  <2>1. MachineOK(Machine')
    BY DEF MuxInv, IInv, Good
  <2>2. Machine'.file = g
    BY DEF Machine
  <2> QED BY <2>1, <2>2, FileTypes, MachineParts
<1>2. /\ DOMAIN p = 1 .. Len(f) /\ Len(p) = Len(f) /\ Len(f) \in Nat
      /\ (p = << >> <=> f = << >>)
      /\ \A i \in 1 .. Len(f) :
            /\ p[i].kind = f[i].type /\ p[i].sid = f[i].body /\ p[i].units = f[i].essence
            /\ f[i].essence \in Seq(Stream \X Nat)
  BY <1>1, AbstractParts
<1>3. /\ DOMAIN q = 1 .. Len(g) /\ Len(q) = Len(g) /\ Len(g) \in Nat
      /\ (q = << >> <=> g = << >>)
      /\ \A i \in 1 .. Len(g) :
            q[i].kind = g[i].type /\ q[i].sid = g[i].body /\ q[i].units = g[i].essence
  BY <1>1, AbstractParts
<1>4. ~(p # << >> /\ p[Len(p)].kind = "Footer")
  BY NoFooter
<1>5. PICK h : MachineOK(h) /\ Ahead(Machine, h) /\ Delivered(h, Machine')
  BY DEF Wrote
<1> DEFINE m == h.file
           n == Len(m)
<1>6. /\ m \in Seq(Partition) /\ n \in Nat /\ Len(f) <= n
      /\ \A i \in 1 .. Len(f) : m[i] = f[i]
      /\ \A i \in Len(f) + 1 .. n : m[i].essence = << >>
      /\ Amounts(h.stream) = w
  BY <1>5, MachineFields DEF Ahead, Longer
<1>7. Machine'.file = g /\ Machine'.stream = stream'
  BY DEF Machine
<1>8. PICK s \in Stream, k \in Nat, e \in Seq(Stream \X Nat) :
         /\ m # << >> /\ m[n].body = s
         /\ Continues(e, m[n].essence, k, s, w[s])
         /\ g = [m EXCEPT ![n].essence = e]
         /\ v = [w EXCEPT ![s] = @ + k]
  BY <1>5, <1>6, <1>7 DEF Delivered
<1> DEFINE old == m[n].essence
<1> HIDE DEF f, g, p, q, w, v, m
<1>9. /\ n \in 1 .. n /\ DOMAIN m = 1 .. n
      /\ m[n] \in Partition /\ old \in Seq(Stream \X Nat)
  <2>1. n \in 1 .. n /\ DOMAIN m = 1 .. n /\ m[n] \in Partition
    BY <1>6, <1>8
  <2> QED BY <2>1 DEF Partition
<1>10. /\ Len(g) = n
       /\ g[n].type = m[n].type /\ g[n].body = s /\ g[n].essence = e
       /\ \A i \in 1 .. n : i < n => g[i] = m[i]
  BY <1>6, <1>8, <1>9 DEF Partition
<1>18. Continues(e, old, k, s, w[s])
  BY <1>8
<1> HIDE DEF n, old
<1>11. /\ w[s] \in Nat
       /\ Len(old) \in Nat /\ Len(e) \in Nat /\ Len(e) = Len(old) + k
       /\ \A i \in 1 .. Len(old) : e[i] = old[i]
       /\ \A i \in 1 .. k : e[Len(old) + i] = <<s, w[s] + i - 1>>
  <2>1. w[s] \in Nat
    BY <1>1
  <2>2. Len(old) \in Nat /\ Len(e) \in Nat
    BY <1>9
  <2> QED BY <2>1, <2>2, <1>18 DEF Continues
<1>12. /\ Len(p) = Len(f) /\ Len(q) = n /\ Len(f) \in Nat /\ n \in Nat /\ 1 <= n /\ Len(f) <= n
       /\ q # << >> /\ q[n].kind = m[n].type /\ q[n].sid = s /\ q[n].units = e
       /\ \A i \in 1 .. Len(f) : i < n => q[i].units = m[i].essence
       /\ \A i \in Len(f) + 1 .. n - 1 : q[i].units = << >>
  <2>1. Len(p) = Len(f) /\ Len(q) = n /\ Len(f) \in Nat /\ n \in Nat /\ 1 <= n /\ Len(f) <= n
    BY <1>2, <1>3, <1>6, <1>9, <1>10
  <2>2. q # << >>
    BY <1>3, <1>10, <2>1
  <2>3. q[n].kind = m[n].type /\ q[n].sid = s /\ q[n].units = e
    BY <1>3, <1>9, <1>10
  <2>4. \A i \in 1 .. n : i < n => q[i].units = m[i].essence
    BY <1>3, <1>10
  <2> HIDE DEF n
  <2>5. \A i \in Len(f) + 1 .. n - 1 : q[i].units = << >>
    <3>1. ASSUME NEW i \in Len(f) + 1 .. n - 1
          PROVE  q[i].units = << >>
      <4>1. i \in 1 .. n /\ i < n /\ i \in Len(f) + 1 .. n
        BY <2>1
      <4> QED BY <4>1, <2>4, <1>6
    <3> QED BY <3>1
  <2>6. \A i \in 1 .. Len(f) : i < n => q[i].units = m[i].essence
    BY <2>1, <2>4
  <2> QED BY <2>1, <2>2, <2>3, <2>5, <2>6
<1>13. /\ HadUnits(p, q) = Len(old)
       /\ Len(old) > 0 => SubSeq(e, 1, Len(old)) = p[Len(p)].units
  <2>1. CASE n = Len(f)
    <3>1. p # << >> /\ p[Len(p)].units = old
      BY <1>2, <1>6, <1>9, <1>12, <2>1 DEF old
    <3>2. SubSeq(e, 1, Len(old)) = old
      <4>1. /\ old \in Seq(Stream \X Nat) /\ e \in Seq(Stream \X Nat)
            /\ Len(old) <= Len(e) /\ \A i \in 1 .. Len(old) : e[i] = old[i]
        BY <1>9, <1>11
      <4> QED BY <4>1, Beginning
    <3> QED BY <1>12, <2>1, <3>1, <3>2 DEF HadUnits
  <2>2. CASE Len(f) < n
    <3>1. old = << >> /\ Len(old) = 0
      BY <1>6, <1>9, <1>12, <2>2 DEF old
    <3>2. Len(q) # Len(p)
      BY <1>12, <2>2
    <3>3. HadUnits(p, q) = 0
      BY <3>2 DEF HadUnits
    <3> QED BY <3>1, <3>3
  <2> QED BY <1>12, <2>1, <2>2
<1>14. MoreUnits(p, q) = k
  BY <1>8, <1>11, <1>12, <1>13 DEF MoreUnits
<1>15. \A i \in DOMAIN p :
          IF i < n THEN q[i] = p[i] ELSE q[i].kind = p[i].kind /\ q[i].sid = p[i].sid
  <2>1. ASSUME NEW i \in 1 .. Len(f), i < n
        PROVE  q[i] = p[i]
    <3>1. g[i] = f[i] /\ i \in DOMAIN f /\ i \in DOMAIN g
      <4>1. i \in 1 .. n /\ i \in 1 .. Len(g)
        BY <2>1, <1>10, <1>12
      <4>2. g[i] = m[i] /\ m[i] = f[i]
        BY <2>1, <4>1, <1>6, <1>10
      <4> QED BY <4>1, <4>2, <1>1
    <3> QED BY <3>1 DEF Abstract, p, q
  <2>2. ASSUME NEW i \in 1 .. Len(f), ~(i < n)
        PROVE  q[i].kind = p[i].kind /\ q[i].sid = p[i].sid
    <3>1. i = n /\ m[i] = f[i]
      BY <2>2, <1>6, <1>12
    <3>2. p[i].kind = m[n].type /\ p[i].sid = m[n].body
      BY <1>2, <2>2, <3>1
    <3> QED BY <3>1, <3>2, <1>8, <1>12
  <2> QED BY <1>2, <2>1, <2>2
<1>16. v = [r \in Stream |-> IF k > 0 /\ r = s THEN w[r] + k ELSE w[r]]
  <2>1. v = [r \in Stream |-> IF r = s THEN w[r] + k ELSE w[r]]
    BY <1>1, <1>8
  <2>2. \A r \in Stream : w[r] \in Nat /\ (k = 0 => w[r] + k = w[r])
    BY <1>1
  <2>3. k \in Nat /\ (~(k > 0) => k = 0)
    OBVIOUS
  <2> QED BY <2>1, <2>2, <2>3
<1>17. Writes(p, q, w, v)
  <2>1. /\ q[Len(q)].sid = s /\ q[Len(q)].units = e /\ HadUnits(p, q) = Len(old)
        /\ Len(p) <= Len(q) /\ k \in Nat /\ k >= 0
    BY <1>12, <1>13
  <2>2. \A i \in Len(p) + 1 .. Len(q) - 1 : q[i].units = << >>
    BY <1>12
  <2>3. \A i \in DOMAIN p :
           IF i < Len(q) THEN q[i] = p[i] ELSE q[i].kind = p[i].kind /\ q[i].sid = p[i].sid
    BY <1>12, <1>15
  <2>4. Len(old) > 0 => SubSeq(q[Len(q)].units, 1, Len(old)) = p[Len(p)].units
    BY <2>1, <1>13
  <2>5. \A i \in 1 .. k : q[Len(q)].units[Len(old) + i] = <<s, w[s] + i - 1>>
    BY <2>1, <1>11
  <2> QED BY <1>4, <1>12, <1>14, <1>16, <2>1, <2>2, <2>3, <2>4, <2>5 DEF Writes
<1> QED BY <1>17, WriteOf DEF f, g, p, q, w, v

-----------------------------------------------------------------------------
\* The constructor's file is the empty one.
LEMMA MuxInit ==
    ASSUME Init
    PROVE  Mux!Init
BY DEF Init, Mux!Init

\* Every step of the writer is a write, or it leaves MuxedFile as it is.
LEMMA MuxStep ==
    ASSUME MuxInv, MuxInv', [Next]_vars
    PROVE  Mux!Next \/ UNCHANGED Mux!vars
<1>1. CASE writer.state = "Done"
  <2>1. file' = file /\ stream' = stream
    BY <1>1, Parts, DoneStays DEF MuxInv, Closing
  <2> QED BY <2>1, MuxVars
<1>2. CASE writer.state # "Done"
  <2>1. Unfinished(Machine)
    BY <1>2 DEF MuxInv, Closing
  <2>2. Moves \/ Ends
    BY StepInv DEF MuxInv
  <2>3. CASE Ahead(Machine, Machine')
    <3>1. Longer(file, file') /\ Amounts(stream') = Amounts(stream)
      BY <2>3 DEF Ahead, Machine
    <3> QED BY <2>1, <3>1, Begun
  <2>4. CASE Wrote(Machine, Machine')
    BY <2>1, <2>4, Extended
  <2>5. CASE Ends
    BY <2>1, <2>5, Begun DEF Ends
  <2> QED BY <2>2, <2>3, <2>4, <2>5 DEF Moves
<1> QED BY <1>1, <1>2

(***************************************************************************)
(* The body writer implements MuxedFile (BodyWriter::SetState, WriteNext,  *)
(* WritePartition and the stream's essence taken together): a file is      *)
(* written once from its start to its end, in partitions of one stream     *)
(* each, and every stream's edit units follow each other.                  *)
(***************************************************************************)
THEOREM WriterImplementsMuxedFile == Spec => WritesMuxedFile
<1>1. Init => MuxInv /\ Mux!Init
  BY MuxInvInit, MuxInit
<1>2. MuxInv /\ [Next]_vars => MuxInv'
  BY MuxInvStep
<1>3. MuxInv /\ MuxInv' /\ [Next]_vars => [Mux!Next]_(Mux!vars)
  BY MuxStep
<1> QED BY <1>1, <1>2, <1>3, PTL DEF Spec, WritesMuxedFile, Mux!Spec

-----------------------------------------------------------------------------
(***************************************************************************)
(* What TakeTurns looks at: which partition holds essence of which stream. *)
(***************************************************************************)
On(f) ==
    {x \in Nat \X Stream :
        x[1] \in DOMAIN f /\ \E k \in DOMAIN f[x[1]].essence : f[x[1]].essence[k][1] = x[2]}

\* Every partition of s is followed by one of t.
Followed(H, s, t) ==
    \A i \in Nat : <<i, s>> \in H => \E h \in Nat : i < h /\ <<h, t>> \in H

\* Between two partitions of s there is another one, or one of t.
Parted(H, s, t) ==
    \A i, j \in Nat : (<<i, s>> \in H /\ <<j, s>> \in H /\ i < j) =>
        \E h \in Nat : i < h /\ h < j /\ (<<h, s>> \in H \/ <<h, t>> \in H)

\* TakeTurns for what is on file.
Alternating(H) ==
    \A i, j, k \in Nat, s, t \in Stream :
        (i < j /\ j < k /\ <<i, s>> \in H /\ <<j, s>> \in H /\ <<k, t>> \in H /\ t # s) =>
            \E h \in Nat : i < h /\ h < j /\ (<<h, s>> \in H \/ <<h, t>> \in H)

(***************************************************************************)
(* Whose turn it is.  Sooner: going around the list from place c, place p  *)
(* comes before place q.  W is the set of streams that have essence left.  *)
(* InTurn: what comes sooner has waited longer.  HasHadTurn: so it is, but *)
(* that the stream at place c has just got the last partition.             *)
(***************************************************************************)
Sooner(c, p, q) == IF c <= p THEN q < c \/ p < q ELSE q < c /\ p < q

InTurn(H, W, list, c) ==
    \A p, q \in DOMAIN list :
        (Sooner(c, p, q) /\ list[q] \in W) => Followed(H, list[p], list[q])

\* See above.
HasHadTurn(H, W, list, c) ==
    /\ \A p, q \in DOMAIN list :
          (p # c /\ Sooner(c, p, q) /\ list[q] \in W) => Followed(H, list[p], list[q])
    /\ list[c] \in W => \A p \in DOMAIN list : p # c => Followed(H, list[p], list[c])

\* Nobody who has essence left was passed over.
NobodyPassed(H, W, list) ==
    \A s \in Stream : \A q \in DOMAIN list :
        (list[q] \in W /\ list[q] # s) => Parted(H, s, list[q])

\* No stream is in the list twice.
Distinct(list) == \A p, q \in DOMAIN list : list[p] = list[q] => p = q

\* Partition l is the last one with essence, and has no other stream's.
LastOne(H, l, s) == \A i \in Nat, t \in Stream : <<i, t>> \in H => i <= l /\ (i = l => t = s)

\* The stream whose turn it is gets the last partition.
LEMMA TurnTaken ==
    ASSUME NEW H \in SUBSET (Nat \X Stream), NEW W, NEW list \in Seq(Stream),
           NEW c \in DOMAIN list, Distinct(list), NEW l \in Nat, LastOne(H, l, list[c]),
           list[c] \in W, NEW V, V \subseteq W,
           InTurn(H, W, list, c), NobodyPassed(H, W, list), Alternating(H)
    PROVE  LET G == H \cup {<<l, list[c]>>} IN
           HasHadTurn(G, V, list, c) /\ NobodyPassed(G, V, list) /\ Alternating(G)
<1> DEFINE G == H \cup {<<l, list[c]>>}
           s == list[c]
<1>1. s \in Stream /\ DOMAIN list = 1 .. Len(list) /\ Len(list) \in Nat /\ c \in Nat
  OBVIOUS
<1>2. \A i, t : <<i, t>> \in G <=> (<<i, t>> \in H \/ (i = l /\ t = s))
  OBVIOUS
<1>3. \A i, t : <<i, t>> \in H => i \in Nat /\ t \in Stream
  OBVIOUS
<1>4. \A i \in Nat, t \in Stream : <<i, t>> \in H => i <= l /\ (i = l => t = s)
  BY DEF LastOne
<1>5. \A q \in DOMAIN list : q # c => list[q] # s /\ list[q] \in Stream
  BY DEF Distinct
<1>6. \A q \in DOMAIN list : q # c => Sooner(c, c, q) /\ ~Sooner(c, q, c)
  BY <1>1 DEF Sooner
<1>7. \A p, q \in DOMAIN list : Sooner(c, p, q) => q # c
  BY <1>1 DEF Sooner
<1> HIDE DEF G, s
<1>8. HasHadTurn(G, V, list, c)
  <2>1. ASSUME NEW p \in DOMAIN list, NEW q \in DOMAIN list, p # c, Sooner(c, p, q),
               list[q] \in V
        PROVE  Followed(G, list[p], list[q])
    <3>1. Followed(H, list[p], list[q])
      BY <2>1 DEF InTurn
    <3>2. list[p] # s
      BY <1>5, <2>1
    <3> QED BY <3>1, <3>2, <1>2 DEF Followed
  <2>2. ASSUME NEW p \in DOMAIN list, p # c
        PROVE  Followed(G, list[p], s)
    <3>1. list[p] # s /\ list[p] \in Stream
      BY <1>5, <2>2
    <3>2. \A i \in Nat : <<i, list[p]>> \in G => i < l
      BY <3>1, <1>2, <1>4
    <3>3. <<l, s>> \in G
      BY <1>2
    <3> QED BY <3>2, <3>3 DEF Followed
  <2> QED BY <2>1, <2>2 DEF HasHadTurn, s
<1>9. NobodyPassed(G, V, list)
  <2> SUFFICES ASSUME NEW r \in Stream, NEW q \in DOMAIN list, list[q] \in V, list[q] # r,
                      NEW i \in Nat, NEW j \in Nat, <<i, r>> \in G, <<j, r>> \in G, i < j
               PROVE  \E h \in Nat : i < h /\ h < j /\ (<<h, r>> \in G \/ <<h, list[q]>> \in G)
    BY DEF NobodyPassed, Parted
  <2>1. CASE <<i, r>> \in H /\ <<j, r>> \in H
    <3>1. Parted(H, r, list[q])
      BY DEF NobodyPassed
    <3> QED BY <2>1, <3>1, <1>2 DEF Parted
  <2>2. CASE ~(<<i, r>> \in H /\ <<j, r>> \in H)
    <3>1. r = s
      BY <2>2, <1>2
    <3>2. i <= l /\ j <= l
      BY <1>2, <1>4, <3>1, <1>1
    <3>3. i # l
      BY <3>2
    <3>4. <<i, r>> \in H /\ j = l
      BY <2>2, <3>3, <1>2
    <3>5. q # c
      BY <3>1 DEF s
    <3>6. Followed(H, s, list[q])
      BY <3>5, <1>6 DEF InTurn, s
    <3>7. PICK h \in Nat : i < h /\ <<h, list[q]>> \in H
      BY <3>1, <3>4, <3>6 DEF Followed
    <3>8. list[q] # s /\ list[q] \in Stream
      BY <3>5, <1>5
    <3>9. h < l
      BY <3>7, <3>8, <1>4
    <3> QED BY <3>4, <3>7, <3>9, <1>2
  <2> QED BY <2>1, <2>2
<1>10. Alternating(G)
  <2> SUFFICES ASSUME NEW i \in Nat, NEW j \in Nat, NEW k \in Nat,
                      NEW r \in Stream, NEW t \in Stream, i < j, j < k,
                      <<i, r>> \in G, <<j, r>> \in G, <<k, t>> \in G, t # r
               PROVE  \E h \in Nat : i < h /\ h < j /\ (<<h, r>> \in G \/ <<h, t>> \in G)
    BY DEF Alternating
  <2>1. k <= l
    BY <1>2, <1>4
  <2>2. <<i, r>> \in H /\ <<j, r>> \in H
    BY <2>1, <1>2
  <2>3. CASE <<k, t>> \in H
    BY <2>2, <2>3, <1>2 DEF Alternating
  <2>4. CASE <<k, t>> \notin H
    <3>1. t = s
      BY <2>4, <1>2
    <3>2. Parted(H, r, s)
      BY <3>1 DEF NobodyPassed, s
    <3> QED BY <2>2, <3>1, <3>2, <1>2 DEF Parted
  <2> QED BY <2>3, <2>4
<1> QED BY <1>8, <1>9, <1>10 DEF G, s

\* Place q lies strictly between places c and d, going around.
Passed(c, d, q) == IF c < d THEN c < q /\ q < d ELSE c < q \/ q < d

\* After its turn the next stream with essence left is the one that has
\* waited longest.
LEMMA NextTurn ==
    ASSUME NEW H, NEW W, NEW list \in Seq(Stream), NEW c \in DOMAIN list,
           NEW d \in DOMAIN list, HasHadTurn(H, W, list, c),
           \A q \in DOMAIN list : Passed(c, d, q) => list[q] \notin W
    PROVE  InTurn(H, W, list, d)
<1>1. DOMAIN list = 1 .. Len(list) /\ Len(list) \in Nat
  OBVIOUS
<1> SUFFICES ASSUME NEW p \in DOMAIN list, NEW q \in DOMAIN list, Sooner(d, p, q),
                    list[q] \in W
             PROVE  Followed(H, list[p], list[q])
  BY DEF InTurn
<1>2. ~Passed(c, d, q)
  OBVIOUS
<1>3. (p # c /\ Sooner(c, p, q)) \/ (q = c /\ p # c)
  <2>1. p \in Int /\ q \in Int /\ c \in Int /\ d \in Int
    BY <1>1
  <2> QED BY <2>1, <1>2 DEF Sooner, Passed
<1> QED BY <1>3 DEF HasHadTurn

\* A stream without essence left needs no turn.
LEMMA TurnNotNeeded ==
    ASSUME NEW H, NEW W, NEW list, NEW c, InTurn(H, W, list, c), list[c] \notin W
    PROVE  HasHadTurn(H, W, list, c)
  BY DEF InTurn, HasHadTurn

\* Fewer streams with essence left.
LEMMA FewerWaiting ==
    ASSUME NEW H, NEW W, NEW V, V \subseteq W, NEW list, NEW c
    PROVE  /\ InTurn(H, W, list, c) => InTurn(H, V, list, c)
           /\ HasHadTurn(H, W, list, c) => HasHadTurn(H, V, list, c)
           /\ NobodyPassed(H, W, list) => NobodyPassed(H, V, list)
  BY DEF InTurn, HasHadTurn, NobodyPassed

\* TakeTurns in terms of On.
LEMMA TakeTurnsOn ==
    ASSUME file \in Seq(Partition)
    PROVE  TakeTurns <=> Alternating(On(file))
<1>1. \A i \in Nat, s \in Stream :
         <<i, s>> \in On(file) <=> (i \in DOMAIN file /\ Holds(i, s))
  <2> TAKE i \in Nat, s \in Stream
  <2> DEFINE x == <<i, s>>
  <2>1. x \in Nat \X Stream /\ x[1] = i /\ x[2] = s
    OBVIOUS
  <2> HIDE DEF x
  <2> QED BY <2>1 DEF On, Holds
<1>2. DOMAIN file = 1 .. Len(file) /\ Len(file) \in Nat
  OBVIOUS
<1>3. ASSUME TakeTurns PROVE Alternating(On(file))
  <2> SUFFICES ASSUME NEW i \in Nat, NEW j \in Nat, NEW k \in Nat,
                      NEW s \in Stream, NEW t \in Stream, i < j, j < k, t # s,
                      <<i, s>> \in On(file), <<j, s>> \in On(file), <<k, t>> \in On(file)
               PROVE  \E h \in Nat : /\ i < h /\ h < j
                                     /\ <<h, s>> \in On(file) \/ <<h, t>> \in On(file)
    BY DEF Alternating
  <2>1. /\ i \in DOMAIN file /\ j \in DOMAIN file /\ k \in DOMAIN file
        /\ Holds(i, s) /\ Holds(j, s) /\ Holds(k, t)
    BY <1>1
  <2>2. PICK h \in i + 1 .. j - 1 : Holds(h, s) \/ Holds(h, t)
    BY <2>1, <1>3 DEF TakeTurns
  <2>3. h \in Nat /\ i < h /\ h < j /\ h \in DOMAIN file
    BY <2>1, <1>2
  <2> QED BY <2>2, <2>3, <1>1
<1>4. ASSUME Alternating(On(file)) PROVE TakeTurns
  <2> SUFFICES ASSUME NEW i \in DOMAIN file, NEW j \in DOMAIN file, NEW k \in DOMAIN file,
                      NEW s \in Stream, NEW t \in Stream,
                      i < j, j < k, Holds(i, s), Holds(j, s), Holds(k, t), t # s
               PROVE  \E h \in i + 1 .. j - 1 : Holds(h, s) \/ Holds(h, t)
    BY DEF TakeTurns
  <2>1. PICK h \in Nat : i < h /\ h < j /\ (<<h, s>> \in On(file) \/ <<h, t>> \in On(file))
    <3>1. i \in Nat /\ j \in Nat /\ k \in Nat
      BY <1>2
    <3>2. <<i, s>> \in On(file) /\ <<j, s>> \in On(file) /\ <<k, t>> \in On(file)
      BY <1>1, <3>1
    <3> QED BY <1>4, <3>1, <3>2 DEF Alternating
  <2>2. h \in i + 1 .. j - 1
    BY <2>1, <1>2
  <2> QED BY <2>1, <2>2, <1>1
<1> QED BY <1>3, <1>4

\* Partitions without essence do not matter.
LEMMA LongerOn ==
    ASSUME NEW f \in Seq(Partition), NEW g, Longer(f, g)
    PROVE  On(g) = On(f)
<1>1. /\ DOMAIN f = 1 .. Len(f) /\ Len(f) \in Nat
      /\ g \in Seq(Partition) /\ DOMAIN g = 1 .. Len(g) /\ Len(g) \in Nat
      /\ Len(f) <= Len(g)
      /\ \A i \in 1 .. Len(f) : g[i] = f[i]
      /\ \A i \in Len(f) + 1 .. Len(g) : g[i].essence = << >>
  BY DEF Longer
<1>2. \A i \in DOMAIN g : i \notin DOMAIN f => DOMAIN g[i].essence = {}
  <2> TAKE i \in DOMAIN g
  <2> HAVE i \notin DOMAIN f
  <2>1. i \in Len(f) + 1 .. Len(g)
    BY <1>1
  <2> QED BY <2>1, <1>1
<1>3. DOMAIN f \subseteq DOMAIN g /\ \A i \in DOMAIN f : g[i] = f[i]
  BY <1>1
<1> QED BY <1>2, <1>3 DEF On

\* Essence on file is in a partition of its own stream, also in the last one.
LEMMA LastIsOwn ==
    ASSUME IInv, NEW h, MachineOK(h), Ahead(Machine, h), h.file # << >>
    PROVE  LastOne(On(file), Len(h.file), h.file[Len(h.file)].body)
<1>1. /\ file \in Seq(Partition) /\ h.file \in Seq(Partition) /\ Longer(file, h.file)
      /\ OwnOK(file, Amounts(stream))
  BY Parts, MachineParts DEF Ahead, Good, FileOK
<1>2. /\ DOMAIN file = 1 .. Len(file) /\ Len(file) \in Nat /\ Len(file) <= Len(h.file)
      /\ Len(h.file) \in Nat /\ \A i \in 1 .. Len(file) : h.file[i] = file[i]
  BY <1>1 DEF Longer
<1> SUFFICES ASSUME NEW i \in Nat, NEW t \in Stream, <<i, t>> \in On(file)
             PROVE  i <= Len(h.file) /\ (i = Len(h.file) => t = h.file[Len(h.file)].body)
  BY DEF LastOne
<1>3. i \in DOMAIN file /\ \E k \in DOMAIN file[i].essence : file[i].essence[k][1] = t
  BY DEF On
<1>4. t = file[i].body
  BY <1>1, <1>3 DEF OwnOK, Items, Sid
<1> QED BY <1>2, <1>3, <1>4

\* Essence written is in the last partition.
LEMMA DeliveredOn ==
    ASSUME NEW h, MachineOK(h), NEW n, MachineOK(n), Delivered(h, n)
    PROVE  LET l == Len(h.file)
               s == h.file[l].body
               w == Amounts(h.stream)
               v == Amounts(n.stream)
           IN /\ h.file # << >> /\ l \in Nat /\ s \in Stream
              /\ \A t \in Stream : t # s => v[t] = w[t]
              /\ w[s] <= v[s]
              /\ On(n.file) = IF w[s] < v[s] THEN On(h.file) \cup {<<l, s>>} ELSE On(h.file)
<1> DEFINE f == h.file
           g == n.file
           l == Len(f)
           w == Amounts(h.stream)
           v == Amounts(n.stream)
<1>1. PICK s \in Stream, k \in Nat, e \in Seq(Stream \X Nat) :
        /\ f # << >> /\ f[l].body = s
        /\ Continues(e, f[l].essence, k, s, w[s])
        /\ g = [f EXCEPT ![l].essence = e]
        /\ v = [w EXCEPT ![s] = @ + k]
  BY DEF Delivered
<1>2. /\ f \in Seq(Partition) /\ g \in Seq(Partition) /\ w \in [Stream -> Nat]
      /\ l \in Nat /\ l \in DOMAIN f /\ DOMAIN f = 1 .. l
  <2>1. f \in Seq(Partition) /\ g \in Seq(Partition) /\ w \in [Stream -> Nat]
    BY MachineParts, AmountsType
  <2>2. f # << >>
    BY <1>1
  <2> HIDE DEF f
  <2> QED BY <2>1, <2>2
<1>3. v[s] = w[s] + k /\ w[s] \in Nat /\ \A t \in Stream : t # s => v[t] = w[t]
  BY <1>1, <1>2
<1>4. DOMAIN g = DOMAIN f /\ g[l].essence = e /\ \A i \in DOMAIN f : i # l => g[i] = f[i]
  BY <1>1, <1>2
<1> DEFINE old == f[l].essence
<1>5. old \in Seq(Stream \X Nat)
  <2>1. f[l] \in Partition
    BY <1>2
  <2> QED BY <2>1 DEF Partition
<1> HIDE DEF old, f, g, w, v, l
<1>6. /\ DOMAIN old = 1 .. Len(old) /\ Len(old) \in Nat /\ Len(e) = Len(old) + k
      /\ DOMAIN e = 1 .. Len(e)
      /\ \A x \in 1 .. Len(old) : e[x] = old[x]
      /\ \A x \in 1 .. k : e[Len(old) + x] = <<s, w[s] + x - 1>>
  BY <1>1, <1>5 DEF Continues, old
<1>7. \A i \in Nat, t \in Stream :
         (\E x \in DOMAIN e : e[x][1] = t) <=>
             (\/ \E x \in DOMAIN old : old[x][1] = t
              \/ k > 0 /\ t = s)
  <2> TAKE i \in Nat, t \in Stream
  <2>1. ASSUME NEW x \in DOMAIN e, e[x][1] = t
        PROVE  \/ \E y \in DOMAIN old : old[y][1] = t
               \/ k > 0 /\ t = s
    <3>1. CASE x <= Len(old)
      BY <2>1, <3>1, <1>6
    <3>2. CASE x > Len(old)
      <4>1. x - Len(old) \in 1 .. k /\ x = Len(old) + (x - Len(old))
        BY <3>2, <1>6
      <4> DEFINE y == x - Len(old)
      <4> HIDE DEF y
      <4>2. e[Len(old) + y][1] = s /\ y \in 1 .. k
        BY <4>1, <1>6 DEF y
      <4>3. x = Len(old) + y
        BY <4>1 DEF y
      <4> QED BY <2>1, <4>2, <4>3
    <3>3. x \in Nat
      BY <1>6
    <3> QED BY <3>1, <3>2, <3>3, <1>6
  <2>2. ASSUME NEW x \in DOMAIN old, old[x][1] = t
        PROVE  \E y \in DOMAIN e : e[y][1] = t
    BY <2>2, <1>6
  <2>3. ASSUME k > 0 PROVE \E y \in DOMAIN e : e[y][1] = s
    <3>1. e[Len(old) + 1] = <<s, w[s] + 1 - 1>> /\ Len(old) + 1 \in DOMAIN e
      BY <2>3, <1>6
    <3> QED BY <3>1
  <2> QED BY <2>1, <2>2, <2>3
<1>8. \A i \in Nat, t \in Stream :
         <<i, t>> \in On(g) <=> (<<i, t>> \in On(f) \/ (k > 0 /\ i = l /\ t = s))
  <2> TAKE i \in Nat, t \in Stream
  <2> DEFINE y == <<i, t>>
  <2>1. y \in Nat \X Stream /\ y[1] = i /\ y[2] = t
    OBVIOUS
  <2>2. /\ y \in On(g) <=> (i \in DOMAIN g /\ \E x \in DOMAIN g[i].essence : g[i].essence[x][1] = t)
        /\ y \in On(f) <=> (i \in DOMAIN f /\ \E x \in DOMAIN f[i].essence : f[i].essence[x][1] = t)
    <3> HIDE DEF y
    <3> QED BY <2>1 DEF On
  <2>3. CASE i = l
    <3>1. /\ y \in On(g) <=> (\E x \in DOMAIN e : e[x][1] = t)
          /\ y \in On(f) <=> (\E x \in DOMAIN old : old[x][1] = t)
      BY <2>2, <2>3, <1>2, <1>4 DEF old
    <3> QED BY <3>1, <2>3, <1>7
  <2>4. CASE i # l
    BY <2>2, <2>4, <1>4
  <2> QED BY <2>3, <2>4
<1>9. On(g) = IF k > 0 THEN On(f) \cup {<<l, s>>} ELSE On(f)
  <2>1. On(g) \subseteq Nat \X Stream /\ On(f) \subseteq Nat \X Stream
    BY DEF On
  <2>2. <<l, s>> \in Nat \X Stream
    BY <1>1, <1>2
  <2>3. \A x \in Nat \X Stream : x \in On(g) <=> (x \in On(f) \/ (k > 0 /\ x = <<l, s>>))
    <3> TAKE x \in Nat \X Stream
    <3>1. x = <<x[1], x[2]>> /\ x[1] \in Nat /\ x[2] \in Stream
      OBVIOUS
    <3> QED BY <3>1, <1>8
  <2> QED BY <2>1, <2>2, <2>3
<1>10. k > 0 <=> w[s] < v[s]
  BY <1>3
<1>11. w[s] <= v[s]
  BY <1>3
<1> QED BY <1>1, <1>2, <1>3, <1>9, <1>10, <1>11 DEF f, g, w, v, l

-----------------------------------------------------------------------------
\* Where the writer's search starts.
LEMMA FollowingIs ==
    ASSUME NEW m, MachineOK(m)
    PROVE  LET w == m.writer IN
           /\ Following(w) \in Nat /\ Following(w) > 0
           /\ Following(w) = 1 \/ Following(w) <= Len(w.list)
           /\ w.cur # 0 => /\ w.cur \in 1 .. Len(w.list) /\ Len(w.list) \in Nat
                           /\ Following(w) = IF w.cur = Len(w.list) THEN 1 ELSE w.cur + 1
<1> DEFINE w == m.writer
           n == Len(w.list)
<1>1. w.list \in Seq(Stream) /\ w.cur \in 0 .. n /\ n \in Nat
  BY MachineParts
<1>2. CASE w.cur = 0
  BY <1>2 DEF Following
<1>3. CASE w.cur # 0
  <2>1. w.cur \in 1 .. n /\ n > 0
    BY <1>1, <1>3
  <2> DEFINE c == w.cur
  <2>2. Following(w) = (c % n) + 1
    BY <1>3 DEF Following
  <2>5. c \in 1 .. n /\ n \in Nat /\ n > 0
    BY <2>1, <1>1
  <2> HIDE DEF c, n
  <2>3. (c % n) + 1 = IF c = n THEN 1 ELSE c + 1
    <3>1. CASE c = n
      <4>1. (0 + n) % n = 0
        <5>1. 0 \in 0 .. n - 1
          BY <2>5
        <5> QED BY <5>1, <2>5, RemainderOnce
      <4>2. 0 + n = c
        BY <3>1, <2>5
      <4> QED BY <4>1, <4>2, <3>1
    <3>2. CASE c # n
      <4>1. c \in 0 .. n - 1
        BY <3>2, <2>5
      <4>2. c % n = c
        BY <4>1, <2>5, RemainderOnce
      <4> QED BY <4>2, <3>2
    <3> QED BY <3>1, <3>2
  <2>4. Following(w) = IF c = n THEN 1 ELSE c + 1
    BY <2>2, <2>3
  <2> QED BY <2>1, <2>4, <1>1 DEF c, n
<1> QED BY <1>2, <1>3

\* The k-th place of a list of n that a search from start comes to.
Around(n, start, k) == ((start + k - 1) % n) + 1

\* The places that a search comes to before its end.
LEMMA PassedBefore ==
    ASSUME NEW n \in Nat, NEW c \in 1 .. n, NEW start, start = IF c = n THEN 1 ELSE c + 1,
           NEW last \in 0 .. n - 1, NEW q \in 1 .. n,
           NEW d, d = Around(n, start, last), Passed(c, d, q)
    PROVE  \E k \in 0 .. n - 1 : k < last /\ Around(n, start, k) = q
<1>1. start \in 1 .. n
  OBVIOUS
<1>2. PICK k \in 0 .. n - 1 : Around(n, start, k) = q
  BY <1>1, WholeList DEF Around
<1>3. \A x \in 0 .. n - 1 :
         Around(n, start, x) = IF start + x <= n THEN start + x ELSE start + x - n
  <2> TAKE x \in 0 .. n - 1
  <2>1. CASE start + x <= n
    <3>1. start + x - 1 \in 0 .. n - 1
      BY <2>1, <1>1
    <3>2. (start + x - 1) % n = start + x - 1
      BY <3>1, RemainderOnce
    <3> QED BY <2>1, <3>2, <1>1 DEF Around
  <2>2. CASE start + x > n
    <3>1. start + x - 1 - n \in 0 .. n - 1
      BY <2>2, <1>1
    <3> DEFINE a == start + x - 1 - n
    <3>2. a \in 0 .. n - 1 /\ start + x - 1 = a + n
      BY <3>1, <1>1
    <3> HIDE DEF a
    <3>3. (a + n) % n = a
      BY <3>2, RemainderOnce
    <3>4. Around(n, start, x) = a + 1
      BY <3>2, <3>3 DEF Around
    <3> QED BY <2>2, <3>4, <1>1 DEF a
  <2> QED BY <2>1, <2>2, <1>1
<1>4. d = IF start + last <= n THEN start + last ELSE start + last - n
  BY <1>3
<1>5. q = IF start + k <= n THEN start + k ELSE start + k - n
  BY <1>2, <1>3
<1>6. k < last
  BY <1>1, <1>4, <1>5 DEF Passed
<1> QED BY <1>2, <1>6

\* No stream but the one at place cur waits for its post-body table.
Plain(m) ==
    \A s \in Stream : m.stream[s] # None => m.stream[s].state # "PostBodyIndex"

\* A search does not change that.
LEMMA LookPlain ==
    ASSUME NEW m, MachineOK(m), Plain(m), NEW phase \in Phases, phase # "Done",
           NEW start \in Nat, start > 0
    PROVE  Plain(Look(m, phase, start))
<1> DEFINE hits == Hits(m, phase, start)
           list == m.writer.list
           first == {k \in hits : \A h \in hits : k <= h}
           last == IF first = {} THEN Len(list) - 1 ELSE CHOOSE k \in first : TRUE
           seen == {At(list, start, k) : k \in 0 .. last}
           cur == IF first = {} THEN 0 ELSE ((start + last - 1) % Len(list)) + 1
           str == [s \in Stream |->
              IF s \in seen /\ m.stream[s].active THEN Visited(Settled(m.stream[s]))
              ELSE m.stream[s]]
           n == Look(m, phase, start)
<1>1. n = [m EXCEPT !.writer.state = phase, !.writer.cur = cur, !.stream = str]
  BY DEF Look, Chosen
<1>2. m \in MachineType /\ m.stream \in [Stream -> StreamType \cup {None}]
  BY MachineParts
<1> HIDE DEF cur, seen, n
<1>3. n.stream = str
  BY <1>1, <1>2 DEF MachineType
<1>5. Scheduled(m, n)
  BY LookScheduled DEF n
<1> SUFFICES ASSUME NEW s \in Stream, n.stream[s] # None
             PROVE  n.stream[s].state # "PostBodyIndex"
  BY DEF Plain, n
<1>4. m.stream[s] # None /\ m.stream[s] \in StreamType /\ m.stream[s].state # "PostBodyIndex"
  BY <1>2, <1>5 DEF Plain, Scheduled
<1> QED BY <1>3, <1>4, SettledPlain

\* A search for a stream with essence passes only those at their end.
LEMMA LookPassed ==
    ASSUME NEW m, MachineOK(m), Over(m), m.writer.state \notin {"Start", "Done"},
           m.writer.cur # 0, Look(m, "Body", Following(m.writer)).writer.cur # 0
    PROVE  LET d == Look(m, "Body", Following(m.writer)).writer.cur
               list == m.writer.list
           IN \A q \in DOMAIN list : Passed(m.writer.cur, d, q) =>
                 m.stream[list[q]].state \in Spent
<1> DEFINE list == m.writer.list
           n == Len(list)
           start == Following(m.writer)
           Place(k) == ((start + k - 1) % n) + 1
           hits == Hits(m, "Body", start)
           first == {k \in hits : \A h \in hits : k <= h}
           last == IF first = {} THEN n-1 ELSE CHOOSE k \in first : TRUE
           seen == {At(list, start, k) : k \in 0 .. last}
           cur == IF first = {} THEN 0 ELSE Place(last)
           str == [s \in Stream |->
              IF s \in seen /\ m.stream[s].active THEN Visited(Settled(m.stream[s]))
              ELSE m.stream[s]]
           o == Look(m, "Body", start)
           c == m.writer.cur
<1>1. m \in MachineType /\ m.writer \in WriterType /\ list \in Seq(Stream) /\ n \in Nat
  BY MachineParts
<1>2. o = [m EXCEPT !.writer.state = "Body", !.writer.cur = cur, !.stream = str]
  BY DEF Look, Chosen
<1>3. /\ start \in Nat /\ c \in 1 .. n /\ start = IF c = n THEN 1 ELSE c + 1
  BY FollowingIs
<1>4. o.writer.cur = cur /\ cur # 0
  <2>1. o.writer.cur # 0
    OBVIOUS
  <2> HIDE DEF cur, str, o
  <2>2. o.writer = [m.writer EXCEPT !.state = "Body", !.cur = cur]
    BY <1>1, <1>2 DEF MachineType
  <2>3. o.writer.cur = cur
    BY <1>1, <2>2 DEF WriterType
  <2> QED BY <2>1, <2>3
<1>5. first # {}
  BY <1>4
<1>6. last \in first /\ cur = Place(last)
  BY <1>5
<1>7. /\ last \in 0 .. n - 1 /\ \A k \in 0 .. n - 1 : k < last => k \notin hits
  <2>1. hits \subseteq 0 .. n - 1
    BY DEF Hits
  <2>2. last \in hits /\ \A h \in hits : last <= h
    BY <1>6
  <2> HIDE DEF hits, last, first, n
  <2> QED BY <2>1, <2>2, <1>1
<1> HIDE DEF last, first, cur, hits, str, o
<1> SUFFICES ASSUME NEW q \in DOMAIN list, Passed(c, cur, q)
             PROVE  m.stream[list[q]].state \in Spent
  BY <1>4 DEF o
<1>8. PICK k \in 0 .. n - 1 : k < last /\ Place(k) = q
  <2>1. q \in 1 .. n /\ Passed(c, cur, q) /\ cur = Around(n, start, last)
    BY <1>1, <1>6 DEF Around
  <2>2. /\ n \in Nat /\ c \in 1 .. n /\ start = IF c = n THEN 1 ELSE c + 1
        /\ last \in 0 .. n - 1
    BY <1>1, <1>3, <1>7
  <2> HIDE DEF start, c, n
  <2>3. \E k \in 0 .. n - 1 : k < last /\ Around(n, start, k) = q
    BY <2>1, <2>2, PassedBefore
  <2> QED BY <2>3 DEF Around
<1>9. k \notin hits
  BY <1>7, <1>8
<1>10. At(list, start, k) = list[q]
  BY <1>8 DEF At
<1>11. ~Usable(Settled(m.stream[list[q]]), "Body")
  BY <1>8, <1>9, <1>10 DEF hits, Hits
<1> DEFINE r == m.stream[list[q]]
<1>12. list[q] \in Stream /\ r \in StreamType /\ r # None /\ r.state \notin Early
  BY ListedType, NoneAssumption DEF Over
<1>13. Settled(r) = r
  BY <1>12 DEF Settled, Early
<1>14. StreamEnd(r)
  BY <1>12 DEF Over
<1> QED BY <1>11, <1>12, <1>13, <1>14 DEF Usable, StreamEnd, Spent, Early

-----------------------------------------------------------------------------
\* The streams that have essence left.
Waiting(str) == {s \in Stream : str[s] # None /\ str[s].written < str[s].profile.units}

\* The post-body table of the current stream is due.
TableDue(m) == m.writer.cur # 0 /\ m.stream[CurStream(m)].state = "PostBodyIndex"

\* No other stream has one due.
Alone(m) ==
    \A s \in Stream : (m.stream[s] # None /\ m.stream[s].state = "PostBodyIndex") =>
        m.writer.cur # 0 /\ s = CurStream(m)

\* Whose turn it is; had is whether the current stream has had its own.
Ring(m, had) ==
    LET H == On(m.file)
        W == Waiting(m.stream)
        list == m.writer.list
        c == m.writer.cur
    IN /\ c # 0 /\ NobodyPassed(H, W, list)
       /\ IF had THEN HasHadTurn(H, W, list, c) ELSE InTurn(H, W, list, c)

(***************************************************************************)
(* What a machine has to keep for TakeTurns.                               *)
(***************************************************************************)
Turning(m, had) ==
    /\ Alternating(On(m.file))
    /\ m.writer.state \in {"Start", "Header", "Body"} => Distinct(m.writer.list) /\ Alone(m)
    /\ m.writer.state \in {"Start", "Header"} => On(m.file) = {}
    /\ m.writer.state = "Body" => Ring(m, had)

\* Scheduling leaves the essence that is on file and that is to come alone.
LEMMA ScheduledWaiting ==
    ASSUME NEW m, MachineOK(m), NEW n, Scheduled(m, n)
    PROVE  On(n.file) = On(m.file) /\ Waiting(n.stream) = Waiting(m.stream)
<1>1. \A s \in Stream : /\ m.stream[s] = None <=> n.stream[s] = None
                        /\ m.stream[s] # None =>
                             /\ n.stream[s].written = m.stream[s].written
                             /\ n.stream[s].profile = m.stream[s].profile
  BY NoneAssumption DEF Scheduled, Kept
<1> QED BY <1>1 DEF Waiting, Scheduled

\* A stream at its end has no essence left.
LEMMA SpentWaiting ==
    ASSUME NEW m, MachineOK(m), Over(m), NEW s \in Stream, m.stream[s].state \in Spent
    PROVE  s \notin Waiting(m.stream)
<1> SUFFICES ASSUME m.stream[s] # None PROVE ~(m.stream[s].written < m.stream[s].profile.units)
  BY DEF Waiting
<1> DEFINE r == m.stream[s]
<1>1. r \in StreamType /\ StreamInv(r) /\ StreamEnd(r)
  BY MachineParts DEF MachineOK, Over
<1>2. r.written \in Nat /\ r.read \in Nat /\ r.profile.units \in Nat
  BY <1>1, ProfileParts
<1>3. r.read = r.profile.units /\ ~r.pending
  BY <1>1 DEF StreamEnd
<1> QED BY <1>1, <1>2, <1>3 DEF StreamInv

\* The turn goes to the next stream with essence left.
LEMMA SetNextStreamTurn ==
    ASSUME NEW m, MachineOK(m), Over(m), Plain(m), m.writer.state = "Body", Turning(m, TRUE)
    PROVE  LET n == SetNextStream(m) IN Turning(n, FALSE) /\ Plain(n)
<1> DEFINE w == m.writer
           c == w.cur
           start == Following(w)
           here == Look(m, "Body", start)
           n == SetNextStream(m)
           H == On(m.file)
           W == Waiting(m.stream)
           list == w.list
<1>1. n = OrInFooter(OrInBody(here))
  BY DEF SetNextStream
<1>2. w.list \in Seq(Stream) /\ DOMAIN list = 1 .. Len(list)
  BY MachineParts
<1>3. /\ start \in Nat /\ start > 0 /\ c # 0 /\ c \in DOMAIN list
      /\ NobodyPassed(H, W, list) /\ HasHadTurn(H, W, list, c)
      /\ Distinct(list) /\ Alternating(H)
  BY FollowingIs, <1>2 DEF Turning, Ring
<1>4. /\ Scheduled(m, here) /\ here.writer.state = "Body" /\ MachineOK(here) /\ Plain(here)
      /\ here.writer.list = list
  <2>1. "Body" \in Phases
    BY DEF Phases
  <2>2. Scheduled(m, here) /\ here.writer.state = "Body" /\ Plain(here)
    BY <2>1, <1>3, LookScheduled, LookPlain
  <2> HIDE DEF here
  <2> QED BY <2>2, ScheduledOK DEF Scheduled
<1>5. OrInBody(here) = here
  BY <1>4 DEF OrInBody
<1>6. On(here.file) = H /\ Waiting(here.stream) = W
  BY <1>4, ScheduledWaiting
<1>7. CASE here.writer.cur # 0
  <2>1. n = here
    BY <1>1, <1>5, <1>7 DEF OrInFooter
  <2> DEFINE d == here.writer.cur
  <2>2. d \in DOMAIN list
    BY <1>2, <1>4, <1>7, MachineParts
  <2>3. \A q \in DOMAIN list : Passed(c, d, q) => m.stream[list[q]].state \in Spent
    BY <1>3, <1>7, LookPassed
  <2>4. \A q \in DOMAIN list : Passed(c, d, q) => list[q] \notin W
    BY <2>3, <1>2, SpentWaiting
  <2> HIDE DEF here, n, d, W, H, c, list, w
  <2>5. InTurn(H, W, list, d)
    BY <2>2, <2>4, <1>2, <1>3, NextTurn DEF list
  <2>6. Ring(here, FALSE)
    BY <2>5, <1>3, <1>4, <1>6, <1>7 DEF Ring, d
  <2>7. Alone(here)
    BY <1>4 DEF Alone, Plain
  <2>8. Turning(here, FALSE)
    BY <2>6, <2>7, <1>3, <1>4, <1>6 DEF Turning
  <2> QED BY <2>1, <2>8, <1>4 DEF n
<1>8. CASE here.writer.cur = 0
  <2>1. n = Look(here, "Footer", 1)
    BY <1>1, <1>4, <1>5, <1>8 DEF OrInFooter
  <2>2. "Footer" \in Phases
    BY DEF Phases
  <2> HIDE DEF here, n, H, W
  <2>3. Scheduled(here, n) /\ n.writer.state = "Footer" /\ Plain(n)
    BY <2>1, <2>2, <1>4, LookScheduled, LookPlain
  <2>4. On(n.file) = H
    BY <2>3, <1>4, <1>6, ScheduledWaiting
  <2> QED BY <2>3, <2>4, <1>3 DEF Turning, n
<1> QED BY <1>7, <1>8

\* The first turn, after the header.
LEMMA FirstTurn ==
    ASSUME NEW m, MachineOK(m), Plain(m), m.writer.state = "Header", Turning(m, FALSE)
    PROVE  LET n == SetNextStream(m) IN Turning(n, FALSE) /\ Plain(n)
<1> DEFINE w == m.writer
           start == Following(w)
           here == Look(m, "Header", start)
           then == OrInBody(here)
           n == SetNextStream(m)
           Fine(o) == /\ MachineOK(o) /\ Plain(o) /\ On(o.file) = {} /\ Distinct(o.writer.list)
<1>1. n = OrInFooter(then)
  BY DEF SetNextStream
<1>2. start \in Nat /\ start > 0 /\ Fine(m)
  BY FollowingIs DEF Turning
<1>3. ASSUME NEW o, Fine(o), NEW phase \in Phases, phase # "Done", NEW a \in Nat, a > 0
      PROVE  Fine(Look(o, phase, a)) /\ Look(o, phase, a).writer.state = phase
  <2> DEFINE q == Look(o, phase, a)
  <2>1. Scheduled(o, q) /\ q.writer.state = phase /\ Plain(q)
    BY <1>3, LookScheduled, LookPlain
  <2> HIDE DEF q
  <2>2. MachineOK(q) /\ On(q.file) = On(o.file) /\ q.writer.list = o.writer.list
    BY <2>1, <1>3, ScheduledOK, ScheduledWaiting DEF Scheduled
  <2>3. Fine(q) /\ q.writer.state = phase
    BY <2>1, <2>2, <1>3
  <2> QED BY <2>3 DEF q
<1>4. "Header" \in Phases /\ "Body" \in Phases /\ "Footer" \in Phases
  BY DEF Phases
<1>5. Fine(here) /\ here.writer.state = "Header"
  BY <1>2, <1>3, <1>4
<1> HIDE DEF Fine, here
<1>6. Fine(then) /\ then.writer.state \in {"Header", "Body"}
  <2>1. CASE here.writer.cur # 0
    BY <2>1, <1>5 DEF OrInBody
  <2>2. CASE here.writer.cur = 0
    <3>1. then = Look(here, "Body", 1)
      BY <2>2, <1>5 DEF OrInBody
    <3> HIDE DEF then
    <3> QED BY <3>1, <1>3, <1>4, <1>5
  <2> QED BY <2>1, <2>2
<1> HIDE DEF then
<1>7. Fine(n) /\ (n.writer.state = "Footer" \/ (n = then /\ then.writer.cur # 0))
  <2>1. CASE then.writer.cur # 0
    BY <2>1, <1>1, <1>6 DEF OrInFooter
  <2>2. CASE then.writer.cur = 0
    <3>1. n = Look(then, "Footer", 1)
      BY <2>2, <1>1, <1>6 DEF OrInFooter
    <3> HIDE DEF n
    <3> QED BY <3>1, <1>3, <1>4, <1>6
  <2> QED BY <2>1, <2>2
<1> HIDE DEF n
<1>8. Plain(n) /\ On(n.file) = {} /\ Distinct(n.writer.list)
  BY <1>7 DEF Fine
<1>9. Alone(n)
  BY <1>8 DEF Alone, Plain
<1>10. Alternating(On(n.file))
  BY <1>8 DEF Alternating
<1>11. n.writer.state = "Body" => Ring(n, FALSE)
  BY <1>7, <1>8 DEF Ring, InTurn, NobodyPassed, Followed, Parted
<1> QED BY <1>8, <1>9, <1>10, <1>11 DEF Turning, n

-----------------------------------------------------------------------------
\* Nothing that TakeTurns depends on has changed.
LEMMA TurnKept ==
    ASSUME NEW m, MachineOK(m), NEW n, MachineOK(n), Ahead(m, n), Orderly(m, n), NEW had,
           Turning(m, had)
    PROVE  Turning(n, had)
<1>1. On(n.file) = On(m.file)
  BY MachineParts, LongerOn DEF Ahead
<1>2. \A s \in Stream : Amounts(n.stream)[s] = Amounts(m.stream)[s]
  BY DEF Ahead
<1>3. Waiting(n.stream) \subseteq Waiting(m.stream)
  BY <1>2 DEF Waiting, Orderly, Amounts
<1>4. Alone(m) => Alone(n)
  BY DEF Alone, Orderly, CurStream
<1>5. Ring(m, had) => Ring(n, had)
  <2> DEFINE H == On(m.file)
             W == Waiting(m.stream)
             V == Waiting(n.stream)
             list == m.writer.list
             c == m.writer.cur
  <2>1. /\ InTurn(H, W, list, c) => InTurn(H, V, list, c)
        /\ HasHadTurn(H, W, list, c) => HasHadTurn(H, V, list, c)
        /\ NobodyPassed(H, W, list) => NobodyPassed(H, V, list)
    BY <1>3, FewerWaiting
  <2> QED BY <2>1, <1>1 DEF Ring, Orderly
<1> QED BY <1>1, <1>4, <1>5 DEF Turning, Orderly

\* Only in the body does it matter whether a stream has had its turn.
LEMMA TurnNowhere ==
    ASSUME NEW m, NEW had, NEW had2, Turning(m, had), m.writer.state # "Body"
    PROVE  Turning(m, had2)
BY DEF Turning

(***************************************************************************)
(* What completes the invariant for TakeTurns: whose turn it is between    *)
(* the calls, and that a call of WriteEssence which has written its first  *)
(* unit goes on in the last partition.                                     *)
(***************************************************************************)
TurnInv ==
    /\ Turning(Machine, IF call = Idle THEN TableDue(Machine) ELSE Writing /\ ~call.first)
    /\ Writing => /\ writer.state = "Body"
                  /\ ~call.first => <<Len(file), CurStream(Machine)>> \in On(file)

\* No call is in progress.
LEMMA IdleTurn ==
    ASSUME NEW m, Machine' = m, Turning(m, TableDue(m)), call' = Idle
    PROVE  TurnInv'
<1>1. ~Writing'
  BY IdleCall DEF Writing
<1>2. Turning(Machine', TableDue(Machine'))
  OBVIOUS
<1> QED BY <1>1, <1>2 DEF TurnInv

\* The return of a WritePartition.
LEMMA ReturnTurn ==
    ASSUME NEW m, Good(m), Turning(m, TableDue(m)), NEW ret, Return(m, ret)
    PROVE  TurnInv'
<1> DEFINE enough == body > 0 /\ ret >= body
           n == [m EXCEPT !.writer.state = IF enough THEN "Footer" ELSE @]
<1>1. Become(n) /\ call' = Idle
  BY DEF Return
<1>2. CASE enough
  <2> DEFINE o == [m EXCEPT !.writer.state = "Footer"]
  <2>1. Good(o) /\ o.file = m.file /\ o.writer.state = "Footer" /\ n = o
    BY <1>2, StateChanged DEF Phases
  <2> HIDE DEF o, n
  <2>2. Machine' = o
    BY <1>1, <2>1, Becoming
  <2>3. Turning(o, TableDue(o))
    BY <2>1 DEF Turning
  <2> QED BY <1>1, <2>2, <2>3, IdleTurn
<1>3. CASE ~enough
  <2>1. n = m
    BY <1>3, MachineParts DEF Good, MachineType, WriterType
  <2>2. Machine' = m
    BY <1>1, <2>1, Becoming
  <2> QED BY <1>1, <2>2, IdleTurn
<1> QED BY <1>2, <1>3

\* A writer in its body without a table that is due.
LEMMA PlainDue ==
    ASSUME NEW m, MachineOK(m), Plain(m), Turning(m, FALSE)
    PROVE  Turning(m, TableDue(m))
<1>1. TableDue(m) = FALSE
  BY CurStreamType, NoneAssumption DEF Plain, TableDue
<1> QED BY <1>1

\* The writer leaves WriteEssence after the turn of its stream.
LEMMA LeaveTurn ==
    ASSUME NEW m, MachineOK(m), Over(m), m.writer.state = "Body", Turning(m, TRUE),
           NEW s, s = CurStream(m)
    PROVE  LET n == Leave(m, s) IN Turning(n, TableDue(n))
<1>0. m.writer.cur # 0 /\ Alone(m)
  BY DEF Turning, Ring
<1>1. CASE m.stream[s].state = "PostBodyIndex"
  <2>1. Leave(m, s) = m
    BY <1>1 DEF Leave
  <2>2. TableDue(m) = TRUE
    BY <1>0, <1>1 DEF TableDue
  <2> QED BY <2>1, <2>2
<1>2. CASE m.stream[s].state # "PostBodyIndex"
  <2>1. Leave(m, s) = SetNextStream(m)
    BY <1>2 DEF Leave
  <2>2. Plain(m)
    BY <1>0, <1>2 DEF Alone, Plain
  <2> DEFINE n == SetNextStream(m)
  <2>3. Turning(n, FALSE) /\ Plain(n)
    BY <2>2, SetNextStreamTurn
  <2>4. MachineOK(n)
    BY SetNextStreamScheduled, ScheduledOK
  <2> HIDE DEF n
  <2>5. Turning(n, TableDue(n))
    BY <2>3, <2>4, PlainDue
  <2> QED BY <2>1, <2>5 DEF n
<1> QED BY <1>1, <1>2

-----------------------------------------------------------------------------
\* The current stream is at its end, or it has had its turn before.
LEMMA TurnServed ==
    ASSUME IInv, OverInv, TurnInv, Writing, NEW n, Worked(n), Ahead(Machine, n),
           \/ ~call.first
           \/ n.stream[CurStream(Machine)].written = n.stream[CurStream(Machine)].profile.units
    PROVE  Turning(n, TRUE)
<1> DEFINE s == CurStream(Machine)
           H == On(file)
           W == Waiting(stream)
           V == Waiting(n.stream)
           list == writer.list
           c == writer.cur
<1>1. /\ Turning(Machine, ~call.first) /\ writer.state = "Body"
      /\ Machine.writer = writer /\ Machine.file = file /\ Machine.stream = stream
  BY Parts, IdleCall DEF TurnInv, Writing
<1>2. Alternating(H) /\ Distinct(list) /\ Alone(Machine) /\ Ring(Machine, ~call.first)
  BY <1>1 DEF Turning
<1>3. On(n.file) = H
  BY <1>1, Parts, LongerOn DEF Ahead
<1>4. /\ n.writer.list = list /\ n.writer.cur = c /\ n.writer.state = "Body"
      /\ \A t \in Stream : t # s => n.stream[t] = stream[t]
      /\ n.stream[s].profile = stream[s].profile /\ Good(n)
  BY <1>1 DEF Worked
<1>5. s \in Stream /\ stream[s] \in StreamType /\ s = list[c]
  BY <1>1, EssenceCall DEF CurStream
<1>6. V \subseteq W
  <2>1. \A t \in Stream : Amounts(n.stream)[t] = Amounts(stream)[t]
    BY <1>1 DEF Ahead
  <2>2. n.stream[s] # None => n.stream[s].written = stream[s].written
    BY <2>1, <1>5, NoneAssumption DEF Amounts
  <2>3. stream[s] # None
    BY <1>5, NoneAssumption
  <2> HIDE DEF s
  <2> QED BY <2>2, <2>3, <1>4 DEF Waiting
<1>7. Alone(n)
  <2>1. CurStream(n) = s /\ n.writer.cur # 0
    BY <1>2, <1>1, <1>4, <1>5 DEF CurStream, Ring
  <2>2. \A t \in Stream : (stream[t] # None /\ stream[t].state = "PostBodyIndex") => t = s
    BY <1>1, <1>2 DEF Alone
  <2> HIDE DEF s
  <2> QED BY <2>1, <2>2, <1>4 DEF Alone
<1>8. NobodyPassed(H, V, list) /\ HasHadTurn(H, V, list, c) /\ c # 0
  <2>1. /\ InTurn(H, W, list, c) => InTurn(H, V, list, c)
        /\ HasHadTurn(H, W, list, c) => HasHadTurn(H, V, list, c)
        /\ NobodyPassed(H, W, list) => NobodyPassed(H, V, list)
    BY <1>6, FewerWaiting
  <2>2. CASE ~call.first
    BY <1>1, <1>2, <2>1, <2>2 DEF Ring
  <2>3. CASE call.first
    <3>1. n.stream[s].written = n.stream[s].profile.units /\ InTurn(H, W, list, c)
      BY <1>1, <1>2, <2>3 DEF Ring
    <3>2. list[c] \notin V
      <4>1. n.stream[s].written \in Nat
        BY <1>5, ProfileParts DEF Worked
      <4>2. ~(n.stream[s].written < n.stream[s].profile.units)
        BY <3>1, <4>1
      <4> QED BY <4>2, <1>5 DEF Waiting
    <3> QED BY <1>1, <1>2, <2>1, <3>1, <3>2, TurnNotNeeded DEF Ring
  <2> QED BY <2>2, <2>3
<1> QED BY <1>2, <1>3, <1>4, <1>7, <1>8 DEF Turning, Ring

\* The current stream has its turn: essence of it is written.
LEMMA TurnWritten ==
    ASSUME IInv, OverInv, TurnInv, Writing, NEW n, Worked(n),
           NEW h, MachineOK(h), Ahead(Machine, h), Delivered(h, n),
           ~call.first => h.file = file,
           h.file[Len(h.file)].body = CurStream(Machine),
           \/ stream[CurStream(Machine)].written < n.stream[CurStream(Machine)].written
           \/ n.stream[CurStream(Machine)].written = n.stream[CurStream(Machine)].profile.units
    PROVE  LET s == CurStream(Machine) IN
           /\ Turning(n, TRUE)
           /\ stream[s].written < n.stream[s].written => <<Len(n.file), s>> \in On(n.file)
<1> DEFINE s == CurStream(Machine)
           H == On(file)
           W == Waiting(stream)
           V == Waiting(n.stream)
           list == writer.list
           c == writer.cur
           l == Len(h.file)
<1>1. /\ Turning(Machine, ~call.first) /\ writer.state = "Body"
      /\ Machine.writer = writer /\ Machine.file = file /\ Machine.stream = stream
      /\ list \in Seq(Stream) /\ file \in Seq(Partition)
  BY Parts, IdleCall DEF TurnInv, Writing
<1>2. /\ Alternating(H) /\ Distinct(list) /\ Alone(Machine) /\ Ring(Machine, ~call.first)
      /\ c # 0
  BY <1>1 DEF Turning, Ring
<1>3. On(h.file) = H
  BY <1>1, LongerOn DEF Ahead
<1>4. /\ n.writer.list = list /\ n.writer.cur = c /\ n.writer.state = "Body"
      /\ \A t \in Stream : t # s => n.stream[t] = stream[t]
      /\ n.stream[s].profile = stream[s].profile /\ Good(n) /\ MachineOK(n)
  BY <1>1 DEF Worked, Good
<1>5. /\ s \in Stream /\ stream[s] \in StreamType /\ s = list[c] /\ c \in DOMAIN list
      /\ stream[s] # None /\ n.stream[s] \in StreamType /\ n.stream[s] # None
      /\ StreamInv(n.stream[s])
  <2>1. s \in Stream /\ stream[s] \in StreamType /\ n.stream[s] \in StreamType
    BY <1>1, EssenceCall DEF Worked
  <2>2. c \in 1 .. Len(list) /\ DOMAIN list = 1 .. Len(list) /\ s = list[c]
    BY <1>1, <1>2, Parts DEF CurStream
  <2>3. n.stream[s] # None /\ StreamInv(n.stream[s])
    BY <2>1, <1>4, NoneAssumption DEF MachineOK
  <2> QED BY <2>1, <2>2, <2>3, NoneAssumption
<1> DEFINE old == stream[s].written
           new == n.stream[s].written
           units == stream[s].profile.units
<1>6. /\ old \in Nat /\ new \in Nat /\ units \in Nat /\ new <= units
      /\ n.stream[s].profile.units = units
  <2>1. old \in Nat /\ new \in Nat /\ units \in Nat /\ n.stream[s].profile.units = units
    BY <1>4, <1>5, ProfileParts
  <2>2. n.stream[s].read \in Nat /\ n.stream[s].read <= units
    BY <1>4, <1>5, ProfileParts DEF StreamInv
  <2>3. n.stream[s].read = new \/ n.stream[s].read = new + 1
    BY <1>5, <2>1 DEF StreamInv
  <2> QED BY <2>1, <2>2, <2>3
<1>7. /\ h.file # << >> /\ l \in Nat
      /\ old <= new
      /\ On(n.file) = IF old < new THEN H \cup {<<l, s>>} ELSE H
  <2> DEFINE w == Amounts(h.stream)
             v == Amounts(n.stream)
             z == h.file[Len(h.file)].body
  <2>1. /\ h.file # << >> /\ l \in Nat /\ z \in Stream
        /\ w[z] <= v[z]
        /\ On(n.file) = IF w[z] < v[z] THEN On(h.file) \cup {<<l, z>>} ELSE On(h.file)
    BY <1>4, DeliveredOn
  <2>2. z = s
    OBVIOUS
  <2>3. w = Amounts(stream)
    BY <1>1 DEF Ahead
  <2>4. w[s] = old /\ v[s] = new
    BY <2>3, <1>5 DEF Amounts
  <2> HIDE DEF w, v, z, old, new
  <2> QED BY <2>1, <2>2, <2>4, <1>3
<1>8. V \subseteq W
  <2>1. s \in V => s \in W
    <3>1. s \in V => new < units
      BY <1>6 DEF Waiting
    <3>2. old < units => s \in W
      BY <1>5 DEF Waiting
    <3>3. new < units => old < units
      <4> HIDE DEF old, new, units
      <4> QED BY <1>6, <1>7
    <3> QED BY <3>1, <3>2, <3>3
  <2>2. \A t \in Stream : t # s => (t \in V <=> t \in W)
    BY <1>4 DEF Waiting
  <2>3. \A t \in V : t \in Stream
    BY DEF Waiting
  <2> HIDE DEF V, W, s
  <2> QED BY <2>1, <2>2, <2>3
<1>9. Alone(n)
  <2>1. CurStream(n) = s /\ n.writer.cur # 0
    BY <1>2, <1>4, <1>5 DEF CurStream
  <2>2. \A t \in Stream : (stream[t] # None /\ stream[t].state = "PostBodyIndex") => t = s
    BY <1>1, <1>2 DEF Alone
  <2> HIDE DEF s
  <2> QED BY <2>1, <2>2, <1>4 DEF Alone
<1>10. Len(n.file) = l
  <2>1. PICK e : n.file = [h.file EXCEPT ![Len(h.file)].essence = e]
    BY DEF Delivered
  <2>2. h.file \in Seq(Partition) /\ n.file \in Seq(Partition)
    BY <1>4, MachineParts
  <2>3. h.file # << >>
    BY <1>7
  <2> QED BY <2>1, <2>2, <2>3, SameBody
<1>11. IInv /\ MachineOK(h) /\ Ahead(Machine, h) /\ h.file # << >>
  BY <1>7
<1>12. LastOne(H, l, s)
  BY <1>11, LastIsOwn
<1>13. /\ InTurn(H, W, list, c) => InTurn(H, V, list, c)
       /\ HasHadTurn(H, W, list, c) => HasHadTurn(H, V, list, c)
       /\ NobodyPassed(H, W, list) => NobodyPassed(H, V, list)
  BY <1>8, FewerWaiting
<1>14. /\ NobodyPassed(H, W, list)
       /\ call.first => InTurn(H, W, list, c)
       /\ ~call.first => HasHadTurn(H, W, list, c)
  BY <1>1, <1>2 DEF Ring
<1>15. CASE old < new /\ call.first
  <2>1. s \in W
    BY <1>5, <1>6, <1>15 DEF Waiting
  <2>2. H \in SUBSET (Nat \X Stream)
    BY DEF On
  <2> DEFINE G == H \cup {<<l, list[c]>>}
  <2>3. HasHadTurn(G, V, list, c) /\ NobodyPassed(G, V, list) /\ Alternating(G)
    <3>1. /\ list \in Seq(Stream) /\ c \in DOMAIN list /\ Distinct(list) /\ l \in Nat
          /\ LastOne(H, l, list[c]) /\ list[c] \in W /\ V \subseteq W
          /\ InTurn(H, W, list, c) /\ NobodyPassed(H, W, list) /\ Alternating(H)
      BY <2>1, <1>1, <1>2, <1>5, <1>7, <1>8, <1>12, <1>14, <1>15
    <3> HIDE DEF H, W, V, list, c, l
    <3> QED BY <2>2, <3>1, TurnTaken
  <2>4. On(n.file) = G
    BY <1>5, <1>7, <1>15
  <2>5. <<Len(n.file), s>> \in On(n.file)
    BY <2>4, <1>5, <1>10
  <2> HIDE DEF G
  <2>6. Turning(n, TRUE)
    BY <2>3, <2>4, <1>2, <1>4, <1>9 DEF Turning, Ring
  <2> QED BY <2>5, <2>6
<1>16. CASE old < new /\ ~call.first
  <2>1. h.file = file /\ <<l, s>> \in H
    BY <1>16 DEF TurnInv
  <2>2. On(n.file) = H
    BY <2>1, <1>7, <1>16
  <2>3. Turning(n, TRUE)
    BY <2>2, <1>2, <1>4, <1>9, <1>13, <1>14, <1>16 DEF Turning, Ring
  <2> QED BY <2>1, <2>2, <2>3, <1>10
<1>17. CASE ~(old < new)
  <2>1. On(n.file) = H
    BY <1>7, <1>17
  <2>2. list[c] \notin V
    <3>1. new = units
      BY <1>6, <1>17
    <3> QED BY <3>1, <1>5, <1>6 DEF Waiting
  <2>3. HasHadTurn(H, V, list, c) /\ NobodyPassed(H, V, list)
    BY <2>2, <1>13, <1>14, TurnNotNeeded
  <2> QED BY <2>1, <2>3, <1>2, <1>4, <1>9, <1>17 DEF Turning, Ring
<1> QED BY <1>15, <1>16, <1>17

-----------------------------------------------------------------------------
\* Before the body no essence is on file.
LEMMA StartTurn ==
    ASSUME NEW m, Machine' = m, On(m.file) = {}, Distinct(m.writer.list), Alone(m),
           m.writer.state = "Start", ~Writing'
    PROVE  TurnInv'
<1>1. \A had : Turning(m, had)
  BY DEF Turning, Alternating
<1> QED BY <1>1 DEF TurnInv

\* So it is before the header.
LEMMA AtStart ==
    ASSUME IInv, OverInv, TurnInv, writer.state = "Start"
    PROVE  /\ writer.cur = 0 /\ On(file) = {} /\ Distinct(writer.list) /\ Alone(Machine)
           /\ Plain(Machine)
<1>1. Machine.writer = writer /\ Machine.file = file /\ Machine.stream = stream
  BY Parts
<1>2. writer.cur = 0 /\ On(file) = {} /\ Distinct(writer.list) /\ Alone(Machine)
  BY <1>1 DEF OverInv, Over, TurnInv, Turning
<1> QED BY <1>1, <1>2 DEF Alone, Plain

\* A stream is added only once.
LEMMA AddStreamTurn ==
    ASSUME IInv, OverInv, TurnInv, NEW s \in Stream, AddStream(s)
    PROVE  TurnInv'
<1>1. /\ call = Idle /\ writer.state = "Start" /\ s \notin Listed(Machine)
      /\ writer' = [writer EXCEPT !.list = Append(@, s)]
      /\ file' = file /\ call' = call
  BY DEF AddStream, Caller, OverInv
<1>2. /\ writer.cur = 0 /\ On(file) = {} /\ Distinct(writer.list) /\ Plain(Machine)
      /\ Machine.writer = writer /\ Machine.stream = stream
      /\ writer \in WriterType /\ writer.list \in Seq(Stream)
      /\ stream \in [Stream -> StreamType \cup {None}]
  BY <1>1, AtStart, Parts
<1>3. PICK q : stream' = [stream EXCEPT ![s] = q] /\ q.state # "PostBodyIndex"
  <2>1. CASE stream[s] = None
    <3>1. PICK p \in Profiles : stream' = [stream EXCEPT ![s] = NewStream(p)]
      BY <2>1 DEF AddStream
    <3>2. NewStream(p).state # "PostBodyIndex"
      BY DEF NewStream
    <3> QED BY <3>1, <3>2
  <2>2. CASE stream[s] # None
    <3> DEFINE q == [stream[s] EXCEPT !.active = TRUE,
                                      !.stopAfter = stream[s].profile.stopAfter]
    <3>1. stream[s] \in StreamType /\ stream[s].state # "PostBodyIndex"
      BY <2>2, <1>2 DEF Plain
    <3>2. stream' = [stream EXCEPT ![s] = q]
      BY <2>2, <1>2 DEF AddStream
    <3>3. q.state = stream[s].state
      BY <3>1 DEF StreamType
    <3> QED BY <3>1, <3>2, <3>3
  <2> QED BY <2>1, <2>2
<1>4. /\ Machine' = [writer |-> writer', stream |-> stream', file |-> file']
      /\ Machine'.writer = writer' /\ Machine'.stream = stream' /\ Machine'.file = file'
  BY DEF Machine
<1>5. writer'.state = "Start" /\ writer'.list = Append(writer.list, s)
  BY <1>1, <1>2 DEF WriterType
<1>6. \A t \in Stream : stream'[t] # None => stream'[t].state # "PostBodyIndex"
  BY <1>2, <1>3 DEF Plain
<1>7. Alone(Machine')
  BY <1>4, <1>6 DEF Alone
<1>8. Distinct(writer'.list)
  <2> DEFINE list == writer.list
             more == Append(list, s)
  <2>1. \A i \in DOMAIN list : list[i] # s
    BY <1>1, <1>2 DEF Listed
  <2>2. /\ DOMAIN list = 1 .. Len(list) /\ DOMAIN more = 1 .. Len(list) + 1
        /\ Len(list) \in Nat /\ more[Len(list) + 1] = s
        /\ \A i \in DOMAIN list : more[i] = list[i]
    BY <1>2
  <2>3. \A i \in DOMAIN more : i \in DOMAIN list \/ i = Len(list) + 1
    BY <2>2
  <2> HIDE DEF list, more
  <2>4. Distinct(more)
    BY <2>1, <2>2, <2>3, <1>2 DEF Distinct, list
  <2> QED BY <2>4, <1>5 DEF more, list
<1>9. ~Writing'
  BY <1>1, IdleCall DEF Writing
<1> QED BY <1>1, <1>2, <1>4, <1>5, <1>7, <1>8, <1>9, StartTurn

\* The call of WriteHeader changes no stream.
LEMMA WriteHeaderTurn ==
    ASSUME IInv, OverInv, TurnInv, WriteHeader
    PROVE  TurnInv'
<1>1. /\ writer.state = "Start" /\ stream' = stream /\ file' = file
      /\ writer' = [writer EXCEPT
          !.pack.type = "Header", !.pack.body = None, !.pack.offset = 0,
          !.sid = None, !.header = TRUE, !.generic = FALSE,
          !.pending = @ \/ ~IndexShares]
      /\ call'.op = "WriteHeader"
  BY DEF WriteHeader
<1>2. /\ writer'.list = writer.list /\ writer'.state = "Start" /\ writer'.cur = writer.cur
  BY <1>1, Parts DEF WriterType
<1>3. /\ Machine'.writer = writer' /\ Machine'.stream = stream' /\ Machine'.file = file'
  BY DEF Machine
<1>4. /\ On(file) = {} /\ Distinct(writer.list) /\ Alone(Machine) /\ writer.cur = 0
      /\ Plain(Machine) /\ Machine.stream = stream
  BY <1>1, AtStart, Parts
<1>5. Alone(Machine')
  BY <1>1, <1>3, <1>4 DEF Alone, Plain
<1>6. ~Writing'
  BY <1>1 DEF Writing
<1> QED BY <1>1, <1>2, <1>3, <1>4, <1>5, <1>6, StartTurn

\* A CBR table for the header.
LEMMA HeaderIndexTurn ==
    ASSUME IInv, OverInv, TurnInv, HeaderIndex
    PROVE  TurnInv'
<1>1. writer.state = "Start" /\ call'.op = "WriteHeader"
  <2>1. call.op = "WriteHeader"
    BY DEF HeaderIndex
  <2>2. call \in [op: {"WriteHeader"}, pos: Nat \ {0}, written: BOOLEAN]
    BY <2>1, HeaderCall
  <2>3. writer.state = "Start"
    BY <2>1 DEF OverInv, CallOver
  <2>4. \E a, b : call' = [call EXCEPT !.pos = a, !.written = b]
    BY DEF HeaderIndex
  <2> QED BY <2>2, <2>3, <2>4
<1>2. /\ IInv' /\ Ahead(Machine, Machine') /\ Orderly(Machine, Machine')
      /\ On(file) = {} /\ Distinct(writer.list) /\ Alone(Machine)
      /\ Machine.writer = writer /\ Machine.file = file /\ file \in Seq(Partition)
  BY <1>1, AtStart, HeaderIndexInv, Parts
<1> DEFINE m == Machine'
<1>3. On(m.file) = {}
  BY <1>2, LongerOn DEF Ahead
<1>4. m.writer.list = writer.list /\ m.writer.state = "Start"
  BY <1>1, <1>2 DEF Orderly
<1>5. Alone(m)
  BY <1>2 DEF Alone, Orderly, CurStream
<1>6. ~Writing'
  BY <1>1 DEF Writing
<1> QED BY <1>2, <1>3, <1>4, <1>5, <1>6, StartTurn

\* The end of WriteHeader: the first turn.
LEMMA HeaderEndTurn ==
    ASSUME IInv, OverInv, TurnInv, HeaderEnd
    PROVE  TurnInv'
<1>1. writer.state = "Start"
  BY DEF HeaderEnd, OverInv, CallOver
<1>2. /\ writer.cur = 0 /\ On(file) = {} /\ Distinct(writer.list) /\ Plain(Machine)
      /\ Machine.stream = stream /\ Machine.file = file /\ file \in Seq(Partition)
  BY <1>1, AtStart, Parts
<1>3. PICK m : /\ Good(m) /\ Ahead(Machine, m) /\ m.writer.state = "Header"
               /\ m.stream = stream /\ m.writer.list = writer.list
               /\ Become(SetNextStream(m)) /\ call' = Idle
  BY <1>2, HeaderEndInv
<1>4. On(m.file) = {} /\ Plain(m)
  BY <1>2, <1>3, LongerOn DEF Ahead, Plain
<1>5. Turning(m, FALSE)
  BY <1>2, <1>3, <1>4 DEF Turning, Alternating, Alone, Plain
<1> DEFINE n == SetNextStream(m)
<1>6. Good(n) /\ MachineOK(n) /\ MachineOK(m)
  BY <1>3, SetNextStreamGood DEF Good
<1>7. Turning(n, FALSE) /\ Plain(n)
  BY <1>3, <1>4, <1>5, <1>6, FirstTurn
<1> HIDE DEF n
<1>8. Turning(n, TableDue(n))
  BY <1>6, <1>7, PlainDue
<1>9. Machine' = n
  BY <1>3, <1>6, Becoming DEF n
<1> QED BY <1>3, <1>8, <1>9, IdleTurn

\* The writer goes on with its current stream, whose state is known.
LEMMA InBody ==
    ASSUME IInv, TurnInv, NEW state, WritePartition(state)
    PROVE  /\ call = Idle /\ writer.state = "Body" /\ writer.cur # 0
           /\ stream[CurStream(Machine)].state = state
           /\ CurStream(Machine) \in Stream /\ stream[CurStream(Machine)] \in StreamType
           /\ Turning(Machine, TableDue(Machine))
           /\ TableDue(Machine) = (state = "PostBodyIndex")
           /\ Machine.writer = writer /\ Machine.stream = stream
<1>1. /\ call = Idle /\ writer.state = "Body" /\ writer.cur # 0
      /\ stream[CurStream(Machine)].state = state
  BY DEF WritePartition
<1>2. Machine.writer = writer /\ Machine.stream = stream
  BY Parts
<1>3. TableDue(Machine) = (state = "PostBodyIndex")
  BY <1>1, <1>2 DEF TableDue
<1>4. Turning(Machine, TableDue(Machine))
  BY <1>1 DEF TurnInv
<1> QED BY <1>1, <1>2, <1>3, <1>4, CurrentStream

\* Starting WriteBody is no turn.
LEMMA WriteBodyTurn ==
    ASSUME IInv, TurnInv, WriteBody
    PROVE  TurnInv'
<1>1. call = Idle /\ call' = call /\ writer' = writer /\ stream' = stream /\ file' = file
  BY DEF WriteBody, Caller
<1>2. Machine' = Machine
  BY <1>1 DEF Machine
<1>3. Turning(Machine, TableDue(Machine))
  BY <1>1 DEF TurnInv
<1> DEFINE m == Machine
<1> HIDE DEF m
<1> QED BY <1>1, <1>2, <1>3, IdleTurn

\* While there is essence to come there is a current stream.
LEMMA NoCurrentStreamTurn ==
    ASSUME IInv, TurnInv, NoCurrentStream
    PROVE  FALSE
BY Parts DEF NoCurrentStream, TurnInv, Turning, Ring

\* A table before the body is no turn.
LEMMA PreBodyIndexTurn ==
    ASSUME IInv, TurnInv, PreBodyIndex
    PROVE  TurnInv'
<1> DEFINE s == CurStream(Machine)
           m == Ended(Machine)
           n == Advanced(IsolatedIndex(m, s, TRUE), s)
           o == IF HasManager(stream[s]) THEN n ELSE m
<1>1. WritePartition("PreBodyIndex") /\ Return(o, 0)
  BY DEF PreBodyIndex
<1>2. /\ writer.cur # 0 /\ stream[s].state = "PreBodyIndex" /\ Turning(Machine, FALSE)
      /\ Machine.writer = writer /\ Machine.stream = stream
      /\ s \in Stream /\ stream[s] \in StreamType
  <2> DEFINE due == "PreBodyIndex"
             is == due = "PostBodyIndex"
  <2>1. WritePartition(due) /\ is = FALSE
    BY <1>1
  <2> HIDE DEF due
  <2>2. /\ writer.cur # 0 /\ stream[s].state = due /\ Turning(Machine, TableDue(Machine))
        /\ Machine.writer = writer /\ Machine.stream = stream
        /\ s \in Stream /\ stream[s] \in StreamType /\ TableDue(Machine) = is
    BY <2>1, InBody
  <2> HIDE DEF is
  <2> QED BY <2>1, <2>2 DEF due
<1>3. /\ Good(m) /\ Ahead(Machine, m) /\ Good(n) /\ Ahead(Machine, n)
      /\ Alike(Machine, m) /\ Orderly(Machine, n) /\ n.stream[s].state # "PostBodyIndex"
  BY <1>2, IsolatedStep DEF BodyStates
<1> HIDE DEF m, n
<1>4. /\ Good(o) /\ Ahead(Machine, o) /\ Orderly(Machine, o)
      /\ o.stream[s].state # "PostBodyIndex"
  <2>1. Orderly(Machine, m) /\ m.stream[s].state = "PreBodyIndex"
    BY <1>2, <1>3, AlikeOrderly DEF Alike
  <2> QED BY <2>1, <1>3
<1> HIDE DEF o
<1>5. Turning(o, FALSE)
  BY <1>2, <1>4, Parts, TurnKept DEF Good
<1>6. TableDue(o) = FALSE
  BY <1>2, <1>4 DEF TableDue, Orderly, CurStream, s
<1> QED BY <1>1, <1>4, <1>5, <1>6, ReturnTurn

\* The table after the body ends the turn.
LEMMA PostBodyIndexTurn ==
    ASSUME IInv, OverInv, TurnInv, PostBodyIndex
    PROVE  TurnInv'
<1> DEFINE s == CurStream(Machine)
           m == Ended(Machine)
           bump == "Sprinkled" \notin stream[s].index
           n == Advanced(IsolatedIndex(m, s, bump), s)
           o == IF HasManager(stream[s]) THEN SetNextStream(n) ELSE m
<1>1. WritePartition("PostBodyIndex") /\ Return(o, 0)
  BY DEF PostBodyIndex
<1>2. /\ writer.cur # 0 /\ stream[s].state = "PostBodyIndex" /\ Turning(Machine, TRUE)
      /\ Machine.writer = writer /\ Machine.stream = stream /\ writer.state = "Body"
      /\ s \in Stream /\ stream[s] \in StreamType
  <2> DEFINE due == "PostBodyIndex"
             is == due = "PostBodyIndex"
  <2>1. WritePartition(due) /\ is = TRUE
    BY <1>1
  <2> HIDE DEF due
  <2>2. /\ writer.cur # 0 /\ stream[s].state = due /\ Turning(Machine, TableDue(Machine))
        /\ TableDue(Machine) = is
        /\ Machine.writer = writer /\ Machine.stream = stream /\ writer.state = "Body"
        /\ s \in Stream /\ stream[s] \in StreamType
    BY <2>1, InBody
  <2> HIDE DEF is
  <2> QED BY <2>1, <2>2 DEF due
<1> HIDE DEF bump
<1>3. /\ Good(m) /\ Ahead(Machine, m) /\ Good(n) /\ Ahead(Machine, n)
      /\ Alike(Machine, m) /\ Orderly(Machine, n) /\ n.stream[s].state # "PostBodyIndex"
      /\ Over(n)
  BY <1>2, IsolatedStep DEF BodyStates, OverInv
<1> HIDE DEF m, n
<1>4. CASE ~HasManager(stream[s])
  <2>1. o = m
    BY <1>4
  <2>2. TableDue(m) = TRUE
    BY <1>2, <1>3 DEF TableDue, Alike, CurStream, s
  <2>3. Turning(m, TRUE)
    BY <1>2, <1>3, Parts, AlikeOrderly, TurnKept DEF Good
  <2> QED BY <2>1, <2>2, <2>3, <1>1, <1>3, ReturnTurn
<1>5. CASE HasManager(stream[s])
  <2> DEFINE x == SetNextStream(n)
  <2>1. o = x
    BY <1>5
  <2>2. Turning(n, TRUE) /\ MachineOK(n)
    BY <1>2, <1>3, Parts, TurnKept DEF Good
  <2>3. n.writer.state = "Body" /\ n.writer.cur = writer.cur /\ CurStream(n) = s
    BY <1>2, <1>3 DEF Orderly, CurStream, s
  <2>4. Alone(n)
    BY <2>2, <2>3 DEF Turning
  <2>5. Plain(n)
    BY <2>3, <2>4, <1>3 DEF Alone, Plain
  <2>6. Turning(x, FALSE) /\ Plain(x)
    BY <2>2, <2>3, <2>5, <1>3, SetNextStreamTurn
  <2>7. Good(x) /\ MachineOK(x)
    BY <1>3, SetNextStreamGood DEF Good
  <2> HIDE DEF x, o
  <2>8. Turning(x, TableDue(x))
    BY <2>6, <2>7, PlainDue
  <2> QED BY <2>1, <2>7, <2>8, <1>1, ReturnTurn
<1> QED BY <1>4, <1>5

\* A body partition is begun, but the turn is yet to come.
LEMMA StartBodyTurn ==
    ASSUME IInv, TurnInv, NEW state \in BodyStates, StartBody(state)
    PROVE  TurnInv'
<1> DEFINE s == CurStream(Machine)
           r == stream[s]
           m == Addressed(BodyPartition(s), s)
           n == IndexedPack(m, s)
           failed == m.writer.pending /\ state = "BodyWithIndex" /\ ~HasManager(r)
<1>1. /\ writer.cur # 0 /\ writer.state = "Body" /\ stream[s].state = state
      /\ state # "PostBodyIndex" /\ Turning(Machine, FALSE)
      /\ Machine.writer = writer /\ Machine.stream = stream
  <2>1. WritePartition(state) /\ (state = "PostBodyIndex") = FALSE
    BY DEF StartBody, BodyStates
  <2> QED BY <2>1, InBody
<1>2. /\ Good(m) /\ Serving(m, TRUE) /\ CurStream(m) = s /\ Ahead(Machine, m)
      /\ Alike(Machine, m)
  BY <1>1, Parts, BodyPartitionGood
<1>3. Turning(m, FALSE)
  BY <1>1, <1>2, Parts, AlikeOrderly, TurnKept DEF Good
<1>4. CASE failed
  <2>1. Return(m, 0)
    BY <1>4 DEF StartBody
  <2> HIDE DEF m
  <2>2. TableDue(m) = FALSE
    BY <1>1, <1>2 DEF TableDue, Alike
  <2> QED BY <2>1, <2>2, <1>2, <1>3, ReturnTurn
<1>5. CASE ~failed
  <2>1. /\ Become(n)
        /\ \E d, z, c, p : call' = [op |-> "WriteEssence", limited |-> d > 0, left |-> d,
                                    sized |-> z, close |-> c, first |-> TRUE, asap |-> FALSE,
                                    sparse |-> p, ret |-> 0]
    BY <1>5 DEF StartBody
  <2>2. call'.op = "WriteEssence" /\ call'.first = TRUE
    BY <2>1
  <2> HIDE DEF m, s
  <2>3. Good(n) /\ Ahead(m, n) /\ Orderly(m, n)
    BY <1>2, IndexedPackGood
  <2> HIDE DEF n
  <2>4. Turning(n, FALSE)
    BY <2>3, <1>2, <1>3, TurnKept DEF Good
  <2>5. Machine' = n
    BY <2>1, <2>3, Becoming
  <2>6. n.writer.state = "Body" /\ n.writer = writer'
    BY <2>1, <2>3, <1>1, <1>2 DEF Orderly, Alike, Become
  <2>7. call' # Idle /\ Writing'
    BY <2>2, IdleCall DEF Writing
  <2> QED BY <2>2, <2>4, <2>5, <2>6, <2>7 DEF TurnInv
<1> QED BY <1>4, <1>5

\* The return of WriteEssence.
LEMMA WorkedTurn ==
    ASSUME IInv, OverInv, TurnInv, Writing, NEW n, Worked(n), Turning(n, TRUE), NEW ret,
           NEW s, s = CurStream(Machine), Return(Leave(n, s), ret)
    PROVE  TurnInv'
<1>1. /\ Good(n) /\ MachineOK(n) /\ Over(n) /\ n.writer.state = "Body" /\ s = CurStream(n)
  BY Parts DEF Worked, Good, TurnInv, CurStream
<1> DEFINE o == Leave(n, s)
<1>2. Turning(o, TableDue(o))
  BY <1>1, LeaveTurn
<1>3. Good(o)
  BY <1>1, LeaveGood
<1> HIDE DEF o
<1> QED BY <1>2, <1>3, ReturnTurn DEF o

\* A clip is one turn.
LEMMA ClipEssenceTurn ==
    ASSUME IInv, OverInv, TurnInv, ClipEssence
    PROVE  TurnInv'
<1> DEFINE s == CurStream(Machine)
<1>1. Writing
  BY DEF ClipEssence
<1>2. PICK n, h : /\ Worked(n) /\ MachineOK(h) /\ Ahead(Machine, h) /\ Delivered(h, n)
                  /\ ~call.first => h.file = file
                  /\ h.file[Len(h.file)].body = s
                  /\ n.stream[s].written = n.stream[s].profile.units
                  /\ Return(Leave(n, s), 0)
  BY ClipEssenceStep
<1>3. Turning(n, TRUE)
  BY <1>1, <1>2, TurnWritten
<1> QED BY <1>1, <1>2, <1>3, WorkedTurn

\* The end of a source is a turn of its own.
LEMMA EssenceEndsTurn ==
    ASSUME IInv, OverInv, TurnInv, EssenceEnds
    PROVE  TurnInv'
<1> DEFINE s == CurStream(Machine)
<1>1. Writing
  BY DEF EssenceEnds
<1>2. PICK n : /\ Worked(n) /\ Ahead(Machine, n)
               /\ n.stream[s].written = n.stream[s].profile.units
               /\ Return(Leave(n, s), call.ret)
  BY EssenceEndsStep
<1>3. Turning(n, TRUE)
  BY <1>1, <1>2, TurnServed
<1> QED BY <1>1, <1>2, <1>3, WorkedTurn

\* Essence is held only after the first unit of a turn.
LEMMA EssenceHeldTurn ==
    ASSUME IInv, OverInv, TurnInv, NEW burst \in BOOLEAN, EssenceHeld(burst)
    PROVE  TurnInv'
<1> DEFINE s == CurStream(Machine)
<1>1. Writing
  BY DEF EssenceHeld
<1>2. ~call.first
  BY EssenceHeldStep
<1>3. PICK n : Worked(n) /\ Ahead(Machine, n) /\ Return(Leave(n, s), call.ret + 1)
  BY EssenceHeldStep
<1>4. Turning(n, TRUE)
  BY <1>1, <1>2, <1>3, TurnServed
<1> QED BY <1>1, <1>3, <1>4, WorkedTurn

\* A unit is written.
LEMMA EssenceWrittenTurn ==
    ASSUME IInv, OverInv, TurnInv, NEW burst \in BOOLEAN, NEW editPoint,
           EssenceWritten(burst, editPoint)
    PROVE  TurnInv'
<1> DEFINE s == CurStream(Machine)
<1>1. Writing
  BY DEF EssenceWritten
<1>2. PICK n, h : /\ Worked(n) /\ MachineOK(h) /\ Ahead(Machine, h) /\ Delivered(h, n)
                  /\ Serving(n, FALSE) /\ CurStream(n) = s
                  /\ ~call.first => h.file = file
                  /\ h.file[Len(h.file)].body = s
                  /\ n.stream[s].written = stream[s].written + 1
                  /\ Return(Leave(n, s), call.ret + 1) \/ GoesOn(n)
  BY EssenceWrittenStep
<1>3. stream[s].written < n.stream[s].written
  <2>1. stream[s].written \in Nat
    BY <1>1, EssenceCall, ProfileParts
  <2> QED BY <2>1, <1>2
<1>4. Turning(n, TRUE) /\ <<Len(n.file), s>> \in On(n.file)
  BY <1>1, <1>2, <1>3, TurnWritten
<1>5. CASE Return(Leave(n, s), call.ret + 1)
  BY <1>1, <1>2, <1>4, <1>5, WorkedTurn
<1>6. CASE GoesOn(n)
  <2>1. Machine' = n /\ Machine'.file = file' /\ Machine'.writer = writer'
    BY <1>2, <1>6, Becoming DEF GoesOn, Worked, Machine
  <2>2. call'.op = "WriteEssence" /\ ~call'.first
    BY <1>6 DEF GoesOn, EssenceCalls
  <2>3. call' # Idle /\ Writing'
    BY <2>2, IdleCall DEF Writing
  <2>4. n.writer.state = "Body" /\ CurStream(Machine)' = s
    BY <1>1, <1>2, <2>1 DEF Worked, TurnInv
  <2>5. Turning(n, Writing' /\ ~call'.first)
    <3>1. (Writing' /\ ~call'.first) = TRUE
      BY <2>2, <2>3
    <3> QED BY <3>1, <1>4
  <2> HIDE DEF s
  <2> QED BY <2>1, <2>2, <2>3, <2>4, <2>5, <1>4 DEF TurnInv
<1> QED BY <1>2, <1>5, <1>6

\* The actions of WriteEssence.
LEMMA WriteEssenceTurn ==
    ASSUME IInv, OverInv, TurnInv, WriteEssence
    PROVE  TurnInv'
<1>1. CASE ClipEssence
  BY <1>1, ClipEssenceTurn
<1>2. CASE EssenceEnds
  BY <1>2, EssenceEndsTurn
<1>3. ASSUME NEW burst \in BOOLEAN, EssenceHeld(burst)
      PROVE  TurnInv'
  BY <1>3, EssenceHeldTurn
<1>4. ASSUME NEW burst \in BOOLEAN, NEW editPoint, EssenceWritten(burst, editPoint)
      PROVE  TurnInv'
  BY <1>4, EssenceWrittenTurn
<1>5. (IF Writing /\ call.sized THEN BOOLEAN ELSE {FALSE}) \subseteq BOOLEAN
  OBVIOUS
<1> QED BY <1>1, <1>2, <1>3, <1>4, <1>5 DEF WriteEssence

\* The footer has no essence.
LEMMA FooterTurn ==
    ASSUME IInv, TurnInv, Longer(file, file'), writer'.state \in {"Footer", "Done"}, ~Writing'
    PROVE  TurnInv'
<1>1. /\ Machine'.file = file' /\ Machine'.writer = writer' /\ Machine.file = file
      /\ file \in Seq(Partition)
  BY Parts DEF Machine
<1>2. On(file') = On(file) /\ Alternating(On(file))
  BY <1>1, LongerOn DEF TurnInv, Turning
<1>3. \A had : Turning(Machine', had)
  BY <1>1, <1>2 DEF Turning
<1> QED BY <1>3 DEF TurnInv

\* WriteFooter, from its call to the footer.
LEMMA WriteFooterTurn ==
    ASSUME IInv, OverInv, TurnInv, WriteFooter \/ FooterIndex \/ FooterEnd
    PROVE  TurnInv'
<1> USE IdleCall
<1>1. Machine.file = file /\ Machine'.file = file'
  BY Parts DEF Machine
<1>2. CASE WriteFooter
  <2>1. call'.op = "WriteFooter"
    BY <1>2 DEF WriteFooter
  <2>2. OverInv' /\ Ahead(Machine, Machine')
    BY <1>2, WriteFooterInv
  <2>3. writer'.state = "Footer" /\ ~Writing'
    BY <2>1, <2>2 DEF OverInv, CallOver, Writing
  <2> QED BY <2>2, <2>3, <1>1, FooterTurn DEF Ahead
<1>3. CASE FooterIndex
  <2>1. call' = call \/ (call'.op = "Aborted" /\ writer' = writer)
    BY <1>3 DEF FooterIndex
  <2>2. OverInv' /\ Ahead(Machine, Machine')
    BY <1>3, FooterIndexInv
  <2>3. call.op = "WriteFooter" /\ writer.state = "Footer"
    BY <1>3 DEF FooterIndex, OverInv, CallOver
  <2>4. writer'.state = "Footer" /\ ~Writing'
    BY <2>1, <2>2, <2>3 DEF OverInv, CallOver, Writing
  <2> QED BY <2>2, <2>4, <1>1, FooterTurn DEF Ahead
<1>4. CASE FooterEnd
  <2>1. Ends
    BY <1>4, FooterEndInv
  <2>2. ~Writing'
    BY <2>1 DEF Ends, Writing
  <2> QED BY <2>1, <2>2, FooterTurn DEF Ends
<1> QED BY <1>2, <1>3, <1>4

\* TurnInv is inductive: one case for each action.
LEMMA TurnStep ==
    ASSUME ~UserEnds, IInv, OverInv, TurnInv, [Next]_vars
    PROVE  TurnInv'
<1>1. ASSUME NEW s \in Stream, AddStream(s)
      PROVE  TurnInv'
  BY <1>1, AddStreamTurn
<1>2. CASE ClearStreams
  BY <1>2 DEF ClearStreams, OverInv
<1>3. CASE WriteHeader \/ HeaderIndex \/ HeaderEnd
  BY <1>3, WriteHeaderTurn, HeaderIndexTurn, HeaderEndTurn
<1>4. CASE WriteBody \/ NoCurrentStream
  BY <1>4, WriteBodyTurn, NoCurrentStreamTurn
<1>5. CASE CallEndPartition
  BY <1>5 DEF CallEndPartition
<1>6. CASE PreBodyIndex \/ PostBodyIndex
  BY <1>6, PreBodyIndexTurn, PostBodyIndexTurn
<1>7. ASSUME NEW state \in BodyStates, StartBody(state)
      PROVE  TurnInv'
  BY <1>7, StartBodyTurn
<1>8. CASE WriteEssence
  BY <1>8, WriteEssenceTurn
<1>9. CASE WriteFooter \/ FooterIndex \/ FooterEnd
  BY <1>9, WriteFooterTurn
<1>10. CASE UNCHANGED vars
  <2>1. Machine' = Machine /\ call' = call /\ file' = file /\ writer' = writer
    BY <1>10 DEF vars, Machine
  <2> QED BY <2>1 DEF TurnInv, Writing
<1>11. CASE Finished
  BY <1>10, <1>11 DEF Finished
<1> QED BY <1>1, <1>2, <1>3, <1>4, <1>5, <1>6, <1>7, <1>8, <1>9, <1>10, <1>11 DEF Next, Step

\* It holds of an empty file.
LEMMA TurnInit ==
    ASSUME Init
    PROVE  TurnInv
<1>1. /\ Machine.file = << >> /\ Machine.writer.state = "Start" /\ Machine.writer.list = << >>
      /\ \A s \in Stream : Machine.stream[s] = None
      /\ call = Idle
  BY DEF Init, Machine
<1>2. On(Machine.file) = {} /\ Distinct(Machine.writer.list) /\ Alone(Machine)
  BY <1>1 DEF On, Distinct, Alone
<1>3. \A had : Turning(Machine, had)
  BY <1>1, <1>2 DEF Turning, Alternating
<1> QED BY <1>1, <1>3, IdleCall DEF TurnInv, Writing

(***************************************************************************)
(* Streams take turns, whatever they are and whatever limits there are, if *)
(* callers neither change the streams after the header nor end partitions  *)
(* themselves.                                                             *)
(***************************************************************************)
THEOREM TakeTurnsAlways ==
    ASSUME ~LateStreams, ~UserEnds
    PROVE  Spec => []TakeTurns
<1> DEFINE Inv == IInv /\ OverInv /\ TurnInv
<1>1. Init => Inv
  BY InitInv, InitOver, TurnInit
<1>2. Inv /\ [Next]_vars => Inv'
  BY StepInv, TurnStep
<1>3. Inv => TakeTurns
  BY Parts, TakeTurnsOn DEF TurnInv, Turning
<1> QED BY <1>1, <1>2, <1>3, PTL DEF Spec

=============================================================================
