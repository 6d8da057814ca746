------------------------ MODULE IndexManager_proofs -------------------------
(***************************************************************************)
(* Proofs about IndexManager for any essence, streams and reports, in any  *)
(* order.                                                                  *)
(*                                                                         *)
(* What the manager does has two parts that the methods mix: entries and   *)
(* what waits for them (Structure), and the log (LogInv).  The log gives   *)
(* identifiers one after the other, each when the one before has its unit; *)
(* so all below the next one are in it.  When they run out, the search for *)
(* one that is free finds none, and the manager never logs again.          *)
(*                                                                         *)
(* 1. What the methods do to the parts of the manager.                     *)
(* 2. Structure is kept.                                                   *)
(* 3. The log.                                                             *)
(* 4. The theorems about the manager and its log.                          *)
(* 5. Entries: what is in them, and when they are complete.                *)
(***************************************************************************)
EXTENDS IndexManager, SequenceTheorems, TLAPS

Fields ==
    {"reorder", "fixed", "cbr", "sizes", "pos", "managed", "unOffsets", "unDiffs", "last",
     "log", "nextId", "wrapped", "pending"}

EntryFields == {"status", "outOfRange", "key", "to", "diff", "off"}

\* An entry of a manager with these streams.
EntryOK(e, streams) ==
    /\ DOMAIN e = EntryFields
    /\ e.status \subseteq {"offset", "temporal", "diff"}
    /\ DOMAIN e.off = streams

\* The members, the streams, and the entries, which have room for each stream.
Structure(m) ==
    /\ DOMAIN m = Fields
    /\ m.fixed \in BOOLEAN /\ m.cbr \in BOOLEAN
    /\ m.sizes \in Seq(Nat) /\ m.pos \in Seq(Int) /\ Len(m.sizes) = Len(m.pos)
    /\ Len(m.sizes) \in 1 .. Len(Sizes)
    /\ DOMAIN m.managed \subseteq Units
    /\ \A p \in DOMAIN m.managed : EntryOK(m.managed[p], Streams(m))
    /\ DOMAIN m.managed # {} => m.fixed

\* The members for the log are the same.
SameLog(m, n) == n.log = m.log /\ n.nextId = m.nextId /\ n.wrapped = m.wrapped /\ n.pending = m.pending

\* All but the members for the log are the same.
SameRest(m, n) ==
    /\ DOMAIN n = DOMAIN m
    /\ \A f \in Fields \ {"log", "nextId", "wrapped", "pending"} : n[f] = m[f]

\* The unit p has been logged, if one is asked for.
LogsUnit(m, n, p) ==
    /\ n.nextId = m.nextId /\ n.wrapped = m.wrapped
    /\ m.pending < 0 => n.log = m.log /\ n.pending = m.pending
    /\ ~(m.pending < 0) => /\ DOMAIN n.log = DOMAIN m.log \cup {m.pending} /\ n.pending = -1
                           /\ n.log[m.pending] = p
                           /\ \A id \in DOMAIN m.log \ {m.pending} : n.log[id] = m.log[id]

(***************************************************************************)
(* Identifiers: while they last, those below the next one have been given  *)
(* out, and are in the log but the one that waits; later none is left.     *)
(* What has been asked for and has no unit is what waits.                  *)
(***************************************************************************)
LogInv ==
    /\ mgr.nextId \in -1 .. LogLimit /\ mgr.pending \in -1 .. LogLimit /\ mgr.wrapped \in BOOLEAN
    /\ mgr.wrapped => mgr.nextId = -1
    /\ ~mgr.wrapped =>
          /\ mgr.nextId >= 0 /\ mgr.pending < mgr.nextId
          /\ DOMAIN mgr.log = (0 .. mgr.nextId - 1) \ {mgr.pending}
          /\ DOMAIN asked \subseteq 0 .. mgr.nextId - 1
    /\ DOMAIN asked \subseteq 0 .. LogLimit
    /\ DOMAIN mgr.log \subseteq (0 .. LogLimit) \ {mgr.pending}
    /\ \A id \in DOMAIN asked :
          IF asked[id] = None THEN id = mgr.pending
          ELSE id \in DOMAIN mgr.log /\ mgr.log[id] = asked[id]

What == {"unit", "offset", "order", "forward", "back"}

Told == told \subseteq What \X Units \X DOMAIN Sizes

IInv == scene \in Scenes /\ Structure(mgr) /\ Told /\ LogInv

-----------------------------------------------------------------------------
(***************************************************************************)
(* 1. What the methods do to the parts of the manager.                     *)
(***************************************************************************)

\* The units of a scene are integers, and none is None.
LEMMA SceneParts ==
    ASSUME scene \in Scenes
    PROVE  /\ Units \subseteq Int /\ None \notin Units /\ SubRange \in Nat
           /\ Sizes \in Seq(Nat) /\ Master \in DOMAIN Sizes /\ FirstPos \in Int /\ SetPos \subseteq Int
           /\ Order \in [Units -> Units] /\ LogLimit \in Nat
BY SceneAssumption DEF Units, SubRange, Sizes, FirstPos, SetPos, Order

\* Log.
LEMMA LoggedParts ==
    ASSUME NEW m, DOMAIN m = Fields, NEW p
    PROVE  LogsUnit(m, Logged(m, p), p) /\ SameRest(m, Logged(m, p))
<1>1. CASE m.pending < 0
  BY <1>1 DEF Logged, LogsUnit, SameRest
<1>2. CASE ~(m.pending < 0)
  <2> DEFINE log == Put(m.log, m.pending, p)
  <2>1. Logged(m, p) = [[m EXCEPT !.log = log] EXCEPT !.pending = -1]
    BY <1>2 DEF Logged
  <2>2. /\ DOMAIN log = DOMAIN m.log \cup {m.pending} /\ log[m.pending] = p
        /\ \A id \in DOMAIN m.log \ {m.pending} : log[id] = m.log[id]
    BY DEF Put
  <2> HIDE DEF log
  <2>3. /\ DOMAIN Logged(m, p) = Fields
        /\ Logged(m, p).log = log /\ Logged(m, p).pending = -1
        /\ \A f \in Fields \ {"log", "pending"} : Logged(m, p)[f] = m[f]
    BY <2>1 DEF Fields
  <2>4. Logged(m, p).nextId = m.nextId /\ Logged(m, p).wrapped = m.wrapped
    BY <2>3 DEF Fields
  <2> QED BY <1>2, <2>2, <2>3, <2>4 DEF LogsUnit, SameRest
<1> QED BY <1>1, <1>2

\* A manager that differs only in its log has the same structure.
LEMMA SameRestStructure ==
    ASSUME NEW m, NEW n, Structure(m), SameRest(m, n)
    PROVE  Structure(n)
<1>1. /\ DOMAIN n = Fields /\ n.fixed = m.fixed /\ n.cbr = m.cbr /\ n.sizes = m.sizes /\ n.pos = m.pos
      /\ n.managed = m.managed
  BY DEF Structure, SameRest, Fields
<1> QED BY <1>1 DEF Structure, Streams

\* An entry made or found.
LEMMA EnteredParts ==
    ASSUME NEW m, Structure(m), NEW p \in Units
    PROVE  LET n == Entered(m, p) IN
           Structure(n) /\ SameLog(m, n) /\ n.sizes = m.sizes /\ n.fixed = TRUE /\ n.cbr = m.cbr
           /\ p \in DOMAIN n.managed
<1> DEFINE m1 == [m EXCEPT !.fixed = TRUE]
           n == Entered(m, p)
<1>1. /\ DOMAIN m1 = Fields /\ m1.fixed = TRUE
      /\ \A f \in Fields \ {"fixed"} : m1[f] = m[f]
  BY DEF Structure, Fields
<1>2. /\ m1.cbr = m.cbr /\ m1.sizes = m.sizes /\ m1.pos = m.pos /\ m1.managed = m.managed
      /\ m1.unOffsets = m.unOffsets /\ m1.unDiffs = m.unDiffs /\ m1.last = m.last
      /\ SameLog(m, m1)
  BY <1>1 DEF Fields, SameLog
<1>3. CASE p \in DOMAIN m.managed
  BY <1>1, <1>2, <1>3 DEF Entered, Structure, Streams
<1>4. CASE p \notin DOMAIN m.managed
  <2> DEFINE managed == Put(m.managed, p, NewEntry(m, p))
             uo == Without(m1.unOffsets, p)
             ud == Without(m1.unDiffs, p)
  <2>1. n = [m1 EXCEPT !.managed = managed, !.last = p, !.unOffsets = uo, !.unDiffs = ud]
    BY <1>2, <1>4 DEF Entered
  <2>2. /\ DOMAIN managed = DOMAIN m.managed \cup {p} /\ managed[p] = NewEntry(m, p)
        /\ \A q \in DOMAIN m.managed : managed[q] = m.managed[q]
    BY <1>4 DEF Put
  <2>3. EntryOK(NewEntry(m, p), Streams(m))
    BY DEF NewEntry, EntryOK, EntryFields
  <2> HIDE DEF managed, uo, ud, m1, n
  <2>4. /\ DOMAIN n = Fields /\ n.managed = managed
        /\ \A f \in Fields \ {"managed", "last", "unOffsets", "unDiffs"} : n[f] = m1[f]
    BY <1>1, <2>1 DEF Fields
  <2>5. n.fixed = TRUE /\ n.cbr = m.cbr /\ n.sizes = m.sizes /\ n.pos = m.pos /\ SameLog(m, n)
    BY <1>1, <1>2, <2>4 DEF Fields, SameLog
  <2>6. \A q \in DOMAIN n.managed : EntryOK(n.managed[q], Streams(n))
    BY <2>2, <2>3, <2>4, <2>5 DEF Structure, Streams
  <2> QED BY <2>2, <2>4, <2>5, <2>6 DEF Structure, n
<1> QED BY <1>3, <1>4

\* A change to one entry.
LEMMA ChangedEntry ==
    ASSUME NEW m, Structure(m), NEW p \in DOMAIN m.managed, NEW e, EntryOK(e, Streams(m))
    PROVE  LET n == [m EXCEPT !.managed = [m.managed EXCEPT ![p] = e]] IN
           Structure(n) /\ SameLog(m, n) /\ n.sizes = m.sizes /\ n.fixed = m.fixed /\ n.cbr = m.cbr
           /\ DOMAIN n.managed = DOMAIN m.managed
<1> DEFINE managed == [m.managed EXCEPT ![p] = e]
           n == [m EXCEPT !.managed = managed]
<1>1. DOMAIN managed = DOMAIN m.managed /\ \A q \in DOMAIN managed : EntryOK(managed[q], Streams(m))
  BY DEF Structure
<1> HIDE DEF managed
<1>2. DOMAIN n = Fields /\ n.managed = managed /\ \A f \in Fields \ {"managed"} : n[f] = m[f]
  BY DEF Structure, Fields
<1>3. n.fixed = m.fixed /\ n.cbr = m.cbr /\ n.sizes = m.sizes /\ n.pos = m.pos /\ SameLog(m, n)
  BY <1>2 DEF Fields, SameLog
<1> QED BY <1>1, <1>2, <1>3 DEF Structure, Streams, managed

\* AddEditUnit.
LEMMA AddEditUnitParts ==
    ASSUME NEW m, Structure(m), NEW k, NEW p \in Units, NEW key, NEW far, SubRange \in Nat, Units \subseteq Int
    PROVE  LET n == AddEditUnit(m, k, p + SubRange, key, far) IN
           Structure(n) /\ n.cbr = m.cbr /\ (m.cbr => n = m) /\ (~m.cbr => LogsUnit(m, n, p))
<1> DEFINE m1 == Entered(m, p)
           e0 == m1.managed[p]
           e == [[e0 EXCEPT !.key = IF key # 0 THEN key ELSE @] EXCEPT !.outOfRange = far]
           m2 == IF k # Master THEN m1 ELSE [m1 EXCEPT !.managed = [m1.managed EXCEPT ![p] = e]]
<1>1. (p + SubRange) - SubRange = p
  OBVIOUS
<1>2. Structure(m1) /\ SameLog(m, m1) /\ p \in DOMAIN m1.managed /\ m1.cbr = m.cbr
  BY EnteredParts
<1>3. EntryOK(e, Streams(m1))
  <2>1. EntryOK(e0, Streams(m1))
    BY <1>2 DEF Structure
  <2>2. DOMAIN e = EntryFields /\ e.status = e0.status /\ e.off = e0.off
    BY <2>1 DEF EntryOK, EntryFields
  <2> QED BY <2>1, <2>2 DEF EntryOK
<1>4. AddEditUnit(m, k, p + SubRange, key, far) = IF m.cbr THEN m ELSE Logged(m2, p)
  <2>1. [m1 EXCEPT !.managed[p].key = IF key # 0 THEN key ELSE @, !.managed[p].outOfRange = far]
          = [m1 EXCEPT !.managed = [m1.managed EXCEPT ![p] = e]]
    BY <1>2 DEF Structure, Fields
  <2>2. \A q : q = (p + SubRange) - SubRange =>
          AddEditUnit(m, k, p + SubRange, key, far) =
             IF m.cbr THEN m
             ELSE Logged(IF k # Master THEN Entered(m, q)
                         ELSE [Entered(m, q) EXCEPT !.managed[q].key = IF key # 0 THEN key ELSE @,
                                                    !.managed[q].outOfRange = far], q)
    BY DEF AddEditUnit
  <2> HIDE DEF e
  <2> QED BY <1>1, <2>1, <2>2
<1>5. Structure(m2) /\ SameLog(m, m2) /\ m2.cbr = m.cbr
  <2> HIDE DEF e, m1
  <2>1. CASE k # Master
    BY <1>2, <2>1
  <2>2. CASE k = Master
    BY <1>2, <1>3, <2>2, ChangedEntry DEF SameLog
  <2> QED BY <2>1, <2>2
<1> HIDE DEF m2
<1>6. LogsUnit(m2, Logged(m2, p), p) /\ SameRest(m2, Logged(m2, p)) /\ DOMAIN m2 = Fields
  BY <1>5, LoggedParts DEF Structure
<1>7. LogsUnit(m, Logged(m2, p), p)
  BY <1>5, <1>6 DEF LogsUnit, SameLog
<1>8. Structure(Logged(m2, p))
  BY <1>5, <1>6, SameRestStructure
<1>9. Logged(m2, p).cbr = m.cbr
  BY <1>5, <1>6 DEF SameRest, Fields
<1> QED BY <1>4, <1>7, <1>8, <1>9

\* SetOffset for the streams of a flush.
LEMMA SetOffsetParts ==
    ASSUME NEW m, Structure(m), NEW ks, NEW p \in Units
    PROVE  LET n == SetOffset(m, ks, p) IN
           Structure(n) /\ n.cbr = m.cbr /\ (m.cbr => n = m) /\ (~m.cbr => LogsUnit(m, n, p))
<1> DEFINE m1 == Entered(m, p)
           e0 == m1.managed[p]
           off == [k \in DOMAIN e0.off |-> IF k \in ks THEN Where(p, k) ELSE e0.off[k]]
           e == [[e0 EXCEPT !.status = @ \cup {"offset"}] EXCEPT !.off = off]
           m2 == [m1 EXCEPT !.managed = [m1.managed EXCEPT ![p] = e]]
<1>2. Structure(m1) /\ SameLog(m, m1) /\ p \in DOMAIN m1.managed /\ m1.cbr = m.cbr
  BY EnteredParts
<1>3. EntryOK(e, Streams(m1))
  <2>1. EntryOK(e0, Streams(m1))
    BY <1>2 DEF Structure
  <2>2. DOMAIN off = DOMAIN e0.off
    OBVIOUS
  <2> HIDE DEF off
  <2>3. DOMAIN e = EntryFields /\ e.status = e0.status \cup {"offset"} /\ e.off = off
    BY <2>1 DEF EntryOK, EntryFields
  <2> QED BY <2>1, <2>2, <2>3 DEF EntryOK
<1>4. SetOffset(m, ks, p) = IF m.cbr THEN m ELSE Logged(m2, p)
  <2>1. [m1 EXCEPT !.managed[p].status = @ \cup {"offset"},
                   !.managed[p].off = [k \in DOMAIN @ |-> IF k \in ks THEN Where(p, k) ELSE @[k]]]
          = [m1 EXCEPT !.managed = [m1.managed EXCEPT ![p] = e]]
    BY <1>2 DEF Structure, Fields, EntryOK, EntryFields
  <2> QED BY <2>1 DEF SetOffset
<1>5. Structure(m2) /\ SameLog(m, m2) /\ m2.cbr = m.cbr
  <2> HIDE DEF e, m1
  <2> QED BY <1>2, <1>3, ChangedEntry DEF SameLog
<1> HIDE DEF m2
<1>6. LogsUnit(m2, Logged(m2, p), p) /\ SameRest(m2, Logged(m2, p))
  BY <1>5, LoggedParts DEF Structure
<1>7. LogsUnit(m, Logged(m2, p), p)
  BY <1>5, <1>6 DEF LogsUnit, SameLog
<1>8. Structure(Logged(m2, p))
  BY <1>5, <1>6, SameRestStructure
<1>9. Logged(m2, p).cbr = m.cbr
  BY <1>5, <1>6 DEF SameRest, Fields
<1> QED BY <1>4, <1>7, <1>8, <1>9

\* SetTemporalOffset: the entry of the offset, and the one it leads to.
LEMMA SetTemporalOffsetParts ==
    ASSUME NEW m, Structure(m), NEW unit, NEW n
    PROVE  Structure(SetTemporalOffset(m, unit, n)) /\ SameLog(m, SetTemporalOffset(m, unit, n))
<1> DEFINE d == unit - SubRange
           p == d + n
           e0 == m.managed[d]
           e == [[e0 EXCEPT !.status = @ \cup {"temporal"}] EXCEPT !.to = n]
           uo == Waiting(m.unOffsets, d, n)
           m1 == IF d \in DOMAIN m.managed THEN [m EXCEPT !.managed = [m.managed EXCEPT ![d] = e]]
                 ELSE [m EXCEPT !.unOffsets = uo]
           f0 == m1.managed[p]
           f == [[f0 EXCEPT !.status = @ \cup {"diff"}] EXCEPT !.diff = 0 - n]
           ud == Waiting(m1.unDiffs, d, 0 - n)
           m2 == IF p \in DOMAIN m.managed THEN [m1 EXCEPT !.managed = [m1.managed EXCEPT ![p] = f]]
                 ELSE [m1 EXCEPT !.unDiffs = ud]
<1>1. Structure(m1) /\ SameLog(m, m1) /\ DOMAIN m1.managed = DOMAIN m.managed
  <2>1. CASE d \in DOMAIN m.managed
    <3>1. EntryOK(e0, Streams(m))
      BY <2>1 DEF Structure
    <3>2. DOMAIN e = EntryFields /\ e.status = e0.status \cup {"temporal"} /\ e.off = e0.off
      BY <3>1 DEF EntryOK, EntryFields
    <3>3. EntryOK(e, Streams(m))
      BY <3>1, <3>2 DEF EntryOK
    <3> HIDE DEF e, d
    <3> QED BY <2>1, <3>3, ChangedEntry
  <2>2. CASE d \notin DOMAIN m.managed
    <3> HIDE DEF uo
    <3>1. m1 = [m EXCEPT !.unOffsets = uo]
      BY <2>2
    <3>2. /\ DOMAIN m1 = Fields /\ m1.fixed = m.fixed /\ m1.cbr = m.cbr /\ m1.sizes = m.sizes /\ m1.pos = m.pos
          /\ m1.managed = m.managed /\ SameLog(m, m1)
      BY <3>1 DEF Structure, Fields, SameLog
    <3> HIDE DEF m1
    <3> QED BY <3>2 DEF Structure, Streams
  <2> QED BY <2>1, <2>2
<1>2. SetTemporalOffset(m, unit, n) = IF m.cbr THEN m ELSE m2
  <2>1. d \in DOMAIN m.managed =>
          [m EXCEPT !.managed[d].status = @ \cup {"temporal"}, !.managed[d].to = n]
             = [m EXCEPT !.managed = [m.managed EXCEPT ![d] = e]]
    BY DEF Structure, Fields
  <2>2. [m1 EXCEPT !.managed[p].status = @ \cup {"diff"}, !.managed[p].diff = 0 - n]
             = [m1 EXCEPT !.managed = [m1.managed EXCEPT ![p] = f]] \/ p \notin DOMAIN m.managed
    <3> HIDE DEF m1
    <3> QED BY <1>1 DEF Structure, Fields
  <2> DEFINE n1 == IF d \in DOMAIN m.managed
                   THEN [m EXCEPT !.managed[d].status = @ \cup {"temporal"}, !.managed[d].to = n]
                   ELSE [m EXCEPT !.unOffsets = Waiting(@, d, n)]
  <2>3. n1 = m1
    BY <2>1
  <2>4. SetTemporalOffset(m, unit, n) =
           IF m.cbr THEN m
           ELSE IF p \in DOMAIN m.managed
                THEN [n1 EXCEPT !.managed[p].status = @ \cup {"diff"}, !.managed[p].diff = 0 - n]
                ELSE [n1 EXCEPT !.unDiffs = Waiting(@, d, 0 - n)]
    BY DEF SetTemporalOffset
  <2> HIDE DEF f, n1, m1, p
  <2>5. ud = Waiting(m1.unDiffs, d, 0 - n)
    OBVIOUS
  <2> QED BY <2>2, <2>3, <2>4, <2>5
<1> HIDE DEF m1
<1>3. Structure(m2) /\ SameLog(m1, m2)
  <2>1. CASE p \in DOMAIN m.managed
    <3>1. EntryOK(f0, Streams(m1))
      BY <1>1, <2>1 DEF Structure
    <3>2. DOMAIN f = EntryFields /\ f.status = f0.status \cup {"diff"} /\ f.off = f0.off
      BY <3>1 DEF EntryOK, EntryFields
    <3>3. EntryOK(f, Streams(m1))
      BY <3>1, <3>2 DEF EntryOK
    <3> HIDE DEF f, p
    <3> QED BY <1>1, <2>1, <3>3, ChangedEntry
  <2>2. CASE p \notin DOMAIN m.managed
    <3> HIDE DEF ud
    <3>1. m2 = [m1 EXCEPT !.unDiffs = ud]
      BY <2>2
    <3>2. /\ DOMAIN m2 = Fields /\ m2.fixed = m1.fixed /\ m2.cbr = m1.cbr /\ m2.sizes = m1.sizes /\ m2.pos = m1.pos
          /\ m2.managed = m1.managed /\ SameLog(m1, m2)
      BY <1>1, <3>1 DEF Structure, Fields, SameLog
    <3> HIDE DEF m2
    <3> QED BY <1>1, <3>2 DEF Structure, Streams
  <2> QED BY <2>1, <2>2
<1>4. SameLog(m, m2)
  BY <1>1, <1>3 DEF SameLog
<1>5. SameLog(m, m)
  BY DEF SameLog
<1> HIDE DEF m2
<1> QED BY <1>2, <1>3, <1>4, <1>5

\* SetKeyOffset.
LEMMA SetKeyOffsetParts ==
    ASSUME NEW m, Structure(m), NEW unit, NEW key
    PROVE  Structure(SetKeyOffset(m, unit, key)) /\ SameLog(m, SetKeyOffset(m, unit, key))
<1> DEFINE p == unit - SubRange
           e0 == m.managed[p]
           e == [e0 EXCEPT !.key = key]
<1>1. CASE m.cbr \/ p \notin DOMAIN m.managed
  BY <1>1 DEF SetKeyOffset, SameLog
<1>2. CASE ~(m.cbr \/ p \notin DOMAIN m.managed)
  <2>1. EntryOK(e0, Streams(m))
    BY <1>2 DEF Structure
  <2>2. DOMAIN e = EntryFields /\ e.status = e0.status /\ e.off = e0.off
    BY <2>1 DEF EntryOK, EntryFields
  <2>3. EntryOK(e, Streams(m))
    BY <2>1, <2>2 DEF EntryOK
  <2>4. SetKeyOffset(m, unit, key) = [m EXCEPT !.managed = [m.managed EXCEPT ![p] = e]]
    BY <1>2 DEF SetKeyOffset, Structure, Fields
  <2> HIDE DEF e, p
  <2> QED BY <1>2, <2>3, <2>4, ChangedEntry
<1> QED BY <1>1, <1>2

-----------------------------------------------------------------------------
(***************************************************************************)
(* 2. Structure is kept.                                                   *)
(***************************************************************************)
\* As the scene stays, the structure is that of the new manager.
LEMMA StructureKept ==
    ASSUME scene' = scene, Structure(mgr')
    PROVE  Structure(mgr)'
BY DEF Structure, Units, Sizes

\* So does what is told, when only what there is was told.
LEMMA ToldKept ==
    ASSUME scene' = scene, Told, NEW S, S \subseteq What \X Units \X DOMAIN Sizes,
           told' \subseteq told \cup S
    PROVE  Told'
BY DEF Told, Units, Sizes

\* A sub-stream comes before there is an entry.
LEMMA AddSubStreamParts ==
    ASSUME scene \in Scenes, Structure(mgr), AddSubStream
    PROVE  Structure(mgr') /\ SameLog(mgr, mgr')
<1> DEFINE n == Len(mgr.sizes) + 1
           sizes == Append(mgr.sizes, Sizes[n])
           pos == Append(mgr.pos, 0)
           cbr == mgr.cbr /\ Sizes[n] # 0
<1>1. mgr.sizes \in Seq(Nat) /\ mgr.pos \in Seq(Int) /\ Len(mgr.sizes) \in 1 .. Len(Sizes) /\ n <= Len(Sizes)
      /\ mgr.fixed = FALSE /\ DOMAIN mgr.managed = {}
  BY DEF Structure, AddSubStream
<1>2. Sizes \in Seq(Nat) /\ Len(Sizes) \in Nat /\ n \in 1 .. Len(Sizes) /\ Sizes[n] \in Nat
  <2>1. Sizes \in Seq(Nat) /\ Len(Sizes) \in Nat
    BY SceneParts
  <2>2. n \in 1 .. Len(Sizes)
    BY <1>1, <2>1
  <2> HIDE DEF n
  <2> QED BY <2>1, <2>2
<1>3. /\ sizes \in Seq(Nat) /\ Len(sizes) = n
      /\ pos \in Seq(Int) /\ Len(pos) = Len(mgr.pos) + 1
  BY <1>1, <1>2
<1>4. mgr' = [mgr EXCEPT !.sizes = sizes, !.pos = pos, !.cbr = cbr]
  BY DEF AddSubStream
<1>5. cbr \in BOOLEAN
  OBVIOUS
<1> HIDE DEF n, sizes, pos, cbr
<1>6. /\ DOMAIN mgr' = Fields /\ mgr'.sizes = sizes /\ mgr'.pos = pos /\ mgr'.cbr = cbr
      /\ mgr'.fixed = mgr.fixed /\ mgr'.managed = mgr.managed /\ SameLog(mgr, mgr')
  BY <1>4 DEF Structure, Fields, SameLog
<1>7. Len(sizes) = Len(pos)
  BY <1>1, <1>3 DEF Structure, n
<1> QED BY <1>1, <1>2, <1>3, <1>5, <1>6, <1>7 DEF Structure

\* The position table index of the first stream.
LEMMA SetPosTableIndexParts ==
    ASSUME scene \in Scenes, Structure(mgr), SetPosTableIndex
    PROVE  Structure(mgr') /\ SameLog(mgr, mgr')
<1>1. PICK n \in SetPos : mgr' = [mgr EXCEPT !.pos[1] = n]
  BY DEF SetPosTableIndex
<1> DEFINE pos == [mgr.pos EXCEPT ![1] = n]
<1>2. n \in Int
  BY SceneParts
<1>3. pos \in Seq(Int) /\ Len(pos) = Len(mgr.pos)
  BY <1>2 DEF Structure
<1>4. mgr' = [mgr EXCEPT !.pos = pos]
  BY <1>1 DEF Structure, Fields
<1> HIDE DEF pos
<1>5. /\ DOMAIN mgr' = Fields /\ mgr'.sizes = mgr.sizes /\ mgr'.pos = pos /\ mgr'.cbr = mgr.cbr
      /\ mgr'.fixed = mgr.fixed /\ mgr'.managed = mgr.managed /\ SameLog(mgr, mgr')
  BY <1>4 DEF Structure, Fields, SameLog
<1> QED BY <1>3, <1>5 DEF Structure, Streams

\* ForceVBR, and what making a table does to the manager.
LEMMA FlagParts ==
    ASSUME Structure(mgr), mgr' = [mgr EXCEPT !.cbr = FALSE] \/ mgr' = [mgr EXCEPT !.fixed = TRUE]
    PROVE  Structure(mgr') /\ SameLog(mgr, mgr')
<1>1. /\ DOMAIN mgr' = Fields /\ mgr'.sizes = mgr.sizes /\ mgr'.pos = mgr.pos /\ mgr'.managed = mgr.managed
      /\ SameLog(mgr, mgr') /\ mgr'.cbr \in {mgr.cbr, FALSE} /\ mgr'.fixed \in {mgr.fixed, TRUE}
  BY DEF Structure, Fields, SameLog
<1> QED BY <1>1 DEF Structure, Streams

-----------------------------------------------------------------------------
(***************************************************************************)
(* 3. The log.                                                             *)
(***************************************************************************)
\* Nothing of the log changes.
LEMMA LogKept ==
    ASSUME LogInv, SameLog(mgr, mgr'), asked' = asked
    PROVE  LogInv'
BY DEF LogInv, SameLog

\* A unit is stored and goes to what waits.
LEMMA LogTakes ==
    ASSUME LogInv, LogLimit \in Nat, NEW p, p # None, LogsUnit(mgr, mgr', p), asked' = Heard(p)
    PROVE  LogInv'
<1>1. DOMAIN asked' = DOMAIN asked /\ \A id \in DOMAIN asked : asked'[id] = IF asked[id] = None THEN p ELSE asked[id]
  BY DEF Heard
<1>2. mgr'.nextId = mgr.nextId /\ mgr'.wrapped = mgr.wrapped
  BY DEF LogsUnit
<1>3. CASE mgr.pending < 0
  <2>1. mgr'.log = mgr.log /\ mgr'.pending = mgr.pending /\ mgr.pending = -1
    BY <1>3 DEF LogsUnit, LogInv
  <2>2. \A id \in DOMAIN asked : asked[id] # None
    BY <1>3 DEF LogInv
  <2> QED BY <1>1, <1>2, <2>1, <2>2 DEF LogInv
<1>4. CASE ~(mgr.pending < 0)
  <2>1. /\ DOMAIN mgr'.log = DOMAIN mgr.log \cup {mgr.pending} /\ mgr'.pending = -1
        /\ mgr'.log[mgr.pending] = p
        /\ \A id \in DOMAIN mgr.log \ {mgr.pending} : mgr'.log[id] = mgr.log[id]
    BY <1>4 DEF LogsUnit
  <2>2. \A id \in DOMAIN asked : asked'[id] # None /\ id \in DOMAIN mgr'.log /\ mgr'.log[id] = asked'[id]
    BY <1>1, <2>1 DEF LogInv
  <2>3. DOMAIN mgr'.log \subseteq 0 .. LogLimit
    BY <1>4, <2>1 DEF LogInv
  <2> QED BY <1>1, <1>2, <2>1, <2>2, <2>3 DEF LogInv
<1> QED BY <1>3, <1>4

\* What LogNext does with the identifiers.
LEMMA LogNextParts ==
    ASSUME LogInv, LogLimit \in Nat, DOMAIN mgr = Fields
    PROVE  LET r == LogNext(mgr) IN
           /\ SameRest(mgr, r.mgr) /\ r.mgr.log = mgr.log
           /\ \/ r.mgr = mgr /\ (r.id < 0 \/ r.id = mgr.pending)
              \/ /\ mgr.pending = -1 /\ ~mgr.wrapped /\ mgr.nextId < LogLimit
                 /\ r.id = mgr.nextId /\ r.mgr.pending = mgr.nextId
                 /\ r.mgr.nextId = mgr.nextId + 1 /\ r.mgr.wrapped = mgr.wrapped
              \/ /\ mgr.pending = -1 /\ ~mgr.wrapped /\ mgr.nextId = LogLimit
                 /\ r.id = -1 /\ r.mgr.pending = LogLimit /\ r.mgr.nextId = -1 /\ r.mgr.wrapped = TRUE
<1> DEFINE from == IF mgr.wrapped THEN mgr.nextId ELSE -1
           free == {i \in from + 1 .. LogLimit : i # mgr.nextId /\ i \notin DOMAIN mgr.log}
           r == LogNext(mgr)
<1>1. mgr.nextId \in -1 .. LogLimit /\ mgr.pending \in -1 .. LogLimit /\ mgr.wrapped \in BOOLEAN
  BY DEF LogInv
<1>2. SameRest(mgr, mgr)
  BY DEF SameRest
<1>3. CASE mgr.pending >= 0
  <2>1. r = [id |-> mgr.pending, mgr |-> mgr]
    BY <1>1, <1>3 DEF LogNext
  <2> QED BY <1>2, <2>1
<1>4. CASE mgr.pending < 0 /\ mgr.nextId < 0
  <2>1. r = [id |-> -1, mgr |-> mgr]
    BY <1>1, <1>4 DEF LogNext
  <2> QED BY <1>2, <2>1
<1>5. CASE mgr.pending < 0 /\ mgr.nextId >= 0 /\ mgr.nextId < LogLimit
  <2> DEFINE m == [mgr EXCEPT !.pending = mgr.nextId]
             n == [m EXCEPT !.nextId = @ + 1]
  <2>1. ~mgr.wrapped /\ mgr.pending = -1
    BY <1>1, <1>5 DEF LogInv
  <2>2. r = [id |-> mgr.nextId, mgr |-> n]
    BY <1>1, <1>5, <2>1 DEF LogNext
  <2>3. /\ DOMAIN n = Fields /\ n.pending = mgr.nextId /\ n.nextId = mgr.nextId + 1
        /\ \A f \in Fields \ {"pending", "nextId"} : n[f] = mgr[f]
    BY DEF Fields
  <2> HIDE DEF n
  <2>4. SameRest(mgr, n) /\ n.log = mgr.log /\ n.wrapped = mgr.wrapped
    BY <2>3 DEF SameRest, Fields
  <2> QED BY <1>5, <2>1, <2>2, <2>3, <2>4
<1>6. CASE mgr.pending < 0 /\ mgr.nextId >= 0 /\ ~(mgr.nextId < LogLimit)
  <2> DEFINE n == [[mgr EXCEPT !.pending = mgr.nextId] EXCEPT !.wrapped = TRUE, !.nextId = from]
  <2>1. ~mgr.wrapped /\ mgr.pending = -1 /\ mgr.nextId = LogLimit
    BY <1>1, <1>6 DEF LogInv
  <2>2. from = -1 /\ DOMAIN mgr.log = (0 .. LogLimit - 1) \ {-1}
    BY <2>1 DEF LogInv
  <2>3. free = {}
    <3> SUFFICES ASSUME NEW i \in from + 1 .. LogLimit, i # mgr.nextId
                 PROVE  i \in DOMAIN mgr.log
      OBVIOUS
    <3> QED BY <2>1, <2>2
  <2>4. LogNext(mgr) = [id |-> -1, mgr |-> n]
    <3> HIDE DEF free, n
    <3> QED BY <1>6, <2>1, <2>2, <2>3 DEF LogNext, free, n
  <2>5. /\ DOMAIN n = Fields /\ n.pending = mgr.nextId /\ n.nextId = from /\ n.wrapped = TRUE
        /\ \A f \in Fields \ {"pending", "nextId", "wrapped"} : n[f] = mgr[f]
    BY DEF Fields
  <2> HIDE DEF n, free
  <2>6. SameRest(mgr, n) /\ n.log = mgr.log
    BY <2>5 DEF SameRest, Fields
  <2> QED BY <2>1, <2>2, <2>4, <2>5, <2>6
<1>7. \/ mgr.pending >= 0
      \/ mgr.pending < 0 /\ mgr.nextId < 0
      \/ mgr.pending < 0 /\ mgr.nextId >= 0 /\ mgr.nextId < LogLimit
      \/ mgr.pending < 0 /\ mgr.nextId >= 0 /\ ~(mgr.nextId < LogLimit)
  BY <1>1
<1> HIDE DEF r, from, free
<1> QED BY <1>3, <1>4, <1>5, <1>6, <1>7

\* AskLog keeps the invariant of the log.
LEMMA LogAsked ==
    ASSUME LogInv, LogLimit \in Nat, Structure(mgr), AskLog
    PROVE  LogInv' /\ Structure(mgr')
<1> DEFINE r == LogNext(mgr)
<1>1. /\ mgr' = r.mgr
      /\ asked' = IF r.id < 0 \/ r.id \in DOMAIN asked THEN asked ELSE Put(asked, r.id, None)
  BY DEF AskLog
<1>2. /\ SameRest(mgr, r.mgr) /\ r.mgr.log = mgr.log
      /\ \/ r.mgr = mgr /\ (r.id < 0 \/ r.id = mgr.pending)
         \/ /\ mgr.pending = -1 /\ ~mgr.wrapped /\ mgr.nextId < LogLimit
            /\ r.id = mgr.nextId /\ r.mgr.pending = mgr.nextId
            /\ r.mgr.nextId = mgr.nextId + 1 /\ r.mgr.wrapped = mgr.wrapped
         \/ /\ mgr.pending = -1 /\ ~mgr.wrapped /\ mgr.nextId = LogLimit
            /\ r.id = -1 /\ r.mgr.pending = LogLimit /\ r.mgr.nextId = -1 /\ r.mgr.wrapped = TRUE
  BY LogNextParts DEF Structure
<1> HIDE DEF r
<1>3. Structure(mgr')
  BY <1>1, <1>2, SameRestStructure
<1>4. CASE r.mgr = mgr /\ (r.id < 0 \/ r.id = mgr.pending)
  <2>1. CASE r.id < 0 \/ r.id \in DOMAIN asked
    BY <1>1, <1>4, <2>1, LogKept DEF SameLog
  <2>2. CASE ~(r.id < 0) /\ r.id \notin DOMAIN asked
    <3>1. r.id = mgr.pending /\ r.id \in 0 .. LogLimit /\ (~mgr.wrapped => r.id \in 0 .. mgr.nextId - 1)
      BY <1>4, <2>2 DEF LogInv
    <3>2. /\ DOMAIN asked' = DOMAIN asked \cup {r.id} /\ asked'[r.id] = None
          /\ \A id \in DOMAIN asked : asked'[id] = asked[id]
      BY <1>1, <2>2 DEF Put
    <3>3. mgr' = mgr
      BY <1>1, <1>4
    <3> QED BY <3>1, <3>2, <3>3 DEF LogInv
  <2> QED BY <2>1, <2>2
<1>5. CASE /\ mgr.pending = -1 /\ ~mgr.wrapped /\ mgr.nextId < LogLimit
           /\ r.id = mgr.nextId /\ r.mgr.pending = mgr.nextId
           /\ r.mgr.nextId = mgr.nextId + 1 /\ r.mgr.wrapped = mgr.wrapped
  <2>1. r.id \in 0 .. LogLimit /\ r.id \notin DOMAIN asked
    BY <1>5 DEF LogInv
  <2>2. /\ DOMAIN asked' = DOMAIN asked \cup {r.id} /\ asked'[r.id] = None
        /\ \A id \in DOMAIN asked : asked'[id] = asked[id]
    BY <1>1, <2>1 DEF Put
  <2>3. /\ mgr'.pending = mgr.nextId /\ mgr'.nextId = mgr.nextId + 1 /\ mgr'.wrapped = mgr.wrapped
        /\ mgr'.log = mgr.log /\ mgr.nextId \in 0 .. LogLimit - 1
    BY <1>1, <1>2, <1>5 DEF LogInv
  <2>4. DOMAIN mgr.log = 0 .. mgr.nextId - 1
    <3>1. DOMAIN mgr.log = (0 .. mgr.nextId - 1) \ {-1}
      BY <1>5 DEF LogInv
    <3>2. (0 .. mgr.nextId - 1) \ {-1} = 0 .. mgr.nextId - 1
      BY <2>3
    <3> QED BY <3>1, <3>2
  <2>5. \A id \in DOMAIN asked : asked[id] # None /\ id \in DOMAIN mgr.log /\ mgr.log[id] = asked[id]
    BY <1>5 DEF LogInv
  <2>6. DOMAIN asked \subseteq 0 .. mgr.nextId - 1
    BY <1>5 DEF LogInv
  <2>7. \A id \in DOMAIN asked' : IF asked'[id] = None THEN id = mgr'.pending
                                  ELSE id \in DOMAIN mgr'.log /\ mgr'.log[id] = asked'[id]
    BY <1>5, <2>2, <2>3, <2>5
  <2>8. /\ DOMAIN asked' \subseteq 0 .. mgr'.nextId - 1 /\ DOMAIN asked' \subseteq 0 .. LogLimit
        /\ DOMAIN mgr'.log = (0 .. mgr'.nextId - 1) \ {mgr'.pending}
        /\ DOMAIN mgr'.log \subseteq (0 .. LogLimit) \ {mgr'.pending}
    BY <1>5, <2>1, <2>2, <2>3, <2>4, <2>6
  <2> QED BY <1>3, <1>5, <2>3, <2>7, <2>8 DEF LogInv
<1>6. CASE /\ mgr.pending = -1 /\ ~mgr.wrapped /\ mgr.nextId = LogLimit
           /\ r.id = -1 /\ r.mgr.pending = LogLimit /\ r.mgr.nextId = -1 /\ r.mgr.wrapped = TRUE
  <2>1. asked' = asked /\ mgr'.pending = LogLimit /\ mgr'.nextId = -1 /\ mgr'.wrapped = TRUE /\ mgr'.log = mgr.log
    BY <1>1, <1>2, <1>6
  <2>2. \A id \in DOMAIN asked : asked[id] # None
    BY <1>6 DEF LogInv
  <2>3. DOMAIN mgr.log \subseteq 0 .. LogLimit - 1 /\ DOMAIN asked \subseteq 0 .. LogLimit
    BY <1>6 DEF LogInv
  <2>4. DOMAIN mgr'.log \subseteq (0 .. LogLimit) \ {mgr'.pending}
    BY <2>1, <2>3
  <2>5. \A id \in DOMAIN asked' : asked'[id] # None /\ id \in DOMAIN mgr'.log /\ mgr'.log[id] = asked'[id]
    BY <2>1, <2>2 DEF LogInv
  <2>6. /\ mgr'.nextId \in -1 .. LogLimit /\ mgr'.pending \in -1 .. LogLimit
        /\ mgr'.nextId = -1 /\ DOMAIN asked' \subseteq 0 .. LogLimit
    BY <2>1, <2>3
  <2>7. mgr'.wrapped = TRUE
    BY <2>1
  <2>8. LogInv'
    BY <2>4, <2>5, <2>6, <2>7 DEF LogInv
  <2> QED BY <1>3, <2>8
<1> QED BY <1>2, <1>3, <1>4, <1>5, <1>6

-----------------------------------------------------------------------------
(***************************************************************************)
(* 4. The theorems about the manager and its log.                          *)
(***************************************************************************)
\* The constructor.
LEMMA InitInv == Init => IInv
<1> SUFFICES ASSUME Init
             PROVE  IInv
  OBVIOUS
<1>1. scene \in Scenes /\ mgr = NewManager /\ told = {} /\ asked = << >>
  BY DEF Init
<1>2. Sizes \in Seq(Nat) /\ Master \in DOMAIN Sizes /\ FirstPos \in Int /\ LogLimit \in Nat
  BY <1>1, SceneParts
<1>3. Len(Sizes) \in Nat /\ DOMAIN Sizes = 1 .. Len(Sizes) /\ Len(Sizes) >= 1 /\ Sizes[1] \in Nat
  BY <1>2
<1>4. Structure(mgr)
  BY <1>1, <1>2, <1>3 DEF NewManager, Structure, Fields
<1>5. LogInv
  BY <1>1, <1>2 DEF NewManager, LogInv
<1> QED BY <1>1, <1>4, <1>5 DEF IInv, Told

\* Every method keeps the invariant.
LEMMA StepInv == IInv /\ [Next]_vars => IInv'
<1> SUFFICES ASSUME IInv, [Next]_vars
             PROVE  IInv'
  OBVIOUS
<1>1. scene \in Scenes /\ Structure(mgr) /\ Told /\ LogInv
  BY DEF IInv
<1>2. Units \subseteq Int /\ None \notin Units /\ SubRange \in Nat /\ Master \in DOMAIN Sizes /\ LogLimit \in Nat
      /\ Order \in [Units -> Units] /\ Sizes \in Seq(Nat)
  BY <1>1, SceneParts
<1>3. scene' = scene
  BY DEF Next, vars
<1> SUFFICES Structure(mgr') /\ Told' /\ LogInv'
  BY <1>1, <1>3, StructureKept DEF IInv
<1>4. ASSUME Structure(mgr'), SameLog(mgr, mgr'), told' = told, asked' = asked
      PROVE  Structure(mgr') /\ Told' /\ LogInv'
  BY <1>1, <1>3, <1>4, LogKept, ToldKept
<1>5. ASSUME mgr' = mgr, told' = told, asked' = asked
      PROVE  Structure(mgr') /\ Told' /\ LogInv'
  BY <1>1, <1>4, <1>5 DEF SameLog
<1>6. ASSUME NEW p \in Units, Structure(mgr'), mgr.cbr => mgr' = mgr, ~mgr.cbr => LogsUnit(mgr, mgr', p),
             asked' = IF mgr.cbr THEN asked ELSE Heard(p),
             NEW S, S \subseteq What \X Units \X DOMAIN Sizes, told' = Said(S)
      PROVE  Structure(mgr') /\ Told' /\ LogInv'
  <2>1. told' \subseteq told \cup S
    BY <1>6 DEF Said
  <2>2. Told'
    BY <1>1, <1>3, <1>6, <2>1, ToldKept
  <2>3. CASE mgr.cbr
    BY <1>1, <1>6, <2>2, <2>3, LogKept DEF SameLog
  <2>4. CASE ~mgr.cbr
    BY <1>1, <1>2, <1>6, <2>2, <2>4, LogTakes
  <2> QED BY <2>3, <2>4
<1>7. CASE AddSubStream
  BY <1>1, <1>4, <1>7, AddSubStreamParts DEF AddSubStream
<1>8. CASE SetPosTableIndex
  BY <1>1, <1>4, <1>8, SetPosTableIndexParts DEF SetPosTableIndex
<1>9. CASE ForceVBR
  BY <1>1, <1>4, <1>9, FlagParts DEF ForceVBR
<1>10. CASE AskLog
  BY <1>1, <1>2, <1>3, <1>10, LogAsked, ToldKept DEF AskLog
<1>11. ASSUME NEW p \in Units, OfferEditUnit(p)
       PROVE  Structure(mgr') /\ Told' /\ LogInv'
  <2>1. mgr' = AddEditUnit(mgr, Master, p + SubRange, KeyOffset(p), FarKey(p))
        /\ told' = Said({<<"unit", p, Master>>}) /\ asked' = IF mgr.cbr THEN asked ELSE Heard(p)
    BY <1>11 DEF OfferEditUnit
  <2>2. Structure(mgr') /\ (mgr.cbr => mgr' = mgr) /\ (~mgr.cbr => LogsUnit(mgr, mgr', p))
    BY <1>1, <1>2, <2>1, AddEditUnitParts
  <2> QED BY <1>2, <1>6, <2>1, <2>2 DEF What
<1>12. ASSUME NEW p \in Units, OfferOffset(p)
       PROVE  Structure(mgr') /\ Told' /\ LogInv'
  <2>1. PICK ks \in SUBSET Streams(mgr) :
          mgr' = SetOffset(mgr, ks, p)
          /\ told' = Said({<<"offset", p, k>> : k \in ks}) /\ asked' = IF mgr.cbr THEN asked ELSE Heard(p)
    BY <1>12 DEF OfferOffset
  <2>2. Structure(mgr') /\ (mgr.cbr => mgr' = mgr) /\ (~mgr.cbr => LogsUnit(mgr, mgr', p))
    BY <1>1, <2>1, SetOffsetParts
  <2>3. ks \subseteq DOMAIN Sizes
    BY <1>1, <1>2 DEF Structure, Streams
  <2>4. {<<"offset", p, k>> : k \in ks} \subseteq What \X Units \X DOMAIN Sizes
    BY <2>3 DEF What
  <2> QED BY <1>6, <2>1, <2>2, <2>4
<1>13. ASSUME NEW d \in Units, OfferTemporalOffset(d)
       PROVE  Structure(mgr') /\ Told' /\ LogInv'
  <2> DEFINE said == {<<"order", d, 1>>} \cup {<<"forward", p, 1>> : p \in {d} \cap Begun}
                        \cup {<<"back", p, 1>> : p \in {Order[d]} \cap Begun}
  <2>1. mgr' = SetTemporalOffset(mgr, d + SubRange, Order[d] - d) /\ asked' = asked
        /\ told' = Said(said)
    BY <1>13 DEF OfferTemporalOffset
  <2>2. Structure(mgr') /\ SameLog(mgr, mgr')
    BY <1>1, <2>1, SetTemporalOffsetParts
  <2>3. said \subseteq What \X Units \X DOMAIN Sizes
    BY <1>1, <1>2 DEF Structure, What, Begun
  <2> HIDE DEF said
  <2>4. told' \subseteq told \cup said
    BY <2>1 DEF Said
  <2> QED BY <1>1, <1>3, <2>1, <2>2, <2>3, <2>4, LogKept, ToldKept
<1>14. ASSUME NEW p \in Units, OfferKeyOffset(p)
       PROVE  Structure(mgr') /\ Told' /\ LogInv'
  BY <1>1, <1>4, <1>14, SetKeyOffsetParts DEF OfferKeyOffset
<1>15. ASSUME NEW p \in Units, MoveUnit(p) \/ CorrectUnit(p)
       PROVE  Structure(mgr') /\ Told' /\ LogInv'
  BY <1>5, <1>15 DEF MoveUnit, CorrectUnit
<1>16. CASE Make
  BY <1>1, <1>4, <1>16, FlagParts DEF Make
<1>17. CASE AddMore \/ Reread \/ PurgeUnits
  BY <1>5, <1>17 DEF AddMore, Reread, PurgeUnits
<1>18. CASE UNCHANGED vars
  BY <1>5, <1>18 DEF vars
<1> QED BY <1>7, <1>8, <1>9, <1>10, <1>11, <1>12, <1>13, <1>14, <1>15, <1>16, <1>17, <1>18 DEF Next, Step

\* The invariant of the manager, whatever is reported, asked and made, in any order.
THEOREM Invariant == Spec => []IInv
BY InitInv, StepInv, PTL DEF Spec

\* Types, and that no stream comes after the first entry, so that SetOffset
\* finds room for each (IndexManager::AddSubStream, SetOffset).
THEOREM TypeCorrect == Spec => []TypeOK
<1>1. IInv => TypeOK
  BY DEF IInv, Structure, LogInv, Told, What, EntryOK, TypeOK, OffsetsFit
<1> QED BY <1>1, Invariant, PTL

\* Identifiers of the log get the first unit that is stored after they were
\* handed out, each its own, also when they have run out (IndexManager::LogNext, Log).
THEOREM LogTrueAlways == Spec => []LogTrue
<1>1. IInv => LogTrue
  BY DEF IInv, LogInv, LogTrue
<1> QED BY <1>1, Invariant, PTL

-----------------------------------------------------------------------------
(***************************************************************************)
(* 5. Entries: what is in them, and when they are complete.                *)
(***************************************************************************)
\* An entry of the unit p when t has been told.
EntryTrue(e, p, t, streams) ==
    /\ "temporal" \in e.status <=> <<"forward", p, 1>> \in t
    /\ "temporal" \in e.status => e.to = Order[p] - p
    /\ "diff" \in e.status <=> <<"back", p, 1>> \in t
    /\ "diff" \in e.status => \E d \in Units : Order[d] = p /\ e.diff = d - p
    /\ "offset" \in e.status <=> \E k \in DOMAIN Sizes : <<"offset", p, k>> \in t
    /\ \A k \in streams : <<"offset", p, k>> \in t => e.off[k] = Where(p, k)

\* The units of which t says something.
BegunOf(t) == {p \in Units : \E k \in DOMAIN Sizes : <<"unit", p, k>> \in t \/ <<"offset", p, k>> \in t}

EntriesOf(m, t) ==
    /\ DOMAIN m.managed = BegunOf(t)
    /\ \A p \in DOMAIN m.managed : EntryTrue(m.managed[p], p, t, Streams(m))

\* Nothing is in time before its unit.
Timely(t) == \A p \in Units : <<"forward", p, 1>> \in t \/ <<"back", p, 1>> \in t => p \in BegunOf(t)

\* EntriesTrue is that of the manager and of what it was told.
LEMMA EntriesAre == EntriesTrue <=> EntriesOf(mgr, told)
<1>1. Begun = BegunOf(told)
  BY DEF Begun, BegunOf
<1> QED BY <1>1 DEF EntriesTrue, EntriesOf, EntryTrue

\* As the scene stays, it is that of the new manager.
LEMMA EntriesThen ==
    ASSUME scene' = scene, EntriesOf(mgr', told')
    PROVE  EntriesTrue'
<1>1. Begun' = BegunOf(told')
  BY DEF Begun, BegunOf, Units, Sizes
<1>2. /\ Units' = Units /\ Sizes' = Sizes /\ Order' = Order
      /\ \A p, k : Where(p, k)' = Where(p, k)
  BY DEF Units, Sizes, Order, Where
<1> QED BY <1>1, <1>2 DEF EntriesTrue, EntriesOf, EntryTrue, Streams

\* What counts of an entry is the same.
SameEntry(e, f) == e.status = f.status /\ e.to = f.to /\ e.diff = f.diff /\ e.off = f.off

\* An entry that is made or found.
LEMMA EnteredEntries ==
    ASSUME NEW m, Structure(m), NEW p \in Units
    PROVE  LET n == Entered(m, p) IN
           /\ DOMAIN n.managed = DOMAIN m.managed \cup {p}
           /\ \A q \in DOMAIN m.managed : n.managed[q] = m.managed[q]
           /\ p \notin DOMAIN m.managed => n.managed[p].status = {} /\ DOMAIN n.managed[p].off = Streams(m)
<1> DEFINE m1 == [m EXCEPT !.fixed = TRUE]
           n == Entered(m, p)
<1>1. DOMAIN m1 = Fields /\ m1.managed = m.managed
  BY DEF Structure, Fields
<1>2. CASE p \in DOMAIN m.managed
  BY <1>1, <1>2 DEF Entered
<1>3. CASE p \notin DOMAIN m.managed
  <2> DEFINE managed == Put(m.managed, p, NewEntry(m, p))
             uo == Without(m1.unOffsets, p)
             ud == Without(m1.unDiffs, p)
  <2>1. n = [m1 EXCEPT !.managed = managed, !.last = p, !.unOffsets = uo, !.unDiffs = ud]
    BY <1>1, <1>3 DEF Entered
  <2>2. /\ DOMAIN managed = DOMAIN m.managed \cup {p} /\ managed[p] = NewEntry(m, p)
        /\ \A q \in DOMAIN m.managed : managed[q] = m.managed[q]
    BY <1>3 DEF Put
  <2>3. NewEntry(m, p).status = {} /\ DOMAIN NewEntry(m, p).off = Streams(m)
    BY DEF NewEntry
  <2> HIDE DEF managed, uo, ud, m1
  <2>4. n.managed = managed
    BY <1>1, <2>1 DEF Fields
  <2> QED BY <2>2, <2>3, <2>4
<1> QED BY <1>2, <1>3

\* AddEditUnit makes an entry and leaves those that there are, but for key frames.
LEMMA AddEditUnitEntries ==
    ASSUME NEW m, Structure(m), ~m.cbr, NEW k, NEW p \in Units, NEW key, NEW far,
           SubRange \in Nat, Units \subseteq Int
    PROVE  LET n == AddEditUnit(m, k, p + SubRange, key, far)
               n1 == Entered(m, p)
           IN /\ DOMAIN n.managed = DOMAIN m.managed \cup {p}
              /\ \A q \in DOMAIN n.managed : SameEntry(n.managed[q], n1.managed[q])
              /\ n.sizes = m.sizes
<1> DEFINE m1 == Entered(m, p)
           e0 == m1.managed[p]
           e == [[e0 EXCEPT !.key = IF key # 0 THEN key ELSE @] EXCEPT !.outOfRange = far]
           managed == [m1.managed EXCEPT ![p] = e]
           m2 == IF k # Master THEN m1 ELSE [m1 EXCEPT !.managed = managed]
<1>1. (p + SubRange) - SubRange = p
  OBVIOUS
<1>2. Structure(m1) /\ p \in DOMAIN m1.managed /\ m1.sizes = m.sizes
  BY EnteredParts
<1>3. DOMAIN m1.managed = DOMAIN m.managed \cup {p}
  BY EnteredEntries
<1>4. AddEditUnit(m, k, p + SubRange, key, far) = Logged(m2, p)
  <2>1. [m1 EXCEPT !.managed[p].key = IF key # 0 THEN key ELSE @, !.managed[p].outOfRange = far]
          = [m1 EXCEPT !.managed = managed]
    BY <1>2 DEF Structure, Fields
  <2>2. \A q : q = (p + SubRange) - SubRange =>
          AddEditUnit(m, k, p + SubRange, key, far) =
             IF m.cbr THEN m
             ELSE Logged(IF k # Master THEN Entered(m, q)
                         ELSE [Entered(m, q) EXCEPT !.managed[q].key = IF key # 0 THEN key ELSE @,
                                                    !.managed[q].outOfRange = far], q)
    BY DEF AddEditUnit
  <2> HIDE DEF managed
  <2> QED BY <1>1, <2>1, <2>2
<1>5. SameEntry(e, e0)
  <2>1. EntryOK(e0, Streams(m1))
    BY <1>2 DEF Structure
  <2> QED BY <2>1 DEF SameEntry, EntryOK, EntryFields
<1>6. /\ DOMAIN managed = DOMAIN m1.managed
      /\ \A q \in DOMAIN managed : SameEntry(managed[q], m1.managed[q])
  <2> HIDE DEF e, m1
  <2> QED BY <1>2, <1>5 DEF SameEntry
<1> HIDE DEF managed, m1
<1>7. /\ DOMAIN m2 = Fields /\ DOMAIN m2.managed = DOMAIN m1.managed /\ m2.sizes = m1.sizes
      /\ \A q \in DOMAIN m2.managed : SameEntry(m2.managed[q], m1.managed[q])
  BY <1>2, <1>6 DEF Structure, Fields, SameEntry
<1> HIDE DEF m2
<1>8. SameRest(m2, Logged(m2, p))
  BY <1>7, LoggedParts
<1>9. Logged(m2, p).managed = m2.managed /\ Logged(m2, p).sizes = m2.sizes
  BY <1>8 DEF SameRest, Fields
<1> QED BY <1>2, <1>3, <1>4, <1>7, <1>9 DEF m1

\* SetOffset completes an entry in its places.
LEMMA SetOffsetEntries ==
    ASSUME NEW m, Structure(m), ~m.cbr, NEW ks, NEW p \in Units
    PROVE  LET n == SetOffset(m, ks, p)
               n1 == Entered(m, p)
               e == n.managed[p]
               f == n1.managed[p]
           IN /\ DOMAIN n.managed = DOMAIN m.managed \cup {p}
              /\ \A q \in DOMAIN m.managed \ {p} : n.managed[q] = m.managed[q]
              /\ e.status = f.status \cup {"offset"} /\ e.to = f.to /\ e.diff = f.diff
              /\ \A k \in Streams(m) : e.off[k] = IF k \in ks THEN Where(p, k) ELSE f.off[k]
              /\ n.sizes = m.sizes
<1> DEFINE m1 == Entered(m, p)
           e0 == m1.managed[p]
           off == [k \in DOMAIN e0.off |-> IF k \in ks THEN Where(p, k) ELSE e0.off[k]]
           e == [[e0 EXCEPT !.status = @ \cup {"offset"}] EXCEPT !.off = off]
           managed == [m1.managed EXCEPT ![p] = e]
           m2 == [m1 EXCEPT !.managed = managed]
<1>1. Structure(m1) /\ p \in DOMAIN m1.managed /\ m1.sizes = m.sizes
  BY EnteredParts
<1>2. /\ DOMAIN m1.managed = DOMAIN m.managed \cup {p}
      /\ \A q \in DOMAIN m.managed : m1.managed[q] = m.managed[q]
  BY EnteredEntries
<1>3. SetOffset(m, ks, p) = Logged(m2, p)
  <2>1. [m1 EXCEPT !.managed[p].status = @ \cup {"offset"},
                   !.managed[p].off = [k \in DOMAIN @ |-> IF k \in ks THEN Where(p, k) ELSE @[k]]]
          = [m1 EXCEPT !.managed = [m1.managed EXCEPT ![p] = e]]
    BY <1>1 DEF Structure, Fields, EntryOK, EntryFields
  <2> QED BY <2>1 DEF SetOffset
<1>4. /\ e.status = e0.status \cup {"offset"} /\ e.to = e0.to /\ e.diff = e0.diff
      /\ \A k \in Streams(m) : e.off[k] = IF k \in ks THEN Where(p, k) ELSE e0.off[k]
  <2>1. EntryOK(e0, Streams(m))
    BY <1>1 DEF Structure, Streams
  <2>2. \A k \in Streams(m) : off[k] = IF k \in ks THEN Where(p, k) ELSE e0.off[k]
    BY <2>1 DEF EntryOK
  <2> HIDE DEF off, e0
  <2>3. e.status = e0.status \cup {"offset"} /\ e.to = e0.to /\ e.diff = e0.diff /\ e.off = off
    BY <2>1 DEF EntryOK, EntryFields
  <2> QED BY <2>2, <2>3
<1> HIDE DEF e
<1>5. /\ DOMAIN managed = DOMAIN m1.managed /\ managed[p] = e
      /\ \A q \in DOMAIN m1.managed \ {p} : managed[q] = m1.managed[q]
  <2> HIDE DEF m1
  <2> QED BY <1>1
<1> HIDE DEF managed
<1>6. DOMAIN m2 = Fields /\ m2.managed = managed /\ m2.sizes = m.sizes
  BY <1>1 DEF Structure, Fields
<1> HIDE DEF m2
<1>7. SameRest(m2, Logged(m2, p))
  BY <1>6, LoggedParts
<1>8. Logged(m2, p).managed = managed /\ Logged(m2, p).sizes = m.sizes
  BY <1>6, <1>7 DEF SameRest, Fields
<1> HIDE DEF m1
<1>9. /\ DOMAIN managed = DOMAIN m.managed \cup {p}
      /\ \A q \in DOMAIN m.managed \ {p} : managed[q] = m.managed[q]
  BY <1>2, <1>5
<1> QED BY <1>3, <1>4, <1>5, <1>8, <1>9 DEF m1

\* SetTemporalOffset completes the entry of its unit and that of the unit that
\* is displayed there, if there are such.
LEMMA SetTemporalOffsetEntries ==
    ASSUME NEW m, Structure(m), ~m.cbr, NEW unit, NEW o
    PROVE  LET n == SetTemporalOffset(m, unit, o)
               d == unit - SubRange
               p == d + o
           IN /\ DOMAIN n.managed = DOMAIN m.managed /\ n.sizes = m.sizes
              /\ \A q \in DOMAIN m.managed :
                    /\ n.managed[q].off = m.managed[q].off
                    /\ n.managed[q].status = m.managed[q].status \cup (IF q = d THEN {"temporal"} ELSE {})
                                                                 \cup (IF q = p THEN {"diff"} ELSE {})
                    /\ n.managed[q].to = IF q = d THEN o ELSE m.managed[q].to
                    /\ n.managed[q].diff = IF q = p THEN 0 - o ELSE m.managed[q].diff
<1> DEFINE d == unit - SubRange
           p == d + o
           e0 == m.managed[d]
           e == [[e0 EXCEPT !.status = @ \cup {"temporal"}] EXCEPT !.to = o]
           managed1 == IF d \in DOMAIN m.managed THEN [m.managed EXCEPT ![d] = e] ELSE m.managed
           uo == Waiting(m.unOffsets, d, o)
           m1 == IF d \in DOMAIN m.managed THEN [m EXCEPT !.managed = [m.managed EXCEPT ![d] = e]]
                 ELSE [m EXCEPT !.unOffsets = uo]
           f0 == managed1[p]
           f == [[f0 EXCEPT !.status = @ \cup {"diff"}] EXCEPT !.diff = 0 - o]
           managed2 == IF p \in DOMAIN m.managed THEN [managed1 EXCEPT ![p] = f] ELSE managed1
           ud == Waiting(m1.unDiffs, d, 0 - o)
           m2 == IF p \in DOMAIN m.managed THEN [m1 EXCEPT !.managed = [m1.managed EXCEPT ![p] = f]]
                 ELSE [m1 EXCEPT !.unDiffs = ud]
<1>1. DOMAIN m = Fields /\ \A q \in DOMAIN m.managed : DOMAIN m.managed[q] = EntryFields
  BY DEF Structure, EntryOK
<1>2. DOMAIN m1 = Fields /\ m1.managed = managed1 /\ m1.sizes = m.sizes
  <2> HIDE DEF e, uo, d
  <2> QED BY <1>1 DEF Fields
<1>3. /\ DOMAIN managed1 = DOMAIN m.managed
      /\ \A q \in DOMAIN m.managed :
            /\ DOMAIN managed1[q] = EntryFields
            /\ managed1[q].off = m.managed[q].off /\ managed1[q].diff = m.managed[q].diff
            /\ managed1[q].status = m.managed[q].status \cup (IF q = d THEN {"temporal"} ELSE {})
            /\ managed1[q].to = IF q = d THEN o ELSE m.managed[q].to
  <2>1. d \in DOMAIN m.managed => /\ DOMAIN e = EntryFields /\ e.off = e0.off /\ e.diff = e0.diff
                                  /\ e.status = e0.status \cup {"temporal"} /\ e.to = o
    BY <1>1 DEF EntryFields
  <2> HIDE DEF e, d
  <2>2. CASE d \in DOMAIN m.managed
    BY <1>1, <2>1, <2>2
  <2>3. CASE d \notin DOMAIN m.managed
    BY <1>1, <2>3
  <2> QED BY <2>2, <2>3
<1>4. SetTemporalOffset(m, unit, o) = m2
  <2>1. d \in DOMAIN m.managed =>
          [m EXCEPT !.managed[d].status = @ \cup {"temporal"}, !.managed[d].to = o]
             = [m EXCEPT !.managed = [m.managed EXCEPT ![d] = e]]
    BY DEF Structure, Fields
  <2>2. [m1 EXCEPT !.managed[p].status = @ \cup {"diff"}, !.managed[p].diff = 0 - o]
             = [m1 EXCEPT !.managed = [m1.managed EXCEPT ![p] = f]] \/ p \notin DOMAIN m.managed
    <3> HIDE DEF m1, managed1
    <3> QED BY <1>2, <1>3 DEF Fields
  <2> DEFINE n1 == IF d \in DOMAIN m.managed
                   THEN [m EXCEPT !.managed[d].status = @ \cup {"temporal"}, !.managed[d].to = o]
                   ELSE [m EXCEPT !.unOffsets = Waiting(@, d, o)]
  <2>3. n1 = m1
    BY <2>1
  <2>4. SetTemporalOffset(m, unit, o) =
           IF p \in DOMAIN m.managed
           THEN [n1 EXCEPT !.managed[p].status = @ \cup {"diff"}, !.managed[p].diff = 0 - o]
           ELSE [n1 EXCEPT !.unDiffs = Waiting(@, d, 0 - o)]
    BY DEF SetTemporalOffset
  <2> HIDE DEF f, n1, m1, p
  <2>5. ud = Waiting(m1.unDiffs, d, 0 - o)
    OBVIOUS
  <2> QED BY <2>2, <2>3, <2>4, <2>5
<1> HIDE DEF m1, managed1
<1>5. m2.managed = managed2 /\ m2.sizes = m.sizes
  <2> HIDE DEF f, ud, p
  <2> QED BY <1>2 DEF Fields
<1>6. /\ DOMAIN managed2 = DOMAIN m.managed
      /\ \A q \in DOMAIN m.managed :
            /\ managed2[q].off = managed1[q].off /\ managed2[q].to = managed1[q].to
            /\ managed2[q].status = managed1[q].status \cup (IF q = p THEN {"diff"} ELSE {})
            /\ managed2[q].diff = IF q = p THEN 0 - o ELSE managed1[q].diff
  <2>1. p \in DOMAIN m.managed => /\ f.off = f0.off /\ f.to = f0.to
                                  /\ f.status = f0.status \cup {"diff"} /\ f.diff = 0 - o
    BY <1>3 DEF EntryFields
  <2> HIDE DEF f, p
  <2>2. CASE p \in DOMAIN m.managed
    BY <1>3, <2>1, <2>2
  <2>3. CASE p \notin DOMAIN m.managed
    BY <1>3, <2>3
  <2> QED BY <2>2, <2>3
<1> HIDE DEF m2, managed2
<1> QED BY <1>3, <1>4, <1>5, <1>6

\* The streams are among the elements.
LEMMA StreamsIn ==
    ASSUME NEW m, Structure(m), scene \in Scenes
    PROVE  Streams(m) \subseteq DOMAIN Sizes /\ 1 \in Streams(m)
<1>1. Sizes \in Seq(Nat) /\ m.sizes \in Seq(Nat) /\ Len(m.sizes) \in 1 .. Len(Sizes)
  BY SceneParts DEF Structure
<1>2. DOMAIN Sizes = 1 .. Len(Sizes) /\ Len(Sizes) \in Nat
  BY <1>1
<1>3. DOMAIN m.sizes = 1 .. Len(m.sizes)
  BY <1>1
<1> QED BY <1>1, <1>2, <1>3 DEF Streams

\* Entries that are the same, of the same streams, are as true as before.
LEMMA EntriesSame ==
    ASSUME NEW m, NEW n, NEW t, EntriesOf(m, t), DOMAIN n.managed = DOMAIN m.managed, n.sizes = m.sizes,
           \A q \in DOMAIN m.managed : SameEntry(n.managed[q], m.managed[q])
    PROVE  EntriesOf(n, t)
BY DEF EntriesOf, EntryTrue, SameEntry, Streams

\* A unit has been reported.
LEMMA UnitHeard ==
    ASSUME scene \in Scenes, Structure(mgr), EntriesOf(mgr, told), Timely(told), ~mgr.cbr,
           NEW p \in Units, OfferEditUnit(p)
    PROVE  EntriesOf(mgr', told') /\ Timely(told')
<1> DEFINE n1 == Entered(mgr, p)
           t == told \cup {<<"unit", p, Master>>}
<1>1. SubRange \in Nat /\ Units \subseteq Int /\ Master \in DOMAIN Sizes
  BY SceneParts
<1>2. mgr' = AddEditUnit(mgr, Master, p + SubRange, KeyOffset(p), FarKey(p)) /\ told' = t
  BY DEF OfferEditUnit, Said
<1>3. /\ DOMAIN mgr'.managed = DOMAIN mgr.managed \cup {p} /\ mgr'.sizes = mgr.sizes
      /\ \A q \in DOMAIN mgr'.managed : SameEntry(mgr'.managed[q], n1.managed[q])
  <2> DEFINE key == KeyOffset(p)
             far == FarKey(p)
             n == AddEditUnit(mgr, Master, p + SubRange, key, far)
  <2>1. mgr' = n
    BY <1>2
  <2> HIDE DEF key, far
  <2>2. /\ DOMAIN n.managed = DOMAIN mgr.managed \cup {p} /\ n.sizes = mgr.sizes
        /\ \A q \in DOMAIN n.managed : SameEntry(n.managed[q], n1.managed[q])
    <3> HIDE DEF n1
    <3> QED BY <1>1, AddEditUnitEntries DEF n1
  <2> HIDE DEF n, n1
  <2> QED BY <2>1, <2>2
<1>4. /\ \A q \in DOMAIN mgr.managed : n1.managed[q] = mgr.managed[q]
      /\ p \notin DOMAIN mgr.managed => n1.managed[p].status = {}
  BY EnteredEntries
<1>5. BegunOf(t) = BegunOf(told) \cup {p}
  BY <1>1 DEF BegunOf
<1> HIDE DEF n1
<1>6. ASSUME NEW q \in DOMAIN mgr'.managed
      PROVE  EntryTrue(mgr'.managed[q], q, t, Streams(mgr'))
  <2>1. CASE q \in DOMAIN mgr.managed
    <3>1. EntryTrue(mgr.managed[q], q, told, Streams(mgr))
      BY <2>1 DEF EntriesOf
    <3>2. SameEntry(mgr'.managed[q], mgr.managed[q])
      BY <1>3, <1>4, <2>1
    <3> QED BY <1>3, <3>1, <3>2 DEF EntryTrue, SameEntry, Streams
  <2>2. CASE q \notin DOMAIN mgr.managed
    <3>1. q = p /\ mgr'.managed[q].status = {}
      BY <1>3, <1>4, <2>2 DEF SameEntry
    <3>2. p \notin BegunOf(told)
      BY <2>2, <3>1 DEF EntriesOf
    <3>3. \A k \in DOMAIN Sizes : <<"offset", p, k>> \notin told
      BY <3>2 DEF BegunOf
    <3>4. <<"forward", p, 1>> \notin told /\ <<"back", p, 1>> \notin told
      BY <2>2, <3>1, <3>2 DEF Timely
    <3>5. DOMAIN mgr'.sizes \subseteq DOMAIN Sizes
      BY <1>3, StreamsIn DEF Streams
    <3> QED BY <3>1, <3>3, <3>4, <3>5 DEF EntryTrue, Streams
  <2> QED BY <2>1, <2>2
<1>7. Timely(t)
  BY <1>5 DEF Timely
<1>8. DOMAIN mgr'.managed = BegunOf(t)
  BY <1>3, <1>5 DEF EntriesOf
<1> QED BY <1>2, <1>6, <1>7, <1>8 DEF EntriesOf

\* Places have been reported.
LEMMA PlacesHeard ==
    ASSUME scene \in Scenes, Structure(mgr), EntriesOf(mgr, told), Timely(told), ~mgr.cbr,
           NEW p \in Units, OfferOffset(p)
    PROVE  EntriesOf(mgr', told') /\ Timely(told')
<1> DEFINE n1 == Entered(mgr, p)
<1>1. Streams(mgr) \subseteq DOMAIN Sizes
  BY StreamsIn
<1>2. PICK ks \in SUBSET Streams(mgr) : /\ ks # {} /\ mgr' = SetOffset(mgr, ks, p)
                                       /\ told' = told \cup {<<"offset", p, k>> : k \in ks}
  BY DEF OfferOffset, Said
<1> DEFINE t == told \cup {<<"offset", p, k>> : k \in ks}
           e == mgr'.managed[p]
           f == n1.managed[p]
<1>3. /\ DOMAIN mgr'.managed = DOMAIN mgr.managed \cup {p} /\ mgr'.sizes = mgr.sizes
      /\ \A q \in DOMAIN mgr.managed \ {p} : mgr'.managed[q] = mgr.managed[q]
      /\ e.status = f.status \cup {"offset"} /\ e.to = f.to /\ e.diff = f.diff
      /\ \A k \in Streams(mgr) : e.off[k] = IF k \in ks THEN Where(p, k) ELSE f.off[k]
  BY <1>2, SetOffsetEntries
<1>4. /\ p \in DOMAIN mgr.managed => f = mgr.managed[p]
      /\ p \notin DOMAIN mgr.managed => f.status = {}
  BY EnteredEntries
<1>5. BegunOf(t) = BegunOf(told) \cup {p}
  BY <1>1, <1>2 DEF BegunOf
<1>6. ASSUME NEW q \in DOMAIN mgr'.managed, q # p
      PROVE  EntryTrue(mgr'.managed[q], q, t, Streams(mgr'))
  <2>1. EntryTrue(mgr.managed[q], q, told, Streams(mgr)) /\ mgr'.managed[q] = mgr.managed[q]
    BY <1>3, <1>6 DEF EntriesOf
  <2> QED BY <1>3, <1>6, <2>1 DEF EntryTrue, Streams
<1> HIDE DEF n1
<1>7. EntryTrue(e, p, t, Streams(mgr'))
  <2>1. CASE p \in DOMAIN mgr.managed
    <3>1. EntryTrue(f, p, told, Streams(mgr))
      BY <1>4, <2>1 DEF EntriesOf
    <3> HIDE DEF e, f
    <3> QED BY <1>1, <1>2, <1>3, <3>1 DEF EntryTrue, Streams
  <2>2. CASE p \notin DOMAIN mgr.managed
    <3>1. p \notin BegunOf(told)
      BY <2>2 DEF EntriesOf
    <3>2. \A k \in DOMAIN Sizes : <<"offset", p, k>> \notin told
      BY <3>1 DEF BegunOf
    <3>3. <<"forward", p, 1>> \notin told /\ <<"back", p, 1>> \notin told
      BY <3>1 DEF Timely
    <3>4. e.status = {"offset"}
      BY <1>3, <1>4, <2>2
    <3> HIDE DEF e, f
    <3> QED BY <1>1, <1>2, <1>3, <3>2, <3>3, <3>4 DEF EntryTrue, Streams
  <2> QED BY <2>1, <2>2
<1>8. Timely(t)
  BY <1>5 DEF Timely
<1>9. DOMAIN mgr'.managed = BegunOf(t)
  BY <1>3, <1>5 DEF EntriesOf
<1> HIDE DEF e
<1>10. \A q \in DOMAIN mgr'.managed : EntryTrue(mgr'.managed[q], q, t, Streams(mgr'))
  BY <1>6, <1>7 DEF e
<1> QED BY <1>2, <1>8, <1>9, <1>10 DEF EntriesOf

\* A temporal offset has been reported.
LEMMA OrderHeard ==
    ASSUME scene \in Scenes, Structure(mgr), EntriesOf(mgr, told), Timely(told), ~mgr.cbr,
           NEW d \in Units, OfferTemporalOffset(d)
    PROVE  EntriesOf(mgr', told') /\ Timely(told')
<1> DEFINE t == told \cup {<<"order", d, 1>>} \cup {<<"forward", p, 1>> : p \in {d} \cap Begun}
                     \cup {<<"back", p, 1>> : p \in {Order[d]} \cap Begun}
<1>1. SubRange \in Nat /\ Units \subseteq Int /\ Order[d] \in Units
  BY SceneParts
<1>2. mgr' = SetTemporalOffset(mgr, d + SubRange, Order[d] - d) /\ told' = t
  BY DEF OfferTemporalOffset, Said
<1>3. (d + SubRange) - SubRange = d /\ d + (Order[d] - d) = Order[d] /\ 0 - (Order[d] - d) = d - Order[d]
  <2> HIDE DEF t
  <2> DEFINE o == Order[d]
             r == SubRange
  <2>1. d \in Units /\ o \in Units /\ r \in Nat /\ Units \subseteq Int
    BY <1>1
  <2> HIDE DEF o, r
  <2>2. d \in Int /\ o \in Int /\ r \in Int
    BY <2>1
  <2>3. (d + r) - r = d /\ d + (o - d) = o /\ 0 - (o - d) = d - o
    BY <2>2
  <2> QED BY <2>3 DEF o, r
<1>4. Begun = BegunOf(told) /\ DOMAIN mgr.managed = Begun
  BY DEF Begun, BegunOf, EntriesOf
<1>5. /\ DOMAIN mgr'.managed = DOMAIN mgr.managed /\ mgr'.sizes = mgr.sizes
      /\ \A q \in DOMAIN mgr.managed :
            /\ mgr'.managed[q].off = mgr.managed[q].off
            /\ mgr'.managed[q].status = mgr.managed[q].status \cup (IF q = d THEN {"temporal"} ELSE {})
                                                             \cup (IF q = Order[d] THEN {"diff"} ELSE {})
            /\ mgr'.managed[q].to = IF q = d THEN Order[d] - d ELSE mgr.managed[q].to
            /\ mgr'.managed[q].diff = IF q = Order[d] THEN d - Order[d] ELSE mgr.managed[q].diff
  BY <1>2, <1>3, SetTemporalOffsetEntries
<1>6. BegunOf(t) = BegunOf(told)
  BY DEF BegunOf
<1>7. ASSUME NEW q \in DOMAIN mgr'.managed
      PROVE  EntryTrue(mgr'.managed[q], q, t, Streams(mgr'))
  <2>1. EntryTrue(mgr.managed[q], q, told, Streams(mgr)) /\ q \in Begun
    BY <1>4, <1>5, <1>7 DEF EntriesOf
  <2>2. /\ <<"forward", q, 1>> \in t <=> <<"forward", q, 1>> \in told \/ q = d
        /\ <<"back", q, 1>> \in t <=> <<"back", q, 1>> \in told \/ q = Order[d]
        /\ \A k : <<"offset", q, k>> \in t <=> <<"offset", q, k>> \in told
    BY <2>1
  <2> DEFINE e == mgr'.managed[q]
             f == mgr.managed[q]
  <2>3. /\ e.off = f.off /\ e.to = (IF q = d THEN Order[d] - d ELSE f.to)
        /\ e.status = f.status \cup (IF q = d THEN {"temporal"} ELSE {}) \cup (IF q = Order[d] THEN {"diff"} ELSE {})
        /\ e.diff = IF q = Order[d] THEN d - Order[d] ELSE f.diff
    BY <1>5, <1>7
  <2>4. Streams(mgr') = Streams(mgr)
    BY <1>5 DEF Streams
  <2>5. EntryTrue(f, q, told, Streams(mgr))
    BY <2>1
  <2> HIDE DEF e, f, t
  <2>6. /\ "temporal" \in e.status <=> <<"forward", q, 1>> \in t
        /\ "temporal" \in e.status => e.to = Order[q] - q
    BY <2>2, <2>3, <2>5 DEF EntryTrue
  <2>7. /\ "diff" \in e.status <=> <<"back", q, 1>> \in t
        /\ "diff" \in e.status => \E c \in Units : Order[c] = q /\ e.diff = c - q
    BY <2>2, <2>3, <2>5 DEF EntryTrue
  <2>8. /\ "offset" \in e.status <=> \E k \in DOMAIN Sizes : <<"offset", q, k>> \in t
        /\ \A k \in Streams(mgr) : <<"offset", q, k>> \in t => e.off[k] = Where(q, k)
    BY <2>2, <2>3, <2>5 DEF EntryTrue
  <2>9. EntryTrue(e, q, t, Streams(mgr'))
    BY <2>4, <2>6, <2>7, <2>8 DEF EntryTrue
  <2> QED BY <2>9 DEF e
<1>8. Timely(t)
  BY <1>1, <1>4, <1>6 DEF Timely
<1>9. DOMAIN mgr'.managed = BegunOf(t)
  BY <1>5, <1>6 DEF EntriesOf
<1> HIDE DEF t
<1> QED BY <1>2, <1>7, <1>8, <1>9 DEF EntriesOf

\* A manager of constant size edit units changes nothing when it is told something.
LEMMA NotHeard ==
    ASSUME Structure(mgr), mgr.cbr, NEW p \in Units,
           OfferEditUnit(p) \/ OfferOffset(p) \/ OfferTemporalOffset(p)
    PROVE  mgr' = mgr /\ told' = told
BY DEF OfferEditUnit, OfferOffset, OfferTemporalOffset, AddEditUnit, SetOffset, SetTemporalOffset, Said

\* SetKeyOffset changes only key frames.
LEMMA KeyHeard ==
    ASSUME Structure(mgr), NEW p \in Units, OfferKeyOffset(p)
    PROVE  /\ DOMAIN mgr'.managed = DOMAIN mgr.managed /\ mgr'.sizes = mgr.sizes /\ told' = told
           /\ \A q \in DOMAIN mgr.managed : SameEntry(mgr'.managed[q], mgr.managed[q])
<1> DEFINE u == p + SubRange
           r == u - SubRange
           e0 == mgr.managed[r]
           e == [e0 EXCEPT !.key = KeyOffset(p)]
           managed == [mgr.managed EXCEPT ![r] = e]
<1>1. mgr' = SetKeyOffset(mgr, u, KeyOffset(p)) /\ mgr' # mgr /\ told' = told
  BY DEF OfferKeyOffset
<1>2. r \in DOMAIN mgr.managed /\ mgr' = [mgr EXCEPT !.managed = managed]
  BY <1>1 DEF SetKeyOffset, Structure, Fields
<1>3. SameEntry(e, e0)
  BY <1>2 DEF Structure, EntryOK, EntryFields, SameEntry
<1> HIDE DEF e, r
<1>4. /\ DOMAIN managed = DOMAIN mgr.managed
      /\ \A q \in DOMAIN mgr.managed : SameEntry(managed[q], mgr.managed[q])
  BY <1>2, <1>3 DEF SameEntry
<1> HIDE DEF managed
<1> QED BY <1>1, <1>2, <1>4 DEF Structure, Fields

\* Asking for an identifier leaves the entries alone.
LEMMA LogNextKeeps ==
    ASSUME NEW m, Structure(m)
    PROVE  LogNext(m).mgr.managed = m.managed /\ LogNext(m).mgr.sizes = m.sizes
<1> DEFINE n == LogNext(m).mgr
           taken == [m EXCEPT !.pending = m.nextId]
           from == IF m.wrapped THEN m.nextId ELSE -1
           free == {i \in from + 1 .. LogLimit : i # m.nextId /\ i \notin DOMAIN m.log}
           low == {i \in 0 .. m.nextId - 1 : i \notin DOMAIN m.log}
           over(x) == [taken EXCEPT !.wrapped = TRUE, !.nextId = x]
<1>0. LogNext(m) =
        CASE m.pending >= 0 -> [id |-> m.pending, mgr |-> m]
          [] m.pending < 0 /\ m.nextId < 0 -> [id |-> -1, mgr |-> m]
          [] m.pending < 0 /\ m.nextId >= 0 /\ ~m.wrapped /\ m.nextId < LogLimit ->
                [id |-> m.nextId, mgr |-> [taken EXCEPT !.nextId = @ + 1]]
          [] OTHER -> IF free # {} THEN [id |-> m.nextId, mgr |-> over(Min(free))]
                      ELSE IF from < 0 \/ low = {} THEN [id |-> -1, mgr |-> over(from)]
                      ELSE [id |-> m.nextId, mgr |-> over(Min(low))]
  BY DEF LogNext
<1>1. n = m \/ n = [taken EXCEPT !.nextId = @ + 1] \/ \E x : n = over(x)
  <2> HIDE DEF free, low, from, over, taken
  <2> QED BY <1>0
<1>2. DOMAIN taken = Fields /\ taken.managed = m.managed /\ taken.sizes = m.sizes
  BY DEF Structure, Fields
<1> HIDE DEF taken, n
<1> QED BY <1>1, <1>2 DEF Fields, n

\* Every step keeps what the entries say.
LEMMA EntriesStep ==
    ASSUME IInv, EntriesOf(mgr, told), Timely(told), [Next]_vars
    PROVE  EntriesOf(mgr', told') /\ Timely(told')
<1>1. scene \in Scenes /\ Structure(mgr)
  BY DEF IInv
<1>2. ASSUME told' = told, DOMAIN mgr'.managed = DOMAIN mgr.managed, mgr'.sizes = mgr.sizes,
             \A q \in DOMAIN mgr.managed : SameEntry(mgr'.managed[q], mgr.managed[q])
      PROVE  EntriesOf(mgr', told') /\ Timely(told')
  BY <1>2, EntriesSame
<1>3. ASSUME told' = told, mgr'.managed = mgr.managed, mgr'.sizes = mgr.sizes
      PROVE  EntriesOf(mgr', told') /\ Timely(told')
  BY <1>2, <1>3 DEF SameEntry
<1>4. CASE AddSubStream
  <2>1. DOMAIN mgr.managed = {} /\ told' = told
    BY <1>1, <1>4 DEF AddSubStream, Structure
  <2>2. mgr'.managed = mgr.managed
    BY <1>1, <1>4 DEF AddSubStream, Structure, Fields
  <2> QED BY <2>1, <2>2 DEF EntriesOf
<1>5. CASE SetPosTableIndex
  <2>1. PICK x : mgr' = [mgr EXCEPT !.pos[1] = x]
    BY <1>5 DEF SetPosTableIndex
  <2>2. mgr'.managed = mgr.managed /\ mgr'.sizes = mgr.sizes /\ told' = told
    BY <1>1, <1>5, <2>1 DEF SetPosTableIndex, Structure, Fields
  <2> QED BY <1>3, <2>2
<1>6. CASE ForceVBR
  BY <1>1, <1>3, <1>6 DEF ForceVBR, Structure, Fields
<1>7. CASE AskLog
  BY <1>1, <1>3, <1>7, LogNextKeeps DEF AskLog
<1>8. ASSUME NEW p \in Units, OfferEditUnit(p) \/ OfferOffset(p) \/ OfferTemporalOffset(p)
      PROVE  EntriesOf(mgr', told') /\ Timely(told')
  BY <1>1, <1>3, <1>8, NotHeard, UnitHeard, PlacesHeard, OrderHeard
<1>9. ASSUME NEW p \in Units, OfferKeyOffset(p)
      PROVE  EntriesOf(mgr', told') /\ Timely(told')
  BY <1>1, <1>2, <1>9, KeyHeard
<1>10. ASSUME NEW p \in Units, MoveUnit(p) \/ CorrectUnit(p)
       PROVE  EntriesOf(mgr', told') /\ Timely(told')
  BY <1>3, <1>10 DEF MoveUnit, CorrectUnit
<1>11. CASE Make
  <2>1. mgr' = [mgr EXCEPT !.fixed = TRUE] /\ told' = told
    BY <1>11 DEF Make
  <2> QED BY <1>1, <1>3, <2>1 DEF Structure, Fields
<1>12. CASE AddMore \/ Reread \/ PurgeUnits
  BY <1>3, <1>12 DEF AddMore, Reread, PurgeUnits
<1>13. CASE UNCHANGED vars
  BY <1>3, <1>13 DEF vars
<1> QED BY <1>4, <1>5, <1>6, <1>7, <1>8, <1>9, <1>10, <1>11, <1>12, <1>13 DEF Next, Step

\* An entry is complete exactly in what was reported when there was an entry for
\* it, and what it says is right: the places of its elements, the unit that is
\* displayed at its place, and the place at which it is displayed itself, also
\* with the reverse offsets that SetTemporalOffset files under the wrong unit
\* (IndexManager::AddEditUnit, SetOffset, SetTemporalOffset).
THEOREM EntriesTrueAlways == Spec => []EntriesTrue
<1> DEFINE EInv == EntriesTrue /\ Timely(told)
<1>1. Init => EInv
  <2> SUFFICES ASSUME Init
               PROVE  EInv
    OBVIOUS
  <2>1. mgr = NewManager /\ told = {}
    BY DEF Init
  <2> QED BY <2>1 DEF NewManager, EntriesTrue, Begun, Timely
<1>2. IInv /\ EInv /\ [Next]_vars => EInv'
  <2> SUFFICES ASSUME IInv, EInv, [Next]_vars
               PROVE  EInv'
    OBVIOUS
  <2>1. EntriesOf(mgr', told') /\ Timely(told')
    BY EntriesAre, EntriesStep
  <2>2. scene' = scene
    BY DEF Next, vars
  <2>3. EntriesTrue'
    BY <2>1, <2>2, EntriesThen
  <2>4. Timely(told)'
    BY <2>1, <2>2 DEF Timely, BegunOf, Units, Sizes
  <2> QED BY <2>3, <2>4
<1> QED BY <1>1, <1>2, Invariant, PTL DEF Spec

=============================================================================
