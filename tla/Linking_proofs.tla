-------------------------- MODULE Linking_proofs ----------------------------
(***************************************************************************)
(* Proofs about Linking: references and sets meet in whatever order they   *)
(* come (LinksTrue), and WriteLinkedObjects writes each set once           *)
(* (WrittenOnce).                                                          *)
(*                                                                         *)
(* Both speak of a partition at rest.  The invariant says what they come   *)
(* to while AddMetadata is under way: a set that it has entered and not    *)
(* left yet may have references that are neither linked nor waiting, and a *)
(* set behind a strong link that is still to be followed may be on the     *)
(* top level.  The frames in progress are a chain of strong links, and as  *)
(* strong references make trees no link leads back into it.                *)
(***************************************************************************)
EXTENDS Linking, TLAPS, FiniteSetTheorems

(***************************************************************************)
(* The frames in progress.                                                 *)
(***************************************************************************)

\* The sets that calls are about.
StackOf(c) == {c[j].set : j \in DOMAIN c}

\* The strong references that they still have to look at.
TodoOf(c) == {r \in Strong : \E j \in DOMAIN c : r \in ToSet(c[j].todo)}

\* Each call but the innermost has just followed a strong link to the set of
\* the next one, and looks at references of its own set.
FramesOK(c, lk, present) ==
    \A j \in DOMAIN c :
        /\ ~c[j].first => c[j].set \in present
        /\ ToSet(c[j].todo) \subseteq ToSet(Refs[c[j].set])
        /\ j # Len(c) =>
              /\ c[j+1].todo # << >>
              /\ Head(c[j+1].todo) \in Strong
              /\ lk[Head(c[j+1].todo)] = c[j].set

-----------------------------------------------------------------------------
(***************************************************************************)
(* The invariant.                                                          *)
(***************************************************************************)

\* The targets are the sets of the partition and those that are being added.
Known == all \subseteq alive /\ targets = all \cup StackOf(call) /\ targets \subseteq alive

\* A link is the set that the reference names.
LinkOK ==
    \A r \in Ref :
        /\ link[r] # None => link[r] = value[r] /\ link[r] \in alive /\ r \in RefsOf(alive)
        /\ value[r] # None => value[r] \in Targets[r]

\* A set has one owner at most.
OneOwner ==
    \A q, r \in RefsOf(alive) \cap Strong : value[q] = value[r] /\ value[q] # None => q = r

\* What waits waits for what it names, which is not there.
WaitOK ==
    \A u \in unmatched :
        value[u[2]] = u[1] /\ u[1] \notin targets /\ link[u[2]] = None /\ u[2] \in RefsOf(all)

\* A reference of a set that has been left names nothing, is linked or waits.
Settled ==
    \A s \in all \ StackOf(call) : \A r \in ToSet(Refs[s]) :
        value[r] = None \/ link[r] = value[r] \/ <<value[r], r>> \in unmatched

\* A strong link to the set is still to be followed.
Pending(s) == \E r \in TodoOf(call) : link[r] = s

\* A set of the partition, or one that is being added, owns the set.
Linked(s) == \E r \in RefsOf(targets) \cap Strong : link[r] = s

\* The top level has the sets that nobody owns, each once.
TopOK ==
    /\ \A s \in Set : top[s] <= 1 /\ (top[s] = 1 => s \in all)
    /\ \A s \in all \ StackOf(call) : ~Pending(s) => (top[s] = 1 <=> ~Linked(s))

\* The set that the application adds is not on the top level yet; its frame
\* knows whether it has an owner.
Bottom ==
    ~Idle => LET f == call[Len(call)] IN top[f.set] = 0 /\ (f.linked <=> Linked(f.set))

\* Strong links stay within the partition.
Closed ==
    \A r \in RefsOf(targets) \cap Strong :
        link[r] # None => link[r] \in targets \/ Pending(link[r])

IInv ==
    /\ TypeOK /\ Known /\ LinkOK /\ OneOwner /\ WaitOK
    /\ FramesOK(call, link, all) /\ Settled /\ TopOK /\ Bottom /\ Closed

-----------------------------------------------------------------------------
(***************************************************************************)
(* References.                                                             *)
(***************************************************************************)

\* Every reference belongs to one set.
LEMMA RefsParts ==
    /\ \A s \in Set : Refs[s] \in Seq(Ref) /\ ToSet(Refs[s]) \subseteq Ref
    /\ \A r \in Ref : \E s \in Set : r \in ToSet(Refs[s])
    /\ \A s, t \in Set : \A r : r \in ToSet(Refs[s]) /\ r \in ToSet(Refs[t]) => s = t
<1>1. \A s \in Set : Refs[s] \in Seq(Ref)
  BY LinkingAssumption
<1>2. \A s \in Set : ToSet(Refs[s]) \subseteq Ref
  BY DEF Ref
<1>3. \A r \in Ref : \E s \in Set : r \in ToSet(Refs[s])
  BY DEF Ref
<1>4. \A s, t \in Set : \A r : r \in ToSet(Refs[s]) /\ r \in ToSet(Refs[t]) => s = t
  BY LinkingAssumption
<1> QED BY <1>1, <1>2, <1>3, <1>4

\* The references of some sets.
LEMMA InRefsOf ==
    ASSUME NEW S
    PROVE  \A r : r \in RefsOf(S) <=> \E s \in S : r \in ToSet(Refs[s])
BY DEF RefsOf

\* More sets have more references.
LEMMA RefsOfGrows ==
    ASSUME NEW S, NEW T, S \subseteq T
    PROVE  RefsOf(S) \subseteq RefsOf(T)
BY InRefsOf

\* The owner of a reference of some sets is one of them.
LEMMA OwnerIn ==
    ASSUME NEW S \in SUBSET Set, NEW r \in Ref
    PROVE  /\ Owner(r) \in Set /\ r \in ToSet(Refs[Owner(r)])
           /\ Owner(r) \in S <=> r \in RefsOf(S)
<1>1. Owner(r) \in Set /\ r \in ToSet(Refs[Owner(r)])
  BY RefsParts DEF Owner
<1>2. ASSUME Owner(r) \in S
      PROVE  r \in RefsOf(S)
  BY <1>1, <1>2, InRefsOf
<1>3. ASSUME r \in RefsOf(S)
      PROVE  Owner(r) \in S
  <2>1. PICK s \in S : r \in ToSet(Refs[s])
    BY <1>3, InRefsOf
  <2>2. s = Owner(r)
    BY <1>1, <2>1, RefsParts
  <2> QED BY <2>1, <2>2
<1> QED BY <1>1, <1>2, <1>3

\* The first of some references, and the others.
LEMMA FirstRef ==
    ASSUME NEW q \in Seq(Ref), q # << >>
    PROVE  /\ Head(q) \in Ref /\ Tail(q) \in Seq(Ref)
           /\ ToSet(q) = {Head(q)} \cup ToSet(Tail(q))
<1>1. Len(q) \in Nat /\ Len(q) >= 1 /\ DOMAIN q = 1 .. Len(q) /\ q[1] \in Ref /\ Head(q) = q[1]
  OBVIOUS
<1>2. /\ Tail(q) \in Seq(Ref) /\ DOMAIN Tail(q) = 1 .. Len(q) - 1
      /\ \A i \in 1 .. Len(q) - 1 : Tail(q)[i] = q[i+1]
  BY <1>1
<1>3. ASSUME NEW r \in ToSet(q)
      PROVE  r \in {Head(q)} \cup ToSet(Tail(q))
  <2>1. PICK i \in 1 .. Len(q) : r = q[i]
    BY <1>1 DEF ToSet
  <2>2. CASE i = 1
    BY <1>1, <2>1, <2>2
  <2>3. CASE i # 1
    <3>1. i - 1 \in 1 .. Len(q) - 1 /\ (i - 1) + 1 = i
      BY <1>1, <2>3
    <3>2. Tail(q)[i - 1] = r
      BY <1>2, <2>1, <3>1
    <3> QED BY <1>2, <3>1, <3>2 DEF ToSet
  <2> QED BY <2>2, <2>3
<1>4. ASSUME NEW r \in ToSet(Tail(q))
      PROVE  r \in ToSet(q)
  <2>1. PICK i \in 1 .. Len(q) - 1 : r = Tail(q)[i]
    BY <1>2 DEF ToSet
  <2>2. i + 1 \in 1 .. Len(q) /\ r = q[i+1]
    BY <1>1, <1>2, <2>1
  <2> QED BY <1>1, <2>2 DEF ToSet
<1>5. Head(q) \in ToSet(q)
  BY <1>1 DEF ToSet
<1> QED BY <1>1, <1>2, <1>3, <1>4, <1>5

\* No references.
LEMMA NoRefs == ToSet(<< >>) = {}
BY DEF ToSet

-----------------------------------------------------------------------------
(***************************************************************************)
(* Stacks of frames.                                                       *)
(***************************************************************************)

\* What Seq says of frames.
LEMMA FrameParts ==
    ASSUME NEW c \in Seq(FrameType)
    PROVE  /\ Len(c) \in Nat /\ DOMAIN c = 1 .. Len(c)
           /\ \A j \in 1 .. Len(c) : /\ c[j] \in FrameType /\ c[j].set \in Set
                                     /\ c[j].todo \in Seq(Ref)
                                     /\ c[j].first \in BOOLEAN /\ c[j].linked \in BOOLEAN
           /\ c # << >> <=> Len(c) >= 1
           /\ c # << >> => /\ Head(c) = c[1] /\ c[1] \in FrameType
                           /\ Len(c) \in DOMAIN c /\ 1 \in DOMAIN c
<1>1. /\ Len(c) \in Nat /\ DOMAIN c = 1 .. Len(c)
      /\ \A j \in 1 .. Len(c) : c[j] \in FrameType
      /\ c # << >> <=> Len(c) >= 1
  OBVIOUS
<1>2. \A f \in FrameType : /\ f.set \in Set /\ f.todo \in Seq(Ref)
                           /\ f.first \in BOOLEAN /\ f.linked \in BOOLEAN
  BY DEF FrameType
<1>3. c # << >> => Head(c) = c[1] /\ Len(c) \in 1 .. Len(c) /\ 1 \in 1 .. Len(c)
  BY <1>1
<1> QED BY <1>1, <1>2, <1>3

\* The sets that calls are about are sets.
LEMMA StackSets ==
    ASSUME NEW c \in Seq(FrameType)
    PROVE  StackOf(c) \subseteq Set
BY FrameParts DEF StackOf

\* A call within the calls.
LEMMA Pushed ==
    ASSUME NEW c \in Seq(FrameType), NEW f \in FrameType
    PROVE  LET n == <<f>> \o c IN
           /\ n \in Seq(FrameType) /\ n # << >> /\ Head(n) = f /\ n[1] = f
           /\ Len(n) = Len(c) + 1 /\ \A j \in 1 .. Len(c) : n[j+1] = c[j]
           /\ n[Len(n)] = IF c = << >> THEN f ELSE c[Len(c)]
<1>1. Len(c) \in Nat /\ (c # << >> <=> Len(c) >= 1)
  BY FrameParts
<1> QED BY <1>1

\* What it adds to the stack.
LEMMA PushedSets ==
    ASSUME NEW c \in Seq(FrameType), NEW f \in FrameType
    PROVE  LET n == <<f>> \o c IN
           /\ StackOf(n) = StackOf(c) \cup {f.set}
           /\ TodoOf(n) = TodoOf(c) \cup (ToSet(f.todo) \cap Strong)
<1> DEFINE n == <<f>> \o c
<1>1. Len(c) \in Nat /\ DOMAIN c = 1 .. Len(c)
  BY FrameParts
<1>2. /\ n \in Seq(FrameType) /\ n[1] = f /\ Len(n) = Len(c) + 1
      /\ \A j \in 1 .. Len(c) : n[j+1] = c[j]
  BY Pushed
<1> HIDE DEF n
<1>3. DOMAIN n = 1 .. Len(c) + 1
  BY <1>2, FrameParts
<1>4. \A j \in DOMAIN n : n[j] = f \/ \E i \in DOMAIN c : n[j] = c[i]
  <2>1. ASSUME NEW j \in DOMAIN n, j # 1
        PROVE  \E i \in DOMAIN c : n[j] = c[i]
    <3>1. j - 1 \in 1 .. Len(c) /\ (j - 1) + 1 = j
      BY <1>1, <1>3, <2>1
    <3> QED BY <1>1, <1>2, <3>1
  <2> QED BY <1>2, <2>1
<1>5. 1 \in DOMAIN n /\ \A i \in DOMAIN c : i + 1 \in DOMAIN n /\ n[i+1] = c[i]
  BY <1>1, <1>2, <1>3
<1>6. StackOf(n) = StackOf(c) \cup {f.set}
  BY <1>2, <1>4, <1>5 DEF StackOf
<1>7. TodoOf(n) = TodoOf(c) \cup (ToSet(f.todo) \cap Strong)
  BY <1>2, <1>4, <1>5 DEF TodoOf
<1> QED BY <1>6, <1>7 DEF n

\* The innermost call goes on to its next reference.
LEMMA Advanced ==
    ASSUME NEW c \in Seq(FrameType), c # << >>, Head(c).todo # << >>
    PROVE  LET n == NextRef(c) IN
           /\ n \in Seq(FrameType) /\ n # << >> /\ Len(n) = Len(c)
           /\ n[1] = [c[1] EXCEPT !.todo = Tail(@)] /\ n[1].todo = Tail(c[1].todo)
           /\ \A j \in 2 .. Len(c) : n[j] = c[j]
           /\ \A j \in 1 .. Len(c) : /\ n[j].set = c[j].set /\ n[j].first = c[j].first
                                     /\ n[j].linked = c[j].linked
<1> DEFINE n == NextRef(c)
           f == [c[1] EXCEPT !.todo = Tail(@)]
<1>1. /\ Len(c) \in Nat /\ Len(c) >= 1 /\ c[1] \in FrameType /\ Head(c) = c[1]
      /\ c[1].todo \in Seq(Ref) /\ c[1].todo # << >>
  BY FrameParts
<1>2. Tail(c[1].todo) \in Seq(Ref)
  BY <1>1, FirstRef
<1>3. /\ f \in FrameType /\ f.todo = Tail(c[1].todo) /\ f.set = c[1].set
      /\ f.first = c[1].first /\ f.linked = c[1].linked
  BY <1>1, <1>2 DEF FrameType
<1>4. n = <<f>> \o Tail(c)
  BY <1>1 DEF NextRef
<1> HIDE DEF n, f
<1>5. /\ Tail(c) \in Seq(FrameType) /\ Len(Tail(c)) = Len(c) - 1
      /\ \A j \in 1 .. Len(c) - 1 : Tail(c)[j] = c[j+1]
  BY <1>1
<1>6. /\ n \in Seq(FrameType) /\ n # << >> /\ Len(n) = Len(c) /\ n[1] = f
      /\ \A j \in 1 .. Len(c) - 1 : n[j+1] = Tail(c)[j]
  BY <1>1, <1>3, <1>4, <1>5, Pushed
<1>7. \A j \in 2 .. Len(c) : n[j] = c[j]
  <2>1. ASSUME NEW j \in 2 .. Len(c)
        PROVE  n[j] = c[j]
    <3>1. j - 1 \in 1 .. Len(c) - 1 /\ (j - 1) + 1 = j
      BY <1>1, <2>1
    <3> QED BY <1>5, <1>6, <3>1
  <2> QED BY <2>1
<1>8. \A j \in 1 .. Len(c) : j = 1 \/ j \in 2 .. Len(c)
  BY <1>1
<1> QED BY <1>3, <1>6, <1>7, <1>8 DEF n, f

\* What that does to the stack.
LEMMA AdvancedSets ==
    ASSUME NEW c \in Seq(FrameType), c # << >>, Head(c).todo # << >>
    PROVE  LET n == NextRef(c) IN
           /\ StackOf(n) = StackOf(c)
           /\ TodoOf(n) \subseteq TodoOf(c)
           /\ TodoOf(c) \subseteq TodoOf(n) \cup {Head(Head(c).todo)}
<1> DEFINE n == NextRef(c)
<1>1. /\ Len(c) \in Nat /\ Len(c) >= 1 /\ Head(c) = c[1] /\ DOMAIN c = 1 .. Len(c)
      /\ c[1].todo \in Seq(Ref) /\ c[1].todo # << >>
  BY FrameParts
<1>2. /\ n \in Seq(FrameType) /\ Len(n) = Len(c)
      /\ n[1].todo = Tail(c[1].todo)
      /\ \A j \in 2 .. Len(c) : n[j] = c[j]
      /\ \A j \in 1 .. Len(c) : n[j].set = c[j].set
  BY Advanced
<1> HIDE DEF n
<1>3. DOMAIN n = 1 .. Len(c) /\ 1 \in 1 .. Len(c) /\ \A j \in 1 .. Len(c) : j = 1 \/ j \in 2 .. Len(c)
  BY <1>1, <1>2, FrameParts
<1>4. ToSet(c[1].todo) = {Head(c[1].todo)} \cup ToSet(n[1].todo)
  BY <1>1, <1>2, FirstRef
<1>5. StackOf(n) = StackOf(c)
  BY <1>1, <1>2, <1>3 DEF StackOf
<1>6. \A j \in 1 .. Len(c) : /\ ToSet(n[j].todo) \subseteq ToSet(c[j].todo)
                             /\ ToSet(c[j].todo) \subseteq ToSet(n[j].todo) \cup {Head(c[1].todo)}
  BY <1>2, <1>3, <1>4
<1>7. /\ TodoOf(n) \subseteq TodoOf(c)
      /\ TodoOf(c) \subseteq TodoOf(n) \cup {Head(c[1].todo)}
  BY <1>1, <1>3, <1>6 DEF TodoOf
<1> QED BY <1>1, <1>5, <1>7 DEF n

\* The innermost call has ended.
LEMMA Popped ==
    ASSUME NEW c \in Seq(FrameType), c # << >>, Head(c).todo = << >>
    PROVE  LET n == Tail(c) IN
           /\ n \in Seq(FrameType) /\ Len(n) = Len(c) - 1
           /\ \A j \in 1 .. Len(n) : n[j] = c[j+1]
           /\ n = << >> <=> Len(c) = 1
           /\ n # << >> => n[Len(n)] = c[Len(c)] /\ Head(n) = c[2] /\ n[1] = c[2]
           /\ StackOf(c) = StackOf(n) \cup {Head(c).set}
           /\ TodoOf(n) = TodoOf(c)
<1> DEFINE n == Tail(c)
<1>1. Len(c) \in Nat /\ Len(c) >= 1 /\ Head(c) = c[1] /\ DOMAIN c = 1 .. Len(c)
  BY FrameParts
<1>2. /\ n \in Seq(FrameType) /\ Len(n) = Len(c) - 1
      /\ \A j \in 1 .. Len(c) - 1 : n[j] = c[j+1]
  BY <1>1
<1> HIDE DEF n
<1>3. DOMAIN n = 1 .. Len(c) - 1 /\ (n = << >> <=> Len(c) = 1)
  BY <1>1, <1>2, FrameParts
<1>4. n # << >> => n[Len(n)] = c[Len(c)] /\ Head(n) = c[2] /\ n[1] = c[2]
  <2>1. ASSUME n # << >>
        PROVE  n[Len(n)] = c[Len(c)] /\ Head(n) = c[2] /\ n[1] = c[2]
    <3>1. Len(n) \in 1 .. Len(c) - 1 /\ Len(n) + 1 = Len(c) /\ 1 \in 1 .. Len(c) - 1 /\ Head(n) = n[1]
      BY <1>1, <1>2, <1>3, <2>1, FrameParts
    <3> QED BY <1>2, <3>1
  <2> QED BY <2>1
<1>5. \A j \in DOMAIN c : j = 1 \/ \E i \in DOMAIN n : c[j] = n[i]
  <2>1. ASSUME NEW j \in DOMAIN c, j # 1
        PROVE  \E i \in DOMAIN n : c[j] = n[i]
    <3>1. j - 1 \in 1 .. Len(c) - 1 /\ (j - 1) + 1 = j
      BY <1>1, <2>1
    <3> QED BY <1>2, <1>3, <3>1
  <2> QED BY <2>1
<1>6. 1 \in DOMAIN c /\ \A i \in DOMAIN n : i + 1 \in DOMAIN c /\ n[i] = c[i+1]
  BY <1>1, <1>2, <1>3
<1>7. StackOf(c) = StackOf(n) \cup {Head(c).set}
  BY <1>1, <1>5, <1>6 DEF StackOf
<1>8. ToSet(c[1].todo) = {}
  BY <1>1, NoRefs
<1>9. TodoOf(n) = TodoOf(c)
  BY <1>5, <1>6, <1>8 DEF TodoOf
<1> QED BY <1>1, <1>2, <1>3, <1>4, <1>7, <1>9 DEF n

\* No calls.
LEMMA NoFrames ==
    /\ << >> \in Seq(FrameType) /\ StackOf(<< >>) = {} /\ TodoOf(<< >>) = {}
    /\ \A lk, present : FramesOK(<< >>, lk, present)
BY DEF StackOf, TodoOf, FramesOK

\* More links and more sets.
LEMMA FramesKept ==
    ASSUME NEW c \in Seq(FrameType), NEW lk, NEW present, FramesOK(c, lk, present),
           NEW more, \A r \in Strong : lk[r] # None => more[r] = lk[r],
           NEW here, present \subseteq here
    PROVE  FramesOK(c, more, here)
<1>1. \A j \in DOMAIN c : c[j].set # None
  BY FrameParts, LinkingAssumption
<1> QED BY <1>1 DEF FramesOK

\* A call follows a link.
LEMMA FramesPushed ==
    ASSUME NEW c \in Seq(FrameType), NEW f \in FrameType,
           NEW lk, NEW present, FramesOK(c, lk, present),
           ~f.first => f.set \in present,
           ToSet(f.todo) \subseteq ToSet(Refs[f.set]),
           c # << >> => /\ Head(c).todo # << >> /\ Head(Head(c).todo) \in Strong
                        /\ lk[Head(Head(c).todo)] = f.set
    PROVE  FramesOK(<<f>> \o c, lk, present)
<1> DEFINE n == <<f>> \o c
<1>1. /\ Len(c) \in Nat /\ DOMAIN c = 1 .. Len(c) /\ (c # << >> <=> Len(c) >= 1)
      /\ c # << >> => Head(c) = c[1]
  BY FrameParts
<1>2. /\ n \in Seq(FrameType) /\ n[1] = f /\ Len(n) = Len(c) + 1
      /\ \A j \in 1 .. Len(c) : n[j+1] = c[j]
  BY Pushed
<1> HIDE DEF n
<1>3. DOMAIN n = 1 .. Len(c) + 1
  BY <1>2, FrameParts
<1>4. ASSUME NEW j \in DOMAIN n, j # 1
      PROVE  /\ ~n[j].first => n[j].set \in present
             /\ ToSet(n[j].todo) \subseteq ToSet(Refs[n[j].set])
             /\ j # Len(n) =>
                   /\ n[j+1].todo # << >>
                   /\ Head(n[j+1].todo) \in Strong
                   /\ lk[Head(n[j+1].todo)] = n[j].set
  <2> DEFINE i == j - 1
  <2>1. i \in DOMAIN c /\ i + 1 = j /\ i \in 1 .. Len(c)
    BY <1>1, <1>3, <1>4
  <2>2. j # Len(n) => i # Len(c) /\ i + 1 \in 1 .. Len(c)
    BY <1>1, <1>2, <1>3, <1>4
  <2> HIDE DEF i
  <2>3. n[j] = c[i] /\ (j # Len(n) => n[j+1] = c[i+1])
    BY <1>2, <2>1, <2>2
  <2> QED BY <2>1, <2>2, <2>3 DEF FramesOK
<1>5. Len(n) # 1 => /\ n[2].todo # << >> /\ Head(n[2].todo) \in Strong
                    /\ lk[Head(n[2].todo)] = f.set
  <2>1. ASSUME Len(n) # 1
        PROVE  c # << >> /\ n[2] = c[1] /\ Head(c) = c[1]
    <3>1. c # << >> /\ 1 \in 1 .. Len(c) /\ 1 + 1 = 2
      BY <1>1, <1>2, <2>1
    <3> QED BY <1>1, <1>2, <3>1
  <2> QED BY <2>1
<1>7. /\ ~n[1].first => n[1].set \in present
      /\ ToSet(n[1].todo) \subseteq ToSet(Refs[n[1].set])
      /\ 1 # Len(n) =>
            /\ n[1+1].todo # << >>
            /\ Head(n[1+1].todo) \in Strong
            /\ lk[Head(n[1+1].todo)] = n[1].set
  BY <1>2, <1>5
<1>6. FramesOK(n, lk, present)
  <2> SUFFICES ASSUME NEW j \in DOMAIN n
               PROVE  /\ ~n[j].first => n[j].set \in present
                      /\ ToSet(n[j].todo) \subseteq ToSet(Refs[n[j].set])
                      /\ j # Len(n) =>
                            /\ n[j+1].todo # << >>
                            /\ Head(n[j+1].todo) \in Strong
                            /\ lk[Head(n[j+1].todo)] = n[j].set
    BY DEF FramesOK
  <2>1. CASE j = 1
    BY <1>7, <2>1
  <2>2. CASE j # 1
    BY <1>4, <2>2
  <2> QED BY <2>1, <2>2
<1> QED BY <1>6 DEF n

\* A call goes on.
LEMMA FramesAdvanced ==
    ASSUME NEW c \in Seq(FrameType), c # << >>, Head(c).todo # << >>,
           NEW lk, NEW present, FramesOK(c, lk, present)
    PROVE  FramesOK(NextRef(c), lk, present)
<1> DEFINE n == NextRef(c)
<1>1. /\ Len(c) \in Nat /\ DOMAIN c = 1 .. Len(c) /\ Len(c) >= 1 /\ Head(c) = c[1]
      /\ c[1].todo \in Seq(Ref)
  BY FrameParts
<1>2. /\ n \in Seq(FrameType) /\ Len(n) = Len(c) /\ n[1].todo = Tail(c[1].todo)
      /\ \A j \in 2 .. Len(c) : n[j] = c[j]
      /\ \A j \in 1 .. Len(c) : n[j].set = c[j].set /\ n[j].first = c[j].first
  BY Advanced
<1> HIDE DEF n
<1>3. DOMAIN n = 1 .. Len(c)
  BY <1>2, FrameParts
<1>4. ToSet(n[1].todo) \subseteq ToSet(c[1].todo)
  BY <1>1, <1>2, FirstRef
<1>5. ASSUME NEW j \in 1 .. Len(c)
      PROVE  /\ ~n[j].first => n[j].set \in present
             /\ ToSet(n[j].todo) \subseteq ToSet(Refs[n[j].set])
             /\ j # Len(n) =>
                   /\ n[j+1].todo # << >>
                   /\ Head(n[j+1].todo) \in Strong
                   /\ lk[Head(n[j+1].todo)] = n[j].set
  <2>1. n[j].set = c[j].set /\ n[j].first = c[j].first /\ j \in DOMAIN c
    BY <1>1, <1>2
  <2>2. ToSet(n[j].todo) \subseteq ToSet(c[j].todo)
    <3>1. j = 1 \/ j \in 2 .. Len(c)
      BY <1>1
    <3> QED BY <1>2, <1>4, <3>1
  <2>3. j # Len(n) => n[j+1] = c[j+1]
    <3>1. Len(n) = Len(c) /\ Len(c) \in Nat
      BY <1>1, <1>2
    <3>2. j # Len(n) => j + 1 \in 2 .. Len(c)
      BY <3>1
    <3> QED BY <1>2, <3>2
  <2> QED BY <1>2, <2>1, <2>2, <2>3 DEF FramesOK
<1>6. FramesOK(n, lk, present)
  BY <1>3, <1>5 DEF FramesOK
<1> QED BY <1>6 DEF n

\* A call ends: the one around it had followed a strong link to its set.
LEMMA FramesPopped ==
    ASSUME NEW c \in Seq(FrameType), c # << >>,
           NEW lk, NEW present, FramesOK(c, lk, present)
    PROVE  LET n == Tail(c) IN
           /\ FramesOK(n, lk, present)
           /\ n # << >> => /\ Head(n).todo # << >> /\ Head(Head(n).todo) \in Strong
                           /\ lk[Head(Head(n).todo)] = Head(c).set
<1> DEFINE n == Tail(c)
<1>1. Len(c) \in Nat /\ Len(c) >= 1 /\ Head(c) = c[1] /\ DOMAIN c = 1 .. Len(c)
  BY FrameParts
<1>2. /\ n \in Seq(FrameType) /\ Len(n) = Len(c) - 1
      /\ \A j \in 1 .. Len(c) - 1 : n[j] = c[j+1]
  BY <1>1
<1> HIDE DEF n
<1>3. DOMAIN n = 1 .. Len(c) - 1 /\ (n = << >> <=> Len(c) = 1) /\ (n # << >> => Head(n) = n[1])
  BY <1>1, <1>2, FrameParts
<1>4. ASSUME NEW j \in DOMAIN n
      PROVE  /\ ~n[j].first => n[j].set \in present
             /\ ToSet(n[j].todo) \subseteq ToSet(Refs[n[j].set])
             /\ j # Len(n) =>
                   /\ n[j+1].todo # << >>
                   /\ Head(n[j+1].todo) \in Strong
                   /\ lk[Head(n[j+1].todo)] = n[j].set
  <2> DEFINE i == j + 1
  <2>1. i \in DOMAIN c /\ n[j] = c[i] /\ (j # Len(n) => i # Len(c) /\ n[j+1] = c[i+1])
    BY <1>1, <1>2, <1>3
  <2> HIDE DEF i
  <2> QED BY <2>1 DEF FramesOK
<1>5. ASSUME n # << >>
      PROVE  /\ Head(n).todo # << >> /\ Head(Head(n).todo) \in Strong
             /\ lk[Head(Head(n).todo)] = Head(c).set
  <2>1. 1 \in DOMAIN c /\ 1 # Len(c) /\ Head(n) = c[1+1] /\ Head(c) = c[1]
    BY <1>1, <1>2, <1>3, <1>5
  <2> QED BY <2>1 DEF FramesOK
<1>6. FramesOK(n, lk, present)
  BY <1>4 DEF FramesOK
<1> QED BY <1>5, <1>6 DEF n

\* No strong reference of the innermost set names a set that is being added:
\* it would be its own owner.
LEMMA NoWayBack ==
    ASSUME NEW c \in Seq(FrameType), c # << >>,
           NEW lk, NEW present, FramesOK(c, lk, present),
           \A r \in Ref : lk[r] # None => lk[r] \in Targets[r],
           NEW r \in ToSet(Refs[Head(c).set]) \cap Strong,
           NEW x \in StackOf(c), x \in Targets[r]
    PROVE  FALSE
<1>1. /\ Len(c) \in Nat /\ DOMAIN c = 1 .. Len(c) /\ Len(c) >= 1 /\ Head(c) = c[1]
      /\ \A j \in 1 .. Len(c) : c[j].set \in Set /\ c[j].todo \in Seq(Ref)
  BY FrameParts
<1>2. StackOf(c) \in SUBSET Set /\ StackOf(c) # {}
  BY <1>1 DEF StackOf
<1>3. PICK s \in StackOf(c) :
         \A q \in ToSet(Refs[s]) \cap Strong : Targets[q] \cap StackOf(c) = {}
  BY <1>2, TreeAssumption
<1>4. PICK j \in 1 .. Len(c) : s = c[j].set
  BY <1>1, <1>3 DEF StackOf
<1>5. CASE j = 1
  BY <1>1, <1>3, <1>4, <1>5
<1>6. CASE j # 1
  <2> DEFINE i == j - 1
             q == Head(c[j].todo)
  <2>1. i \in DOMAIN c /\ i # Len(c) /\ i + 1 = j /\ j \in DOMAIN c
    BY <1>1, <1>6
  <2> HIDE DEF i
  <2>2. c[j].todo # << >> /\ q \in Strong /\ lk[q] = c[i].set
    BY <2>1 DEF FramesOK
  <2>3. q \in ToSet(c[j].todo) /\ ToSet(c[j].todo) \subseteq ToSet(Refs[c[j].set])
    BY <1>1, <2>1, <2>2, FirstRef DEF FramesOK
  <2>4. c[i].set \in StackOf(c) /\ c[i].set # None
    BY <1>1, <2>1, LinkingAssumption DEF StackOf
  <2>5. q \in Ref
    BY <2>2, LinkingAssumption
  <2> QED BY <1>3, <1>4, <2>2, <2>3, <2>4, <2>5
<1> QED BY <1>5, <1>6

-----------------------------------------------------------------------------
(***************************************************************************)
(* The actions.                                                            *)
(***************************************************************************)

\* The references of sets that exist.
LEMMA AliveParts ==
    ASSUME IInv
    PROVE  /\ alive \in SUBSET Set /\ all \in SUBSET Set /\ targets \in SUBSET Set
           /\ value \in [Ref -> Set \cup {None}] /\ link \in [Ref -> Set \cup {None}]
           /\ top \in [Set -> Nat] /\ unmatched \in SUBSET (Set \X Ref)
           /\ call \in Seq(FrameType)
           /\ all \subseteq targets /\ targets \subseteq alive
           /\ RefsOf(all) \subseteq RefsOf(targets)
           /\ RefsOf(targets) \subseteq RefsOf(alive)
           /\ RefsOf(alive) \subseteq Ref
           /\ \A r \in Strong : r \in Ref
<1>1. /\ all \subseteq targets /\ targets \subseteq alive /\ alive \subseteq Set
  BY DEF IInv, TypeOK, Known
<1>2. RefsOf(all) \subseteq RefsOf(targets) /\ RefsOf(targets) \subseteq RefsOf(alive)
  BY <1>1, RefsOfGrows
<1>3. RefsOf(alive) \subseteq Ref
  BY <1>1, InRefsOf, RefsParts
<1> QED BY <1>1, <1>2, <1>3, LinkingAssumption DEF IInv, TypeOK

\* What a partition at rest knows.
LEMMA Resting ==
    ASSUME IInv, Idle
    PROVE  /\ call = << >> /\ StackOf(call) = {} /\ TodoOf(call) = {}
           /\ targets = all /\ \A s : ~Pending(s)
           /\ \A r \in RefsOf(all) \cap Strong : link[r] # None => link[r] \in all
<1>1. call = << >> /\ StackOf(call) = {} /\ TodoOf(call) = {}
  BY NoFrames DEF Idle
<1>2. targets = all
  BY <1>1 DEF IInv, Known
<1>3. \A s : ~Pending(s)
  BY <1>1 DEF Pending
<1> QED BY <1>1, <1>2, <1>3 DEF IInv, Closed

\* Changes of references that do not belong to the partition.
LEMMA OutsideKept ==
    ASSUME IInv, Idle,
           alive \subseteq alive', alive' \subseteq Set,
           value' \in [Ref -> Set \cup {None}], link' \in [Ref -> Set \cup {None}],
           \A r \in RefsOf(all) : value'[r] = value[r] /\ link'[r] = link[r],
           UNCHANGED <<all, top, targets, unmatched, call>>,
           LinkOK', OneOwner'
    PROVE  IInv'
<1>1. /\ call = << >> /\ StackOf(call) = {} /\ TodoOf(call) = {}
      /\ targets = all
      /\ \A r \in RefsOf(all) \cap Strong : link[r] # None => link[r] \in all
  BY Resting
<1>2. /\ all \in SUBSET Set /\ unmatched \in SUBSET (Set \X Ref) /\ top \in [Set -> Nat]
      /\ call \in Seq(FrameType)
  BY AliveParts
<1>3. TypeOK'
  BY DEF IInv, TypeOK
<1>4. Known'
  BY DEF IInv, Known
<1>5. WaitOK'
  <2>1. \A u \in unmatched : u[2] \in RefsOf(all)
    BY DEF IInv, WaitOK
  <2> QED BY <2>1 DEF IInv, WaitOK
<1>6. FramesOK(call', link', all')
  BY <1>1, NoFrames
<1>7. Settled'
  <2>1. ASSUME NEW t \in all, NEW r \in ToSet(Refs[t])
        PROVE  value'[r] = None \/ link'[r] = value'[r] \/ <<value'[r], r>> \in unmatched
    <3>1. r \in RefsOf(all)
      BY <2>1, InRefsOf
    <3>2. value'[r] = value[r] /\ link'[r] = link[r]
      BY <3>1
    <3> QED BY <1>1, <2>1, <3>2 DEF IInv, Settled
  <2> QED BY <1>1, <2>1 DEF Settled
<1>8. \A t \in Set : Linked(t)' <=> Linked(t)
  BY <1>1 DEF Linked
<1>9. TopOK'
  <2>1. \A t : ~Pending(t)
    BY Resting
  <2> QED BY <1>1, <1>2, <1>8, <2>1 DEF IInv, TopOK
<1>10. Bottom'
  BY <1>1 DEF Bottom, Idle
<1>11. Closed'
  BY <1>1 DEF Closed
<1> QED BY <1>3, <1>4, <1>5, <1>6, <1>7, <1>9, <1>10, <1>11 DEF IInv

\* A new set.
LEMMA NewSetInv ==
    ASSUME IInv, NEW s \in Set, NEW values \in [ToSet(Refs[s]) -> Set \cup {None}],
           NewSet(s, values)
    PROVE  IInv'
<1> USE DEF NewSet
<1>1. /\ alive \in SUBSET Set /\ value \in [Ref -> Set \cup {None}]
      /\ link \in [Ref -> Set \cup {None}] /\ all \subseteq alive
      /\ RefsOf(all) \subseteq RefsOf(alive) /\ RefsOf(alive) \subseteq Ref
  BY AliveParts
<1>2. ToSet(Refs[s]) \subseteq Ref /\ \A r \in RefsOf(alive) : r \notin ToSet(Refs[s])
  <2>1. ASSUME NEW r \in RefsOf(alive), r \in ToSet(Refs[s])
        PROVE  FALSE
    <3>1. PICK t \in alive : r \in ToSet(Refs[t])
      BY InRefsOf
    <3>2. t = s
      BY <1>1, <2>1, <3>1, RefsParts
    <3> QED BY <3>1, <3>2
  <2> QED BY <2>1, RefsParts
<1>3. /\ alive' = alive \cup {s} /\ value' \in [Ref -> Set \cup {None}]
      /\ \A r \in ToSet(Refs[s]) : value'[r] = values[r]
      /\ \A r \in Ref : r \notin ToSet(Refs[s]) => value'[r] = value[r]
  BY <1>1, <1>2
<1>4. \A r : r \in RefsOf(alive') <=> r \in RefsOf(alive) \/ r \in ToSet(Refs[s])
  BY <1>3, InRefsOf
<1>5. LinkOK'
  <2>1. ASSUME NEW r \in Ref, link'[r] # None
        PROVE  link'[r] = value'[r] /\ link'[r] \in alive' /\ r \in RefsOf(alive')
    BY <2>1, <1>2, <1>3, <1>4 DEF IInv, LinkOK
  <2>2. ASSUME NEW r \in Ref, value'[r] # None
        PROVE  value'[r] \in Targets[r]
    BY <2>2, <1>2, <1>3 DEF IInv, LinkOK, MayRefer
  <2> QED BY <2>1, <2>2 DEF LinkOK
<1>6. OneOwner'
  <2>1. ASSUME NEW q \in ToSet(Refs[s]) \cap Strong, NEW r \in RefsOf(alive) \cap Strong,
               values[q] # None
        PROVE  value[r] # values[q]
    <3>1. q # r
      BY <1>2
    <3> QED BY <2>1, <3>1 DEF MayRefer, NoStrongRef
  <2>2. ASSUME NEW q \in RefsOf(alive') \cap Strong, NEW r \in RefsOf(alive') \cap Strong,
               value'[q] = value'[r], value'[q] # None
        PROVE  q = r
    <3>1. CASE q \in ToSet(Refs[s]) /\ r \in ToSet(Refs[s])
      BY <1>3, <2>2, <3>1
    <3>2. CASE q \in ToSet(Refs[s]) /\ r \notin ToSet(Refs[s])
      <4>1. r \in RefsOf(alive) \cap Strong /\ r \in Ref
        BY <1>1, <1>4, <3>2
      <4>2. value'[q] = values[q] /\ value'[r] = value[r]
        BY <1>3, <3>2, <4>1
      <4> QED BY <2>1, <2>2, <3>2, <4>1, <4>2
    <3>3. CASE q \notin ToSet(Refs[s]) /\ r \in ToSet(Refs[s])
      BY <1>1, <1>3, <1>4, <2>1, <2>2, <3>3
    <3>4. CASE q \notin ToSet(Refs[s]) /\ r \notin ToSet(Refs[s])
      BY <1>1, <1>3, <1>4, <2>2, <3>4 DEF IInv, OneOwner
    <3> QED BY <3>1, <3>2, <3>3, <3>4
  <2> QED BY <2>2 DEF OneOwner
<1>7. \A r \in RefsOf(all) : value'[r] = value[r] /\ link'[r] = link[r]
  BY <1>1, <1>2, <1>3
<1> QED BY <1>1, <1>3, <1>5, <1>6, <1>7, OutsideKept

\* A link that the application makes.
LEMMA MakeRefInv ==
    ASSUME IInv, NEW r \in Ref, NEW s \in Set, MakeRef(r, s)
    PROVE  IInv'
<1> USE DEF MakeRef
<1>1. /\ alive \in SUBSET Set /\ all \in SUBSET Set /\ value \in [Ref -> Set \cup {None}]
      /\ link \in [Ref -> Set \cup {None}]
      /\ RefsOf(all) \subseteq RefsOf(alive) /\ RefsOf(alive) \subseteq Ref
  BY AliveParts
<1>2. r \in RefsOf(alive) /\ r \notin RefsOf(all)
  BY <1>1, OwnerIn
<1>3. /\ value' \in [Ref -> Set \cup {None}] /\ link' \in [Ref -> Set \cup {None}]
      /\ value'[r] = s /\ link'[r] = s /\ s # None
      /\ \A q \in Ref : q # r => value'[q] = value[q] /\ link'[q] = link[q]
  BY <1>1, LinkingAssumption
<1>4. LinkOK'
  <2>1. ASSUME NEW q \in Ref
        PROVE  /\ link'[q] # None =>
                     link'[q] = value'[q] /\ link'[q] \in alive' /\ q \in RefsOf(alive)
               /\ value'[q] # None => value'[q] \in Targets[q]
    <3>1. CASE q = r
      BY <1>2, <1>3, <3>1 DEF MayRefer
    <3>2. CASE q # r
      BY <1>3, <3>2 DEF IInv, LinkOK
    <3> QED BY <3>1, <3>2
  <2> QED BY <2>1 DEF LinkOK
<1>5. OneOwner'
  <2>1. ASSUME NEW q \in RefsOf(alive) \cap Strong, NEW p \in RefsOf(alive) \cap Strong,
               value'[q] = value'[p], value'[q] # None
        PROVE  q = p
    <3>1. q \in Ref /\ p \in Ref
      BY <1>1
    <3>2. CASE q # r /\ p # r
      BY <1>3, <2>1, <3>1, <3>2 DEF IInv, OneOwner
    <3>3. CASE q = r \/ p = r
      BY <1>3, <2>1, <3>1, <3>3 DEF MayRefer, NoStrongRef
    <3> QED BY <3>2, <3>3
  <2> QED BY <2>1 DEF OneOwner
<1>6. \A q \in RefsOf(all) : value'[q] = value[q] /\ link'[q] = link[q]
  BY <1>1, <1>2, <1>3
<1> QED BY <1>1, <1>3, <1>4, <1>5, <1>6, OutsideKept

\* A set that AddMetadata enters.
LEMMA EnterInv ==
    ASSUME IInv, NEW s \in alive, NEW first \in BOOLEAN, EnterSet(s, first),
           call' = <<Frame(s, first)>> \o call,
           call = << >> => s \notin all,
           call # << >> =>
              /\ Head(call).todo # << >>
              /\ Head(Head(call).todo) \in Strong
              /\ link[Head(Head(call).todo)] = s
    PROVE  IInv'
<1> DEFINE W == Waiting(s)
           f == Frame(s, first)
<1>1. /\ alive \in SUBSET Set /\ all \in SUBSET Set /\ targets \in SUBSET Set
      /\ value \in [Ref -> Set \cup {None}] /\ link \in [Ref -> Set \cup {None}]
      /\ top \in [Set -> Nat] /\ unmatched \in SUBSET (Set \X Ref)
      /\ call \in Seq(FrameType)
      /\ all \subseteq targets /\ targets \subseteq alive
      /\ RefsOf(all) \subseteq RefsOf(targets)
      /\ RefsOf(targets) \subseteq RefsOf(alive)
      /\ RefsOf(alive) \subseteq Ref
      /\ \A r \in Strong : r \in Ref
  BY AliveParts
<1>2. /\ all' = IF first THEN all ELSE all \cup {s}
      /\ targets' = targets \cup {s}
      /\ link' = [r \in Ref |-> IF r \in W THEN s ELSE link[r]]
      /\ unmatched' = {u \in unmatched : u[1] # s}
      /\ alive' = alive /\ value' = value /\ top' = top
  BY DEF EnterSet
<1>3. s \in Set /\ s # None
  BY <1>1, LinkingAssumption
<1>4. \A r \in W : /\ r \in Ref /\ value[r] = s /\ link[r] = None /\ r \in RefsOf(all)
                   /\ <<s, r>> \in unmatched
  BY DEF Waiting, IInv, WaitOK
<1>5. f \in FrameType /\ f.set = s /\ f.first = first /\ f.todo = Refs[s]
      /\ (f.linked <=> W \cap Strong # {})
  BY <1>3, RefsParts DEF Frame, FrameType
<1>6. \A r : <<s, r>> \in unmatched => r \in W
  BY <1>1 DEF Waiting
<1> HIDE DEF W, f
<1>7. call' = <<f>> \o call
  BY DEF f
<1>8. /\ call' \in Seq(FrameType) /\ call' # << >> /\ Head(call') = f
      /\ call'[Len(call')] = IF call = << >> THEN f ELSE call[Len(call)]
      /\ StackOf(call') = StackOf(call) \cup {s}
      /\ TodoOf(call') = TodoOf(call) \cup (ToSet(Refs[s]) \cap Strong)
  BY <1>1, <1>5, <1>7, Pushed, PushedSets
<1>9. /\ link' \in [Ref -> Set \cup {None}]
      /\ \A r \in Ref : link[r] # None => link'[r] = link[r]
      /\ \A r \in Ref : link'[r] # s => link'[r] = link[r] /\ r \notin W
      /\ \A r \in W : link'[r] = s
      /\ \A r \in Ref : r \notin W => link'[r] = link[r]
  BY <1>1, <1>2, <1>3, <1>4
<1>10. all \subseteq all' /\ all' \in SUBSET Set /\ all' \subseteq all \cup {s}
       /\ (~first => s \in all')
  BY <1>1, <1>2, <1>3
<1>11. TypeOK'
  BY <1>1, <1>2, <1>3, <1>8, <1>9, <1>10 DEF IInv, TypeOK
<1>12. Known'
  BY <1>1, <1>2, <1>8, <1>10 DEF IInv, Known
<1>13. LinkOK'
  <2>1. ASSUME NEW r \in Ref
        PROVE  /\ link'[r] # None =>
                     link'[r] = value[r] /\ link'[r] \in alive /\ r \in RefsOf(alive)
               /\ value[r] # None => value[r] \in Targets[r]
    <3>1. CASE r \in W
      BY <1>1, <1>3, <1>4, <1>9, <3>1 DEF IInv, LinkOK
    <3>2. CASE r \notin W
      BY <1>9, <3>2 DEF IInv, LinkOK
    <3> QED BY <3>1, <3>2
  <2> QED BY <1>2, <2>1 DEF LinkOK
<1>14. \A r \in Ref : link'[r] # None => link'[r] \in Targets[r]
  BY <1>2, <1>13 DEF LinkOK
<1>15. OneOwner'
  BY <1>2 DEF IInv, OneOwner
<1>16. WaitOK'
  <2>1. ASSUME NEW u \in unmatched, u[1] # s
        PROVE  /\ value[u[2]] = u[1] /\ u[1] \notin targets' /\ link'[u[2]] = None
               /\ u[2] \in RefsOf(all')
    <3>1. value[u[2]] = u[1] /\ u[1] \notin targets /\ link[u[2]] = None /\ u[2] \in RefsOf(all)
      BY DEF IInv, WaitOK
    <3>2. u[2] \notin W /\ u[2] \in Ref
      BY <1>1, <1>4, <2>1, <3>1
    <3>3. RefsOf(all) \subseteq RefsOf(all')
      BY <1>10, RefsOfGrows
    <3> QED BY <1>2, <1>9, <2>1, <3>1, <3>2, <3>3
  <2> QED BY <1>2, <2>1 DEF WaitOK
<1>17. FramesOK(call', link', all')
  <2>1. FramesOK(call, link, all)
    BY DEF IInv
  <2>2. FramesOK(call, link', all')
    BY <1>1, <1>9, <1>10, <2>1, FramesKept
  <2>3. call # << >> => link'[Head(Head(call).todo)] = s
    BY <1>1, <1>3, <1>9
  <2>4. ~f.first => f.set \in all'
    BY <1>5, <1>10
  <2>5. ToSet(f.todo) \subseteq ToSet(Refs[f.set])
    BY <1>5
  <2>6. FramesOK(<<f>> \o call, link', all')
    BY <1>1, <1>5, <2>2, <2>3, <2>4, <2>5, FramesPushed
  <2> QED BY <1>7, <2>6
<1>18. Settled'
  <2>1. ASSUME NEW t \in all' \ StackOf(call'), NEW r \in ToSet(Refs[t])
        PROVE  value'[r] = None \/ link'[r] = value'[r] \/ <<value'[r], r>> \in unmatched'
    <3>1. t \in all \ StackOf(call) /\ t # s /\ r \in Ref
      BY <1>1, <1>8, <1>10, <2>1, RefsParts
    <3>2. value[r] = None \/ link[r] = value[r] \/ <<value[r], r>> \in unmatched
      BY <3>1 DEF IInv, Settled
    <3>3. CASE value[r] # None /\ link[r] = value[r]
      BY <1>2, <1>9, <3>1, <3>3
    <3>4. CASE <<value[r], r>> \in unmatched /\ value[r] = s
      BY <1>2, <1>6, <1>9, <3>4
    <3>5. CASE <<value[r], r>> \in unmatched /\ value[r] # s
      BY <1>2, <3>5
    <3> QED BY <1>2, <3>2, <3>3, <3>4, <3>5
  <2> QED BY <2>1 DEF Settled
<1>19. \A r : r \in RefsOf(targets') <=> r \in RefsOf(targets) \/ r \in ToSet(Refs[s])
  BY <1>2, InRefsOf
<1>20. \A x : Pending(x) /\ x # None => Pending(x)'
  <2>1. ASSUME NEW r \in TodoOf(call), link[r] # None
        PROVE  r \in TodoOf(call') /\ link'[r] = link[r]
    <3>1. r \in Ref
      BY <1>1 DEF TodoOf
    <3> QED BY <1>8, <1>9, <2>1, <3>1
  <2> QED BY <2>1 DEF Pending
<1>21. \A x : Linked(x) /\ x # None => Linked(x)'
  <2>1. ASSUME NEW r \in RefsOf(targets) \cap Strong, link[r] # None
        PROVE  r \in RefsOf(targets') \cap Strong /\ link'[r] = link[r]
    BY <1>1, <1>9, <1>19, <2>1
  <2> QED BY <2>1 DEF Linked
<1>22. \A x : Linked(x)' /\ x # s /\ x # None =>
              Linked(x) \/ \E r \in ToSet(Refs[s]) \cap Strong : link'[r] = x
  <2>1. ASSUME NEW r \in RefsOf(targets') \cap Strong, link'[r] # s
        PROVE  (r \in RefsOf(targets) /\ link[r] = link'[r]) \/ r \in ToSet(Refs[s])
    BY <1>1, <1>9, <1>19, <2>1
  <2> QED BY <2>1 DEF Linked
<1>23. TopOK'
  <2>1. \A x \in Set : top[x] <= 1 /\ (top[x] = 1 => x \in all')
    BY <1>10 DEF IInv, TopOK
  <2>2. ASSUME NEW t \in all' \ StackOf(call'), ~Pending(t)'
        PROVE  top[t] = 1 <=> ~Linked(t)'
    <3>1. t \in all \ StackOf(call) /\ t # s /\ t # None
      <4>1. t \in all \ StackOf(call) /\ t # s
        BY <1>8, <1>10, <2>2
      <4> QED BY <1>1, <4>1, LinkingAssumption
    <3>2. top[t] = 1 <=> ~Linked(t)
      BY <1>20, <2>2, <3>1 DEF IInv, TopOK
    <3>3. ~\E r \in ToSet(Refs[s]) \cap Strong : link'[r] = t
      BY <1>8, <2>2 DEF Pending
    <3>4. Linked(t)' <=> Linked(t)
      BY <1>21, <1>22, <3>1, <3>3
    <3> QED BY <3>2, <3>4
  <2> QED BY <1>2, <2>1, <2>2 DEF TopOK
<1>24. \A r \in ToSet(Refs[s]) \cap Strong : \A x \in StackOf(call') : link'[r] # x
  <2>1. ASSUME NEW r \in ToSet(Refs[s]) \cap Strong, NEW x \in StackOf(call'), link'[r] = x
        PROVE  FALSE
    <3>1. x # None
      <4>1. StackOf(call') \subseteq Set
        BY <1>8, StackSets
      <4> QED BY <2>1, <4>1, LinkingAssumption
    <3>2. x \in Targets[r]
      BY <1>1, <1>14, <2>1, <3>1
    <3>3. r \in ToSet(Refs[Head(call').set]) \cap Strong
      BY <1>5, <1>8
    <3> QED BY <1>8, <1>14, <1>17, <3>2, <3>3, NoWayBack
  <2> QED BY <2>1
<1>25. Bottom'
  <2>1. CASE call = << >>
    <3>1. top[s] = 0
      <4>1. top[s] <= 1 /\ top[s] # 1 /\ top[s] \in Nat
        BY <1>1, <1>3, <2>1 DEF IInv, TopOK
      <4> QED BY <4>1
    <3>2. ASSUME f.linked
          PROVE  Linked(s)'
      <4>1. PICK r \in W : r \in Strong
        BY <1>5, <3>2
      <4>2. r \in RefsOf(targets') /\ link'[r] = s
        BY <1>1, <1>4, <1>9, <1>19, <4>1
      <4> QED BY <4>1, <4>2 DEF Linked
    <3>3. ASSUME Linked(s)'
          PROVE  f.linked
      <4>1. PICK r \in RefsOf(targets') \cap Strong : link'[r] = s
        BY <3>3 DEF Linked
      <4>2. CASE r \in W
        BY <1>5, <4>1, <4>2
      <4>3. CASE r \notin W /\ r \in ToSet(Refs[s])
        BY <1>8, <1>24, <4>1, <4>3
      <4>4. CASE r \notin W /\ r \in RefsOf(targets)
        <5>1. targets = all /\ \A q \in RefsOf(all) \cap Strong : link[q] # None => link[q] \in all
          BY <2>1, Resting DEF Idle
        <5>2. link[r] = s
          BY <1>1, <1>9, <4>1, <4>4
        <5> QED BY <1>3, <2>1, <4>1, <4>4, <5>1, <5>2
      <4> QED BY <1>19, <4>1, <4>2, <4>3, <4>4
    <3> QED BY <1>2, <1>5, <1>8, <2>1, <3>1, <3>2, <3>3 DEF Bottom
  <2>2. CASE call # << >>
    <3> PICK b \in FrameType : b = call[Len(call)]
      BY <1>1, <2>2, FrameParts
    <3>1. b.set \in StackOf(call) /\ b.set \in Set /\ b.set # None
      BY <1>1, <2>2, FrameParts, LinkingAssumption DEF StackOf
    <3>2. top[b.set] = 0 /\ (b.linked <=> Linked(b.set))
      BY <2>2 DEF IInv, Bottom, Idle
    <3>3. s \notin StackOf(call)
      <4> DEFINE h == Head(Head(call).todo)
      <4>1. /\ 1 \in DOMAIN call /\ Head(call) = call[1] /\ Head(call).todo \in Seq(Ref)
            /\ FramesOK(call, link, all)
        BY <1>1, <2>2, FrameParts DEF IInv
      <4>2. h \in ToSet(Refs[Head(call).set]) /\ h \in Strong /\ h \in Ref
        BY <1>1, <2>2, <4>1, FirstRef DEF FramesOK
      <4>3. s \in Targets[h] /\ \A r \in Ref : link[r] # None => link[r] \in Targets[r]
        BY <1>3, <2>2, <4>2 DEF IInv, LinkOK
      <4> HIDE DEF h
      <4> QED BY <1>1, <2>2, <4>1, <4>2, <4>3, NoWayBack
    <3>4. Linked(b.set)' <=> Linked(b.set)
      <4>1. b.set \in StackOf(call') /\ b.set # s
        BY <1>8, <3>1, <3>3
      <4> QED BY <1>21, <1>22, <1>24, <3>1, <4>1
    <3>5. call'[Len(call')] = b
      BY <1>8, <2>2
    <3> QED BY <1>2, <3>2, <3>4, <3>5 DEF Bottom
  <2> QED BY <2>1, <2>2
<1>26. Closed'
  <2>1. ASSUME NEW r \in RefsOf(targets') \cap Strong, NEW x, x = link'[r], x # None
        PROVE  x \in targets' \/ Pending(x)'
    <3>1. r \in Ref
      BY <1>1
    <3>2. CASE r \in W
      BY <1>2, <1>9, <2>1, <3>2
    <3>3. CASE r \notin W /\ r \in RefsOf(targets)
      <4>1. x = link[r] /\ (x \in targets \/ Pending(x))
        BY <1>9, <2>1, <3>1, <3>3 DEF IInv, Closed
      <4> QED BY <1>2, <1>20, <2>1, <4>1
    <3>4. CASE r \in ToSet(Refs[s])
      BY <1>8, <2>1, <3>4 DEF Pending
    <3> QED BY <1>19, <2>1, <3>2, <3>3, <3>4
  <2> QED BY <2>1 DEF Closed, Pending
<1> QED BY <1>11, <1>12, <1>13, <1>15, <1>16, <1>17, <1>18, <1>23, <1>25, <1>26 DEF IInv

\* AddMetadata, called by the application.
LEMMA AddMetadataInv ==
    ASSUME IInv, NEW s \in Set, NEW first \in BOOLEAN, AddMetadata(s, first)
    PROVE  IInv'
<1>1. call = << >> /\ s \in alive /\ s \notin all /\ EnterSet(s, first)
  BY Resting DEF AddMetadata
<1>2. Frame(s, first) \in FrameType
  BY <1>1, RefsParts DEF Frame, FrameType
<1>3. call' = <<Frame(s, first)>> \o call
  BY <1>1, <1>2 DEF AddMetadata
<1> QED BY <1>1, <1>3, EnterInv

\* A reference that is followed, or passed.
LEMMA FollowLinkInv ==
    ASSUME IInv, FollowLink
    PROVE  IInv'
<1> DEFINE r == Head(Head(call).todo)
<1>1. call # << >> /\ Head(call).todo # << >>
  BY DEF FollowLink, Idle
<1>2. /\ call \in Seq(FrameType) /\ link \in [Ref -> Set \cup {None}]
      /\ \A q \in Strong : q \in Ref
      /\ alive \in SUBSET Set
  BY AliveParts
<1>3. Head(call).todo \in Seq(Ref) /\ Head(call).first \in BOOLEAN
  BY <1>1, <1>2, FrameParts
<1>4. CASE r \in Strong /\ link[r] # None
  <2>1. link[r] \in alive
    BY <1>2, <1>4 DEF IInv, LinkOK
  <2>2. /\ EnterSet(link[r], Head(call).first)
        /\ call' = <<Frame(link[r], Head(call).first)>> \o call
    BY <1>4 DEF FollowLink
  <2> QED BY <1>1, <1>3, <1>4, <2>1, <2>2, EnterInv
<1>5. CASE ~(r \in Strong /\ link[r] # None)
  <2>1. /\ call' = NextRef(call)
        /\ UNCHANGED <<alive, value, link, all, top, targets, unmatched>>
    BY <1>5 DEF FollowLink
  <2>2. /\ call' \in Seq(FrameType) /\ call' # << >> /\ Len(call') = Len(call)
        /\ \A j \in 1 .. Len(call) : call'[j].set = call[j].set /\ call'[j].linked = call[j].linked
    BY <1>1, <1>2, <2>1, Advanced
  <2>3. /\ StackOf(call') = StackOf(call)
        /\ TodoOf(call') \subseteq TodoOf(call)
        /\ TodoOf(call) \subseteq TodoOf(call') \cup {r}
    BY <1>1, <1>2, <2>1, AdvancedSets
  <2>4. FramesOK(call', link', all')
    BY <1>1, <1>2, <2>1, FramesAdvanced DEF IInv
  <2> HIDE DEF r
  <2>5. \A x : x # None => (Pending(x)' <=> Pending(x))
    <3>1. ASSUME NEW q \in TodoOf(call), link[q] # None
          PROVE  q \in TodoOf(call')
      BY <1>5, <2>3, <3>1 DEF TodoOf
    <3> QED BY <2>1, <2>3, <3>1 DEF Pending
  <2>6. \A x : Linked(x)' <=> Linked(x)
    BY <2>1 DEF Linked
  <2>7. TypeOK' /\ Known' /\ LinkOK' /\ OneOwner' /\ WaitOK' /\ Settled'
    BY <2>1, <2>2, <2>3 DEF IInv, TypeOK, Known, LinkOK, OneOwner, WaitOK, Settled
  <2>8. TopOK'
    <3>1. ASSUME NEW t \in all \ StackOf(call), ~Pending(t)'
          PROVE  top[t] = 1 <=> ~Linked(t)'
      <4>1. t # None
        BY AliveParts, LinkingAssumption
      <4>2. ~Pending(t)
        BY <2>5, <3>1, <4>1
      <4>3. top[t] = 1 <=> ~Linked(t)
        BY <4>2 DEF IInv, TopOK
      <4> QED BY <2>6, <4>3
    <3>2. \A x \in Set : top[x] <= 1 /\ (top[x] = 1 => x \in all)
      BY DEF IInv, TopOK
    <3> QED BY <2>1, <2>3, <3>1, <3>2 DEF TopOK
  <2>9. Bottom'
    <3> PICK b \in FrameType : b = call[Len(call)]
      BY <1>1, <1>2, FrameParts
    <3>1. top[b.set] = 0 /\ (b.linked <=> Linked(b.set))
      BY <1>1 DEF IInv, Bottom, Idle
    <3>2. call'[Len(call')].set = b.set /\ call'[Len(call')].linked = b.linked
      BY <1>1, <1>2, <2>2, FrameParts
    <3>3. top'[b.set] = 0 /\ (b.linked <=> Linked(b.set)')
      BY <2>1, <2>6, <3>1
    <3> QED BY <3>2, <3>3 DEF Bottom, Linked
  <2>10. Closed'
    <3>1. ASSUME NEW q \in RefsOf(targets) \cap Strong, NEW x, x = link[q], x # None
          PROVE  x \in targets \/ Pending(x)'
      BY <2>5, <3>1 DEF IInv, Closed
    <3> QED BY <2>1, <3>1 DEF Closed, Pending
  <2> QED BY <2>4, <2>7, <2>8, <2>9, <2>10 DEF IInv
<1> QED BY <1>4, <1>5

\* The frames after the innermost call has ended.
LEMMA LeaveFrames ==
    ASSUME NEW c \in Seq(FrameType), c # << >>, Head(c).todo = << >>,
           NEW lk, NEW present, FramesOK(c, lk, present),
           NEW n, n = IF Tail(c) = << >> THEN Tail(c) ELSE NextRef(Tail(c))
    PROVE  /\ n \in Seq(FrameType) /\ FramesOK(n, lk, present)
           /\ n = << >> <=> Tail(c) = << >>
           /\ StackOf(c) = StackOf(n) \cup {Head(c).set}
           /\ TodoOf(n) \subseteq TodoOf(c)
           /\ \A q \in TodoOf(c) : q \notin TodoOf(n) => lk[q] = Head(c).set
           /\ n # << >> => \E q \in RefsOf(StackOf(n)) \cap Strong : lk[q] = Head(c).set
           /\ n # << >> => /\ n[Len(n)].set = c[Len(c)].set
                           /\ n[Len(n)].linked = c[Len(c)].linked
           /\ n = << >> => c[Len(c)] = Head(c)
<1> DEFINE m == Tail(c)
<1>1. /\ m \in Seq(FrameType)
      /\ m = << >> <=> Len(c) = 1
      /\ m # << >> => m[Len(m)] = c[Len(c)]
      /\ StackOf(c) = StackOf(m) \cup {Head(c).set}
      /\ TodoOf(m) = TodoOf(c)
  BY Popped
<1>2. /\ FramesOK(m, lk, present)
      /\ m # << >> => /\ Head(m).todo # << >> /\ Head(Head(m).todo) \in Strong
                      /\ lk[Head(Head(m).todo)] = Head(c).set
  BY FramesPopped
<1>3. Head(c) = c[1]
  BY FrameParts
<1> HIDE DEF m
<1>4. n = IF m = << >> THEN m ELSE NextRef(m)
  BY DEF m
<1>5. CASE m = << >>
  BY <1>1, <1>2, <1>3, <1>4, <1>5 DEF m
<1>6. CASE m # << >>
  <2>0. n = NextRef(m) /\ m \in Seq(FrameType) /\ m # << >> /\ Head(m).todo # << >>
    BY <1>1, <1>2, <1>4, <1>6
  <2>1. /\ n \in Seq(FrameType) /\ n # << >> /\ Len(n) = Len(m)
        /\ \A j \in 1 .. Len(m) : n[j].set = m[j].set /\ n[j].linked = m[j].linked
    <3> PICK k : k = NextRef(m)
      OBVIOUS
    <3>1. /\ k \in Seq(FrameType) /\ k # << >> /\ Len(k) = Len(m)
          /\ \A j \in 1 .. Len(m) : /\ k[j].set = m[j].set /\ k[j].first = m[j].first
                                    /\ k[j].linked = m[j].linked
      BY <2>0, Advanced
    <3> QED BY <2>0, <3>1
  <2>2. /\ StackOf(n) = StackOf(m)
        /\ TodoOf(n) \subseteq TodoOf(m)
        /\ TodoOf(m) \subseteq TodoOf(n) \cup {Head(Head(m).todo)}
    BY <1>1, <1>2, <1>4, <1>6, AdvancedSets
  <2>3. FramesOK(n, lk, present)
    BY <1>1, <1>2, <1>4, <1>6, FramesAdvanced
  <2>4. Len(m) \in 1 .. Len(m)
    BY <1>1, <1>6, FrameParts
  <2>5. n[Len(n)].set = c[Len(c)].set /\ n[Len(n)].linked = c[Len(c)].linked
    BY <1>1, <1>6, <2>1, <2>4
  <2>6. \E q \in RefsOf(StackOf(n)) \cap Strong : lk[q] = Head(c).set
    <3> DEFINE q == Head(Head(m).todo)
    <3>1. /\ 1 \in DOMAIN m /\ Head(m) = m[1] /\ Head(m).todo \in Seq(Ref)
      BY <1>1, <1>6, FrameParts
    <3>2. q \in ToSet(Refs[Head(m).set])
      BY <1>2, <1>6, <3>1, FirstRef DEF FramesOK
    <3>3. Head(m).set \in StackOf(m)
      BY <3>1 DEF StackOf
    <3>4. q \in RefsOf(StackOf(n))
      BY <2>2, <3>2, <3>3, InRefsOf
    <3> QED BY <1>2, <1>6, <3>4
  <2>7. \A q \in TodoOf(c) : q \notin TodoOf(n) => lk[q] = Head(c).set
    BY <1>1, <1>2, <1>6, <2>2
  <2>8. m = Tail(c)
    BY DEF m
  <2> QED BY <1>1, <1>6, <2>1, <2>2, <2>3, <2>5, <2>6, <2>7, <2>8
<1> QED BY <1>5, <1>6

\* The end of AddMetadata for a set.
LEMMA LeaveSetInv ==
    ASSUME IInv, LeaveSet
    PROVE  IInv'
<1>1. /\ alive \in SUBSET Set /\ all \in SUBSET Set /\ targets \in SUBSET Set
      /\ value \in [Ref -> Set \cup {None}] /\ link \in [Ref -> Set \cup {None}]
      /\ top \in [Set -> Nat] /\ unmatched \in SUBSET (Set \X Ref)
      /\ call \in Seq(FrameType)
      /\ all \subseteq targets /\ targets \subseteq alive
      /\ RefsOf(all) \subseteq RefsOf(targets)
      /\ RefsOf(targets) \subseteq RefsOf(alive)
      /\ RefsOf(alive) \subseteq Ref
      /\ \A r \in Strong : r \in Ref
  BY AliveParts
<1>2. call # << >> /\ Head(call).todo = << >>
  BY DEF LeaveSet, Idle
<1> PICK f \in FrameType : f = Head(call)
  BY <1>1, <1>2, FrameParts
<1> PICK t \in Set : t = f.set
  BY DEF FrameType
<1> PICK F : F = Found(t)
  OBVIOUS
<1> PICK rest : rest = Tail(call)
  OBVIOUS
<1> PICK owned : owned = {value[r] : r \in F \cap Strong}
  OBVIOUS
<1>3. /\ all' = all \cup {t}
      /\ top' = Without(IF f.linked THEN top ELSE [top EXCEPT ![t] = @ + 1],
                        owned \cup (IF rest = << >> THEN {} ELSE {t}))
      /\ link' = [r \in Ref |-> IF r \in F THEN value[r] ELSE link[r]]
      /\ unmatched' = unmatched \cup {<<value[r], r>> : r \in Lost(t)}
      /\ call' = IF rest = << >> THEN rest ELSE NextRef(rest)
      /\ alive' = alive /\ value' = value /\ targets' = targets
  BY DEF LeaveSet
<1>4. FramesOK(call, link, all)
  BY DEF IInv
<1> PICK n : n = call'
  OBVIOUS
<1>31. n = IF Tail(call) = << >> THEN Tail(call) ELSE NextRef(Tail(call))
  BY <1>3
<1>32. Head(call).set = t
  OBVIOUS
<1>33. /\ n \in Seq(FrameType) /\ FramesOK(n, link, all)
       /\ n = << >> <=> Tail(call) = << >>
       /\ StackOf(call) = StackOf(n) \cup {Head(call).set}
       /\ TodoOf(n) \subseteq TodoOf(call)
       /\ \A q \in TodoOf(call) : q \notin TodoOf(n) => link[q] = Head(call).set
       /\ n # << >> => \E q \in RefsOf(StackOf(n)) \cap Strong : link[q] = Head(call).set
       /\ n # << >> => /\ n[Len(n)].set = call[Len(call)].set
                       /\ n[Len(n)].linked = call[Len(call)].linked
       /\ n = << >> => call[Len(call)] = Head(call)
  BY <1>1, <1>2, <1>4, <1>31, LeaveFrames
<1>5. /\ call' \in Seq(FrameType) /\ FramesOK(call', link, all)
      /\ call' = << >> <=> rest = << >>
      /\ StackOf(call) = StackOf(call') \cup {t}
      /\ TodoOf(call') \subseteq TodoOf(call)
      /\ \A q \in TodoOf(call) : q \notin TodoOf(call') => link[q] = t
      /\ call' # << >> => \E q \in RefsOf(StackOf(call')) \cap Strong : link[q] = t
      /\ call' # << >> => /\ call'[Len(call')].set = call[Len(call)].set
                          /\ call'[Len(call')].linked = call[Len(call)].linked
      /\ call' = << >> => call[Len(call)] = f
  BY <1>32, <1>33
<1>6. /\ StackOf(call) \subseteq targets /\ t \in targets /\ t \in alive /\ t # None
      /\ targets = all \cup StackOf(call)
  BY <1>1, <1>5, LinkingAssumption DEF IInv, Known
<1>7. /\ \A r \in F : /\ r \in Ref /\ r \in ToSet(Refs[t]) /\ r \in RefsOf(targets)
                      /\ link[r] = None /\ value[r] \in targets /\ value[r] # None
      /\ \A r \in ToSet(Refs[t]) : link[r] = None /\ value[r] \in targets => r \in F
  <2>1. \A r \in F : r \in ToSet(Refs[t]) /\ link[r] = None /\ value[r] \in targets
    BY DEF Found
  <2>2. ASSUME NEW r \in F
        PROVE  r \in Ref /\ r \in RefsOf(targets) /\ value[r] # None
    <3>1. r \in Ref
      BY <2>1, RefsParts
    <3>2. r \in RefsOf(targets)
      BY <1>6, <2>1, InRefsOf
    <3>3. value[r] # None
      BY <1>1, <2>1, LinkingAssumption
    <3> QED BY <3>1, <3>2, <3>3
  <2>3. \A r \in ToSet(Refs[t]) : link[r] = None /\ value[r] \in targets => r \in F
    BY DEF Found
  <2> QED BY <2>1, <2>2, <2>3
<1>8. /\ \A r \in Lost(t) : /\ r \in Ref /\ r \in ToSet(Refs[t])
                            /\ link[r] = None /\ value[r] \in Set /\ value[r] \notin targets
      /\ \A r \in ToSet(Refs[t]) : link[r] = None /\ value[r] \in Set /\ r \notin F => r \in Lost(t)
  BY <1>7, RefsParts DEF Lost
<1>9. /\ link' \in [Ref -> Set \cup {None}]
      /\ \A r \in Ref : link[r] # None => link'[r] = link[r]
      /\ \A r \in F : link'[r] = value[r]
      /\ \A r \in Ref : r \notin F => link'[r] = link[r]
  BY <1>1, <1>3, <1>7
<1>10. /\ all \subseteq all' /\ all' \in SUBSET Set /\ t \in all'
       /\ RefsOf(all) \subseteq RefsOf(all')
  BY <1>1, <1>3, RefsOfGrows
<1>11. /\ \A x \in Set : x # t => top'[x] = IF x \in owned THEN 0 ELSE top[x]
       /\ rest # << >> => top'[t] = 0
       /\ rest = << >> /\ t \notin owned => top'[t] = IF f.linked THEN top[t] ELSE top[t] + 1
       /\ top' \in [Set -> Nat]
  BY <1>1, <1>3 DEF Without
<1>12. TypeOK'
  <2>1. unmatched' \subseteq Set \X Ref
    BY <1>1, <1>3, <1>8
  <2> QED BY <1>1, <1>3, <1>5, <1>9, <1>10, <1>11, <2>1 DEF TypeOK
<1>13. Known'
  BY <1>1, <1>3, <1>5, <1>6, <1>10 DEF Known
<1>14. LinkOK'
  <2>1. ASSUME NEW r \in Ref
        PROVE  /\ link'[r] # None =>
                     link'[r] = value[r] /\ link'[r] \in alive /\ r \in RefsOf(alive)
               /\ value[r] # None => value[r] \in Targets[r]
    <3>1. CASE r \in F
      BY <1>1, <1>7, <1>9, <3>1 DEF IInv, LinkOK
    <3>2. CASE r \notin F
      BY <1>9, <3>2 DEF IInv, LinkOK
    <3> QED BY <3>1, <3>2
  <2> QED BY <1>3, <2>1 DEF LinkOK
<1>15. OneOwner'
  BY <1>3 DEF IInv, OneOwner
<1>16. WaitOK'
  <2>1. ASSUME NEW u \in unmatched
        PROVE  /\ value[u[2]] = u[1] /\ u[1] \notin targets /\ link'[u[2]] = None
               /\ u[2] \in RefsOf(all')
    <3>1. value[u[2]] = u[1] /\ u[1] \notin targets /\ link[u[2]] = None /\ u[2] \in RefsOf(all)
      BY DEF IInv, WaitOK
    <3>2. u[2] \notin F /\ u[2] \in Ref
      BY <1>1, <1>7, <3>1
    <3> QED BY <1>9, <1>10, <3>1, <3>2
  <2>2. ASSUME NEW r \in Lost(t)
        PROVE  value[r] \notin targets /\ link'[r] = None /\ r \in RefsOf(all')
    <3>1. r \in RefsOf(all')
      BY <1>8, <1>10, InRefsOf
    <3>2. r \notin F
      BY <1>7, <1>8
    <3> QED BY <1>8, <1>9, <3>1, <3>2
  <2>3. ASSUME NEW u \in unmatched'
        PROVE  /\ value'[u[2]] = u[1] /\ u[1] \notin targets' /\ link'[u[2]] = None
               /\ u[2] \in RefsOf(all')
    <3>1. CASE u \in unmatched
      BY <1>3, <2>1, <3>1
    <3>2. CASE u \notin unmatched
      <4>1. PICK r \in Lost(t) : u = <<value[r], r>>
        BY <1>3, <3>2
      <4>2. u[1] = value[r] /\ u[2] = r
        BY <4>1
      <4> QED BY <1>3, <2>2, <4>2
    <3> QED BY <3>1, <3>2
  <2> QED BY <2>3 DEF WaitOK
<1>17. FramesOK(call', link', all')
  <2>1. \A r \in Strong : link[r] # None => link'[r] = link[r]
    BY <1>1, <1>9
  <2> QED BY <1>5, <1>10, <2>1, FramesKept
<1>18. Settled'
  <2>1. ASSUME NEW x \in all' \ StackOf(call'), NEW r \in ToSet(Refs[x])
        PROVE  value[r] = None \/ link'[r] = value[r] \/ <<value[r], r>> \in unmatched'
    <3>1. r \in Ref
      BY <1>10, <2>1, RefsParts
    <3>2. CASE x = t
      <4>1. CASE link[r] # None
        BY <1>9, <3>1, <4>1 DEF IInv, LinkOK
      <4>2. CASE r \in F
        BY <1>9, <4>2
      <4>3. CASE r \in Lost(t)
        BY <1>3, <4>3
      <4> QED BY <1>1, <1>8, <2>1, <3>1, <3>2, <4>1, <4>2, <4>3
    <3>3. CASE x # t
      <4>1. x \in all \ StackOf(call)
        BY <1>3, <1>5, <2>1, <3>3
      <4>2. value[r] = None \/ link[r] = value[r] \/ <<value[r], r>> \in unmatched
        BY <2>1, <4>1 DEF IInv, Settled
      <4> QED BY <1>3, <1>9, <3>1, <4>2
    <3> QED BY <3>2, <3>3
  <2> QED BY <1>3, <2>1 DEF Settled
<1>19. \A r \in F \cap Strong : value[r] \notin StackOf(call)
  <2>1. ASSUME NEW r \in F \cap Strong, NEW x \in StackOf(call), value[r] = x
        PROVE  FALSE
    <3>1. x \in Targets[r] /\ r \in ToSet(Refs[Head(call).set]) \cap Strong
      BY <1>7, <2>1 DEF IInv, LinkOK
    <3>2. \A q \in Ref : link[q] # None => link[q] \in Targets[q]
      BY DEF IInv, LinkOK
    <3> QED BY <1>1, <1>2, <1>4, <3>1, <3>2, NoWayBack
  <2> QED BY <2>1
<1>20. \A x : Pending(x) /\ x # t /\ x # None => Pending(x)'
  <2>1. ASSUME NEW q \in TodoOf(call), link[q] # t, link[q] # None
        PROVE  q \in TodoOf(call') /\ link'[q] = link[q]
    <3>1. q \in Ref
      BY <1>1 DEF TodoOf
    <3> QED BY <1>5, <1>9, <2>1, <3>1
  <2> QED BY <2>1 DEF Pending
<1>21. \A x : Linked(x) /\ x # None => Linked(x)'
  <2>1. ASSUME NEW r \in RefsOf(targets) \cap Strong, link[r] # None
        PROVE  link'[r] = link[r]
    BY <1>1, <1>9, <2>1
  <2> QED BY <1>3, <2>1 DEF Linked
<1>22. \A x : Linked(x)' => Linked(x) \/ x \in owned
  <2>1. ASSUME NEW r \in RefsOf(targets) \cap Strong
        PROVE  link'[r] = link[r] \/ link'[r] \in owned
    BY <1>1, <1>9
  <2> QED BY <1>3, <2>1 DEF Linked
<1>23. \A x \in owned : Linked(x)'
  BY <1>3, <1>7, <1>9 DEF Linked
<1>24. TopOK'
  <2>1. \A x \in Set : top[x] \in Nat /\ top[x] <= 1 /\ (top[x] = 1 => x \in all)
    BY <1>1 DEF IInv, TopOK
  <2>2. t \notin owned
    BY <1>5, <1>19
  <2>3. rest = << >> => top[t] = 0 /\ (f.linked <=> Linked(t))
    BY <1>2, <1>5 DEF IInv, Bottom, Idle
  <2>4. ASSUME NEW x \in Set
        PROVE  top'[x] <= 1 /\ (top'[x] = 1 => x \in all')
    <3>1. CASE x = t
      BY <1>10, <1>11, <2>2, <2>3, <3>1
    <3>2. CASE x # t
      BY <1>10, <1>11, <2>1, <3>2
    <3> QED BY <3>1, <3>2
  <2>5. ASSUME NEW x \in all' \ StackOf(call'), ~Pending(x)'
        PROVE  top'[x] = 1 <=> ~Linked(x)'
    <3>1. CASE x = t /\ rest # << >>
      <4>1. PICK q \in RefsOf(StackOf(call')) \cap Strong : link[q] = t
        BY <1>5, <3>1
      <4>2. q \in RefsOf(targets)
        BY <1>5, <1>6, <4>1, RefsOfGrows
      <4>3. link'[q] = t
        BY <1>1, <1>6, <1>9, <4>1
      <4>4. Linked(x)'
        BY <1>3, <3>1, <4>1, <4>2, <4>3 DEF Linked
      <4> QED BY <1>11, <3>1, <4>4
    <3>2. CASE x = t /\ rest = << >>
      <4>1. Linked(t)' <=> f.linked
        BY <1>6, <1>21, <1>22, <2>2, <2>3, <3>2
      <4>2. top'[t] = IF f.linked THEN 0 ELSE 1
        BY <1>11, <2>2, <2>3, <3>2
      <4> QED BY <3>2, <4>1, <4>2
    <3>3. CASE x # t /\ x \in owned
      <4>1. x \in Set
        BY <1>10, <2>5
      <4> QED BY <1>11, <1>23, <3>3, <4>1
    <3>4. CASE x # t /\ x \notin owned
      <4>1. x \in all \ StackOf(call) /\ x \in Set
        BY <1>1, <1>3, <1>5, <2>5, <3>4
      <4>2. x # None
        BY <4>1, LinkingAssumption
      <4>3. ~Pending(x)
        BY <1>20, <2>5, <3>4, <4>2
      <4>4. top[x] = 1 <=> ~Linked(x)
        BY <4>1, <4>3 DEF IInv, TopOK
      <4>5. Linked(x)' <=> Linked(x)
        BY <1>21, <1>22, <3>4, <4>2
      <4> QED BY <1>11, <3>4, <4>1, <4>4, <4>5
    <3> QED BY <3>1, <3>2, <3>3, <3>4
  <2> QED BY <2>4, <2>5 DEF TopOK
<1>25. Bottom'
  <2>1. ASSUME call' # << >>
        PROVE  Bottom'
    <3> PICK b \in FrameType : b = call[Len(call)]
      BY <1>1, <1>2, FrameParts
    <3>1. top[b.set] = 0 /\ (b.linked <=> Linked(b.set))
      BY <1>2 DEF IInv, Bottom, Idle
    <3>2. b.set \in StackOf(call) /\ b.set \in Set /\ b.set # None
      BY <1>1, <1>2, FrameParts, LinkingAssumption DEF StackOf
    <3>3. b.set \notin owned
      BY <1>19, <3>2
    <3>4. top'[b.set] = 0
      BY <1>5, <1>11, <2>1, <3>1, <3>2
    <3>5. b.linked <=> Linked(b.set)'
      BY <1>21, <1>22, <3>1, <3>2, <3>3
    <3>6. call'[Len(call')].set = b.set /\ call'[Len(call')].linked = b.linked
      BY <1>5, <2>1
    <3> QED BY <3>4, <3>5, <3>6 DEF Bottom, Linked
  <2> QED BY <2>1 DEF Bottom, Idle
<1>26. Closed'
  <2>1. ASSUME NEW r \in RefsOf(targets) \cap Strong, NEW x, x = link'[r], x # None
        PROVE  x \in targets \/ Pending(x)'
    <3>1. r \in Ref
      BY <1>1
    <3>2. CASE r \in F
      BY <1>7, <1>9, <2>1, <3>2
    <3>3. CASE r \notin F
      <4>1. x = link[r] /\ (x \in targets \/ Pending(x))
        BY <1>9, <2>1, <3>1, <3>3 DEF IInv, Closed
      <4> QED BY <1>6, <1>20, <2>1, <4>1
    <3> QED BY <3>2, <3>3
  <2>2. targets' = targets
    BY <1>3
  <2>3. \A r \in RefsOf(targets') \cap Strong : \A x :
            x = link'[r] /\ x # None => x \in targets' \/ Pending(x)'
    BY <2>1, <2>2
  <2> QED BY <2>3 DEF Closed, Pending
<1> QED BY <1>12, <1>13, <1>14, <1>15, <1>16, <1>17, <1>18, <1>24, <1>25, <1>26 DEF IInv

\* What some sets own exists, and they are among it.
LEMMA OwnedParts ==
    ASSUME IInv, NEW S \in SUBSET alive
    PROVE  Owned(S) \subseteq alive /\ S \subseteq Owned(S)
<1>1. alive \in SUBSET Set /\ \A r \in Strong : r \in Ref
  BY AliveParts
<1>2. \A r \in RefsOf(alive) \cap Strong : link[r] \in alive \cup {None}
  BY <1>1 DEF IInv, LinkOK
<1>3. Owned(S) \subseteq alive
  BY <1>1, <1>2 DEF Owned
<1>4. S \subseteq Owned(S)
  BY <1>1 DEF Owned
<1> QED BY <1>3, <1>4

\* The references of the sets that are left when the partition lets go of its
\* own.
LEMMA ClearedParts ==
    ASSUME IInv, NEW kept \in SUBSET alive, ClearAll(kept),
           link' = [r \in Ref |-> IF r \in RefsOf(alive') /\ link[r] \in alive' THEN link[r] ELSE None]
    PROVE  /\ alive' \subseteq alive /\ kept \subseteq alive'
           /\ value' \in [Ref -> Set \cup {None}] /\ link' \in [Ref -> Set \cup {None}]
           /\ unmatched' = {}
           /\ LinkOK' /\ OneOwner'
           /\ \A r \in Ref : link'[r] # None => link'[r] \in Targets[r]
<1>1. /\ alive \in SUBSET Set /\ value \in [Ref -> Set \cup {None}]
      /\ link \in [Ref -> Set \cup {None}] /\ RefsOf(alive) \subseteq Ref
  BY AliveParts
<1>2. alive' \subseteq alive /\ kept \subseteq alive' /\ unmatched' = {}
  BY OwnedParts DEF ClearAll
<1>3. RefsOf(alive') \subseteq RefsOf(alive)
  BY <1>2, RefsOfGrows
<1>4. /\ value' = [r \in Ref |-> IF r \in RefsOf(alive') THEN value[r] ELSE None]
  BY DEF ClearAll
<1>5. value' \in [Ref -> Set \cup {None}] /\ link' \in [Ref -> Set \cup {None}]
  BY <1>1, <1>4
<1>6. ASSUME NEW r \in Ref, link'[r] # None
      PROVE  /\ link'[r] = value'[r] /\ link'[r] \in alive' /\ r \in RefsOf(alive')
             /\ link'[r] \in Targets[r]
  <2>1. r \in RefsOf(alive') /\ link[r] \in alive' /\ link'[r] = link[r]
    BY <1>6
  <2>2. link[r] = value[r] /\ value[r] \in Targets[r]
    BY <1>6, <2>1 DEF IInv, LinkOK
  <2> QED BY <1>4, <2>1, <2>2
<1>7. ASSUME NEW r \in Ref, value'[r] # None
      PROVE  value'[r] \in Targets[r]
  BY <1>4, <1>7 DEF IInv, LinkOK
<1>8. LinkOK'
  BY <1>6, <1>7 DEF LinkOK
<1>9. OneOwner'
  <2>1. ASSUME NEW q \in RefsOf(alive') \cap Strong, NEW r \in RefsOf(alive') \cap Strong,
               value'[q] = value'[r], value'[q] # None
        PROVE  q = r
    <3>1. value'[q] = value[q] /\ value'[r] = value[r]
      BY <1>1, <1>3, <1>4
    <3> QED BY <1>3, <2>1, <3>1 DEF IInv, OneOwner
  <2> QED BY <2>1 DEF OneOwner
<1> QED BY <1>2, <1>5, <1>6, <1>8, <1>9

\* The empty top level.
LEMMA NoSetsParts == NoSets \in [Set -> Nat] /\ \A s \in Set : NoSets[s] = 0
BY DEF NoSets

\* The partition lets go of its sets.
LEMMA ClearMetadataInv ==
    ASSUME IInv, ClearMetadata
    PROVE  IInv'
<1>1. alive \in SUBSET Set
  BY AliveParts
<1>2. call = << >> /\ StackOf(call) = {} /\ TodoOf(call) = {}
  BY Resting DEF ClearMetadata
<1>3. /\ ClearAll(alive \ all)
      /\ link' = [r \in Ref |-> IF r \in RefsOf(alive') /\ link[r] \in alive' THEN link[r] ELSE None]
      /\ all' = {} /\ top' = NoSets /\ targets' = {} /\ call' = call
  BY DEF ClearMetadata
<1>4. /\ alive' \subseteq alive
      /\ value' \in [Ref -> Set \cup {None}] /\ link' \in [Ref -> Set \cup {None}]
      /\ unmatched' = {} /\ LinkOK' /\ OneOwner'
  BY <1>3, ClearedParts
<1>5. call' \in Seq(FrameType) /\ StackOf(call') = {} /\ FramesOK(call', link', all')
  BY <1>2, <1>3, NoFrames
<1>6. TypeOK'
  BY <1>1, <1>3, <1>4, <1>5, NoSetsParts DEF TypeOK
<1>7. Known' /\ WaitOK' /\ Settled'
  BY <1>3, <1>4, <1>5 DEF Known, WaitOK, Settled
<1>8. TopOK'
  BY <1>3, NoSetsParts DEF TopOK
<1>9. Bottom'
  BY <1>2, <1>3 DEF Bottom, Idle
<1>10. Closed'
  <2>1. RefsOf(targets') = {}
    BY <1>3, InRefsOf
  <2> QED BY <2>1 DEF Closed
<1> QED BY <1>4, <1>5, <1>6, <1>7, <1>8, <1>9, <1>10 DEF IInv

\* The partition takes another set in their place.
LEMMA UpdateMetadataInv ==
    ASSUME IInv, NEW s \in Set, UpdateMetadata(s)
    PROVE  IInv'
<1> DEFINE f == [set |-> s, first |-> FALSE, linked |-> FALSE, todo |-> Refs[s]]
<1>1. alive \in SUBSET Set /\ \A r \in Strong : r \in Ref
  BY AliveParts
<1>2. /\ s \in alive
      /\ ClearAll((alive \ all) \cup {s})
      /\ link' = [r \in Ref |-> IF r \in RefsOf(alive') /\ link[r] \in alive' THEN link[r] ELSE None]
      /\ all' = {s} /\ top' = NoSets /\ targets' = {s} /\ call' = <<f>>
  BY DEF UpdateMetadata
<1>3. /\ alive' \subseteq alive /\ s \in alive'
      /\ value' \in [Ref -> Set \cup {None}] /\ link' \in [Ref -> Set \cup {None}]
      /\ unmatched' = {} /\ LinkOK' /\ OneOwner'
      /\ \A r \in Ref : link'[r] # None => link'[r] \in Targets[r]
  BY <1>2, ClearedParts
<1>4. f \in FrameType /\ f.set = s /\ f.todo = Refs[s] /\ f.linked = FALSE /\ f.first = FALSE
  BY RefsParts DEF FrameType
<1> HIDE DEF f
<1>5. /\ call' \in Seq(FrameType) /\ Len(call') = 1 /\ call'[1] = f /\ DOMAIN call' = {1}
  BY <1>2, <1>4
<1>6. StackOf(call') = {s} /\ TodoOf(call') = ToSet(Refs[s]) \cap Strong
  BY <1>4, <1>5 DEF StackOf, TodoOf
<1>7. FramesOK(call', link', all')
  BY <1>2, <1>4, <1>5 DEF FramesOK
<1>8. TypeOK'
  BY <1>1, <1>2, <1>3, <1>5, NoSetsParts DEF TypeOK
<1>9. Known' /\ WaitOK' /\ Settled'
  BY <1>2, <1>3, <1>6 DEF Known, WaitOK, Settled
<1>10. TopOK'
  <2>1. \A x \in Set : top'[x] = 0
    BY <1>2, NoSetsParts
  <2>2. all' \ StackOf(call') = {}
    BY <1>2, <1>6
  <2> QED BY <2>1, <2>2 DEF TopOK
<1>11. RefsOf(targets') = ToSet(Refs[s])
  <2>1. \A r : r \in RefsOf({s}) <=> r \in ToSet(Refs[s])
    BY InRefsOf
  <2>2. RefsOf({s}) = ToSet(Refs[s])
    BY <2>1
  <2> QED BY <1>2, <2>2
<1>12. Bottom'
  <2>1. ASSUME NEW r \in ToSet(Refs[s]) \cap Strong, link'[r] = s
        PROVE  FALSE
    <3>1. s \in Targets[r]
      BY <1>1, <1>3, <2>1, LinkingAssumption
    <3>2. \A q \in ToSet(Refs[s]) \cap Strong : Targets[q] \cap {s} = {}
      <4>1. {s} \in SUBSET Set /\ {s} # {}
        OBVIOUS
      <4> QED BY <4>1, TreeAssumption
    <3> QED BY <2>1, <3>1, <3>2
  <2>2. ~Linked(s)'
    BY <1>11, <2>1 DEF Linked
  <2>3. top'[s] = 0
    BY <1>2, NoSetsParts
  <2> QED BY <1>4, <1>5, <2>2, <2>3 DEF Bottom, Linked
<1>13. Closed'
  <2>1. \A r \in RefsOf(targets') \cap Strong : \A x : x = link'[r] => Pending(x)'
    BY <1>6, <1>11 DEF Pending
  <2> QED BY <2>1 DEF Closed, Pending
<1> QED BY <1>3, <1>7, <1>8, <1>9, <1>10, <1>12, <1>13 DEF IInv

-----------------------------------------------------------------------------
(***************************************************************************)
(* The theorems.                                                           *)
(***************************************************************************)

\* An empty partition.
LEMMA InitInv == Init => IInv
<1> SUFFICES ASSUME Init
             PROVE  IInv
  OBVIOUS
<1> USE DEF Init
<1>1. call \in Seq(FrameType) /\ StackOf(call) = {} /\ FramesOK(call, link, all)
  BY NoFrames
<1>2. RefsOf({}) = {}
  BY InRefsOf
<1>3. TypeOK
  BY <1>1, NoSetsParts DEF TypeOK
<1>4. Known /\ LinkOK /\ OneOwner /\ WaitOK /\ Settled
  BY <1>1, <1>2 DEF Known, LinkOK, OneOwner, WaitOK, Settled
<1>5. TopOK /\ Bottom /\ Closed
  BY <1>2, NoSetsParts DEF TopOK, Bottom, Closed, Idle
<1> QED BY <1>1, <1>3, <1>4, <1>5 DEF IInv

\* A step that changes nothing.
LEMMA StutterInv ==
    ASSUME IInv, UNCHANGED vars
    PROVE  IInv'
<1>1. /\ alive' = alive /\ value' = value /\ link' = link /\ all' = all /\ top' = top
      /\ targets' = targets /\ unmatched' = unmatched /\ call' = call
  BY DEF vars
<1>2. TypeOK' /\ Known' /\ LinkOK' /\ OneOwner' /\ WaitOK'
  BY <1>1 DEF IInv, TypeOK, Known, LinkOK, OneOwner, WaitOK
<1>3. FramesOK(call', link', all') /\ Settled'
  BY <1>1 DEF IInv, Settled
<1>4. (\A x : Pending(x)' <=> Pending(x)) /\ (\A x : Linked(x)' <=> Linked(x))
  BY <1>1 DEF Pending, Linked
<1>5. TopOK'
  BY <1>1, <1>4 DEF IInv, TopOK
<1>6. Bottom'
  BY <1>1, <1>4 DEF IInv, Bottom, Idle, Linked
<1>7. Closed'
  BY <1>1 DEF IInv, Closed, Pending
<1> QED BY <1>2, <1>3, <1>5, <1>6, <1>7 DEF IInv

\* Every step keeps the invariant.
LEMMA StepInv == IInv /\ [Next]_vars => IInv'
<1> SUFFICES ASSUME IInv, [Next]_vars
             PROVE  IInv'
  OBVIOUS
<1>1. ASSUME NEW s \in Set, NEW values \in [ToSet(Refs[s]) -> Set \cup {None}], NewSet(s, values)
      PROVE  IInv'
  BY <1>1, NewSetInv
<1>2. ASSUME NEW r \in Ref, NEW s \in Set, MakeRef(r, s)
      PROVE  IInv'
  BY <1>2, MakeRefInv
<1>3. ASSUME NEW s \in Set, NEW first \in BOOLEAN, AddMetadata(s, first)
      PROVE  IInv'
  BY <1>3, AddMetadataInv
<1>4. CASE FollowLink
  BY <1>4, FollowLinkInv
<1>5. CASE LeaveSet
  BY <1>5, LeaveSetInv
<1>6. CASE ClearMetadata
  BY <1>6, ClearMetadataInv
<1>7. ASSUME NEW s \in Set, UpdateMetadata(s)
      PROVE  IInv'
  BY <1>7, UpdateMetadataInv
<1>8. CASE UNCHANGED vars
  BY <1>8, StutterInv
<1> QED BY <1>1, <1>2, <1>3, <1>4, <1>5, <1>6, <1>7, <1>8 DEF Next, Step

\* The invariant holds in every state of the partition, while AddMetadata is
\* under way (partition.cpp:38-177) as well as between its calls.
THEOREM Invariant == Spec => []IInv
BY InitInv, StepInv, PTL DEF Spec

\* At rest every reference to a set of the partition is linked to it.
LEMMA InvLinked == IInv => AllLinked
<1> SUFFICES ASSUME IInv, Idle, NEW r \in InPartition, value[r] \in all
             PROVE  link[r] = value[r]
  BY DEF AllLinked
<1>1. targets = all /\ StackOf(call) = {} /\ all \in SUBSET Set
  BY Resting, AliveParts
<1>2. PICK s \in all : r \in ToSet(Refs[s])
  BY InRefsOf DEF InPartition
<1>3. value[r] # None
  BY <1>1, LinkingAssumption
<1>4. <<value[r], r>> \notin unmatched
  BY <1>1 DEF IInv, WaitOK
<1> QED BY <1>1, <1>2, <1>3, <1>4 DEF IInv, Settled

\* References and the sets they name meet in whatever order they arrive, and
\* no reference waits that is linked or whose set has gone (AddMetadata,
\* ProcessChildRefs and ClearMetadata, partition.cpp:38-251).
THEOREM LinksTrueAlways == Spec => []LinksTrue
<1>1. IInv => LinksTrue
  <2> SUFFICES ASSUME IInv
               PROVE  LinksTrue
    OBVIOUS
  <2>1. AllLinked
    BY InvLinked
  <2>2. UnmatchedUnlinked
    BY DEF IInv, WaitOK, UnmatchedUnlinked
  <2>3. WaitersPresent
    <3> SUFFICES ASSUME NEW u \in unmatched
                 PROVE  Owner(u[2]) \in all
      BY DEF WaitersPresent
    <3>1. u[2] \in Ref /\ u[2] \in RefsOf(all) /\ all \in SUBSET Set
      BY AliveParts DEF IInv, WaitOK
    <3> QED BY <3>1, OwnerIn
  <2> QED BY <2>1, <2>2, <2>3 DEF LinksTrue
<1> QED BY <1>1, Invariant, PTL

\* WriteLinkedObjects (mdobject.cpp:2291-2337), from the sets of the top
\* level, writes every set of the partition once.
THEOREM WrittenOnceAlways == Spec => []WrittenOnce
<1>1. IInv => WrittenOnce
  <2> SUFFICES ASSUME IInv, Idle, NEW s \in all
               PROVE  top[s] + Cardinality({r \in InPartition \cap Strong : link[r] = s}) = 1
    BY DEF WrittenOnce
  <2> DEFINE O == {r \in InPartition \cap Strong : link[r] = s}
  <2>1. /\ targets = all /\ StackOf(call) = {} /\ ~Pending(s)
        /\ all \in SUBSET Set /\ top \in [Set -> Nat]
        /\ RefsOf(all) \subseteq RefsOf(alive) /\ RefsOf(alive) \subseteq Ref
    BY Resting, AliveParts
  <2>2. s \in Set /\ s # None
    BY <2>1, LinkingAssumption
  <2>3. top[s] \in Nat /\ top[s] <= 1 /\ (top[s] = 1 <=> ~Linked(s))
    BY <2>1, <2>2 DEF IInv, TopOK
  <2>4. Linked(s) <=> O # {}
    BY <2>1 DEF Linked, InPartition
  <2>5. \A q, r \in O : q = r
    <3>1. ASSUME NEW q \in O, NEW r \in O
          PROVE  q = r
      <4>1. /\ q \in RefsOf(alive) \cap Strong /\ r \in RefsOf(alive) \cap Strong
            /\ q \in Ref /\ r \in Ref /\ link[q] = s /\ link[r] = s
        BY <2>1 DEF InPartition
      <4>2. value[q] = s /\ value[r] = s
        BY <2>2, <4>1 DEF IInv, LinkOK
      <4> QED BY <2>2, <4>1, <4>2 DEF IInv, OneOwner
    <3> QED BY <3>1
  <2> HIDE DEF O
  <2>6. CASE O = {}
    <3>1. Cardinality(O) = 0
      BY <2>6, FS_EmptySet
    <3> QED BY <2>3, <2>4, <2>6, <3>1 DEF O
  <2>7. CASE O # {}
    <3>1. PICK r : O = {r}
      BY <2>5, <2>7
    <3>2. Cardinality(O) = 1
      BY <3>1, FS_Singleton
    <3> QED BY <2>3, <2>4, <2>7, <3>2 DEF O
  <2> QED BY <2>6, <2>7
<1> QED BY <1>1, Invariant, PTL
=============================================================================
