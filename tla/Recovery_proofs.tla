-------------------------- MODULE Recovery_proofs ---------------------------
(***************************************************************************)
(* Proofs about module Recovery: whatever the writer had done, and         *)
(* wherever the file ends but within the first values of a footer pack,    *)
(* the reader finds the partitions that are there, and IsTruncated tells   *)
(* the truth.                                                              *)
(*                                                                         *)
(* The inductive invariant is about what a writer leaves behind (FileOK):  *)
(* the byte counts of a pack are those of the items behind it,             *)
(* PreviousPartition is that of the pack before, and the footer is the     *)
(* last pack and has no essence.  That is what each way of finding the     *)
(* partitions relies on.  ScanBack and Walk are recursive: that they are   *)
(* defined, and what they return, follows because ScanBack only goes to    *)
(* lower positions and Walk only to higher ones, by way of a least         *)
(* counterexample.                                                         *)
(***************************************************************************)
EXTENDS Recovery, SequenceTheorems, WellFoundedInduction, TLAPS

-----------------------------------------------------------------------------
(***************************************************************************)
(* What the writer leaves behind.                                          *)
(*                                                                         *)
(* The items behind the pack at i: a filler, metadata and index, as many   *)
(* as its byte counts say.                                                 *)
(***************************************************************************)
Inner == {"fill", "meta", "index"}

\* See above.
After(f, i) == IF i + 1 \in DOMAIN f /\ f[i + 1].kind = "fill" THEN i + 2 ELSE i + 1

\* See above.
Count(bytes) == IF bytes = 0 THEN 0 ELSE 1

\* See above.
Behind(f, i) == After(f, i) + Count(f[i].hdr) + Count(f[i].idx)

\* They are all there, and no more than that.
Counted(f, i) ==
    /\ f[i].hdr \in {0, U} /\ f[i].idx \in {0, U}
    /\ Behind(f, i) <= Len(f) + 1
    /\ \A k \in i + 1 .. Behind(f, i) - 1 : f[k].kind \in Inner

\* PreviousPartition is that of the pack before.
Linked(f, i) ==
    IF i = 1 THEN f[i].prev = 0
    ELSE \E j \in PackItems(f) : /\ j < i /\ f[i].prev = At(j)
                                /\ \A k \in PackItems(f) : k < i => k <= j

\* What may be behind the footer pack, and whether metadata or index is.
Trailing == {"fill", "meta", "index", "rip"}

\* See above.
Follows(f, i) == f[i].hdr # 0 \/ f[i].idx # 0

\* The footer is the last pack and has no essence; it has a filler if the
\* header has one and there is metadata or index.
Closed(f, i) ==
    f[i].kind = "footer" =>
        /\ f[i].sid = 0
        /\ \A k \in DOMAIN f : k > i => f[k].kind \in Trailing
        /\ After(f, i) = IF Follows(f, i) /\ f[2].kind = "fill" THEN i + 2 ELSE i + 1

\* The file at any time.
FileOK(f) ==
    /\ f \in Seq(Items)
    /\ f # << >> => Len(f) >= 2 /\ f[1].kind = "header"
    /\ f # << >> /\ f[1].foot # 0 =>
          \E i \in DOMAIN f : f[i].kind = "footer" /\ f[1].foot = At(i)
    /\ \A i \in PackItems(f) : Counted(f, i) /\ Linked(f, i) /\ Closed(f, i)
    /\ \A k \in DOMAIN f : f[k].kind = "rip" =>
          k = Len(f) /\ \E i \in DOMAIN f : f[i].kind = "footer"

\* As long as it is written nobody reads it.
Quiet == phase = "writing" => rip = {} /\ known = "unknown" /\ last = [op |-> "none"]

\* The inductive invariant.
IInv ==
    /\ TypeOK /\ FileOK(file) /\ Quiet
    /\ Finished => known # "yes"
    /\ AllFound /\ TruncationTrue

-----------------------------------------------------------------------------
(***************************************************************************)
(* 1. Numbers and recursion.                                               *)
(***************************************************************************)
\* A set of natural numbers has a least one.
LEMMA Least ==
    ASSUME NEW S \in SUBSET Nat, S # {}
    PROVE  \E m \in S : \A k \in S : m <= k
<1> DEFINE R == OpToRel(<, Nat)
<1>1. IsWellFoundedOn(R, Nat)
  BY NatLessThanWellFounded
<1>2. \A x, y \in Nat : <<x, y>> \in R <=> x < y
  BY DEF OpToRel
<1> HIDE DEF R
<1>3. PICK m \in S : \A k \in S : ~(<<k, m>> \in R)
  BY <1>1, WFMin
<1>4. m \in Nat /\ \A k \in S : k \in Nat
  OBVIOUS
<1>5. \A k \in S : ~(k < m)
  BY <1>2, <1>3, <1>4
<1> QED BY <1>4, <1>5

\* A bounded set of them has a greatest one, which Max is.
LEMMA MaxIs ==
    ASSUME NEW n \in Nat, NEW S \in SUBSET (0 .. n), S # {}
    PROVE  Max(S) \in S /\ \A k \in S : k <= Max(S)
<1> DEFINE T == {n - k : k \in S}
<1>1. T \in SUBSET Nat /\ T # {}
  <2>1. \A k \in S : n - k \in Nat
    OBVIOUS
  <2>2. \E k \in S : TRUE
    OBVIOUS
  <2> QED BY <2>1, <2>2
<1>2. PICK t \in T : \A k \in T : t <= k
  BY <1>1, Least
<1>3. PICK m \in S : t = n - m
  BY <1>2
<1>4. \A k \in S : n - k \in T
  OBVIOUS
<1>5. ASSUME NEW k \in S PROVE m >= k
  <2>1. n - m <= n - k
    BY <1>2, <1>3, <1>4
  <2>2. n \in Nat /\ m \in Nat /\ k \in Nat
    OBVIOUS
  <2> HIDE DEF T
  <2> QED BY <2>1, <2>2
<1>6. \E x \in S : \A y \in S : x >= y
  BY <1>5
<1>7. Max(S) \in S /\ \A y \in S : Max(S) >= y
  BY <1>6 DEF Max
<1>8. \A k \in S : k \in Nat
  OBVIOUS
<1> QED BY <1>7, <1>8

(***************************************************************************)
(* A function that is defined by recursion exists if the arguments get     *)
(* lower in rank: there are solutions up to each rank, and they agree.     *)
(***************************************************************************)
Falling(V, stop, base, next, upd, rank) ==
    /\ base \in [Nat -> V] /\ next \in [Nat -> Nat] /\ upd \in [Nat -> [V -> V]]
    /\ rank \in [Nat -> Nat]
    /\ \A p \in Nat : p \notin stop => rank[next[p]] < rank[p]

\* See above.
Solved(f, V, stop, base, next, upd) ==
    /\ f \in [Nat -> V]
    /\ \A p \in Nat : f[p] = IF p \in stop THEN base[p] ELSE upd[p][f[next[p]]]

\* See above.
LEMMA Recursive ==
    ASSUME NEW V, NEW stop, NEW base, NEW next, NEW upd, NEW rank,
           Falling(V, stop, base, next, upd, rank)
    PROVE  \E f : Solved(f, V, stop, base, next, upd)
<1>a. /\ base \in [Nat -> V] /\ next \in [Nat -> Nat] /\ upd \in [Nat -> [V -> V]]
      /\ rank \in [Nat -> Nat]
  BY DEF Falling
<1>b. \A p \in Nat : p \notin stop => rank[next[p]] < rank[p]
  BY DEF Falling
<1> USE <1>a, <1>b
<1> DEFINE D(n) == {p \in Nat : rank[p] <= n}
           Step(g, p) == IF p \in stop THEN base[p] ELSE upd[p][g[next[p]]]
           Sol(n) == {g \in [D(n) -> V] : \A p \in D(n) : g[p] = Step(g, p)}
<1>1. ASSUME NEW n \in Nat, NEW p \in D(n), p \notin stop
      PROVE  next[p] \in Nat /\ rank[next[p]] \in Nat /\ rank[next[p]] < n
  <2>1. p \in Nat /\ rank[p] <= n /\ rank[p] \in Nat
    OBVIOUS
  <2>2. next[p] \in Nat /\ rank[next[p]] \in Nat
    BY <2>1
  <2>3. rank[next[p]] < rank[p]
    BY <1>1, <2>1
  <2> QED BY <2>1, <2>2, <2>3
<1>2. ASSUME NEW n \in Nat
      PROVE  Sol(n) # {}
  <2> DEFINE S == {k \in Nat : Sol(k) = {}}
  <2>1. SUFFICES ASSUME S # {}
                 PROVE  FALSE
    OBVIOUS
  <2>2. PICK m \in S : \A k \in S : m <= k
    <3>1. S \in SUBSET Nat
      OBVIOUS
    <3> HIDE DEF S
    <3> QED BY <2>1, <3>1, Least
  <2>3. m \in Nat /\ Sol(m) = {}
    BY <2>2
  <2>4. CASE m = 0
    <3> DEFINE g == [p \in D(m) |-> base[p]]
    <3>1. \A p \in D(m) : p \in stop /\ p \in Nat
      BY <1>1, <2>3, <2>4
    <3>2. g \in [D(m) -> V]
      BY <3>1
    <3>3. \A p \in D(m) : g[p] = Step(g, p)
      BY <3>1
    <3>4. g \in Sol(m)
      BY <3>2, <3>3
    <3> QED BY <2>3, <3>4
  <2>5. CASE m # 0
    <3>1. m - 1 \in Nat /\ m - 1 \notin S
      <4>1. m - 1 \in Nat /\ ~(m <= m - 1)
        BY <2>3, <2>5
      <4> HIDE DEF S
      <4> QED BY <2>2, <4>1
    <3>2. PICK g \in Sol(m - 1) : TRUE
      BY <3>1
    <3> DEFINE h == [p \in D(m) |-> Step(g, p)]
    <3>3. g \in [D(m - 1) -> V] /\ \A p \in D(m - 1) : g[p] = Step(g, p)
      BY <3>2
    <3>4. \A p \in D(m) : p \notin stop => next[p] \in D(m - 1)
      BY <1>1, <2>3, <3>1
    <3>5. \A p \in D(m - 1) : p \in D(m)
      BY <2>3
    <3>6. ASSUME NEW p \in D(m)
          PROVE  Step(g, p) \in V
      <4>1. CASE p \in stop
        BY <4>1
      <4>2. CASE p \notin stop
        <5>1. g[next[p]] \in V
          BY <3>3, <3>4, <4>2
        <5> QED BY <4>2, <5>1
      <4> QED BY <4>1, <4>2
    <3>7. \A p \in D(m - 1) : h[p] = g[p]
      BY <3>3, <3>5
    <3>8. \A p \in D(m) : Step(h, p) = Step(g, p)
      <4>1. ASSUME NEW p \in D(m), p \notin stop
            PROVE  h[next[p]] = g[next[p]]
        <5> HIDE DEF h, D
        <5> QED BY <3>4, <3>7, <4>1
      <4>2. TAKE p \in D(m)
      <4>3. CASE p \in stop
        BY <4>3
      <4>4. CASE p \notin stop
        <5>1. h[next[p]] = g[next[p]]
          BY <4>1, <4>4
        <5> HIDE DEF h, D
        <5> QED BY <4>4, <5>1
      <4> QED BY <4>3, <4>4
    <3>9. h \in [D(m) -> V] /\ \A p \in D(m) : h[p] = Step(h, p)
      BY <3>6, <3>8
    <3>10. h \in Sol(m)
      BY <3>9
    <3> QED BY <2>3, <3>10
  <2> QED BY <2>4, <2>5
<1>3. ASSUME NEW n \in Nat, NEW g \in Sol(n), NEW m \in Nat, NEW h \in Sol(m)
      PROVE  \A p \in D(n) \cap D(m) : g[p] = h[p]
  <2> DEFINE B == {p \in D(n) \cap D(m) : g[p] # h[p]}
             S == {rank[p] : p \in B}
  <2>1. SUFFICES ASSUME S # {}
                 PROVE  FALSE
    <3>1. ASSUME NEW p \in B PROVE rank[p] \in S
      OBVIOUS
    <3>2. B = {} => \A p \in D(n) \cap D(m) : g[p] = h[p]
      OBVIOUS
    <3> QED BY <3>1, <3>2
  <2>2. PICK r \in S : \A k \in S : r <= k
    <3>1. S \in SUBSET Nat
      OBVIOUS
    <3> HIDE DEF S
    <3> QED BY <2>1, <3>1, Least
  <2>3. PICK p \in B : r = rank[p]
    BY <2>2
  <2>4. /\ p \in D(n) /\ p \in D(m) /\ g[p] # h[p] /\ rank[p] \in Nat
        /\ g[p] = Step(g, p) /\ h[p] = Step(h, p)
    BY <2>3
  <2>5. p \notin stop /\ g[next[p]] # h[next[p]]
    BY <2>4
  <2>6. next[p] \in D(n) /\ next[p] \in D(m)
    <3>1. /\ next[p] \in Nat /\ rank[next[p]] \in Nat
          /\ rank[next[p]] < n /\ rank[next[p]] < m
      BY <1>1, <2>4, <2>5
    <3> QED BY <3>1
  <2>7. rank[next[p]] \in S
    BY <2>5, <2>6
  <2>8. rank[next[p]] < rank[p] /\ rank[next[p]] \in Nat
    BY <2>4, <2>5, <2>6
  <2>9. rank[p] <= rank[next[p]]
    BY <2>2, <2>3, <2>7
  <2> QED BY <2>4, <2>8, <2>9
<1> DEFINE G(p) == CHOOSE g \in Sol(rank[p]) : TRUE
           f == [p \in Nat |-> G(p)[p]]
<1>4. ASSUME NEW p \in Nat
      PROVE  /\ rank[p] \in Nat /\ G(p) \in Sol(rank[p]) /\ p \in D(rank[p])
             /\ G(p)[p] \in V /\ f[p] = G(p)[p] /\ G(p)[p] = Step(G(p), p)
  <2>1. rank[p] \in Nat /\ p \in D(rank[p])
    OBVIOUS
  <2>2. G(p) \in Sol(rank[p])
    BY <1>2, <2>1
  <2> HIDE DEF G
  <2> QED BY <2>1, <2>2
<1> HIDE DEF G
<1>5. f \in [Nat -> V]
  BY <1>4
<1>6. ASSUME NEW p \in Nat
      PROVE  f[p] = Step(f, p)
  <2>1. CASE p \in stop
    BY <1>4, <2>1
  <2>2. CASE p \notin stop
    <3> DEFINE q == next[p]
    <3>1. q \in Nat /\ rank[q] < rank[p] /\ rank[q] \in Nat /\ rank[p] \in Nat
      BY <2>2
    <3>2. q \in D(rank[p]) /\ q \in D(rank[q])
      BY <3>1
    <3>3. G(p)[q] = G(q)[q]
      <4>1. G(p) \in Sol(rank[p]) /\ G(q) \in Sol(rank[q])
        BY <1>4, <3>1
      <4> HIDE DEF Sol, D, f, q
      <4> QED BY <1>3, <3>1, <3>2, <4>1
    <3>4. f[q] = G(p)[q]
      BY <1>4, <3>1, <3>3
    <3> HIDE DEF f
    <3> QED BY <1>4, <2>2, <3>4
  <2> QED BY <2>1, <2>2
<1> HIDE DEF f
<1> QED BY <1>5, <1>6 DEF Solved

-----------------------------------------------------------------------------
(***************************************************************************)
(* 2. The writer keeps FileOK.                                             *)
(***************************************************************************)
\* The members of an item.
LEMMA ItemParts ==
    ASSUME NEW f, FileOK(f), NEW i \in DOMAIN f
    PROVE  /\ f[i] \in Items /\ i \in 1 .. Len(f) /\ i \in Nat /\ Len(f) \in Nat
           /\ f[i].prev \in Nat /\ f[i].foot \in Nat /\ f[i].hdr \in Nat
           /\ f[i].idx \in Nat /\ f[i].sid \in Nat /\ f[i].closed \in BOOLEAN
           /\ f[i].kind \in Packs \cup {"fill", "meta", "index", "essence", "rip"}
<1>1. f \in Seq(Items) /\ i \in 1 .. Len(f) /\ i \in Nat /\ Len(f) \in Nat
  BY DEF FileOK
<1>2. f[i] \in Items
  BY <1>1
<1> QED BY <1>1, <1>2 DEF Items

\* The last pack.
LEMMA LastPackIs ==
    ASSUME NEW f, FileOK(f), f # << >>
    PROVE  LET m == Max(PackItems(f)) IN
           /\ m \in PackItems(f) /\ m \in DOMAIN f
           /\ \A i \in PackItems(f) : i <= m
           /\ 1 \in PackItems(f)
<1>1. f \in Seq(Items) /\ Len(f) \in Nat /\ Len(f) >= 2 /\ f[1].kind = "header"
  BY DEF FileOK
<1>2. 1 \in PackItems(f)
  BY <1>1 DEF PackItems, Packs
<1>3. PackItems(f) \in SUBSET (0 .. Len(f))
  BY <1>1 DEF PackItems
<1>4. Max(PackItems(f)) \in PackItems(f) /\ \A i \in PackItems(f) : i <= Max(PackItems(f))
  BY <1>1, <1>2, <1>3, MaxIs
<1> QED BY <1>2, <1>4 DEF PackItems

\* The footer, if there is one, is the last pack.
LEMMA FooterIsLast ==
    ASSUME NEW f, FileOK(f), NEW i \in DOMAIN f, f[i].kind = "footer"
    PROVE  i = Max(PackItems(f)) /\ i \in PackItems(f) /\ f # << >>
<1>1. i \in PackItems(f)
  BY DEF PackItems, Packs
<1>2. f # << >> /\ i \in Nat
  BY ItemParts
<1> DEFINE m == Max(PackItems(f))
<1>3. m \in PackItems(f) /\ m \in DOMAIN f /\ i <= m
  BY <1>1, <1>2, LastPackIs
<1> HIDE DEF m
<1>4. m \in Nat
  BY <1>3, ItemParts
<1>5. f[m].kind \in Packs
  BY <1>3 DEF PackItems
<1>6. ~(m > i)
  BY <1>1, <1>3, <1>5 DEF FileOK, Closed, Packs, Trailing
<1> QED BY <1>1, <1>2, <1>3, <1>4, <1>6 DEF m

(***************************************************************************)
(* Something is added: an item, and what belongs to it.                    *)
(***************************************************************************)
Extends(e, f) ==
    /\ e \in Seq(Items) /\ Len(e) > Len(f)
    /\ \A i \in 1 .. Len(f) : e[i] = f[i]
    /\ e[Len(f) + 1].kind \notin Inner
    /\ \A k \in Len(f) + 2 .. Len(e) : e[k].kind \in Inner

\* The packs of before are as they were.
LEMMA PacksKept ==
    ASSUME NEW f, FileOK(f), NEW e, Extends(e, f), NEW i \in PackItems(f)
    PROVE  /\ i \in PackItems(e) /\ e[i] = f[i] /\ i \in 1 .. Len(f)
           /\ After(e, i) = After(f, i) /\ Counted(e, i) /\ Linked(e, i)
<1>1. /\ f \in Seq(Items) /\ e \in Seq(Items) /\ i \in 1 .. Len(f)
      /\ Len(f) \in Nat /\ Len(e) \in Nat /\ Len(e) > Len(f)
      /\ DOMAIN f = 1 .. Len(f) /\ DOMAIN e = 1 .. Len(e)
      /\ e[i] = f[i] /\ f[i].kind \in Packs
  BY DEF FileOK, Extends, PackItems
<1>2. i \in PackItems(e)
  BY <1>1 DEF PackItems
<1>3. After(e, i) = After(f, i)
  <2>1. CASE i < Len(f)
    <3>1. i + 1 \in 1 .. Len(f) /\ i + 1 \in 1 .. Len(e)
      BY <1>1, <2>1
    <3>2. e[i + 1] = f[i + 1]
      BY <3>1 DEF Extends
    <3> QED BY <1>1, <3>1, <3>2 DEF After
  <2>2. CASE i = Len(f)
    <3>1. i + 1 \notin DOMAIN f
      BY <1>1, <2>2
    <3>2. e[i + 1].kind # "fill"
      BY <2>2 DEF Extends, Inner
    <3> QED BY <3>1, <3>2 DEF After
  <2>3. i \in 1 .. Len(f) /\ Len(f) \in Nat
    BY <1>1
  <2>4. i < Len(f) \/ i = Len(f)
    BY <2>3
  <2> QED BY <2>1, <2>2, <2>4
<1>4. Counted(f, i) /\ Linked(f, i)
  BY DEF FileOK
<1>5. Behind(e, i) = Behind(f, i)
  BY <1>1, <1>3 DEF Behind
<1>6. After(f, i) \in Nat /\ Behind(f, i) \in Nat
  BY <1>1 DEF After, Behind, Count
<1>7. Counted(e, i)
  <2>1. Behind(f, i) <= Len(f) + 1
    BY <1>4 DEF Counted
  <2>2. ASSUME NEW k \in i + 1 .. Behind(f, i) - 1
        PROVE  e[k].kind \in Inner
    <3>1. k \in 1 .. Len(f)
      BY <1>1, <1>6, <2>1
    <3>2. e[k] = f[k]
      BY <3>1 DEF Extends
    <3> QED BY <1>4, <3>2 DEF Counted
  <2> HIDE DEF Behind
  <2>3. Behind(e, i) <= Len(e) + 1
    BY <1>1, <1>5, <1>6, <2>1
  <2> QED BY <1>1, <1>4, <1>5, <2>2, <2>3 DEF Counted
<1>8. Linked(e, i)
  <2>1. CASE i = 1
    BY <1>1, <1>4, <2>1 DEF Linked
  <2>2. CASE i # 1
    <3>1. PICK j \in PackItems(f) : /\ j < i /\ f[i].prev = At(j)
                                    /\ \A k \in PackItems(f) : k < i => k <= j
      BY <1>4, <2>2 DEF Linked
    <3>2. j \in PackItems(e)
      BY <1>1, <3>1 DEF PackItems, Extends
    <3>3. ASSUME NEW k \in PackItems(e), k < i
          PROVE  k <= j
      <4>1. k \in 1 .. Len(f)
        BY <1>1, <3>3 DEF PackItems
      <4>2. k \in PackItems(f)
        BY <1>1, <4>1 DEF PackItems, Extends
      <4> QED BY <3>1, <3>3, <4>2
    <3> QED BY <1>1, <2>2, <3>1, <3>2, <3>3 DEF Linked
  <2> QED BY <2>1, <2>2
<1> QED BY <1>1, <1>2, <1>3, <1>7, <1>8

\* And there is at most one more.
LEMMA PacksMore ==
    ASSUME NEW f, FileOK(f), NEW e, Extends(e, f), NEW i \in PackItems(e)
    PROVE  i \in PackItems(f) \/ (i = Len(f) + 1 /\ e[Len(f) + 1].kind \in Packs)
<1>1. /\ f \in Seq(Items) /\ e \in Seq(Items) /\ i \in 1 .. Len(e)
      /\ Len(f) \in Nat /\ Len(e) \in Nat /\ Len(e) > Len(f)
      /\ DOMAIN f = 1 .. Len(f) /\ DOMAIN e = 1 .. Len(e) /\ e[i].kind \in Packs
  BY DEF FileOK, Extends, PackItems
<1>2. CASE i <= Len(f)
  BY <1>1, <1>2 DEF PackItems, Extends
<1>3. CASE i = Len(f) + 1
  BY <1>1, <1>3
<1>4. CASE i >= Len(f) + 2
  <2>1. e[i].kind \in Inner
    BY <1>1, <1>4 DEF Extends
  <2> QED BY <1>1, <2>1 DEF Inner, Packs
<1> QED BY <1>1, <1>2, <1>3, <1>4

(***************************************************************************)
(* When the parts that are about the new item hold, FileOK does.           *)
(***************************************************************************)
LEMMA ExtendedOK ==
    ASSUME NEW f, FileOK(f), NEW e, Extends(e, f),
           f = << >> => Len(e) >= 2 /\ e[1].kind = "header" /\ e[1].foot = 0,
           e[Len(f) + 1].kind \in Packs =>
              Counted(e, Len(f) + 1) /\ Linked(e, Len(f) + 1) /\ Closed(e, Len(f) + 1),
           (\E i \in DOMAIN f : f[i].kind = "footer") =>
              Len(e) = Len(f) + 1 /\ e[Len(f) + 1].kind = "rip",
           \A i \in DOMAIN f : f[i].kind # "rip",
           e[Len(f) + 1].kind = "rip" =>
              Len(e) = Len(f) + 1 /\ \E i \in DOMAIN f : f[i].kind = "footer"
    PROVE  FileOK(e)
<1>1. /\ f \in Seq(Items) /\ e \in Seq(Items)
      /\ Len(f) \in Nat /\ Len(e) \in Nat /\ Len(e) > Len(f)
      /\ DOMAIN f = 1 .. Len(f) /\ DOMAIN e = 1 .. Len(e)
      /\ \A i \in 1 .. Len(f) : e[i] = f[i]
  BY DEF FileOK, Extends
<1>a. Len(f) \in Nat /\ Len(e) \in Nat /\ Len(e) > Len(f)
  BY <1>1
<1>b. DOMAIN f = 1 .. Len(f) /\ DOMAIN e = 1 .. Len(e)
  BY <1>1
<1>c. \A i \in 1 .. Len(f) : e[i] = f[i] /\ i \in DOMAIN f /\ i \in DOMAIN e
  <2>1. TAKE i \in 1 .. Len(f)
  <2>2. i \in 1 .. Len(e)
    BY <1>a
  <2> QED BY <1>1, <2>2
<1> DEFINE new == Len(f) + 1
<1>2. CASE f = << >>
  <2>1. Len(f) = 0 /\ new = 1 /\ \A i \in DOMAIN f : FALSE
    BY <1>1, <1>2
  <2>2. Len(e) >= 2 /\ e[1].kind = "header" /\ e[1].foot = 0 /\ e # << >>
    BY <1>2
  <2>3. PackItems(f) = {}
    BY <2>1 DEF PackItems
  <2>4. ASSUME NEW i \in PackItems(e)
        PROVE  Counted(e, i) /\ Linked(e, i) /\ Closed(e, i)
    <3>1. i = Len(f) + 1 /\ e[Len(f) + 1].kind \in Packs
      BY <2>3, PacksMore
    <3> QED BY <3>1
  <2>5. ASSUME NEW k \in DOMAIN e PROVE e[k].kind # "rip"
    <3>1. k \in 1 .. Len(e)
      BY <1>1
    <3>2. CASE k = 1
      BY <2>2, <3>2
    <3>3. CASE k # 1
      <4>1. k \in Len(f) + 2 .. Len(e)
        BY <2>1, <3>1, <3>3
      <4> QED BY <4>1 DEF Extends, Inner
    <3> QED BY <3>2, <3>3
  <2> QED BY <1>1, <2>2, <2>4, <2>5 DEF FileOK
<1>3. CASE f # << >>
  <2>1. Len(f) >= 2 /\ f[1].kind = "header" /\ 1 \in 1 .. Len(f) /\ 2 \in 1 .. Len(f)
    <3>1. Len(f) >= 2 /\ f[1].kind = "header"
      BY <1>3 DEF FileOK
    <3>2. 1 \in 1 .. Len(f) /\ 2 \in 1 .. Len(f)
      BY <1>a, <3>1
    <3> QED BY <3>1, <3>2
  <2>2. e[1] = f[1] /\ e[2] = f[2] /\ e # << >> /\ Len(e) >= 2
    <3>1. e[1] = f[1] /\ e[2] = f[2] /\ 1 \in DOMAIN e
      BY <1>c, <2>1
    <3>2. Len(e) >= 2
      BY <1>a, <2>1
    <3> QED BY <3>1, <3>2
  <2>3. ASSUME e[1].foot # 0
        PROVE  \E i \in DOMAIN e : e[i].kind = "footer" /\ e[1].foot = At(i)
    <3>1. PICK i \in DOMAIN f : f[i].kind = "footer" /\ f[1].foot = At(i)
      BY <1>3, <2>2, <2>3 DEF FileOK
    <3>2. i \in DOMAIN e /\ e[i] = f[i]
      BY <1>b, <1>c, <3>1
    <3> QED BY <2>2, <3>1, <3>2
  <2>4. ASSUME NEW i \in PackItems(e)
        PROVE  Counted(e, i) /\ Linked(e, i) /\ Closed(e, i)
    <3>1. CASE i \in PackItems(f)
      <4>1. /\ e[i] = f[i] /\ i \in 1 .. Len(f) /\ After(e, i) = After(f, i)
            /\ Counted(e, i) /\ Linked(e, i)
        BY <3>1, PacksKept
      <4>2. Closed(f, i)
        BY <3>1 DEF FileOK
      <4>3. ASSUME e[i].kind = "footer"
            PROVE  /\ e[i].sid = 0
                   /\ \A k \in DOMAIN e : k > i => e[k].kind \in Trailing
                   /\ After(e, i) = IF Follows(e, i) /\ e[2].kind = "fill"
                                      THEN i + 2 ELSE i + 1
        <5>1. f[i].kind = "footer" /\ i \in DOMAIN f
          BY <1>1, <4>1, <4>3
        <5>2. Len(e) = new /\ e[new].kind = "rip"
          BY <5>1
        <5>3. /\ f[i].sid = 0
              /\ \A k \in DOMAIN f : k > i => f[k].kind \in Trailing
              /\ After(f, i) = IF Follows(f, i) /\ f[2].kind = "fill"
                                 THEN i + 2 ELSE i + 1
          BY <4>2, <5>1 DEF Closed
        <5>4. ASSUME NEW k \in DOMAIN e, k > i
              PROVE  e[k].kind \in Trailing
          <6>1. k \in 1 .. new
            BY <1>1, <5>2
          <6>2. CASE k = new
            BY <5>2, <6>2 DEF Trailing
          <6>3. CASE k # new
            <7>1. k \in 1 .. Len(f)
              BY <1>a, <6>1, <6>3
            <7>2. e[k] = f[k] /\ k \in DOMAIN f
              BY <1>c, <7>1
            <7> QED BY <5>3, <5>4, <7>2
          <6> QED BY <6>2, <6>3
        <5> QED BY <2>2, <4>1, <5>3, <5>4 DEF Follows
      <4> QED BY <4>1, <4>3 DEF Closed
    <3>2. CASE i = new /\ e[new].kind \in Packs
      BY <3>2
    <3> QED BY <3>1, <3>2, PacksMore
  <2>5. ASSUME NEW k \in DOMAIN e, e[k].kind = "rip"
        PROVE  k = Len(e) /\ \E i \in DOMAIN e : e[i].kind = "footer"
    <3>1. k \in 1 .. Len(e)
      BY <1>1
    <3>2. ~(k <= Len(f))
      <4>1. ASSUME k <= Len(f) PROVE FALSE
        <5>1. k \in 1 .. Len(f)
          BY <1>a, <3>1, <4>1
        <5> QED BY <1>1, <2>5, <5>1
      <4> QED BY <4>1
    <3>3. ~(k >= Len(f) + 2)
      <4>1. ASSUME k >= Len(f) + 2 PROVE FALSE
        <5>1. k \in Len(f) + 2 .. Len(e)
          BY <1>a, <3>1, <4>1
        <5> QED BY <2>5, <5>1 DEF Extends, Inner
      <4> QED BY <4>1
    <3>4. k = new
      BY <1>a, <3>1, <3>2, <3>3
    <3>5. Len(e) = new /\ \E i \in DOMAIN f : f[i].kind = "footer"
      BY <2>5, <3>4
    <3>6. PICK i \in DOMAIN f : f[i].kind = "footer"
      BY <3>5
    <3>7. i \in DOMAIN e /\ e[i] = f[i]
      BY <1>b, <1>c, <3>6
    <3> QED BY <3>4, <3>5, <3>6, <3>7
  <2> QED BY <1>1, <2>1, <2>2, <2>3, <2>4, <2>5 DEF FileOK
<1> QED BY <1>2, <1>3

(***************************************************************************)
(* An item that is there or not, and what WritePartition writes behind the *)
(* pack.                                                                   *)
(***************************************************************************)
Opt(kind, there) == IF there THEN <<Item(kind)>> ELSE << >>

\* See above.
Rest(fill, meta, index) == Opt("fill", fill) \o Opt("meta", meta) \o Opt("index", index)

\* One item or none.
LEMMA OptIs ==
    ASSUME NEW kind \in Inner, NEW there \in BOOLEAN
    PROVE  /\ Opt(kind, there) \in Seq(Items)
           /\ Len(Opt(kind, there)) = IF there THEN 1 ELSE 0
           /\ \A k \in 1 .. Len(Opt(kind, there)) : Opt(kind, there)[k] = Item(kind)
<1>1. Item(kind) \in Items /\ Item(kind).kind = kind
  BY DEF Item, Items, Inner
<1>2. CASE there
  <2> DEFINE x == Item(kind)
  <2>1. Opt(kind, there) = <<x>>
    BY <1>2 DEF Opt
  <2>2. x \in Items
    BY <1>1
  <2> HIDE DEF x
  <2>3. <<x>> \in Seq(Items) /\ Len(<<x>>) = 1 /\ \A k \in 1 .. 1 : <<x>>[k] = x
    BY <2>2
  <2> QED BY <1>2, <2>1, <2>3 DEF x
<1>3. CASE ~there
  <2>1. Opt(kind, there) = << >>
    BY <1>3 DEF Opt
  <2> QED BY <1>3, <2>1
<1> QED BY <1>2, <1>3

\* They are told apart by where they are.
LEMMA RestIs ==
    ASSUME NEW fill \in BOOLEAN, NEW meta \in BOOLEAN, NEW index \in BOOLEAN
    PROVE  LET r == Rest(fill, meta, index) IN
           /\ r \in Seq(Items)
           /\ Len(r) = (IF fill THEN 1 ELSE 0) + (IF meta THEN 1 ELSE 0)
                         + (IF index THEN 1 ELSE 0)
           /\ \A k \in 1 .. Len(r) : /\ r[k].kind \in Inner
                                     /\ r[k].kind = "fill" <=> (fill /\ k = 1)
                                     /\ r[k].kind = "index" => index
<1> DEFINE a == Opt("fill", fill)
           b == Opt("meta", meta)
           c == Opt("index", index)
           r == (a \o b) \o c
<1>1. /\ a \in Seq(Items) /\ Len(a) = (IF fill THEN 1 ELSE 0)
      /\ \A k \in 1 .. Len(a) : a[k] = Item("fill")
  BY OptIs DEF Inner
<1>2. /\ b \in Seq(Items) /\ Len(b) = (IF meta THEN 1 ELSE 0)
      /\ \A k \in 1 .. Len(b) : b[k] = Item("meta")
  BY OptIs DEF Inner
<1>3. /\ c \in Seq(Items) /\ Len(c) = (IF index THEN 1 ELSE 0)
      /\ \A k \in 1 .. Len(c) : c[k] = Item("index")
  BY OptIs DEF Inner
<1>4. Rest(fill, meta, index) = r
  BY DEF Rest
<1> HIDE DEF a, b, c
<1>5. /\ a \o b \in Seq(Items) /\ Len(a \o b) = Len(a) + Len(b)
      /\ \A k \in 1 .. Len(a) + Len(b) :
            (a \o b)[k] = IF k <= Len(a) THEN a[k] ELSE b[k - Len(a)]
  BY <1>1, <1>2, ConcatProperties
<1>6. /\ r \in Seq(Items) /\ Len(r) = Len(a \o b) + Len(c)
      /\ \A k \in 1 .. Len(a \o b) + Len(c) :
            r[k] = IF k <= Len(a \o b) THEN (a \o b)[k] ELSE c[k - Len(a \o b)]
  BY <1>3, <1>5, ConcatProperties
<1>7. Len(a) \in Nat /\ Len(b) \in Nat /\ Len(c) \in Nat
  BY <1>1, <1>2, <1>3
<1>8. /\ Item("fill").kind = "fill" /\ Item("meta").kind = "meta"
      /\ Item("index").kind = "index"
  BY DEF Item
<1> DEFINE ab == a \o b
<1>9. ASSUME NEW k \in 1 .. Len(r)
      PROVE  /\ r[k].kind \in Inner
             /\ r[k].kind = "fill" <=> (fill /\ k = 1)
             /\ r[k].kind = "index" => index
  <2>1. k \in Nat /\ k >= 1 /\ k <= Len(a) + Len(b) + Len(c)
    BY <1>5, <1>6, <1>7
  <2>2. CASE k <= Len(a)
    <3>1. k \in 1 .. Len(a) /\ k \in 1 .. Len(a) + Len(b) /\ k <= Len(ab)
          /\ k \in 1 .. Len(ab) + Len(c)
      BY <1>5, <1>7, <2>1, <2>2
    <3>2. r[k] = Item("fill")
      BY <1>1, <1>5, <1>6, <3>1
    <3>3. fill /\ k = 1
      BY <1>1, <2>1, <2>2
    <3> QED BY <1>8, <3>2, <3>3 DEF Inner
  <2>3. CASE k > Len(a) /\ k <= Len(a) + Len(b)
    <3>1. /\ ~(k <= Len(a)) /\ k \in 1 .. Len(a) + Len(b) /\ k <= Len(ab)
          /\ k \in 1 .. Len(ab) + Len(c) /\ k - Len(a) \in 1 .. Len(b)
      BY <1>5, <1>7, <2>1, <2>3
    <3>2. r[k] = Item("meta")
      BY <1>2, <1>5, <1>6, <3>1
    <3>3. ~(fill /\ k = 1)
      BY <1>1, <2>1, <2>3
    <3> QED BY <1>8, <3>2, <3>3 DEF Inner
  <2>4. CASE k > Len(a) + Len(b)
    <3>1. /\ ~(k <= Len(ab))
          /\ k \in 1 .. Len(ab) + Len(c) /\ k - Len(ab) \in 1 .. Len(c)
      BY <1>5, <1>7, <2>1, <2>4
    <3>2. r[k] = Item("index")
      BY <1>3, <1>6, <3>1
    <3>3. ~(fill /\ k = 1) /\ index
      BY <1>1, <1>2, <1>3, <2>1, <2>4
    <3> QED BY <1>8, <3>2, <3>3 DEF Inner
  <2> QED BY <1>7, <2>1, <2>2, <2>3, <2>4
<1>10. Len(r) = (IF fill THEN 1 ELSE 0) + (IF meta THEN 1 ELSE 0)
                         + (IF index THEN 1 ELSE 0)
  BY <1>1, <1>2, <1>3, <1>5, <1>6
<1> QED BY <1>4, <1>6, <1>9, <1>10

(***************************************************************************)
(* A partition behind f.                                                   *)
(***************************************************************************)
LEMMA PartitionAdded ==
    ASSUME NEW f \in Seq(Items), NEW pack \in Items, pack.kind \in Packs,
           NEW fill \in BOOLEAN, NEW meta \in BOOLEAN, NEW index \in BOOLEAN,
           pack.hdr = (IF meta THEN U ELSE 0), pack.idx = (IF index THEN U ELSE 0)
    PROVE  LET n == Len(f) + 1
               e == Append(f, pack) \o Rest(fill, meta, index) IN
           /\ Extends(e, f) /\ e[n] = pack /\ Counted(e, n) /\ e # << >>
           /\ After(e, n) = (IF fill THEN n + 2 ELSE n + 1)
           /\ (fill \/ meta \/ index => Len(e) >= n + 1)
           /\ (fill => e[n + 1].kind = "fill")
           /\ (~fill /\ Len(e) > n => e[n + 1].kind # "fill")
           /\ (\A k \in 1 .. Len(e) : k > n => e[k].kind \in Inner)
<1> DEFINE n == Len(f) + 1
           g == Append(f, pack)
           r == Rest(fill, meta, index)
           e == g \o r
           c == (IF fill THEN 1 ELSE 0) + (IF meta THEN 1 ELSE 0) + (IF index THEN 1 ELSE 0)
<1>1. /\ g \in Seq(Items) /\ Len(g) = n /\ n \in Nat /\ n >= 1 /\ Len(f) \in Nat
      /\ g[n] = pack /\ \A i \in 1 .. Len(f) : g[i] = f[i]
  BY AppendProperties
<1>2. /\ r \in Seq(Items) /\ Len(r) = c
      /\ \A k \in 1 .. Len(r) : /\ r[k].kind \in Inner
                                /\ r[k].kind = "fill" <=> (fill /\ k = 1)
                                /\ r[k].kind = "index" => index
  BY RestIs
<1>3. c \in Nat
  OBVIOUS
<1> HIDE DEF g, r, c
<1>4. /\ e \in Seq(Items) /\ Len(e) = n + c
      /\ \A k \in 1 .. Len(g) + Len(r) :
            e[k] = IF k <= Len(g) THEN g[k] ELSE r[k - Len(g)]
  BY <1>1, <1>2, ConcatProperties
<1>5. ASSUME NEW i \in 1 .. Len(f) PROVE e[i] = f[i]
  <2>1. i \in 1 .. n + c /\ i <= n
    BY <1>1, <1>3
  <2> QED BY <1>1, <1>2, <1>4, <2>1
<1>6. e[n] = pack
  <2>1. n \in 1 .. n + c
    BY <1>1, <1>3
  <2> QED BY <1>1, <1>2, <1>4, <2>1
<1>7. ASSUME NEW k \in 1 .. n + c, k > n
      PROVE  e[k] = r[k - n] /\ k - n \in 1 .. Len(r)
  <2>1. ~(k <= n) /\ k - n \in 1 .. c
    BY <1>1, <1>3, <1>7
  <2> QED BY <1>1, <1>2, <1>4, <2>1
<1> HIDE DEF e
<1>8. ASSUME NEW k \in 1 .. n + c, k > n
      PROVE  /\ e[k].kind \in Inner
             /\ e[k].kind = "fill" <=> (fill /\ k = n + 1)
             /\ e[k].kind = "index" => index
  <2>1. k - n = 1 <=> k = n + 1
    BY <1>1, <1>8
  <2> QED BY <1>2, <1>7, <1>8, <2>1
<1>9. Len(e) \in Nat /\ DOMAIN e = 1 .. n + c
  BY <1>1, <1>3, <1>4
<1>10. Extends(e, f)
  <2>1. Len(e) > Len(f)
    BY <1>1, <1>3, <1>4
  <2>2. e[Len(f) + 1].kind \notin Inner
    BY <1>6 DEF Packs, Inner
  <2>3. ASSUME NEW k \in Len(f) + 2 .. Len(e) PROVE e[k].kind \in Inner
    <3>1. k \in 1 .. n + c /\ k > n
      BY <1>1, <1>3, <1>4
    <3> QED BY <1>8, <3>1
  <2> QED BY <1>4, <1>5, <2>1, <2>2, <2>3 DEF Extends
<1>11. n + 1 \in 1 .. n + c <=> c > 0
  BY <1>1, <1>3
<1>12. n + 1 > n
  BY <1>1
<1>13. fill \/ meta \/ index <=> c > 0
  BY DEF c
<1>14. After(e, n) = IF fill THEN n + 2 ELSE n + 1
  <2>1. CASE fill
    <3>1. n + 1 \in 1 .. n + c
      BY <1>11, <1>13, <2>1
    <3>2. e[n + 1].kind = "fill"
      BY <1>8, <1>12, <2>1, <3>1
    <3> QED BY <1>9, <2>1, <3>1, <3>2 DEF After
  <2>2. CASE ~fill
    <3>1. ~(n + 1 \in DOMAIN e /\ e[n + 1].kind = "fill")
      BY <1>8, <1>9, <1>12, <2>2
    <3> QED BY <2>2, <3>1 DEF After
  <2> QED BY <2>1, <2>2
<1>15. Behind(e, n) = n + c + 1
  <2>1. pack.hdr = (IF meta THEN 4 ELSE 0) /\ pack.idx = (IF index THEN 4 ELSE 0)
    BY DEF U
  <2> QED BY <1>1, <1>6, <1>14, <2>1 DEF Behind, Count, c
<1>16. Counted(e, n)
  <2>1. e[n].hdr \in {0, U} /\ e[n].idx \in {0, U}
    BY <1>6
  <2>2. Behind(e, n) <= Len(e) + 1
    BY <1>1, <1>3, <1>4, <1>15
  <2>3. ASSUME NEW k \in n + 1 .. Behind(e, n) - 1 PROVE e[k].kind \in Inner
    <3>1. k \in 1 .. n + c /\ k > n
      BY <1>1, <1>3, <1>15
    <3> QED BY <1>8, <3>1
  <2> QED BY <2>1, <2>2, <2>3 DEF Counted
<1>17. fill \/ meta \/ index => Len(e) >= n + 1
  BY <1>1, <1>3, <1>4, <1>13
<1>18. fill => e[n + 1].kind = "fill"
  BY <1>8, <1>11, <1>12, <1>13
<1>19. ~fill /\ Len(e) > n => e[n + 1].kind # "fill"
  <2>1. Len(e) > n => n + 1 \in 1 .. n + c
    BY <1>1, <1>3, <1>4
  <2> QED BY <1>8, <1>12, <2>1
<1>20. \A k \in 1 .. Len(e) : k > n => e[k].kind \in Inner
  <2>1. ASSUME NEW k \in 1 .. Len(e), k > n PROVE e[k].kind \in Inner
    <3>1. k \in 1 .. n + c
      BY <1>4
    <3> QED BY <1>8, <2>1, <3>1
  <2> QED BY <2>1
<1>21. e # << >>
  BY <1>1, <1>3, <1>4
<1> QED BY <1>6, <1>10, <1>14, <1>16, <1>17, <1>18, <1>19, <1>20, <1>21 DEF e, g, r

\* The new pack is linked to the last one.
LEMMA LinkedNew ==
    ASSUME NEW f, FileOK(f), NEW e, Extends(e, f), e[Len(f) + 1].kind \in Packs,
           e[Len(f) + 1].prev = IF PackItems(f) = {} THEN 0 ELSE At(Max(PackItems(f)))
    PROVE  Linked(e, Len(f) + 1)
<1> DEFINE n == Len(f) + 1
           m == Max(PackItems(f))
<1>1. Len(f) \in Nat /\ f \in Seq(Items)
  BY DEF FileOK
<1>2. CASE f = << >>
  <2>1. PackItems(f) = {} /\ n = 1
    BY <1>2 DEF PackItems
  <2> QED BY <2>1 DEF Linked
<1>3. CASE f # << >>
  <2>1. m \in PackItems(f) /\ \A i \in PackItems(f) : i <= m
    BY <1>3, LastPackIs
  <2>2. e[n].prev = At(m)
    BY <2>1
  <2> HIDE DEF m
  <2>3. m \in PackItems(e) /\ m \in 1 .. Len(f)
    BY <2>1, PacksKept
  <2>4. m < n /\ n # 1
    BY <1>1, <2>3
  <2>5. ASSUME NEW k \in PackItems(e), k < n PROVE k <= m
    <3>1. k \in PackItems(f)
      BY <1>1, <2>5, PacksMore
    <3> QED BY <2>1, <3>1
  <2> QED BY <2>2, <2>3, <2>4, <2>5 DEF Linked
<1> QED BY <1>2, <1>3

\* As long as the last pack is none, there is no footer, and no RIP.
LEMMA NoFooter ==
    ASSUME NEW f, FileOK(f), f # << >> => f[Max(PackItems(f))].kind # "footer"
    PROVE  \A i \in DOMAIN f : f[i].kind # "footer" /\ f[i].kind # "rip"
<1>1. ASSUME NEW i \in DOMAIN f PROVE f[i].kind # "footer"
  BY <1>1, FooterIsLast
<1>2. ASSUME NEW i \in DOMAIN f PROVE f[i].kind # "rip"
  BY <1>1, <1>2 DEF FileOK
<1> QED BY <1>1, <1>2

\* WritePartition as Rest has it.
LEMMA PartitionIs ==
    ASSUME NEW kind \in Packs, NEW sid \in Nat, NEW fill \in BOOLEAN,
           NEW meta \in BOOLEAN, NEW index \in BOOLEAN,
           FileOK(file), WritePartition(kind, sid, fill, meta, index)
    PROVE  \E pack \in Items :
              /\ pack.kind = kind /\ pack.sid = sid
              /\ pack.prev = PreviousPartition
              /\ pack.foot = (IF kind = "footer" THEN U * Len(file) ELSE 0)
              /\ pack.hdr = (IF meta THEN U ELSE 0) /\ pack.idx = (IF index THEN U ELSE 0)
              /\ file' = Append(file, pack) \o Rest(fill, meta, index)
              /\ size' = U * Len(file')
<1> DEFINE pack == [Item(kind) EXCEPT
                !.prev = PreviousPartition,
                !.foot = IF kind = "footer" THEN U * Len(file) ELSE 0,
                !.sid = sid, !.hdr = IF meta THEN U ELSE 0, !.idx = IF index THEN U ELSE 0]
<1>1. file' = Append(file, pack) \o Rest(fill, meta, index) /\ size' = U * Len(file')
  BY Zenon DEF WritePartition, Rest, Opt
<1>2. PreviousPartition \in Nat
  <2>1. CASE PackItems(file) = {}
    BY <2>1 DEF PreviousPartition
  <2>2. CASE PackItems(file) # {}
    <3>1. file # << >>
      BY <2>2 DEF PackItems
    <3> DEFINE m == Max(PackItems(file))
    <3>2. m \in DOMAIN file
      BY <3>1, LastPackIs
    <3> HIDE DEF m
    <3>3. m \in Nat /\ m >= 1
      BY <3>2, ItemParts
    <3>4. At(m) \in Nat
      BY <3>3 DEF At, U
    <3> QED BY <2>2, <3>4 DEF PreviousPartition, m
  <2> QED BY <2>1, <2>2
<1>3. U * Len(file) \in Nat
  <2>1. Len(file) \in Nat
    BY DEF FileOK
  <2> QED BY <2>1 DEF U
<1>4. /\ pack.kind = kind /\ pack.sid = sid
      /\ pack.prev = PreviousPartition
      /\ pack.foot = (IF kind = "footer" THEN U * Len(file) ELSE 0)
      /\ pack.hdr = (IF meta THEN U ELSE 0) /\ pack.idx = (IF index THEN U ELSE 0)
  BY DEF Item
<1>5. pack \in Items
  BY <1>2, <1>3 DEF Item, Items, U
<1> HIDE DEF pack
<1> QED BY <1>1, <1>4, <1>5

\* A partition behind the last one, if that is no footer.
LEMMA WritePartitionOK ==
    ASSUME NEW kind \in Packs, NEW sid \in Nat, NEW fill \in BOOLEAN,
           NEW meta \in BOOLEAN, NEW index \in BOOLEAN,
           FileOK(file), WritePartition(kind, sid, fill, meta, index),
           file = << >> => kind = "header" /\ meta,
           file # << >> => LastPack.kind # "footer",
           kind = "footer" => sid = 0 /\ fill = (Filled /\ (meta \/ index)) /\ file # << >>
    PROVE  FileOK(file') /\ size' = U * Len(file')
<1>1. PICK pack \in Items :
              /\ pack.kind = kind /\ pack.sid = sid
              /\ pack.prev = PreviousPartition
              /\ pack.foot = (IF kind = "footer" THEN U * Len(file) ELSE 0)
              /\ pack.hdr = (IF meta THEN U ELSE 0) /\ pack.idx = (IF index THEN U ELSE 0)
              /\ file' = Append(file, pack) \o Rest(fill, meta, index)
              /\ size' = U * Len(file')
  BY PartitionIs
<1> DEFINE n == Len(file) + 1
           f == file
           e == file'
<1>2. f \in Seq(Items) /\ Len(f) \in Nat /\ DOMAIN f = 1 .. Len(f)
  BY DEF FileOK
<1>3. /\ Extends(e, f) /\ e[n] = pack /\ Counted(e, n) /\ e # << >>
      /\ After(e, n) = (IF fill THEN n + 2 ELSE n + 1)
      /\ (fill \/ meta \/ index => Len(e) >= n + 1)
      /\ (\A k \in 1 .. Len(e) : k > n => e[k].kind \in Inner)
  BY <1>1, <1>2, PartitionAdded
<1>4. Linked(e, n)
  BY <1>1, <1>3, LinkedNew DEF PreviousPartition
<1>5. \A i \in DOMAIN f : f[i].kind # "footer" /\ f[i].kind # "rip"
  BY NoFooter DEF LastPack
<1>6. Closed(e, n)
  <2>1. ASSUME kind = "footer"
        PROVE  /\ e[n].sid = 0
               /\ \A k \in DOMAIN e : k > n => e[k].kind \in Trailing
               /\ After(e, n) = IF Follows(e, n) /\ e[2].kind = "fill" THEN n + 2 ELSE n + 1
    <3>1. Len(f) >= 2
      BY <2>1 DEF FileOK
    <3>2. 2 \in 1 .. Len(f)
      BY <1>2, <3>1
    <3>3. e[2] = f[2]
      BY <1>3, <3>2 DEF Extends
    <3>4. fill <=> Follows(e, n) /\ e[2].kind = "fill"
      <4>1. e[n].hdr = (IF meta THEN U ELSE 0) /\ e[n].idx = (IF index THEN U ELSE 0)
        <5> HIDE DEF n, e
        <5> QED BY <1>1, <1>3
      <4>2. Follows(e, n) <=> meta \/ index
        <5> HIDE DEF n, e
        <5> QED BY <4>1 DEF Follows, U
      <4>3. fill <=> (f[2].kind = "fill") /\ (meta \/ index)
        BY <2>1 DEF Filled
      <4> HIDE DEF n, e, f
      <4> QED BY <3>3, <4>2, <4>3
    <3>5. DOMAIN e = 1 .. Len(e)
      BY <1>3 DEF Extends
    <3> QED BY <1>1, <1>3, <2>1, <3>4, <3>5 DEF Inner, Trailing
  <2> QED BY <1>1, <1>3, <2>1 DEF Closed
<1>7. f = << >> => Len(e) >= 2 /\ e[1].kind = "header" /\ e[1].foot = 0
  <2>1. ASSUME f = << >> PROVE Len(e) >= 2 /\ e[1].kind = "header" /\ e[1].foot = 0
    <3>1. n = 1 /\ kind = "header" /\ meta
      BY <2>1
    <3>2. Len(e) >= 1 + 1
      BY <1>3, <3>1
    <3>3. e[1] = pack
      BY <1>3, <3>1
    <3>4. pack.kind = "header" /\ pack.foot = 0
      BY <1>1, <3>1
    <3> HIDE DEF e
    <3> QED BY <3>2, <3>3, <3>4
  <2> QED BY <2>1
<1>8. e[n].kind \in Packs /\ e[n].kind # "rip"
  BY <1>1, <1>3 DEF Packs
<1> HIDE DEF e, f
<1>9. FileOK(e)
  <2>1. FileOK(f)
    BY DEF f
  <2>2. Len(f) + 1 = n
    BY DEF f
  <2> HIDE DEF n
  <2> QED BY <1>3, <1>4, <1>5, <1>6, <1>7, <1>8, <2>1, <2>2, ExtendedOK
<1> QED BY <1>1, <1>9 DEF e

\* Essence, or the RIP.
LEMMA ItemAdded ==
    ASSUME NEW f, FileOK(f), NEW x \in Items, f # << >>,
           \/ x.kind = "essence" /\ f[Max(PackItems(f))].kind # "footer"
           \/ /\ x.kind = "rip" /\ f[Max(PackItems(f))].kind = "footer"
              /\ f[Len(f)].kind # "rip"
    PROVE  FileOK(Append(f, x))
<1> DEFINE e == Append(f, x)
           n == Len(f) + 1
           m == Max(PackItems(f))
<1>1. f \in Seq(Items) /\ Len(f) \in Nat
  BY DEF FileOK
<1>2. /\ e \in Seq(Items) /\ Len(e) = Len(f) + 1 /\ e[Len(f) + 1] = x
      /\ \A i \in 1 .. Len(f) : e[i] = f[i]
  BY <1>1, AppendProperties
<1>3. m \in DOMAIN f
  BY LastPackIs
<1> HIDE DEF e, m
<1>4. Extends(e, f)
  <2>1. Len(e) > Len(f) /\ \A k \in Len(f) + 2 .. Len(e) : FALSE
    BY <1>1, <1>2
  <2>2. e[Len(f) + 1].kind \notin Inner
    BY <1>2 DEF Inner
  <2> QED BY <1>2, <2>1, <2>2 DEF Extends
<1>5. e[Len(f) + 1].kind \notin Packs
  BY <1>2 DEF Packs
<1>6. \A i \in DOMAIN f : f[i].kind # "rip"
  <2>1. CASE x.kind = "essence"
    BY <2>1, NoFooter DEF m
  <2>2. CASE x.kind = "rip"
    BY <2>2 DEF FileOK
  <2> QED BY <2>1, <2>2
<1>7. x.kind = "rip" => \E i \in DOMAIN f : f[i].kind = "footer"
  BY <1>3 DEF m
<1>8. (\E i \in DOMAIN f : f[i].kind = "footer") => x.kind = "rip"
  BY NoFooter
<1>9. FileOK(e)
  BY <1>2, <1>4, <1>5, <1>6, <1>7, <1>8, ExtendedOK
<1> QED BY <1>9 DEF e

(***************************************************************************)
(* The header is written again: the file is the same otherwise.            *)
(***************************************************************************)
Alike(e, f) ==
    /\ e \in Seq(Items) /\ f \in Seq(Items) /\ Len(e) = Len(f)
    /\ \A i \in 1 .. Len(f) :
          /\ e[i].kind = f[i].kind /\ e[i].prev = f[i].prev
          /\ e[i].hdr = f[i].hdr /\ e[i].idx = f[i].idx /\ e[i].sid = f[i].sid

\* What does not depend on the place of the footer stays.
LEMMA AlikeOK ==
    ASSUME NEW f, FileOK(f), NEW e, Alike(e, f), f # << >>,
           e[1].foot # 0 => \E i \in DOMAIN e : e[i].kind = "footer" /\ e[1].foot = At(i)
    PROVE  FileOK(e)
<1>1. /\ e \in Seq(Items) /\ Len(e) = Len(f) /\ Len(f) \in Nat
      /\ DOMAIN e = 1 .. Len(f) /\ DOMAIN f = 1 .. Len(f)
  BY DEF Alike
<1>2. Len(f) >= 2 /\ f[1].kind = "header"
  BY DEF FileOK
<1>3. 1 \in 1 .. Len(f) /\ 2 \in 1 .. Len(f)
  BY <1>1, <1>2
<1>4. e # << >> /\ Len(e) >= 2 /\ e[1].kind = "header" /\ e[2].kind = f[2].kind
  <2>1. e[1].kind = f[1].kind /\ e[2].kind = f[2].kind
    BY <1>3 DEF Alike
  <2>2. Len(e) >= 2
    BY <1>1, <1>2
  <2>3. e # << >>
    BY <2>2
  <2> QED BY <1>2, <2>1, <2>2, <2>3
<1>5. PackItems(e) = PackItems(f)
  BY <1>1 DEF PackItems, Alike
<1>6. ASSUME NEW i \in PackItems(f)
      PROVE  Counted(e, i) /\ Linked(e, i) /\ Closed(e, i)
  <2>1. i \in 1 .. Len(f) /\ i \in Nat
    BY <1>1 DEF PackItems
  <2>2. /\ e[i].kind = f[i].kind /\ e[i].prev = f[i].prev
        /\ e[i].hdr = f[i].hdr /\ e[i].idx = f[i].idx /\ e[i].sid = f[i].sid
    BY <2>1 DEF Alike
  <2>3. After(e, i) = After(f, i)
    <3>1. i + 1 \in 1 .. Len(f) => e[i + 1].kind = f[i + 1].kind
      BY DEF Alike
    <3> QED BY <1>1, <3>1 DEF After
  <2>4. Counted(f, i) /\ Linked(f, i) /\ Closed(f, i)
    BY DEF FileOK
  <2>5. After(f, i) \in Nat
    BY <2>1 DEF After
  <2> HIDE DEF After
  <2>6. Behind(e, i) = Behind(f, i) /\ Behind(f, i) \in Nat
    BY <2>2, <2>3, <2>5 DEF Behind, Count
  <2>7. Counted(e, i)
    <3>1. ASSUME NEW k \in i + 1 .. Behind(f, i) - 1 PROVE e[k].kind \in Inner
      <4>1. k \in 1 .. Len(f)
        <5>1. Behind(f, i) <= Len(f) + 1
          BY <2>4 DEF Counted
        <5> QED BY <1>1, <2>1, <2>6, <5>1
      <4> QED BY <2>4, <4>1 DEF Counted, Alike
    <3> HIDE DEF Behind
    <3> QED BY <1>1, <2>2, <2>4, <2>6, <3>1 DEF Counted
  <2>8. Linked(e, i)
    BY <1>5, <2>2, <2>4 DEF Linked
  <2>9. Closed(e, i)
    <3>1. ASSUME e[i].kind = "footer"
          PROVE  /\ e[i].sid = 0
                 /\ \A k \in DOMAIN e : k > i => e[k].kind \in Trailing
                 /\ After(e, i) = IF Follows(e, i) /\ e[2].kind = "fill" THEN i + 2 ELSE i + 1
      <4>1. /\ f[i].sid = 0
            /\ \A k \in DOMAIN f : k > i => f[k].kind \in Trailing
            /\ After(f, i) = IF Follows(f, i) /\ f[2].kind = "fill" THEN i + 2 ELSE i + 1
        BY <2>2, <2>4, <3>1 DEF Closed
      <4>2. ASSUME NEW k \in DOMAIN e, k > i
            PROVE  e[k].kind \in Trailing
        <5>1. k \in DOMAIN f /\ e[k].kind = f[k].kind
          BY <1>1 DEF Alike
        <5> QED BY <4>1, <4>2, <5>1
      <4> QED BY <1>4, <2>2, <2>3, <2>4, <4>1, <4>2 DEF Follows
    <3> QED BY <3>1 DEF Closed
  <2> QED BY <2>7, <2>8, <2>9
<1>7. ASSUME NEW k \in DOMAIN e, e[k].kind = "rip"
      PROVE  k = Len(e) /\ \E i \in DOMAIN e : e[i].kind = "footer"
  <2>1. k \in DOMAIN f /\ f[k].kind = "rip"
    BY <1>1, <1>7 DEF Alike
  <2>2. PICK i \in DOMAIN f : f[i].kind = "footer"
    BY <2>1 DEF FileOK
  <2>3. k = Len(f)
    BY <2>1 DEF FileOK
  <2>4. i \in DOMAIN e /\ e[i].kind = "footer"
    BY <1>1, <2>2 DEF Alike
  <2> QED BY <1>1, <2>3, <2>4
<1> QED BY <1>1, <1>4, <1>5, <1>6, <1>7 DEF FileOK

\* UpdateHeader has it so.
LEMMA UpdateHeaderOK ==
    ASSUME FileOK(file), NEW closed \in BOOLEAN, UpdateHeader(closed)
    PROVE  FileOK(file') /\ Len(file') = Len(file)
<1> DEFINE m == Max(PackItems(file))
           e == [file EXCEPT ![1].foot = At(m), ![1].closed = closed]
<1>1. file' = e /\ file # << >> /\ file[Len(file)].kind = "rip"
  BY DEF UpdateHeader
<1>2. file \in Seq(Items) /\ Len(file) \in Nat /\ Len(file) >= 2 /\ DOMAIN file = 1 .. Len(file)
  BY <1>1 DEF FileOK
<1>3. 1 \in 1 .. Len(file) /\ Len(file) \in 1 .. Len(file)
  BY <1>2
<1>4. PICK i \in DOMAIN file : file[i].kind = "footer"
  BY <1>1, <1>2, <1>3 DEF FileOK
<1>5. i = m /\ i \in Nat /\ i >= 1 /\ i # 1
  <2>1. i = m
    BY <1>4, FooterIsLast
  <2>2. i \in 1 .. Len(file)
    BY <1>2
  <2>3. file[1].kind = "header"
    BY <1>1 DEF FileOK
  <2>4. i # 1
    BY <1>4, <2>3
  <2> HIDE DEF m
  <2> QED BY <1>2, <2>1, <2>2, <2>4
<1>6. At(i) \in Nat
  BY <1>5 DEF At, U
<1> HIDE DEF m
<1> DEFINE h == [file[1] EXCEPT !.foot = At(m), !.closed = closed]
<1>7. e = [file EXCEPT ![1] = h]
  <2>1. file \in [1 .. Len(file) -> Items] /\ file[1] \in Items
    BY <1>2, <1>3
  <2>2. ASSUME NEW k \in 1 .. Len(file) PROVE e[k] = [file EXCEPT ![1] = h][k]
    <3>1. CASE k = 1
      BY <1>3, <2>1, <3>1
    <3>2. CASE k # 1
      BY <2>1, <3>2
    <3> QED BY <3>1, <3>2
  <2>3. DOMAIN e = 1 .. Len(file) /\ DOMAIN [file EXCEPT ![1] = h] = 1 .. Len(file)
    BY <1>2
  <2>4. e = [k \in 1 .. Len(file) |-> e[k]]
        /\ [file EXCEPT ![1] = h] = [k \in 1 .. Len(file) |-> [file EXCEPT ![1] = h][k]]
    BY <1>2
  <2> HIDE DEF e, h
  <2> QED BY <2>2, <2>4
<1>8. h \in Items /\ h.foot = At(m) /\ h.kind = file[1].kind /\ h.prev = file[1].prev
      /\ h.hdr = file[1].hdr /\ h.idx = file[1].idx /\ h.sid = file[1].sid
  <2>1. file[1] \in Items
    BY <1>2, <1>3
  <2> QED BY <1>5, <1>6, <2>1 DEF Items
<1> HIDE DEF h, e
<1>9. /\ e \in Seq(Items) /\ Len(e) = Len(file) /\ e[1] = h
      /\ \A k \in 1 .. Len(file) : k # 1 => e[k] = file[k]
  BY <1>2, <1>3, <1>7, <1>8, ExceptSeq
<1>10. Alike(e, file)
  BY <1>2, <1>8, <1>9 DEF Alike
<1>11. e[1].foot = At(i) /\ i \in DOMAIN e /\ e[i].kind = "footer"
  <2>1. i \in 1 .. Len(file) /\ DOMAIN e = 1 .. Len(file)
    BY <1>2, <1>9
  <2> QED BY <1>4, <1>5, <1>8, <1>9, <2>1
<1>12. FileOK(e)
  BY <1>1, <1>10, <1>11, AlikeOK
<1> QED BY <1>1, <1>9, <1>12

\* As long as nothing is known, the file is all there is to it.
LEMMA QuietNext ==
    ASSUME FileOK(file'), size' \in 0 .. (U * Len(file')), phase' \in {"writing", "reading"},
           rip' = {}, known' = "unknown", last' = [op |-> "none"]
    PROVE  IInv'
<1>1. TypeOK'
  BY DEF TypeOK, FileOK
<1>2. Quiet' /\ (Finished => known # "yes")'
  BY DEF Quiet
<1>3. last'.op = "none"
  OBVIOUS
<1>4. Found' /\ SidsTrue' /\ MasterFinal'
  BY <1>3 DEF Found, SidsTrue, MasterFinal
<1>5. TruncationTrue'
  BY <1>3 DEF TruncationTrue, WholeIsWhole, TruncationSeen
<1>6. (FileOK(file))'
  OBVIOUS
<1> QED BY <1>1, <1>2, <1>4, <1>5, <1>6 DEF IInv, AllFound

\* At the start there is nothing.
LEMMA InitOK == Init => IInv
<1> SUFFICES ASSUME Init PROVE IInv
  OBVIOUS
<1>1. /\ file = << >> /\ size = 0 /\ phase = "writing" /\ rip = {} /\ known = "unknown"
      /\ last = [op |-> "none"]
  BY DEF Init
<1>2. FileOK(file)
  BY <1>1 DEF FileOK, PackItems
<1>3. TypeOK
  <2>1. size \in 0 .. (U * Len(file))
    BY <1>1 DEF U
  <2> QED BY <1>1, <1>2, <2>1 DEF TypeOK, FileOK
<1>4. Found /\ SidsTrue /\ MasterFinal
  BY <1>1 DEF Found, SidsTrue, MasterFinal
<1>5. TruncationTrue
  BY <1>1 DEF TruncationTrue, WholeIsWhole, TruncationSeen
<1> QED BY <1>1, <1>2, <1>3, <1>4, <1>5 DEF IInv, Quiet, AllFound

\* What the writer does leaves a file that the reader can find its way in.
LEMMA WriteOK ==
    ASSUME IInv, Write
    PROVE  IInv'
<1>1. FileOK(file) /\ Quiet
  BY DEF IInv
<1>2. Sids \subseteq Nat
  BY RecoveryAssumption
<1>3. ASSUME FileOK(file'), size' \in 0 .. (U * Len(file')), Writing
      PROVE  IInv'
  <2>1. rip' = {} /\ known' = "unknown" /\ last' = [op |-> "none"] /\ phase' = "writing"
    BY <1>1, <1>3 DEF Writing, Quiet
  <2> QED BY <1>3, <2>1, QuietNext
<1>4. ASSUME FileOK(file'), size' = U * Len(file')
      PROVE  size' \in 0 .. (U * Len(file'))
  <2>1. Len(file') \in Nat
    BY <1>4 DEF FileOK
  <2> QED BY <1>4, <2>1 DEF U
<1>5. ASSUME NEW fill \in BOOLEAN, NEW index \in BOOLEAN, NEW sid \in Sids,
             WriteHeader(fill, sid, index)
      PROVE  IInv'
  <2>1. /\ Writing /\ file = << >> /\ WritePartition("header", sid, fill, TRUE, index)
        /\ "header" \in Packs /\ sid \in Nat /\ TRUE \in BOOLEAN
    BY <1>2, <1>5 DEF WriteHeader, Packs
  <2>2. FileOK(file') /\ size' = U * Len(file')
    BY <1>1, <2>1, WritePartitionOK
  <2> QED BY <1>3, <1>4, <2>1, <2>2
<1>6. ASSUME NEW index \in BOOLEAN, NEW sid \in Sids, WriteBodyPartition(sid, index)
      PROVE  IInv'
  <2>1. /\ Writing /\ file # << >> /\ LastPack.kind # "footer"
        /\ WritePartition("body", sid, Filled, FALSE, index)
        /\ "body" \in Packs /\ sid \in Nat /\ FALSE \in BOOLEAN
    BY <1>2, <1>6 DEF WriteBodyPartition, Packs
  <2>2. Filled \in BOOLEAN
    BY DEF Filled
  <2>3. FileOK(file') /\ size' = U * Len(file')
    BY <1>1, <2>1, <2>2, WritePartitionOK
  <2> QED BY <1>3, <1>4, <2>1, <2>3
<1>7. ASSUME NEW meta \in BOOLEAN, NEW index \in BOOLEAN, WriteFooter(meta, index)
      PROVE  IInv'
  <2>1. /\ Writing /\ file # << >> /\ LastPack.kind # "footer"
        /\ WritePartition("footer", 0, Filled /\ (meta \/ index), meta, index)
        /\ "footer" \in Packs /\ 0 \in Nat
    BY <1>7 DEF WriteFooter, Packs
  <2>2. (Filled /\ (meta \/ index)) \in BOOLEAN
    BY DEF Filled
  <2>3. FileOK(file') /\ size' = U * Len(file')
    BY <1>1, <2>1, <2>2, WritePartitionOK
  <2> QED BY <1>3, <1>4, <2>1, <2>3
<1>8. file # << >> => file[Max(PackItems(file))] \in Items
  <2> DEFINE m == Max(PackItems(file))
  <2>1. file # << >> => m \in DOMAIN file
    BY <1>1, LastPackIs
  <2> HIDE DEF m
  <2>2. file # << >> => file[m] \in Items
    BY <1>1, <2>1, ItemParts
  <2> QED BY <2>2 DEF m
<1>9. CASE WriteEssence
  <2> DEFINE x == [Item("essence") EXCEPT !.sid = LastPack.sid]
  <2>1. /\ Writing /\ file # << >> /\ LastPack.sid # 0 /\ file' = Append(file, x)
        /\ size' = U * Len(file')
    BY <1>9 DEF WriteEssence
  <2>2. LastPack \in Items
    BY <1>8, <2>1 DEF LastPack
  <2>3. x \in Items /\ x.kind = "essence"
    <3>1. LastPack.sid \in Nat
      BY <2>2 DEF Items
    <3> QED BY <3>1 DEF Item, Items
  <2>4. LastPack.kind # "footer"
    <3> DEFINE m == Max(PackItems(file))
    <3>1. m \in PackItems(file)
      BY <1>1, <2>1, LastPackIs
    <3>2. LastPack = file[m]
      BY DEF LastPack
    <3> HIDE DEF m
    <3> QED BY <1>1, <2>1, <3>1, <3>2 DEF FileOK, Closed
  <2> HIDE DEF x
  <2>5. file[Max(PackItems(file))].kind # "footer"
    BY <2>4 DEF LastPack
  <2>6. FileOK(Append(file, x))
    <3>1. /\ FileOK(file) /\ file # << >> /\ x \in Items
          /\ x.kind = "essence" /\ file[Max(PackItems(file))].kind # "footer"
      BY <1>1, <2>1, <2>3, <2>5
    <3>2. \/ x.kind = "essence" /\ file[Max(PackItems(file))].kind # "footer"
          \/ /\ x.kind = "rip" /\ file[Max(PackItems(file))].kind = "footer"
             /\ file[Len(file)].kind # "rip"
      BY <3>1
    <3> QED BY <3>1, <3>2, ItemAdded
  <2>7. FileOK(file') /\ size' = U * Len(file') /\ Writing
    BY <2>1, <2>6
  <2> QED BY <1>3, <1>4, <2>7
<1>10. CASE WriteRIP
  <2> DEFINE x == Item("rip")
  <2>1. /\ Writing /\ file # << >> /\ LastPack.kind = "footer" /\ file' = Append(file, x)
        /\ size' = U * Len(file') /\ file[Len(file)].kind # "rip"
    BY <1>10 DEF WriteRIP
  <2>2. x \in Items /\ x.kind = "rip"
    BY DEF Item, Items
  <2> HIDE DEF x
  <2>3. FileOK(file')
    BY <1>1, <2>1, <2>2, ItemAdded DEF LastPack
  <2> QED BY <1>3, <1>4, <2>1, <2>3
<1>11. ASSUME NEW closed \in BOOLEAN, UpdateHeader(closed)
       PROVE  IInv'
  <2>1. FileOK(file') /\ Len(file') = Len(file)
    BY <1>1, <1>11, UpdateHeaderOK
  <2>2. size' = size /\ Writing
    BY <1>11 DEF UpdateHeader
  <2>3. size \in 0 .. (U * Len(file))
    BY DEF IInv, TypeOK
  <2> QED BY <1>3, <2>1, <2>2, <2>3
<1> QED BY <1>5, <1>6, <1>7, <1>9, <1>10, <1>11 DEF Write

\* The writer may stop anywhere.
LEMMA StopOK ==
    ASSUME IInv, NEW n \in 0 .. size, Stop(n)
    PROVE  IInv'
<1>1. /\ phase = "writing" /\ phase' = "reading" /\ size' = n
      /\ file' = file /\ rip' = rip /\ known' = known /\ last' = last
  BY DEF Stop
<1>2. FileOK(file') /\ rip' = {} /\ known' = "unknown" /\ last' = [op |-> "none"]
  BY <1>1 DEF IInv, Quiet
<1>3. size' \in 0 .. (U * Len(file'))
  <2>1. size \in 0 .. (U * Len(file)) /\ Len(file) \in Nat
    BY DEF IInv, TypeOK
  <2> QED BY <1>1, <2>1 DEF U
<1> QED BY <1>1, <1>2, <1>3, QuietNext

-----------------------------------------------------------------------------
(***************************************************************************)
(* 3. Reading an item.                                                     *)
(***************************************************************************)
\* Positions and items.
LEMMA AtIs ==
    ASSUME NEW i \in Nat, i >= 1
    PROVE  /\ At(i) \in Nat /\ At(i) = 4 * i - 4 /\ (At(i) \div U) + 1 = i
           /\ ItemAt(At(i)) = file[i] /\ At(i) + U = At(i + 1) /\ At(i + 1) = U * i
<1>1. At(i) = 4 * i - 4 /\ At(i + 1) = 4 * i /\ U = 4
  BY DEF At, U
<1>2. (4 * i - 4) \div 4 = i - 1
  OBVIOUS
<1> QED BY <1>1, <1>2 DEF ItemAt

\* Items that are further behind are at higher positions.
LEMMA AtOrder ==
    ASSUME NEW i \in Nat, NEW j \in Nat
    PROVE  /\ At(i) <= At(j) <=> i <= j
           /\ At(i) < At(j) <=> i < j
           /\ At(i) = At(j) <=> i = j
           /\ At(i) \in Int
BY DEF At, U

\* What there is of the file.
LEMMA Sizes ==
    ASSUME IInv
    PROVE  /\ file \in Seq(Items) /\ Len(file) \in Nat /\ DOMAIN file = 1 .. Len(file)
           /\ size \in Nat /\ size <= 4 * Len(file) /\ FileOK(file)
<1>1. FileOK(file) /\ size \in 0 .. (U * Len(file)) /\ file \in Seq(Items)
  BY DEF IInv, TypeOK
<1>2. Len(file) \in Nat
  BY <1>1
<1> QED BY <1>1, <1>2 DEF U

\* An item whose key is there.
LEMMA KeyThere ==
    ASSUME IInv, NEW p \in Nat, HasKey(p)
    PROVE  (p \div U) + 1 \in DOMAIN file /\ ItemAt(p) \in Items
<1>1. (p \div 4) + 1 \in 1 .. Len(file)
  BY Sizes DEF HasKey
<1> QED BY <1>1, Sizes DEF ItemAt, U

\* A pack or nothing.
LEMMA ReadAny ==
    ASSUME IInv, NEW p \in Nat
    PROVE  /\ ReadPartition(p) = NoPack \/ ReadPartition(p) \in Items
           /\ NoPack \notin Items
           /\ ReadPartition(p) = NoPack <=> (~HasKey(p) \/ ItemAt(p).kind \notin Packs)
           /\ ReadPartition(p) # NoPack =>
                 /\ ReadPartition(p).kind = ItemAt(p).kind
                 /\ ReadPartition(p).closed = ItemAt(p).closed
                 /\ ReadPartition(p).prev = (IF p + 2 < size THEN ItemAt(p).prev ELSE 0)
                 /\ ReadPartition(p).foot = (IF p + 2 < size THEN ItemAt(p).foot ELSE 0)
                 /\ ReadPartition(p).hdr = (IF p + 3 < size THEN ItemAt(p).hdr ELSE 0)
                 /\ ReadPartition(p).idx = (IF p + 3 < size THEN ItemAt(p).idx ELSE 0)
                 /\ ReadPartition(p).sid = (IF p + 3 < size THEN ItemAt(p).sid ELSE 0)
<1>1. NoPack \notin Items
  <2>1. ASSUME NoPack \in Items PROVE FALSE
    <3>1. NoPack.kind \in Packs \cup {"fill", "meta", "index", "essence", "rip"}
      BY <2>1 DEF Items
    <3> QED BY <3>1 DEF NoPack, Packs
  <2> QED BY <2>1
<1>2. CASE ~HasKey(p) \/ ItemAt(p).kind \notin Packs
  BY <1>1, <1>2 DEF ReadPartition
<1>3. CASE HasKey(p) /\ ItemAt(p).kind \in Packs
  <2> DEFINE x == ItemAt(p)
             a == p + 2 < size
             b == p + 3 < size
             y == [x EXCEPT !.prev = IF a THEN @ ELSE 0, !.foot = IF a THEN @ ELSE 0,
                            !.hdr = IF b THEN @ ELSE 0, !.idx = IF b THEN @ ELSE 0,
                            !.sid = IF b THEN @ ELSE 0]
  <2>1. x \in Items
    BY <1>3, KeyThere
  <2>2. ReadPartition(p) = y
    BY <1>3 DEF ReadPartition
  <2>3. a \in BOOLEAN /\ b \in BOOLEAN
    OBVIOUS
  <2> HIDE DEF x, a, b
  <2>4. /\ y.kind = x.kind /\ y.closed = x.closed
        /\ y.prev = (IF a THEN x.prev ELSE 0) /\ y.foot = (IF a THEN x.foot ELSE 0)
        /\ y.hdr = (IF b THEN x.hdr ELSE 0) /\ y.idx = (IF b THEN x.idx ELSE 0)
        /\ y.sid = (IF b THEN x.sid ELSE 0)
    BY <2>1 DEF Items
  <2>5. y \in Items
    BY <2>1, <2>3 DEF Items
  <2> HIDE DEF y
  <2>6. y # NoPack
    BY <1>1, <2>5
  <2> QED BY <1>1, <1>3, <2>2, <2>4, <2>5, <2>6 DEF x, a, b
<1> QED BY <1>2, <1>3

\* The pack at i.
LEMMA ReadAt ==
    ASSUME IInv, NEW i \in PackItems(file), At(i) < size
    PROVE  LET pack == ReadPartition(At(i)) IN
           /\ pack # NoPack /\ pack.kind = file[i].kind /\ pack.closed = file[i].closed
           /\ pack.prev = (IF At(i) + 2 < size THEN file[i].prev ELSE 0)
           /\ pack.foot = (IF At(i) + 2 < size THEN file[i].foot ELSE 0)
           /\ pack.hdr = (IF At(i) + 3 < size THEN file[i].hdr ELSE 0)
           /\ pack.idx = (IF At(i) + 3 < size THEN file[i].idx ELSE 0)
           /\ pack.sid = (IF At(i) + 3 < size THEN file[i].sid ELSE 0)
<1>1. i \in Nat /\ i >= 1 /\ file[i].kind \in Packs
  BY Sizes DEF PackItems
<1>2. At(i) \in Nat /\ ItemAt(At(i)) = file[i] /\ HasKey(At(i))
  BY <1>1, AtIs DEF HasKey
<1>3. ReadPartition(At(i)) # NoPack
  BY <1>1, <1>2, ReadAny
<1> QED BY <1>2, <1>3, ReadAny

\* The header.
LEMMA ReadHeader ==
    ASSUME IInv, HasKey(0)
    PROVE  /\ file # << >> /\ At(1) = 0 /\ 1 \in PackItems(file) /\ 1 \in DOMAIN file
           /\ file[1].kind = "header" /\ ItemAt(0) = file[1]
           /\ ReadPartition(0) # NoPack
           /\ ReadPartition(0).foot = (IF 2 < size THEN file[1].foot ELSE 0)
<1>1. Len(file) >= 1
  BY Sizes DEF HasKey
<1>2. file # << >>
  BY <1>1
<1>3. 1 \in PackItems(file) /\ file[1].kind = "header" /\ 1 \in DOMAIN file
  BY <1>1, <1>2, Sizes, LastPackIs DEF FileOK
<1>4. At(1) = 0
  BY DEF At, U
<1>5. At(1) < size /\ ItemAt(At(1)) = file[1]
  BY <1>4, AtIs DEF HasKey
<1> QED BY <1>2, <1>3, <1>4, <1>5, ReadAt

\* The entries of packs that are there tell the truth.
LEMMA EntriesTrue ==
    ASSUME IInv, NEW P \in SUBSET Present
    PROVE  /\ Entries(P) \in SUBSET Entry /\ Positions(Entries(P)) = P
           /\ \A e, f \in Entries(P) : e.at = f.at => e = f
           /\ \A e \in Entries(P) : e.sid # 0 => e.at \in Present /\ ItemAt(e.at).sid = e.sid
<1>1. ASSUME NEW p \in P
      PROVE  /\ p \in Nat /\ ReadPartition(p).sid \in Nat
             /\ ReadPartition(p).sid # 0 => ItemAt(p).sid = ReadPartition(p).sid
  <2>1. PICK i \in PackItems(file) : p = At(i) /\ At(i) < size
    BY DEF Present
  <2>2. i \in Nat /\ i >= 1 /\ i \in DOMAIN file
    BY Sizes DEF PackItems
  <2>3. p \in Nat /\ ItemAt(p) = file[i] /\ file[i].sid \in Nat
    BY <2>1, <2>2, AtIs, Sizes, ItemParts
  <2>4. ReadPartition(p).sid = (IF At(i) + 3 < size THEN file[i].sid ELSE 0)
    BY <2>1, ReadAt
  <2> QED BY <2>3, <2>4
<1>2. ASSUME NEW e \in Entries(P)
      PROVE  e.at \in P /\ e = [at |-> e.at, sid |-> ReadPartition(e.at).sid]
             /\ e.sid = ReadPartition(e.at).sid
  BY DEF Entries
<1>3. Entries(P) \in SUBSET Entry
  <2>1. ASSUME NEW e \in Entries(P) PROVE e \in Entry
    <3>1. e.at \in Nat /\ ReadPartition(e.at).sid \in Nat
      BY <1>1, <1>2
    <3> QED BY <1>2, <3>1 DEF Entry
  <2> QED BY <2>1
<1>4. Positions(Entries(P)) = P
  <2>1. ASSUME NEW p \in P PROVE p \in Positions(Entries(P))
    <3> DEFINE e == [at |-> p, sid |-> ReadPartition(p).sid]
    <3>1. e \in Entries(P) /\ e.at = p
      BY DEF Entries
    <3> HIDE DEF e
    <3> QED BY <3>1 DEF Positions
  <2>2. ASSUME NEW p \in Positions(Entries(P)) PROVE p \in P
    BY <1>2 DEF Positions
  <2> QED BY <2>1, <2>2
<1>5. ASSUME NEW e \in Entries(P), NEW f \in Entries(P), e.at = f.at PROVE e = f
  BY <1>2, <1>5
<1>6. ASSUME NEW e \in Entries(P), e.sid # 0
      PROVE  e.at \in Present /\ ItemAt(e.at).sid = e.sid
  BY <1>1, <1>2, <1>6
<1> QED BY <1>3, <1>4, <1>5, <1>6

\* More entries.
LEMMA EntriesMore ==
    ASSUME NEW P, NEW Q
    PROVE  Entries(P \cup Q) = Entries(P) \cup Entries(Q)
BY DEF Entries

-----------------------------------------------------------------------------
(***************************************************************************)
(* 4. IsTruncated.                                                         *)
(***************************************************************************)
\* The end of the footer at i.
EndOfFooter(i) ==
    U * (i + (IF file[i].hdr + file[i].idx # 0 /\ Filled THEN 1 ELSE 0)) + (file[i].hdr + file[i].idx)

\* The footer, with what is behind it.
LEMMA FooterIs ==
    ASSUME IInv, NEW i \in DOMAIN file, file[i].kind = "footer"
    PROVE  /\ i = Max(PackItems(file)) /\ i \in PackItems(file) /\ i \in Nat /\ i >= 1
           /\ file[i].hdr \in {0, 4} /\ file[i].idx \in {0, 4}
           /\ i + 1 \in DOMAIN file /\ file[i + 1].kind = "fill" <=>
                 file[i].hdr + file[i].idx # 0 /\ Filled
           /\ EndOfFooter(i) \in Nat /\ EndOfFooter(i) <= 4 * Len(file)
           /\ Finished <=> size >= EndOfFooter(i)
<1> DEFINE hdr == file[i].hdr
           idx == file[i].idx
<1>1. FileOK(file) /\ Len(file) \in Nat /\ i \in 1 .. Len(file)
  BY Sizes
<1>2. i = Max(PackItems(file)) /\ i \in PackItems(file)
  BY <1>1, FooterIsLast
<1>3. i \in Nat /\ i >= 1
  BY <1>1
<1>4. Counted(file, i) /\ Closed(file, i)
  BY <1>1, <1>2 DEF FileOK
<1>5. hdr \in {0, 4} /\ idx \in {0, 4}
  BY <1>4 DEF Counted, U
<1>6. Follows(file, i) <=> hdr + idx # 0
  BY <1>5 DEF Follows
<1>7. After(file, i) = IF hdr + idx # 0 /\ Filled THEN i + 2 ELSE i + 1
  BY <1>4, <1>6 DEF Closed, Filled
<1>8. After(file, i) = IF i + 1 \in DOMAIN file /\ file[i + 1].kind = "fill" THEN i + 2 ELSE i + 1
  BY DEF After
<1>9. i + 2 # i + 1
  BY <1>3
<1>10. Finished <=> size >= EndOfFooter(i)
  BY <1>2 DEF Finished, LastPack, EndOfFooter
<1>11. EndOfFooter(i) = 4 * (i + (IF hdr + idx # 0 /\ Filled THEN 1 ELSE 0)) + (hdr + idx)
  BY DEF EndOfFooter, U
<1>12. Behind(file, i) = After(file, i) + (IF hdr = 0 THEN 0 ELSE 1) + (IF idx = 0 THEN 0 ELSE 1)
  BY DEF Behind, Count
<1>13. Behind(file, i) <= Len(file) + 1
  BY <1>4 DEF Counted
<1> HIDE DEF hdr, idx
<1>14. EndOfFooter(i) <= 4 * Len(file)
  <2>1. CASE hdr + idx # 0 /\ Filled
    BY <1>1, <1>3, <1>5, <1>7, <1>11, <1>12, <1>13, <2>1
  <2>2. CASE ~(hdr + idx # 0 /\ Filled)
    BY <1>1, <1>3, <1>5, <1>7, <1>11, <1>12, <1>13, <2>2
  <2> QED BY <2>1, <2>2
<1>15. EndOfFooter(i) \in Nat
  BY <1>3, <1>5, <1>11
<1>16. i + 1 \in DOMAIN file /\ file[i + 1].kind = "fill" <=> hdr + idx # 0 /\ Filled
  BY <1>7, <1>8, <1>9
<1> QED BY <1>2, <1>3, <1>5, <1>10, <1>14, <1>15, <1>16 DEF hdr, idx

\* It is cut short if the file does not reach up to its end.
LEMMA FooterCut ==
    ASSUME IInv, NEW i \in DOMAIN file, file[i].kind = "footer", At(i) < size
    PROVE  CutShort(At(i)) <=> ~Finished
<1> DEFINE p == At(i)
           counts == file[i].hdr + file[i].idx
           fill == i + 1 \in DOMAIN file /\ file[i + 1].kind = "fill"
<1>1. /\ i \in PackItems(file) /\ i \in Nat /\ i >= 1
      /\ counts \in {0, 4, 8} /\ file[i].hdr \in Nat /\ file[i].idx \in Nat
      /\ fill <=> counts # 0 /\ Filled
      /\ Finished <=> size >= EndOfFooter(i)
  BY FooterIs
<1>2. EndOfFooter(i) = 4 * (i + (IF fill THEN 1 ELSE 0)) + counts
  BY <1>1 DEF EndOfFooter, U
<1>3. p = 4 * i - 4 /\ p \in Nat
  BY <1>1, AtIs
<1>4. size \in Nat /\ Len(file) \in Nat /\ DOMAIN file = 1 .. Len(file) /\ size <= 4 * Len(file)
  BY Sizes
<1>5. CASE 4 * i > size
  <2>1. EndOfFooter(i) >= 4 * i
    BY <1>1, <1>2
  <2>2. CutShort(p)
    <3>1. p + U > size
      BY <1>1, <1>3, <1>4, <1>5 DEF U
    <3> HIDE DEF p
    <3> QED BY <3>1 DEF CutShort
  <2>3. ~(size >= EndOfFooter(i))
    <3>1. EndOfFooter(i) \in Nat
      BY FooterIs
    <3> QED BY <1>1, <1>4, <1>5, <2>1, <3>1
  <2> QED BY <1>1, <2>2, <2>3
<1>6. CASE 4 * i <= size
  <2>1. At(i) + 3 < size
    BY <1>3, <1>4, <1>6
  <2>2. ReadPartition(p).hdr = file[i].hdr /\ ReadPartition(p).idx = file[i].idx
    BY <1>1, <2>1, ReadAt
  <2>3. EndOf(p) = 4 * i
    BY <1>1, <1>3, <1>4, <1>6 DEF EndOf, U
  <2>4. i + 1 \in Nat /\ i + 1 >= 1 /\ At(i + 1) = 4 * i
    <3>1. At(i + 1) = U * i
      BY <1>1, AtIs
    <3> QED BY <1>1, <3>1 DEF U
  <2>5. ItemAt(4 * i) = file[i + 1]
    BY <2>4, AtIs
  <2>6. HasKey(4 * i) => i + 1 \in DOMAIN file
    BY <1>1, <1>4 DEF HasKey
  <2> DEFINE start == IF HasKey(4 * i) /\ fill THEN 4 * i + 4 ELSE 4 * i
  <2>7. CutShort(p) <=> start + counts > size
    <3>1. HasKey(4 * i) /\ ItemAt(4 * i).kind = "fill" <=> HasKey(4 * i) /\ fill
      BY <2>5, <2>6
    <3>2. ~(p + U > size)
      BY <1>3, <1>4, <1>6 DEF U
    <3>3. CutShort(p) <=> (IF HasKey(4 * i) /\ ItemAt(4 * i).kind = "fill"
                             THEN 4 * i + U ELSE 4 * i) + file[i].hdr + file[i].idx > size
      <4> HIDE DEF p
      <4> QED BY <2>2, <2>3, <3>2 DEF CutShort
    <3>4. start \in Nat
      BY <1>1
    <3>5. (IF HasKey(4 * i) /\ ItemAt(4 * i).kind = "fill" THEN 4 * i + U ELSE 4 * i) = start
      BY <3>1 DEF U
    <3> HIDE DEF start
    <3>6. start + file[i].hdr + file[i].idx = start + counts
      BY <1>1, <3>4
    <3> QED BY <3>3, <3>5, <3>6
  <2>8. HasKey(4 * i) <=> size > 4 * i
    BY <1>1, <1>4 DEF HasKey
  <2> HIDE DEF counts, fill, p
  <2>9. CASE counts = 0
    <3>1. ~fill
      BY <1>1, <2>9
    <3> QED BY <1>1, <1>2, <1>4, <1>6, <2>7, <2>9, <3>1 DEF p
  <2>10. CASE counts \in {4, 8} /\ fill
    BY <1>1, <1>2, <1>4, <1>6, <2>7, <2>8, <2>10 DEF p
  <2>11. CASE counts \in {4, 8} /\ ~fill
    BY <1>1, <1>2, <1>4, <1>6, <2>7, <2>8, <2>11 DEF p
  <2> QED BY <1>1, <2>9, <2>10, <2>11
<1> QED BY <1>1, <1>4, <1>5, <1>6

\* The RIP is there: so is all of the file.
LEMMA RIPIs ==
    ASSUME IInv, RIPThere
    PROVE  size = U * Len(file) /\ \E i \in DOMAIN file : file[i].kind = "footer"
<1>1. size > 0 /\ size % 4 = 0 /\ ItemAt(size - 4).kind = "rip"
  BY DEF RIPThere, U
<1>2. size \in Nat /\ Len(file) \in Nat /\ size <= 4 * Len(file) /\ DOMAIN file = 1 .. Len(file)
  BY Sizes
<1> DEFINE k == ((size - 4) \div 4) + 1
<1>3. k \in 1 .. Len(file) /\ size = 4 * k
  BY <1>1, <1>2
<1>4. file[k].kind = "rip"
  BY <1>1 DEF ItemAt, U
<1> HIDE DEF k
<1>5. k = Len(file) /\ \E i \in DOMAIN file : file[i].kind = "footer"
  BY <1>2, <1>3, <1>4, Sizes DEF FileOK
<1> QED BY <1>3, <1>5 DEF U

\* What IsTruncated finds out when it looks, as it has it.
Test(details) ==
    IF ReadPartition(0).foot # 0
      THEN size <= ReadPartition(0).foot \/ CutShort(ReadPartition(0).foot)
    ELSE IF RIPThere THEN FALSE
    ELSE IF HasKey(LastKey) /\ ItemAt(LastKey).kind = "essence"
      THEN details \/ CutShort(0)
    ELSE CutShort(LastKey)

\* The place of the footer, by the header.
LEMMA FootIs ==
    ASSUME IInv, HasKey(0), ReadPartition(0).foot # 0
    PROVE  \E i \in DOMAIN file : file[i].kind = "footer" /\ ReadPartition(0).foot = At(i)
<1>1. /\ ReadPartition(0).foot = (IF 2 < size THEN file[1].foot ELSE 0)
      /\ file # << >> /\ FileOK(file)
  BY ReadHeader, Sizes
<1>2. ReadPartition(0).foot = file[1].foot /\ file[1].foot # 0
  BY <1>1
<1> QED BY <1>1, <1>2 DEF FileOK

\* A finished file ends behind its footer's pack.
LEMMA FinishedIs ==
    ASSUME IInv, Finished
    PROVE  \E i \in DOMAIN file : file[i].kind = "footer" /\ At(i) < size /\ i = Max(PackItems(file))
<1> DEFINE m == Max(PackItems(file))
<1>1. PackItems(file) # {} /\ file[m].kind = "footer"
  BY DEF Finished, LastPack
<1>2. file # << >>
  BY <1>1, Sizes DEF PackItems
<1>3. m \in DOMAIN file
  BY <1>2, Sizes, LastPackIs
<1> HIDE DEF m
<1>4. /\ m \in Nat /\ m >= 1 /\ size >= EndOfFooter(m) /\ EndOfFooter(m) \in Nat
      /\ file[m].hdr \in {0, 4} /\ file[m].idx \in {0, 4}
  BY <1>1, <1>3, FooterIs
<1>5. EndOfFooter(m) >= 4 * m
  BY <1>4 DEF EndOfFooter, U
<1>6. At(m) < size
  <2>1. At(m) = 4 * m - 4 /\ size \in Nat
    BY <1>4, AtIs, Sizes
  <2> QED BY <1>4, <1>5, <2>1
<1> QED BY <1>1, <1>3, <1>6 DEF m

\* The keys LastKey looks at.
Keys == {p \in ItemStarts : HasKey(p) /\ ItemAt(p).kind \in {"footer", "essence"}}

\* LastKey is that of an item, and there is none behind it.
LEMMA LastKeyIs ==
    ASSUME IInv
    PROVE  /\ Keys = {} => LastKey = 0
           /\ Keys # {} => \E j \in DOMAIN file :
                 /\ LastKey = At(j) /\ At(j) < size /\ file[j].kind \in {"footer", "essence"}
                 /\ \A i \in DOMAIN file :
                       At(i) < size /\ file[i].kind \in {"footer", "essence"} => i <= j
<1>1. size \in Nat /\ Len(file) \in Nat /\ DOMAIN file = 1 .. Len(file)
  BY Sizes
<1>2. LastKey = IF Keys = {} THEN 0 ELSE Max(Keys)
  BY DEF LastKey, Keys
<1>3. ASSUME NEW i \in DOMAIN file
      PROVE  At(i) \in Nat /\ ItemAt(At(i)) = file[i] /\ At(i) \in ItemStarts /\ i \in Nat
  <2>1. i \in Nat /\ i >= 1
    BY <1>1
  <2> QED BY <1>1, <2>1, AtIs DEF ItemStarts
<1>4. ASSUME Keys # {}
      PROVE  \E j \in DOMAIN file :
                 /\ LastKey = At(j) /\ At(j) < size /\ file[j].kind \in {"footer", "essence"}
                 /\ \A i \in DOMAIN file :
                       At(i) < size /\ file[i].kind \in {"footer", "essence"} => i <= j
  <2>1. Keys \in SUBSET (0 .. size)
    <3>1. ASSUME NEW p \in Keys PROVE p \in 0 .. size
      <4>1. PICK i \in DOMAIN file : p = At(i)
        BY <1>1 DEF Keys, ItemStarts
      <4>2. p \in Nat /\ p < size
        BY <1>3, <4>1 DEF Keys, HasKey
      <4> QED BY <1>1, <4>2
    <3> QED BY <3>1
  <2> DEFINE q == Max(Keys)
  <2>2. q \in Keys /\ \A p \in Keys : p <= q
    BY <1>1, <1>4, <2>1, MaxIs
  <2>3. LastKey = q
    BY <1>2, <1>4
  <2> HIDE DEF q
  <2>4. PICK j \in DOMAIN file : q = At(j)
    BY <1>1, <2>2 DEF Keys, ItemStarts
  <2>5. At(j) < size /\ file[j].kind \in {"footer", "essence"}
    BY <1>3, <2>2, <2>4 DEF Keys, HasKey
  <2>6. ASSUME NEW i \in DOMAIN file, At(i) < size, file[i].kind \in {"footer", "essence"}
        PROVE  i <= j
    <3>1. At(i) \in Keys
      BY <1>3, <2>6 DEF Keys, HasKey
    <3>2. At(i) <= At(j)
      BY <2>2, <2>4, <3>1
    <3> QED BY <1>3, <3>2, AtOrder
  <2> QED BY <2>3, <2>4, <2>5, <2>6
<1> QED BY <1>2, <1>4

(***************************************************************************)
(* The answer is right: what is finished is not called truncated, and what *)
(* is not is, with details, if there is something to tell it from.         *)
(***************************************************************************)
LEMMA TestIs ==
    ASSUME IInv, HasKey(0), NEW details \in BOOLEAN
    PROVE  /\ Finished => ~Test(details)
           /\ details /\ ~Finished /\ (ReadPartition(0).foot # 0 \/ LastKey # 0) => Test(details)
<1>1. CASE ReadPartition(0).foot # 0
  <2>1. PICK i \in DOMAIN file : file[i].kind = "footer" /\ ReadPartition(0).foot = At(i)
    BY <1>1, FootIs
  <2>2. Test(details) <=> size <= At(i) \/ CutShort(At(i))
    BY <1>1, <2>1 DEF Test
  <2>3. CASE At(i) < size
    <3>1. CutShort(At(i)) <=> ~Finished
      BY <2>1, <2>3, FooterCut
    <3>2. ~(size <= At(i))
      <4>1. i \in Nat /\ size \in Nat
        BY Sizes
      <4>2. At(i) \in Int
        BY <4>1, AtOrder
      <4> QED BY <2>3, <4>1, <4>2
    <3> QED BY <2>2, <3>1, <3>2
  <2>4. CASE ~(At(i) < size)
    <3>1. ~Finished
      <4>1. ASSUME Finished PROVE FALSE
        <5>1. PICK j \in DOMAIN file : At(j) < size /\ j = Max(PackItems(file))
          BY <4>1, FinishedIs
        <5>2. i = Max(PackItems(file))
          BY <2>1, FooterIs
        <5> QED BY <2>4, <5>1, <5>2
      <4> QED BY <4>1
    <3>2. size <= At(i)
      <4>1. i \in Nat /\ size \in Nat
        BY Sizes
      <4>2. At(i) \in Int
        BY <4>1, AtOrder
      <4> QED BY <2>4, <4>1, <4>2
    <3> QED BY <2>2, <3>1, <3>2
  <2> QED BY <2>3, <2>4
<1>2. CASE ReadPartition(0).foot = 0 /\ RIPThere
  <2>1. ~Test(details)
    BY <1>2 DEF Test
  <2>2. size = U * Len(file) /\ \E i \in DOMAIN file : file[i].kind = "footer"
    BY <1>2, RIPIs
  <2>3. PICK i \in DOMAIN file : file[i].kind = "footer"
    BY <2>2
  <2>4. EndOfFooter(i) <= 4 * Len(file) /\ (Finished <=> size >= EndOfFooter(i))
        /\ EndOfFooter(i) \in Nat
    BY <2>3, FooterIs
  <2>5. Finished
    <3>1. Len(file) \in Nat /\ size = 4 * Len(file)
      BY <2>2, Sizes DEF U
    <3> QED BY <2>4, <3>1
  <2> QED BY <2>1, <2>5
<1>3. CASE ReadPartition(0).foot = 0 /\ ~RIPThere /\ Keys = {}
  <2>1. LastKey = 0
    BY <1>3, LastKeyIs
  <2>2. ~Finished
    <3>1. ASSUME Finished PROVE FALSE
      <4>1. PICK j \in DOMAIN file : file[j].kind = "footer" /\ At(j) < size
        BY <3>1, FinishedIs
      <4>2. j \in Nat /\ j >= 1 /\ j \in 1 .. Len(file)
        BY Sizes
      <4>3. At(j) \in Keys
        BY <4>1, <4>2, AtIs DEF Keys, HasKey, ItemStarts
      <4> QED BY <1>3, <4>3
    <3> QED BY <3>1
  <2> QED BY <1>3, <2>1, <2>2
<1>4. CASE ReadPartition(0).foot = 0 /\ ~RIPThere /\ Keys # {}
  <2>1. PICK j \in DOMAIN file :
                 /\ LastKey = At(j) /\ At(j) < size /\ file[j].kind \in {"footer", "essence"}
                 /\ \A i \in DOMAIN file :
                       At(i) < size /\ file[i].kind \in {"footer", "essence"} => i <= j
    BY <1>4, LastKeyIs
  <2>2. j \in Nat /\ j >= 1
    BY Sizes
  <2>3. ItemAt(LastKey) = file[j] /\ HasKey(LastKey)
    BY <2>1, <2>2, AtIs DEF HasKey
  <2>4. CASE file[j].kind = "essence"
    <3>1. Test(details) <=> details \/ CutShort(0)
      BY <1>4, <2>3, <2>4 DEF Test
    <3>2. ~Finished
      <4>1. ASSUME Finished PROVE FALSE
        <5>1. PICK i \in DOMAIN file : file[i].kind = "footer" /\ At(i) < size
          BY <4>1, FinishedIs
        <5>2. i <= j /\ i \in Nat /\ i # j
          BY <2>1, <2>4, <5>1, Sizes
        <5>3. j > i
          BY <2>2, <5>2
        <5>4. i \in PackItems(file)
          BY <5>1 DEF PackItems, Packs
        <5>5. Closed(file, i)
          BY <5>4, Sizes DEF FileOK
        <5> QED BY <2>4, <5>1, <5>3, <5>5 DEF Closed, Trailing
      <4> QED BY <4>1
    <3> QED BY <3>1, <3>2
  <2>5. CASE file[j].kind = "footer"
    <3>1. Test(details) <=> CutShort(At(j))
      BY <1>4, <2>1, <2>3, <2>5 DEF Test
    <3>2. CutShort(At(j)) <=> ~Finished
      BY <2>1, <2>5, FooterCut
    <3> QED BY <3>1, <3>2
  <2> QED BY <2>1, <2>4, <2>5
<1> QED BY <1>1, <1>2, <1>3, <1>4

-----------------------------------------------------------------------------
(***************************************************************************)
(* 5. The calls of the reader.                                             *)
(*                                                                         *)
(* What may be in FileRIP.                                                 *)
(***************************************************************************)
RIPTrue(r) ==
    /\ r \in SUBSET Entry
    /\ \A e, f \in r : e.at = f.at => e = f
    /\ \A e \in r : e.sid # 0 => e.at \in Present /\ ItemAt(e.at).sid = e.sid

\* A call of the reader does not change the file, so that what is known of it
\* stays true.
LEMMA ReadNext ==
    ASSUME IInv, Reading, RIPTrue(rip'), known' \in {"unknown", "yes", "no"},
           Finished => known' # "yes",
           last'.op \in {"GetRIP", "IsTruncated", "Footer", "Master"},
           last'.op = "GetRIP" /\ LinkThere => Positions(rip') = Present,
           last'.op = "Master" /\ last'.pack # NoPack =>
              last'.pack.closed \/ (last'.pack.kind = "footer" /\ last'.pack.hdr # 0),
           last'.op = "IsTruncated" /\ Finished => ~last'.answer,
           last'.op = "IsTruncated" /\ last'.details /\ ~Finished
             /\ (ReadPartition(0).foot # 0 \/ LastKey # 0) => last'.answer
    PROVE  IInv'
<1>1. file' = file /\ size' = size /\ phase' = "reading"
  BY DEF Reading
<1>2. TypeOK'
  <2>1. file' \in Seq(Items) /\ size' \in 0 .. (U * Len(file'))
    BY <1>1 DEF IInv, TypeOK
  <2> QED BY <1>1, <2>1 DEF TypeOK, RIPTrue
<1>3. FileOK(file')
  BY <1>1 DEF IInv
<1>4. Quiet'
  BY <1>1 DEF Quiet
<1>5. Finished' = Finished
  BY <1>1 DEF Finished, PackItems, LastPack, Filled
<1>6. Present' = Present
  BY <1>1 DEF Present, PackItems, At
<1>7. LinkThere' = LinkThere
  <2>1. FooterKeys' = FooterKeys
    BY <1>1 DEF FooterKeys, ItemStarts, At, HasKey, ItemAt
  <2> QED BY <1>1, <2>1 DEF LinkThere
<1>8. Found'
  <2>1. Positions(rip)' = Positions(rip')
    BY DEF Positions
  <2> QED BY <1>6, <1>7, <2>1 DEF Found
<1>9. SidsTrue'
  <2>1. ASSUME NEW e \in rip', e.sid # 0
        PROVE  e.at \in Present' /\ (ItemAt(e.at))'.sid = e.sid
    <3>1. e.at \in Present /\ ItemAt(e.at).sid = e.sid
      BY <2>1 DEF RIPTrue
    <3>2. file'[(e.at \div U) + 1] = file[(e.at \div U) + 1]
      BY <1>1
    <3> QED BY <1>1, <1>6, <3>1, <3>2 DEF ItemAt
  <2> QED BY <1>1, <1>6, <2>1 DEF SidsTrue, ItemAt
<1>10. MasterFinal'
  BY DEF MasterFinal
<1>11. TruncationTrue'
  <2>1. WholeIsWhole'
    BY <1>5 DEF WholeIsWhole
  <2>2. ReadPartition(0)' = ReadPartition(0)
    BY <1>1 DEF ReadPartition, HasKey, ItemAt
  <2>3. LastKey' = LastKey
    BY <1>1 DEF LastKey, ItemStarts, At, HasKey, ItemAt
  <2>4. TruncationSeen'
    BY <1>5, <2>2, <2>3 DEF TruncationSeen
  <2> QED BY <2>1, <2>4 DEF TruncationTrue
<1>12. (Finished => known # "yes")'
  BY <1>5
<1> QED BY <1>2, <1>3, <1>4, <1>8, <1>9, <1>10, <1>11, <1>12 DEF IInv, AllFound

\* What was in it.
LEMMA RIPIsTrue ==
    ASSUME IInv
    PROVE  RIPTrue(rip) /\ RIPTrue({})
BY DEF IInv, TypeOK, AllFound, SidsTrue, RIPTrue

\* The pack behind which the file has all there is.
LEMMA PresentIs ==
    ASSUME IInv
    PROVE  /\ \A i \in PackItems(file) : i \in DOMAIN file /\ i \in Nat /\ i >= 1
           /\ \A i \in PackItems(file) : At(i) < size => At(i) \in Present
           /\ \A p \in Present : \E i \in PackItems(file) : p = At(i) /\ At(i) < size
           /\ Present \subseteq Nat
<1>1. ASSUME NEW i \in PackItems(file) PROVE i \in DOMAIN file /\ i \in Nat /\ i >= 1
  BY Sizes DEF PackItems
<1>2. ASSUME NEW i \in PackItems(file), At(i) < size PROVE At(i) \in Present
  BY <1>2 DEF Present
<1>3. ASSUME NEW p \in Present
      PROVE  (\E i \in PackItems(file) : p = At(i) /\ At(i) < size) /\ p \in Nat
  <2>1. PICK i \in PackItems(file) : p = At(i) /\ At(i) < size
    BY DEF Present
  <2> QED BY <1>1, <2>1, AtIs
<1> QED BY <1>1, <1>2, <1>3

\* ReadRIP, of a file that is all there.
LEMMA RIPValueTrue ==
    ASSUME IInv, RIPThere
    PROVE  RIPTrue(RIPValue) /\ Positions(RIPValue) = Present
<1>1. ASSUME NEW i \in PackItems(file)
      PROVE  /\ At(i) \in Present /\ At(i) \in Nat /\ file[i].sid \in Nat
             /\ ItemAt(At(i)) = file[i]
  <2>1. i \in Nat /\ i >= 1 /\ i \in 1 .. Len(file) /\ i \in DOMAIN file
    BY PresentIs, Sizes
  <2>2. size = 4 * Len(file)
    BY RIPIs DEF U
  <2>3. At(i) = 4 * i - 4 /\ Len(file) \in Nat
    BY <2>1, AtIs, Sizes
  <2>4. At(i) < size
    BY <2>1, <2>2, <2>3
  <2>5. FileOK(file)
    BY Sizes
  <2> QED BY <2>1, <2>4, <2>5, AtIs, PresentIs, ItemParts
<1>2. ASSUME NEW e \in RIPValue
      PROVE  \E i \in PackItems(file) : e = [at |-> At(i), sid |-> file[i].sid]
  BY DEF RIPValue
<1>3. ASSUME NEW e \in RIPValue
      PROVE  e \in Entry /\ e.at \in Present /\ ItemAt(e.at).sid = e.sid
             /\ e = [at |-> e.at, sid |-> ItemAt(e.at).sid]
  <2>1. PICK i \in PackItems(file) : e = [at |-> At(i), sid |-> file[i].sid]
    BY <1>2
  <2> QED BY <1>1, <2>1 DEF Entry
<1>4. \A e, f \in RIPValue : e.at = f.at => e = f
  BY <1>3
<1>5. RIPTrue(RIPValue)
  BY <1>3, <1>4 DEF RIPTrue
<1>6. ASSUME NEW p \in Present PROVE p \in Positions(RIPValue)
  <2>1. PICK i \in PackItems(file) : p = At(i)
    BY PresentIs
  <2> DEFINE e == [at |-> At(i), sid |-> file[i].sid]
  <2>2. e \in RIPValue /\ e.at = p
    BY <2>1 DEF RIPValue
  <2> HIDE DEF e
  <2> QED BY <2>2 DEF Positions
<1>7. ASSUME NEW p \in Positions(RIPValue) PROVE p \in Present
  BY <1>3 DEF Positions
<1> QED BY <1>5, <1>6, <1>7

\* IsTruncated.
LEMMA IsTruncatedOK ==
    ASSUME IInv, NEW details \in BOOLEAN, IsTruncated(details)
    PROVE  IInv'
<1> DEFINE answer == IF known # "unknown" /\ ~details THEN known = "yes" ELSE Test(details)
<1>1. /\ Reading /\ HasKey(0)
      /\ last' = [op |-> "IsTruncated", details |-> details, answer |-> answer]
      /\ known' = (IF answer THEN "yes" ELSE "no")
      /\ rip' = IF (known = "unknown" \/ details) /\ ReadPartition(0).foot = 0
                  THEN IF RIPThere THEN RIPValue ELSE {}
                ELSE rip
  BY Zenon DEF IsTruncated, Test
<1>2. /\ Finished => ~Test(details)
      /\ details /\ ~Finished /\ (ReadPartition(0).foot # 0 \/ LastKey # 0) => Test(details)
  BY <1>1, TestIs
<1>3. Finished => known # "yes"
  BY DEF IInv
<1>4. Finished => ~answer
  BY <1>2, <1>3
<1>5. details /\ ~Finished /\ (ReadPartition(0).foot # 0 \/ LastKey # 0) => answer
  BY <1>2
<1>6. answer \in BOOLEAN
  BY DEF Test, CutShort
<1> HIDE DEF answer
<1>7. RIPTrue(rip')
  BY <1>1, RIPIsTrue, RIPValueTrue
<1>8. /\ last'.op = "IsTruncated" /\ last'.details = details /\ last'.answer = answer
      /\ known' \in {"unknown", "yes", "no"} /\ (Finished => known' # "yes")
  BY <1>1, <1>4
<1> QED BY <1>1, <1>4, <1>5, <1>7, <1>8, ReadNext

\* What looking for the footer leaves in FileRIP.
LEMMA LocateOK ==
    ASSUME IInv, NEW header
    PROVE  RIPTrue(RIPAfterLocate(header))
BY RIPIsTrue, RIPValueTrue DEF RIPAfterLocate

\* ReadFooterPartition.
LEMMA ReadFooterPartitionOK ==
    ASSUME IInv, ReadFooterPartition
    PROVE  IInv'
<1> DEFINE header == ReadPartition(0)
<1>1. /\ Reading /\ known' = known
      /\ rip' = rip \/ rip' = RIPAfterLocate(header)
      /\ last'.op = "Footer"
  BY DEF ReadFooterPartition
<1> HIDE DEF header
<1>2. RIPTrue(rip')
  BY <1>1, RIPIsTrue, LocateOK
<1>3. known \in {"unknown", "yes", "no"} /\ (Finished => known # "yes")
  BY DEF IInv, TypeOK
<1> QED BY <1>1, <1>2, <1>3, ReadNext

\* ReadMasterPartition.
LEMMA ReadMasterPartitionOK ==
    ASSUME IInv, ReadMasterPartition
    PROVE  IInv'
<1> DEFINE header == ReadPartition(0)
           pack == IF header = NoPack THEN NoPack ELSE MasterOf(header)
<1>1. /\ Reading /\ known' = known
      /\ rip' = rip \/ rip' = RIPAfterLocate(header)
      /\ last' = [op |-> "Master", pack |-> pack]
  BY DEF ReadMasterPartition
<1>2. pack # NoPack => pack.closed \/ (pack.kind = "footer" /\ pack.hdr # 0)
  BY DEF MasterOf
<1> HIDE DEF header, pack
<1>3. last'.op = "Master" /\ last'.pack = pack
  BY <1>1
<1>4. RIPTrue(rip')
  BY <1>1, RIPIsTrue, LocateOK
<1>5. known \in {"unknown", "yes", "no"} /\ (Finished => known # "yes")
  BY DEF IInv, TypeOK
<1> QED BY <1>1, <1>2, <1>3, <1>4, <1>5, ReadNext

-----------------------------------------------------------------------------
(***************************************************************************)
(* 6. ScanRIP.                                                             *)
(*                                                                         *)
(* What the recursive functions return.                                    *)
(***************************************************************************)
Results == [ok : BOOLEAN, rip : SUBSET Entry]

\* One round of ScanBack's loop, with g for those that are left.
BackFrom(g, p) ==
    LET pack == ReadPartition(p)
    IN IF pack = NoPack
         THEN IF p = 0 THEN [ok |-> FALSE, rip |-> {}]
              ELSE [g[0] EXCEPT !.ok = FALSE]
       ELSE IF p = 0 THEN [ok |-> TRUE, rip |-> Entries({0})]
       ELSE IF pack.prev >= p THEN [ok |-> FALSE, rip |-> Entries({p})]
       ELSE [g[pack.prev] EXCEPT !.rip = @ \cup Entries({p})]

\* One entry.
LEMMA OneEntry ==
    ASSUME IInv, NEW p \in Nat, ReadPartition(p) # NoPack
    PROVE  Entries({p}) \in SUBSET Entry
<1>1. ReadPartition(p).sid \in Nat
  <2>1. ReadPartition(p) \in Items
    BY ReadAny
  <2> QED BY <2>1 DEF Items
<1> QED BY <1>1 DEF Entries, Entry

\* ScanBack is defined: it gets to lower positions each time.
LEMMA ScanBackIs ==
    ASSUME IInv
    PROVE  ScanBack \in [Nat -> Results] /\ \A p \in Nat : ScanBack[p] = BackFrom(ScanBack, p)
<1> DEFINE none(p) == ReadPartition(p) = NoPack
           prev(p) == ReadPartition(p).prev
           stop == {p \in Nat : p = 0 \/ (~none(p) /\ prev(p) >= p)}
           base == [p \in Nat |-> IF none(p) THEN [ok |-> FALSE, rip |-> {}]
                                  ELSE [ok |-> p = 0, rip |-> Entries({p})]]
           next == [p \in Nat |-> IF none(p) THEN 0 ELSE prev(p)]
           upd == [p \in Nat |-> [v \in Results |->
                       IF none(p) THEN [v EXCEPT !.ok = FALSE]
                       ELSE [v EXCEPT !.rip = @ \cup Entries({p})]]]
           rank == [p \in Nat |-> p]
<1>1. ASSUME NEW p \in Nat, ~none(p)
      PROVE  prev(p) \in Nat /\ Entries({p}) \in SUBSET Entry
  <2>1. ReadPartition(p) \in Items
    BY <1>1, ReadAny
  <2> QED BY <1>1, <2>1, OneEntry DEF Items
<1>2. base \in [Nat -> Results]
  <2>1. ASSUME NEW p \in Nat PROVE base[p] \in Results
    <3>1. CASE none(p)
      BY <3>1 DEF Results
    <3>2. CASE ~none(p)
      <4> DEFINE r == Entries({p})
      <4>1. r \in SUBSET Entry
        BY <1>1, <3>2
      <4>2. base[p] = [ok |-> p = 0, rip |-> r]
        BY <3>2
      <4>3. (p = 0) \in BOOLEAN
        OBVIOUS
      <4> HIDE DEF r
      <4> QED BY <4>1, <4>2, <4>3 DEF Results
    <3> QED BY <3>1, <3>2
  <2> QED BY <2>1
<1>3. next \in [Nat -> Nat]
  BY <1>1
<1>4. upd \in [Nat -> [Results -> Results]]
  <2>1. ASSUME NEW p \in Nat, NEW v \in Results
        PROVE  (IF none(p) THEN [v EXCEPT !.ok = FALSE]
                ELSE [v EXCEPT !.rip = @ \cup Entries({p})]) \in Results
    <3>1. CASE none(p)
      BY <3>1 DEF Results
    <3>2. CASE ~none(p)
      <4> DEFINE r == Entries({p})
      <4>1. r \in SUBSET Entry
        BY <1>1, <3>2
      <4> HIDE DEF r, none
      <4>2. [v EXCEPT !.rip = @ \cup r] \in Results
        BY <4>1 DEF Results
      <4> QED BY <3>2, <4>2 DEF r
    <3> QED BY <3>1, <3>2
  <2> HIDE DEF none
  <2> QED BY <2>1
<1>5. rank \in [Nat -> Nat]
  OBVIOUS
<1>6. \A p \in Nat : p \notin stop => rank[next[p]] < rank[p]
  <2>1. TAKE p \in Nat
  <2>2. CASE none(p) /\ p # 0
    BY <2>2
  <2>3. CASE ~none(p) /\ ~(prev(p) >= p)
    <3> DEFINE q == prev(p)
    <3>1. q \in Nat /\ ~(q >= p)
      BY <1>1, <2>3
    <3>2. next[p] = q
      BY <2>3
    <3> HIDE DEF q, next
    <3> QED BY <3>1, <3>2
  <2> QED BY <2>2, <2>3
<1> HIDE DEF base, next, upd, rank, stop
<1>a. Falling(Results, stop, base, next, upd, rank)
  BY <1>2, <1>3, <1>4, <1>5, <1>6 DEF Falling
<1>b. PICK f : Solved(f, Results, stop, base, next, upd)
  BY <1>a, Recursive
<1>7. /\ f \in [Nat -> Results]
      /\ \A p \in Nat : f[p] = IF p \in stop THEN base[p] ELSE upd[p][f[next[p]]]
  BY <1>b DEF Solved
<1>8. ASSUME NEW p \in Nat PROVE f[p] = BackFrom(f, p)
  <2>1. CASE p = 0
    <3>1. f[p] = base[p]
      BY <1>7, <2>1 DEF stop
    <3> QED BY <2>1, <3>1 DEF base, BackFrom
  <2>2. CASE p # 0 /\ none(p)
    <3>1. f[p] = upd[p][f[0]]
      BY <1>7, <2>2 DEF stop, next
    <3>2. f[0] \in Results
      BY <1>7
    <3>3. f[p] = [f[0] EXCEPT !.ok = FALSE]
      BY <2>2, <3>1, <3>2 DEF upd
    <3> QED BY <2>2, <3>3 DEF BackFrom
  <2>3. CASE p # 0 /\ ~none(p) /\ prev(p) >= p
    <3>1. f[p] = base[p]
      BY <1>7, <2>3 DEF stop
    <3> QED BY <2>3, <3>1 DEF base, BackFrom
  <2>4. CASE p # 0 /\ ~none(p) /\ ~(prev(p) >= p)
    <3>1. f[p] = upd[p][f[prev(p)]]
      BY <1>7, <2>4 DEF stop, next
    <3>2. f[prev(p)] \in Results
      BY <1>1, <1>7, <2>4
    <3>3. f[p] = [f[prev(p)] EXCEPT !.rip = @ \cup Entries({p})]
      BY <2>4, <3>1, <3>2 DEF upd
    <3> QED BY <2>4, <3>3 DEF BackFrom
  <2> QED BY <2>1, <2>2, <2>3, <2>4
<1>9. f = [p \in Nat |-> BackFrom(f, p)]
  <2>1. f = [p \in Nat |-> f[p]]
    BY <1>7
  <2> QED BY <1>8, <2>1
<1>10. ScanBack = CHOOSE g : g = [p \in Nat |-> BackFrom(g, p)]
  BY Zenon DEF ScanBack, BackFrom
<1>11. ScanBack = [p \in Nat |-> BackFrom(ScanBack, p)]
  BY Zenon, <1>9, <1>10
<1>12. ASSUME NEW p \in Nat PROVE ScanBack[p] = BackFrom(ScanBack, p)
  BY <1>11
<1>13. \A p \in Nat : ScanBack[p] \in Results
  <2> DEFINE S == {p \in Nat : ScanBack[p] \notin Results}
  <2>1. ASSUME S # {} PROVE FALSE
    <3>1. PICK p \in S : \A k \in S : p <= k
      <4>1. S \in SUBSET Nat
        OBVIOUS
      <4> HIDE DEF S
      <4> QED BY <2>1, <4>1, Least
    <3>2. p \in Nat /\ ScanBack[p] \notin Results
      OBVIOUS
    <3>3. ASSUME NEW q \in Nat, q < p PROVE ScanBack[q] \in Results
      <4>1. q \notin S
        <5>1. ~(p <= q)
          BY <3>2, <3>3
        <5> HIDE DEF S
        <5> QED BY <3>1, <5>1
      <4> QED BY <4>1
    <3>4. CASE p \in stop \/ (p = 0 /\ none(p))
      <4>1. ScanBack[p] = base[p]
        BY <1>12, <3>2, <3>4 DEF BackFrom, stop, base
      <4> QED BY <1>2, <3>2, <4>1
    <3>5. CASE p # 0 /\ none(p)
      <4>1. ScanBack[p] = [ScanBack[0] EXCEPT !.ok = FALSE]
        BY <1>12, <3>2, <3>5 DEF BackFrom
      <4>2. ScanBack[0] \in Results
        BY <3>2, <3>3, <3>5
      <4> QED BY <3>2, <4>1, <4>2 DEF Results
    <3>6. CASE p # 0 /\ ~none(p) /\ ~(prev(p) >= p)
      <4> DEFINE r == Entries({p})
                 q == prev(p)
      <4>1. ScanBack[p] = [ScanBack[q] EXCEPT !.rip = @ \cup r]
        BY <1>12, <3>2, <3>6 DEF BackFrom
      <4>2. q \in Nat /\ ~(q >= p) /\ r \in SUBSET Entry
        BY <1>1, <3>2, <3>6
      <4> HIDE DEF q, r
      <4>3. ScanBack[q] \in Results
        BY <3>2, <3>3, <4>2
      <4> QED BY <3>2, <4>1, <4>2, <4>3 DEF Results
    <3> QED BY <3>2, <3>4, <3>5, <3>6 DEF stop
  <2> QED BY <2>1
<1>14. ScanBack \in [Nat -> Results]
  <2>1. ScanBack = [p \in Nat |-> ScanBack[p]]
    BY <1>11, <1>12
  <2> QED BY <1>13, <2>1
<1> QED BY <1>12, <1>14

\* The packs up to the one at i.
UpTo(i) == {At(j) : j \in {k \in PackItems(file) : k <= i}}

\* From a pack with its first value it gets to all before it.
LEMMA BackAll ==
    ASSUME IInv, NEW i \in PackItems(file), At(i) + 2 < size
    PROVE  ScanBack[At(i)].ok /\ ScanBack[At(i)].rip = Entries(UpTo(i))
<1> DEFINE Right(k) == ScanBack[At(k)].ok /\ ScanBack[At(k)].rip = Entries(UpTo(k))
           S == {k \in PackItems(file) : At(k) + 2 < size /\ ~Right(k)}
<1>1. ASSUME S # {} PROVE FALSE
  <2>1. PICK m \in S : \A k \in S : m <= k
    <3>1. S \in SUBSET Nat
      BY PresentIs
    <3> HIDE DEF S
    <3> QED BY <1>1, <3>1, Least
  <2>2. m \in PackItems(file) /\ At(m) + 2 < size /\ ~Right(m)
    OBVIOUS
  <2>3. /\ m \in Nat /\ m >= 1 /\ At(m) \in Nat /\ size \in Nat /\ At(m) = 4 * m - 4
        /\ Linked(file, m)
    BY <2>2, PresentIs, AtIs, Sizes DEF FileOK
  <2>4. At(m) < size
    BY <2>2, <2>3
  <2>5. ReadPartition(At(m)) # NoPack /\ ReadPartition(At(m)).prev = file[m].prev
    BY <2>2, <2>4, ReadAt
  <2>6. /\ ScanBack[At(m)] = BackFrom(ScanBack, At(m))
        /\ ScanBack \in [Nat -> Results]
    BY <2>3, ScanBackIs
  <2>7. CASE m = 1
    <3>1. At(m) = 0
      BY <2>3, <2>7
    <3>2. ScanBack[At(m)] = [ok |-> TRUE, rip |-> Entries({0})]
      BY <2>5, <2>6, <3>1 DEF BackFrom
    <3>3. UpTo(m) = {0}
      <4>1. \A k \in PackItems(file) : k <= m => k = 1
        BY <2>7, PresentIs
      <4> QED BY <2>2, <2>7, <3>1, <4>1 DEF UpTo
    <3>4. Right(m)
      BY <3>2, <3>3
    <3> QED BY <2>2, <3>4
  <2>8. CASE m # 1
    <3>1. PICK j \in PackItems(file) : /\ j < m /\ file[m].prev = At(j)
                                       /\ \A k \in PackItems(file) : k < m => k <= j
      BY <2>3, <2>8 DEF Linked
    <3>2. j \in Nat /\ j >= 1 /\ At(j) = 4 * j - 4 /\ At(j) \in Nat
      BY PresentIs, AtIs
    <3>3. At(j) + 2 < size /\ ~(At(j) >= At(m)) /\ At(m) # 0
      BY <2>2, <2>3, <3>1, <3>2
    <3>4. j \notin S
      <4>1. ~(m <= j)
        BY <2>3, <3>1, <3>2
      <4> HIDE DEF S
      <4> QED BY <2>1, <4>1
    <3>5. Right(j)
      BY <3>3, <3>4
    <3>6. ScanBack[At(m)] = [ScanBack[At(j)] EXCEPT !.rip = @ \cup Entries({At(m)})]
      BY <2>5, <2>6, <3>1, <3>3 DEF BackFrom
    <3>7. ScanBack[At(j)] \in Results
      BY <2>6, <3>2
    <3>8. ScanBack[At(m)].ok /\ ScanBack[At(m)].rip = Entries(UpTo(j)) \cup Entries({At(m)})
      BY <3>5, <3>6, <3>7 DEF Results
    <3>9. UpTo(m) = UpTo(j) \cup {At(m)}
      <4>1. ASSUME NEW k \in PackItems(file) PROVE k <= m <=> k <= j \/ k = m
        <5>1. k \in Nat
          BY PresentIs
        <5>2. k < m => k <= j
          BY <3>1
        <5> QED BY <2>3, <3>1, <3>2, <5>1, <5>2
      <4> QED BY <2>2, <4>1 DEF UpTo
    <3>10. Right(m)
      BY <3>8, <3>9, EntriesMore
    <3> QED BY <2>2, <3>10
  <2> QED BY <2>7, <2>8
<1> HIDE DEF Right
<1>2. i \notin S
  BY <1>1
<1>3. Right(i)
  BY <1>2
<1> QED BY <1>3 DEF Right

\* Where nothing can be read it fails.
LEMMA BackNone ==
    ASSUME IInv, NEW p \in Nat, ReadPartition(p) = NoPack
    PROVE  ~ScanBack[p].ok
<1>1. ScanBack[p] = BackFrom(ScanBack, p) /\ ScanBack[0] \in Results
  BY ScanBackIs
<1>2. CASE p = 0
  BY <1>1, <1>2 DEF BackFrom
<1>3. CASE p # 0
  <2>1. ScanBack[p] = [ScanBack[0] EXCEPT !.ok = FALSE]
    BY <1>1, <1>3 DEF BackFrom
  <2> QED BY <1>1, <2>1 DEF Results
<1> QED BY <1>2, <1>3

\* From a pack that is cut short it gets to the header.
LEMMA BackCut ==
    ASSUME IInv, NEW i \in PackItems(file), At(i) < size, ~(At(i) + 2 < size)
    PROVE  \E P \in SUBSET Present : ScanBack[At(i)].rip = Entries(P)
<1>1. i \in Nat /\ i >= 1 /\ At(i) \in Nat /\ At(i) = 4 * i - 4 /\ size \in Nat
  BY PresentIs, AtIs, Sizes
<1>2. ReadPartition(At(i)) # NoPack /\ ReadPartition(At(i)).prev = 0
  BY ReadAt
<1>3. ScanBack \in [Nat -> Results] /\ \A p \in Nat : ScanBack[p] = BackFrom(ScanBack, p)
  BY ScanBackIs
<1>4. HasKey(0)
  BY <1>1 DEF HasKey
<1>5. ReadPartition(0) # NoPack /\ 1 \in PackItems(file) /\ At(1) = 0
  BY <1>4, ReadHeader
<1>6. ScanBack[0] = [ok |-> TRUE, rip |-> Entries({0})]
  BY <1>3, <1>5 DEF BackFrom
<1>7. 0 \in Present
  BY <1>4, <1>5, PresentIs DEF HasKey
<1>8. CASE At(i) = 0
  <2>1. ScanBack[At(i)].rip = Entries({0})
    BY <1>6, <1>8
  <2> QED BY <1>7, <2>1
<1>9. CASE At(i) # 0
  <2>1. ScanBack[At(i)] = [ScanBack[0] EXCEPT !.rip = @ \cup Entries({At(i)})]
    <3> DEFINE p == At(i)
    <3>1. p \in Nat /\ p # 0 /\ ~(0 >= p)
      BY <1>1, <1>9
    <3>2. ReadPartition(p) # NoPack /\ ReadPartition(p).prev = 0
      BY <1>2
    <3> HIDE DEF p
    <3>3. ScanBack[p] = [ScanBack[0] EXCEPT !.rip = @ \cup Entries({p})]
      BY <1>3, <3>1, <3>2 DEF BackFrom
    <3> QED BY <3>3 DEF p
  <2>2. ScanBack[At(i)].rip = Entries({0}) \cup Entries({At(i)})
    BY <1>6, <2>1
  <2>3. ScanBack[At(i)].rip = Entries({0} \cup {At(i)})
    BY <2>2, EntriesMore
  <2>4. At(i) \in Present
    BY PresentIs
  <2>5. {0} \cup {At(i)} \in SUBSET Present
    BY <1>7, <2>4
  <2> QED BY <2>3, <2>5
<1> QED BY <1>8, <1>9

\* Where ScanRIP starts.
LEMMA FooterPositionIs ==
    ASSUME IInv, HasKey(0), FooterPosition(ReadPartition(0)) # 0
    PROVE  \E i \in DOMAIN file : file[i].kind = "footer" /\ FooterPosition(ReadPartition(0)) = At(i)
<1>1. CASE ReadPartition(0).foot # 0
  BY <1>1, FootIs DEF FooterPosition
<1>2. CASE ReadPartition(0).foot = 0
  <2> DEFINE found == {p \in FooterKeys : p >= size - MaxScan}
  <2>1. FooterPosition(ReadPartition(0)) = (IF found = {} THEN 0 ELSE Max(found))
    BY <1>2 DEF FooterPosition, FindFooter
  <2>2. found # {}
    BY <2>1
  <2>3. ASSUME NEW p \in found
        PROVE  \E i \in DOMAIN file : p = At(i) /\ p \in Nat /\ p < size /\ file[i].kind = "footer"
    <3>1. PICK i \in 1 .. Len(file) : p = At(i)
      BY DEF FooterKeys, ItemStarts
    <3>2. i \in DOMAIN file /\ i \in Nat /\ i >= 1
      BY Sizes
    <3> QED BY <3>1, <3>2, AtIs DEF FooterKeys, HasKey
  <2>4. found \in SUBSET (0 .. size)
    <3>1. size \in Nat
      BY Sizes
    <3>2. ASSUME NEW p \in found PROVE p \in 0 .. size
      <4>1. p \in Nat /\ p < size
        BY <2>3
      <4> QED BY <3>1, <4>1
    <3> HIDE DEF found
    <3> QED BY <3>2
  <2> HIDE DEF found
  <2>5. size \in Nat
    BY Sizes
  <2>6. Max(found) \in found
    BY <2>2, <2>4, <2>5, MaxIs
  <2> QED BY <2>1, <2>2, <2>3, <2>6
<1> QED BY <1>1, <1>2

(***************************************************************************)
(* If ScanRIP succeeds, what it has found is true, and all if the way back *)
(* from the footer starts at the right place.                              *)
(***************************************************************************)
LEMMA ScanRIPTrue ==
    ASSUME IInv, ScanRIP.ok
    PROVE  RIPTrue(ScanRIP.rip) /\ (LinkThere => Positions(ScanRIP.rip) = Present)
<1> DEFINE q == FooterPosition(ReadPartition(0))
<1>1. ReadPartition(0) # NoPack /\ q # 0 /\ ScanRIP = ScanBack[q]
  BY DEF ScanRIP
<1>2. HasKey(0)
  BY <1>1 DEF ReadPartition
<1>3. PICK i \in DOMAIN file : file[i].kind = "footer" /\ q = At(i)
  BY <1>1, <1>2, FooterPositionIs
<1> HIDE DEF q
<1>4. i \in PackItems(file) /\ i = Max(PackItems(file)) /\ i \in Nat /\ i >= 1
  BY <1>3, FooterIs
<1>5. At(i) \in Nat /\ ItemAt(At(i)) = file[i] /\ size \in Nat
  BY <1>4, AtIs, Sizes
<1>6. At(i) < size
  <2>1. ReadPartition(At(i)) # NoPack
    BY <1>1, <1>3, <1>5, BackNone
  <2> QED BY <2>1, <1>5, ReadAny DEF HasKey
<1>7. ASSUME NEW P \in SUBSET Present, ScanBack[At(i)].rip = Entries(P)
      PROVE  RIPTrue(ScanRIP.rip) /\ Positions(ScanRIP.rip) = P
  <2>1. ScanRIP.rip = Entries(P)
    BY <1>1, <1>3, <1>7
  <2> QED BY <2>1, EntriesTrue DEF RIPTrue
<1>8. CASE At(i) + 2 < size
  <2>1. ScanBack[At(i)].rip = Entries(UpTo(i))
    BY <1>4, <1>8, BackAll
  <2>2. UpTo(i) = Present
    <3>1. ASSUME NEW k \in PackItems(file) PROVE k <= i /\ At(k) < size
      <4>1. file # << >> /\ FileOK(file)
        BY <1>2, ReadHeader, Sizes
      <4>2. k <= i
        BY <1>4, <4>1, LastPackIs
      <4>3. k \in Nat
        BY PresentIs
      <4>4. At(k) <= At(i) /\ At(k) \in Int
        BY <1>4, <4>2, <4>3, AtOrder
      <4> QED BY <1>5, <1>6, <4>2, <4>4
    <3> QED BY <3>1 DEF UpTo, Present
  <2> QED BY <1>7, <2>1, <2>2
<1>9. CASE ~(At(i) + 2 < size)
  <2>1. PICK P \in SUBSET Present : ScanBack[At(i)].rip = Entries(P)
    BY <1>4, <1>6, <1>9, BackCut
  <2>2. ~LinkThere
    <3>1. FooterKeys = {At(i)}
      <4>1. At(i) \in FooterKeys
        <5>1. i \in 1 .. Len(file)
          BY Sizes
        <5> QED BY <1>3, <1>5, <1>6, <5>1 DEF FooterKeys, ItemStarts, HasKey
      <4>2. ASSUME NEW p \in FooterKeys PROVE p = At(i)
        <5>1. PICK j \in 1 .. Len(file) : p = At(j) /\ ItemAt(p).kind = "footer"
          BY DEF FooterKeys, ItemStarts
        <5>2. j \in Nat /\ j >= 1 /\ j \in DOMAIN file
          BY Sizes
        <5>3. file[j].kind = "footer"
          BY <5>1, <5>2, AtIs
        <5>4. j = i
          BY <1>4, <5>2, <5>3, FooterIs
        <5> QED BY <5>1, <5>4
      <4> QED BY <4>1, <4>2
    <3>2. Max(FooterKeys) = At(i)
      <4>1. {At(i)} \in SUBSET (0 .. At(i)) /\ {At(i)} # {}
        BY <1>5
      <4>2. Max({At(i)}) \in {At(i)}
        BY <1>5, <4>1, MaxIs
      <4> QED BY <3>1, <4>2
    <3> QED BY <1>9, <3>1, <3>2 DEF LinkThere
  <2> QED BY <1>7, <2>1, <2>2
<1> QED BY <1>8, <1>9

-----------------------------------------------------------------------------
(***************************************************************************)
(* 7. BuildRIP.                                                            *)
(*                                                                         *)
(* One item of Walk, with g for those behind it.                           *)
(***************************************************************************)
WalkFrom(g, p) ==
    LET pack == ReadPartition(p)
        added(from) == [g[from] EXCEPT !.rip = @ \cup Entries({p})]
    IN IF ~HasKey(p) THEN [ok |-> TRUE, rip |-> {}]
       ELSE IF pack # NoPack
         THEN IF pack.hdr + pack.idx = 0 THEN added(EndOf(p))
              ELSE IF ~HasKey(EndOf(p)) THEN [ok |-> FALSE, rip |-> Entries({p})]
              ELSE added(SkipCounts(p))
       ELSE IF ~HasLength(p) THEN [ok |-> FALSE, rip |-> {}]
       ELSE g[p + U]

\* Where it goes on.
GoesOn(p) ==
    LET pack == ReadPartition(p)
    IN IF pack # NoPack
         THEN IF pack.hdr + pack.idx = 0 THEN EndOf(p) ELSE SkipCounts(p)
       ELSE p + U

\* And where it does not.
Ends(p) ==
    \/ ~HasKey(p)
    \/ /\ ReadPartition(p) # NoPack /\ ReadPartition(p).hdr + ReadPartition(p).idx # 0
       /\ ~HasKey(EndOf(p))
    \/ ReadPartition(p) = NoPack /\ ~HasLength(p)

\* It goes on further behind.
LEMMA GoesOnIs ==
    ASSUME IInv, NEW p \in Nat, HasKey(p)
    PROVE  GoesOn(p) \in Nat /\ GoesOn(p) > p
<1> DEFINE pack == ReadPartition(p)
<1>1. size \in Nat /\ p < size
  BY Sizes DEF HasKey
<1>2. ASSUME NEW q \in Nat
      PROVE  EndOf(q) \in Nat /\ (q < size => EndOf(q) > q) /\ (q >= size => EndOf(q) = size)
  BY <1>1 DEF EndOf, U
<1>3. EndOf(p) \in Nat /\ EndOf(p) > p
  BY <1>1, <1>2
<1>4. ASSUME pack # NoPack
      PROVE  SkipCounts(p) \in Nat /\ SkipCounts(p) > p
  <2>1. pack \in Items
    BY <1>4, ReadAny
  <2>2. pack.hdr \in Nat /\ pack.idx \in Nat
    BY <2>1 DEF Items
  <2>3. EndOf(EndOf(p)) \in Nat /\ EndOf(EndOf(p)) > p
    <3> DEFINE q == EndOf(p)
    <3>1. EndOf(q) \in Nat /\ (q < size => EndOf(q) > q) /\ (q >= size => EndOf(q) = size)
          /\ q \in Nat /\ q > p
      BY <1>2, <1>3
    <3> HIDE DEF q
    <3>2. EndOf(q) \in Nat /\ EndOf(q) > p
      BY <1>1, <3>1
    <3> QED BY <3>2 DEF q
  <2> DEFINE start == IF ItemAt(EndOf(p)).kind = "fill" THEN EndOf(EndOf(p)) ELSE EndOf(p)
             skip == pack.hdr + pack.idx
  <2>4. start \in Nat /\ start > p /\ skip \in Nat
    BY <1>3, <2>2, <2>3
  <2>5. SkipCounts(p) = IF HasKey(start + pack.hdr + pack.idx)
                          THEN start + pack.hdr + pack.idx ELSE start
    BY DEF SkipCounts
  <2> HIDE DEF start
  <2> QED BY <2>2, <2>4, <2>5
<1>5. p + U \in Nat /\ p + U > p
  BY DEF U
<1> QED BY <1>3, <1>4, <1>5 DEF GoesOn

\* Walk is defined: it gets to higher positions each time.
LEMMA WalkIs ==
    ASSUME IInv
    PROVE  Walk \in [Nat -> Results] /\ \A p \in Nat : Walk[p] = WalkFrom(Walk, p)
<1> DEFINE none(p) == ReadPartition(p) = NoPack
           stop == {p \in Nat : Ends(p)}
           base == [p \in Nat |->
                      IF ~HasKey(p) THEN [ok |-> TRUE, rip |-> {}]
                      ELSE IF none(p) THEN [ok |-> FALSE, rip |-> {}]
                      ELSE [ok |-> FALSE, rip |-> Entries({p})]]
           next == [p \in Nat |-> IF HasKey(p) THEN GoesOn(p) ELSE 0]
           upd == [p \in Nat |-> [v \in Results |->
                       IF none(p) THEN v ELSE [v EXCEPT !.rip = @ \cup Entries({p})]]]
           rank == [p \in Nat |-> IF p < size THEN size - p ELSE 0]
<1>1. ASSUME NEW p \in Nat, ~none(p)
      PROVE  Entries({p}) \in SUBSET Entry
  BY <1>1, OneEntry
<1>2. base \in [Nat -> Results]
  <2>1. ASSUME NEW p \in Nat PROVE base[p] \in Results
    <3>1. CASE ~HasKey(p) \/ none(p)
      BY <3>1 DEF Results
    <3>2. CASE HasKey(p) /\ ~none(p)
      <4> DEFINE r == Entries({p})
      <4>1. r \in SUBSET Entry
        BY <1>1, <3>2
      <4>2. base[p] = [ok |-> FALSE, rip |-> r]
        BY <3>2
      <4> HIDE DEF r
      <4> QED BY <4>1, <4>2 DEF Results
    <3> QED BY <3>1, <3>2
  <2> QED BY <2>1
<1>3. next \in [Nat -> Nat]
  BY GoesOnIs
<1>4. ASSUME NEW p \in Nat, ~none(p), NEW v \in Results
      PROVE  [v EXCEPT !.rip = @ \cup Entries({p})] \in Results
  <2> DEFINE r == Entries({p})
  <2>1. r \in SUBSET Entry
    BY <1>1, <1>4
  <2> HIDE DEF r
  <2>2. [v EXCEPT !.rip = @ \cup r] \in Results
    BY <2>1 DEF Results
  <2> QED BY <2>2 DEF r
<1>5. upd \in [Nat -> [Results -> Results]]
  <2>1. ASSUME NEW p \in Nat, NEW v \in Results
        PROVE  (IF none(p) THEN v ELSE [v EXCEPT !.rip = @ \cup Entries({p})]) \in Results
    BY <1>4
  <2> HIDE DEF none
  <2> QED BY <2>1
<1>6. rank \in [Nat -> Nat] /\ size \in Nat
  BY Sizes
<1>7. ASSUME NEW p \in Nat, HasKey(p)
      PROVE  next[p] = GoesOn(p) /\ next[p] \in Nat /\ next[p] > p /\ rank[next[p]] < rank[p]
  <2> DEFINE q == next[p]
  <2>1. q = GoesOn(p) /\ q \in Nat /\ q > p
    BY <1>7, GoesOnIs
  <2>2. p < size
    BY <1>7 DEF HasKey
  <2> HIDE DEF q
  <2>3. rank[q] < rank[p]
    BY <1>6, <2>1, <2>2
  <2> QED BY <2>1, <2>3 DEF q
<1>8. \A p \in Nat : p \notin stop => HasKey(p)
  BY DEF Ends
<1>9. \A p \in Nat : p \notin stop => rank[next[p]] < rank[p]
  BY <1>7, <1>8
<1> HIDE DEF base, next, upd, rank, stop
<1>10. Falling(Results, stop, base, next, upd, rank)
  BY <1>2, <1>3, <1>5, <1>6, <1>9 DEF Falling
<1>11. PICK f : Solved(f, Results, stop, base, next, upd)
  BY <1>10, Recursive
<1>12. /\ f \in [Nat -> Results]
       /\ \A p \in Nat : f[p] = IF p \in stop THEN base[p] ELSE upd[p][f[next[p]]]
  BY <1>11 DEF Solved
<1>13. ASSUME NEW g, NEW p \in Nat
       PROVE  WalkFrom(g, p) = IF Ends(p) THEN base[p]
                               ELSE IF none(p) THEN g[GoesOn(p)]
                               ELSE [g[GoesOn(p)] EXCEPT !.rip = @ \cup Entries({p})]
  <2>1. none(p) \/ HasKey(p)
    BY DEF ReadPartition
  <2>2. CASE ~HasKey(p)
    BY <2>2 DEF WalkFrom, Ends, base
  <2>3. CASE HasKey(p) /\ none(p)
    BY <2>3 DEF WalkFrom, Ends, base, GoesOn
  <2>4. CASE HasKey(p) /\ ~none(p)
    BY <2>4 DEF WalkFrom, Ends, base, GoesOn
  <2> QED BY <2>1, <2>2, <2>3, <2>4
<1>14. ASSUME NEW p \in Nat PROVE f[p] = WalkFrom(f, p)
  <2>1. CASE Ends(p)
    <3>1. f[p] = base[p]
      BY <1>12, <2>1 DEF stop
    <3> QED BY <1>13, <2>1, <3>1
  <2>2. CASE ~Ends(p)
    <3>1. f[p] = upd[p][f[next[p]]]
      BY <1>12, <2>2 DEF stop
    <3>2. HasKey(p)
      BY <2>2 DEF Ends
    <3>3. next[p] = GoesOn(p) /\ next[p] \in Nat
      BY <1>7, <3>2
    <3>4. f[GoesOn(p)] \in Results
      BY <1>12, <3>3
    <3>5. f[p] = IF none(p) THEN f[GoesOn(p)]
                 ELSE [f[GoesOn(p)] EXCEPT !.rip = @ \cup Entries({p})]
      BY <3>1, <3>3, <3>4 DEF upd
    <3> QED BY <1>13, <2>2, <3>5
  <2> QED BY <2>1, <2>2
<1>15. f = [p \in Nat |-> WalkFrom(f, p)]
  <2>1. f = [p \in Nat |-> f[p]]
    BY <1>12
  <2> QED BY <1>14, <2>1
<1>16. Walk = CHOOSE g : g = [p \in Nat |-> WalkFrom(g, p)]
  BY Zenon DEF Walk, WalkFrom
<1>17. Walk = [p \in Nat |-> WalkFrom(Walk, p)]
  BY Zenon, <1>15, <1>16
<1>18. ASSUME NEW p \in Nat PROVE Walk[p] = WalkFrom(Walk, p)
  BY <1>17
<1>19. \A p \in Nat : Walk[p] \in Results
  <2> DEFINE B == {p \in Nat : Walk[p] \notin Results}
             S == {rank[p] : p \in B}
  <2>1. ASSUME NEW b \in B PROVE FALSE
    <3>1. PICK m \in S : \A k \in S : m <= k
      <4>1. S \in SUBSET Nat
        BY <1>6
      <4>2. rank[b] \in S
        OBVIOUS
      <4>3. S # {}
        BY <4>2
      <4> HIDE DEF S
      <4> QED BY <4>1, <4>3, Least
    <3>2. PICK p \in B : m = rank[p]
      BY <3>1
    <3>3. p \in Nat /\ Walk[p] \notin Results
      OBVIOUS
    <3>4. CASE Ends(p)
      BY <1>2, <1>13, <1>18, <3>3, <3>4
    <3>5. CASE ~Ends(p)
      <4> DEFINE q == GoesOn(p)
      <4>1. HasKey(p)
        BY <3>5 DEF Ends
      <4>2. q \in Nat /\ rank[q] < rank[p] /\ rank[q] \in Nat /\ rank[p] \in Nat
        BY <1>6, <1>7, <3>3, <4>1
      <4>3. Walk[q] \in Results
        <5>1. ASSUME q \in B PROVE FALSE
          <6>1. rank[q] \in S
            BY <5>1
          <6>2. rank[p] <= rank[q]
            BY <3>1, <3>2, <6>1
          <6> QED BY <4>2, <6>2
        <5> QED BY <4>2, <5>1
      <4>4. Walk[p] = IF none(p) THEN Walk[q]
                      ELSE [Walk[q] EXCEPT !.rip = @ \cup Entries({p})]
        BY <1>13, <1>18, <3>3, <3>5
      <4> HIDE DEF q
      <4> QED BY <1>4, <3>3, <4>3, <4>4
    <3> QED BY <3>4, <3>5
  <2> QED BY <2>1
<1>20. Walk \in [Nat -> Results]
  <2>1. Walk = [p \in Nat |-> Walk[p]]
    BY <1>17, <1>18
  <2> QED BY <1>19, <2>1
<1> QED BY <1>18, <1>20

\* The packs from p on.
From(p) == {q \in Present : q >= p}

\* Where there is no pack in between, at most the first one gets lost.
LEMMA Between ==
    ASSUME IInv, NEW i \in DOMAIN file, At(i) < size, NEW n \in Nat, n > i,
           \A k \in i + 1 .. n - 1 : file[k].kind \notin Packs,
           NEW q \in Nat, At(i) < q, q <= At(n)
    PROVE  From(At(i)) = From(q) \cup (IF file[i].kind \in Packs THEN {At(i)} ELSE {})
<1>1. i \in Nat /\ i >= 1 /\ At(i) \in Nat /\ At(n) \in Nat
  <2>1. i \in Nat /\ i >= 1 /\ n >= 1
    BY Sizes
  <2> QED BY <2>1, AtIs
<1>2. ASSUME NEW r \in From(At(i)), r # At(i) PROVE r \in From(q)
  <2>1. PICK k \in PackItems(file) : r = At(k)
    BY PresentIs DEF From
  <2>2. k \in Nat /\ file[k].kind \in Packs /\ At(k) >= At(i) /\ At(k) # At(i)
    BY <1>2, <2>1, PresentIs DEF From, PackItems
  <2>3. At(k) \in Int
    BY <2>2, AtOrder
  <2>4. i < k
    <3>1. At(i) < At(k)
      BY <1>1, <2>2, <2>3
    <3> QED BY <1>1, <2>2, <3>1, AtOrder
  <2>5. ~(k < n)
    <3>1. ASSUME k < n PROVE FALSE
      <4>1. k \in i + 1 .. n - 1
        BY <1>1, <2>2, <2>4, <3>1
      <4> QED BY <2>2, <4>1
    <3> QED BY <3>1
  <2>6. At(n) <= At(k)
    <3>1. n <= k
      BY <2>2, <2>5
    <3> QED BY <2>2, <3>1, AtOrder
  <2>7. r >= q
    BY <1>1, <2>1, <2>3, <2>6
  <2> QED BY <1>2, <2>7 DEF From
<1>3. ASSUME NEW r \in From(q) PROVE r \in From(At(i))
  <2>1. r \in Nat /\ r >= q /\ r \in Present
    BY PresentIs DEF From
  <2>2. r >= At(i)
    BY <1>1, <2>1
  <2> QED BY <2>1, <2>2 DEF From
<1>4. CASE file[i].kind \in Packs
  <2>1. At(i) \in Present
    <3>1. i \in PackItems(file)
      BY <1>4 DEF PackItems
    <3> QED BY <3>1, PresentIs
  <2>2. At(i) \in From(At(i))
    BY <1>1, <2>1 DEF From
  <2> QED BY <1>2, <1>3, <1>4, <2>2
<1>5. CASE file[i].kind \notin Packs
  <2>1. At(i) \notin Present
    <3>1. ASSUME At(i) \in Present PROVE FALSE
      <4>1. PICK k \in PackItems(file) : At(i) = At(k)
        BY <3>1, PresentIs
      <4>2. k \in Nat
        BY PresentIs
      <4>3. k = i
        BY <1>1, <4>1, <4>2, AtOrder
      <4> QED BY <1>5, <4>3 DEF PackItems
    <3> QED BY <3>1
  <2> QED BY <1>2, <1>3, <1>5, <2>1 DEF From
<1> QED BY <1>4, <1>5

\* The end of the read of an item, if there is more.
LEMMA EndOfIs ==
    ASSUME IInv, NEW i \in Nat, i >= 1, At(i) < size
    PROVE  /\ EndOf(At(i)) \in Nat /\ At(i) < EndOf(At(i)) /\ EndOf(At(i)) <= At(i + 1)
           /\ EndOf(At(i)) = At(i + 1) \/ EndOf(At(i)) = size
           /\ HasKey(EndOf(At(i))) <=> At(i + 1) < size
           /\ HasKey(EndOf(At(i))) => EndOf(At(i)) = At(i + 1)
<1>1. size \in Nat /\ At(i) \in Nat /\ At(i) + 4 = At(i + 1)
  BY Sizes, AtIs DEF U
<1>2. EndOf(At(i)) = IF At(i) + 4 < size THEN At(i) + 4 ELSE size
  BY DEF EndOf, U
<1> DEFINE p == At(i)
           n == At(i + 1)
           x == EndOf(p)
<1>3. n \in Nat /\ n = p + 4 /\ p \in Nat /\ x = IF n < size THEN n ELSE size
  BY <1>1, <1>2
<1>4. HasKey(x) <=> x < size
  BY DEF HasKey
<1>5. p < size
  OBVIOUS
<1> HIDE DEF p, n, x
<1>6. /\ x \in Nat /\ p < x /\ x <= n /\ (x = n \/ x = size)
      /\ HasKey(x) <=> n < size
      /\ HasKey(x) => x = n
  BY <1>1, <1>3, <1>4, <1>5
<1> QED BY <1>6 DEF p, n, x

\* Walk goes on with an item, or at the end of the file, and has not passed a pack.
LEMMA Onward ==
    ASSUME IInv, NEW i \in DOMAIN file, At(i) < size, ~Ends(At(i))
    PROVE  LET q == GoesOn(At(i)) IN
           /\ q \in Nat /\ At(i) < q
           /\ q >= size \/ \E n \in DOMAIN file : q = At(n)
           /\ From(At(i)) = From(q) \cup (IF file[i].kind \in Packs THEN {At(i)} ELSE {})
<1> DEFINE p == At(i)
           q == GoesOn(p)
           pack == ReadPartition(p)
<1>1. /\ i \in Nat /\ i >= 1 /\ p \in Nat /\ ItemAt(p) = file[i] /\ p + 4 = At(i + 1)
      /\ size \in Nat /\ Len(file) \in Nat /\ DOMAIN file = 1 .. Len(file)
      /\ size <= 4 * Len(file) /\ HasKey(p)
  <2>1. i \in Nat /\ i >= 1
    BY Sizes
  <2> QED BY <2>1, Sizes, AtIs DEF U, HasKey
<1>2. ASSUME NEW n \in Nat, At(n) < size, n >= 1 PROVE n \in DOMAIN file
  <2>1. At(n) = 4 * n - 4
    BY <1>2, AtIs
  <2> QED BY <1>1, <1>2, <2>1
<1>3. ASSUME NEW n \in Nat, n > i, q = At(n) \/ q = size, q <= At(n), q \in Nat, p < q,
             \A k \in i + 1 .. n - 1 : file[k].kind \notin Packs
      PROVE  /\ q \in Nat /\ At(i) < q
             /\ q >= size \/ \E m \in DOMAIN file : q = At(m)
             /\ From(At(i)) = From(q) \cup (IF file[i].kind \in Packs THEN {At(i)} ELSE {})
  <2>1. n >= 1
    BY <1>1, <1>3
  <2>2. q >= size \/ \E m \in DOMAIN file : q = At(m)
    <3>1. CASE q = size
      BY <1>1, <3>1
    <3>2. CASE q = At(n) /\ At(n) < size
      BY <1>2, <2>1, <3>2
    <3>3. CASE q = At(n) /\ ~(At(n) < size)
      <4>1. q >= size
        BY <1>1, <1>3, <3>3
      <4> QED BY <4>1
    <3> QED BY <1>3, <3>1, <3>2, <3>3
  <2> HIDE DEF q
  <2> QED BY <1>3, <2>2, Between
<1>4. i + 1 \in Nat /\ i + 1 > i /\ \A k \in i + 1 .. (i + 1) - 1 : FALSE
  BY <1>1
<1>5. /\ EndOf(p) \in Nat /\ p < EndOf(p) /\ EndOf(p) <= At(i + 1)
      /\ EndOf(p) = At(i + 1) \/ EndOf(p) = size
      /\ HasKey(EndOf(p)) <=> At(i + 1) < size
      /\ HasKey(EndOf(p)) => EndOf(p) = At(i + 1)
  BY <1>1, EndOfIs
<1>6. CASE pack = NoPack
  <2>1. q = At(i + 1) /\ q \in Nat /\ p < q /\ q <= At(i + 1)
    <3>1. q = p + 4
      BY <1>6 DEF GoesOn, U
    <3> QED BY <1>1, <3>1
  <2> QED BY <1>3, <1>4, <2>1
<1>7. CASE pack # NoPack /\ pack.hdr + pack.idx = 0
  <2>1. q = EndOf(p)
    BY <1>7 DEF GoesOn
  <2> QED BY <1>3, <1>4, <1>5, <2>1
<1>8. CASE pack # NoPack /\ pack.hdr + pack.idx # 0
  <2>1. q = SkipCounts(p)
    BY <1>8 DEF GoesOn
  <2>2. HasKey(EndOf(p))
    BY <1>8 DEF Ends
  <2>3. EndOf(p) = At(i + 1) /\ At(i + 1) < size
    BY <1>5, <2>2
  <2>4. i \in PackItems(file)
    <3>1. file[i].kind \in Packs
      BY <1>1, <1>8, ReadAny
    <3> QED BY <3>1 DEF PackItems
  <2>5. p + 3 < size
    BY <1>1, <2>3
  <2>6. pack.hdr = file[i].hdr /\ pack.idx = file[i].idx
    BY <2>4, <2>5, ReadAt
  <2>7. Counted(file, i)
    BY <2>4, Sizes DEF FileOK
  <2> DEFINE a == After(file, i)
             b == Behind(file, i)
             start == IF ItemAt(EndOf(p)).kind = "fill" THEN EndOf(EndOf(p)) ELSE EndOf(p)
             hdr == file[i].hdr
             idx == file[i].idx
  <2>8. /\ hdr \in {0, 4} /\ idx \in {0, 4} /\ b <= Len(file) + 1
        /\ \A k \in i + 1 .. b - 1 : file[k].kind \in Inner
    BY <2>7 DEF Counted, U
  <2>9. i + 1 \in DOMAIN file /\ ItemAt(At(i + 1)) = file[i + 1]
    <3>1. i + 1 >= 1
      BY <1>1
    <3> QED BY <1>2, <1>4, <2>3, <3>1, AtIs
  <2>10. a = (IF file[i + 1].kind = "fill" THEN i + 2 ELSE i + 1)
    BY <2>9 DEF After
  <2>11. b = a + (IF hdr = 0 THEN 0 ELSE 1) + (IF idx = 0 THEN 0 ELSE 1)
    BY DEF Behind, Count
  <2>12. a \in Nat /\ a > i /\ b \in Nat /\ b >= a
    BY <1>1, <2>10, <2>11
  <2>13. /\ start \in Nat /\ p < start /\ start <= At(a)
         /\ start = At(a) \/ start = size
    <3>1. CASE file[i + 1].kind = "fill"
      <4>1. start = EndOf(At(i + 1))
        BY <2>3, <2>9, <3>1
      <4>2. i + 1 >= 1 /\ a = (i + 1) + 1
        BY <1>1, <2>10, <3>1
      <4>3. /\ start \in Nat /\ At(i + 1) < start /\ start <= At(a)
            /\ start = At(a) \/ start = size
        BY <1>4, <2>3, <4>1, <4>2, EndOfIs
      <4> HIDE DEF start, a
      <4> QED BY <1>1, <4>3
    <3>2. CASE file[i + 1].kind # "fill"
      <4>1. start = At(i + 1) /\ a = i + 1
        BY <2>3, <2>9, <2>10, <3>2
      <4>2. At(i + 1) \in Nat /\ p < At(i + 1)
        BY <1>1
      <4> HIDE DEF start, a
      <4> QED BY <4>1, <4>2
    <3> QED BY <3>1, <3>2
  <2>14. q = IF HasKey(start + hdr + idx) THEN start + hdr + idx ELSE start
    BY <2>1, <2>6 DEF SkipCounts
  <2> HIDE DEF start, q, hdr, idx, a, b
  <2>15. CASE ~HasKey(start + hdr + idx)
    <3>1. q = start
      BY <2>14, <2>15
    <3>2. \A k \in i + 1 .. a - 1 : file[k].kind \notin Packs
      <4>1. ASSUME NEW k \in i + 1 .. a - 1 PROVE file[k].kind \notin Packs
        <5>1. k \in i + 1 .. b - 1
          BY <1>1, <2>12
        <5> QED BY <2>8, <5>1 DEF Inner, Packs
      <4> QED BY <4>1
    <3>3. /\ a \in Nat /\ a > i /\ (q = At(a) \/ q = size) /\ q <= At(a)
          /\ q \in Nat /\ p < q
      BY <2>12, <2>13, <3>1
    <3> QED BY <1>3, <3>2, <3>3 DEF q
  <2>16. CASE HasKey(start + hdr + idx)
    <3>1. start + hdr + idx < size
      BY <2>16 DEF HasKey
    <3>2. start = At(a)
      BY <1>1, <2>8, <2>13, <3>1
    <3>3. q = start + hdr + idx
      BY <2>14, <2>16
    <3>4. q = At(b)
      <4>1. At(a) = 4 * a - 4 /\ At(b) = 4 * b - 4
        <5>1. a >= 1 /\ b >= 1
          BY <1>1, <2>12
        <5> QED BY <2>12, <5>1, AtIs
      <4> QED BY <2>8, <2>11, <2>12, <3>2, <3>3, <4>1
    <3>5. q \in Nat /\ p < q
      BY <1>1, <2>8, <2>13, <3>3
    <3>6. b > i /\ q <= At(b)
      BY <1>1, <2>12, <3>4, <3>5
    <3>7. \A k \in i + 1 .. b - 1 : file[k].kind \notin Packs
      BY <2>8 DEF Inner, Packs
    <3>8. /\ b \in Nat /\ b > i /\ (q = At(b) \/ q = size) /\ q <= At(b)
          /\ q \in Nat /\ p < q
      BY <2>12, <3>4, <3>5, <3>6
    <3> QED BY <1>3, <3>7, <3>8 DEF q
  <2> QED BY <2>15, <2>16 DEF q
<1> QED BY <1>6, <1>7, <1>8

(***************************************************************************)
(* From wherever an item starts, Walk finds the packs that are there.      *)
(***************************************************************************)
LEMMA WalkFinds ==
    ASSUME IInv, NEW j \in DOMAIN file, At(j) < size
    PROVE  Walk[At(j)].rip = Entries(From(At(j)))
<1> DEFINE S == {size - At(i) : i \in {k \in DOMAIN file :
                    At(k) < size /\ Walk[At(k)].rip # Entries(From(At(k)))}}
<1>1. size \in Nat /\ Walk \in [Nat -> Results] /\ \A p \in Nat : Walk[p] = WalkFrom(Walk, p)
  BY Sizes, WalkIs
<1>2. ASSUME NEW i \in DOMAIN file
      PROVE  i \in Nat /\ i >= 1 /\ At(i) \in Nat /\ ItemAt(At(i)) = file[i]
             /\ At(i) + U = At(i + 1)
  <2>1. i \in Nat /\ i >= 1
    BY Sizes
  <2> QED BY <2>1, AtIs
<1>3. ASSUME NEW p \in Nat, p >= size
      PROVE  Walk[p].rip = Entries(From(p)) /\ From(p) = {}
  <2>1. ~HasKey(p)
    BY <1>1, <1>3 DEF HasKey
  <2>2. Walk[p] = [ok |-> TRUE, rip |-> {}]
    BY <1>1, <2>1 DEF WalkFrom
  <2>3. From(p) = {}
    <3>1. ASSUME NEW r \in From(p) PROVE FALSE
      <4>1. r \in Nat /\ r < size /\ r >= p
        BY PresentIs DEF From
      <4> QED BY <1>1, <1>3, <4>1
    <3> QED BY <3>1
  <2> QED BY <2>2, <2>3 DEF Entries
<1>4. ASSUME S # {} PROVE FALSE
  <2>1. S \in SUBSET Nat
    <3>1. ASSUME NEW i \in DOMAIN file, At(i) < size PROVE size - At(i) \in Nat
      BY <1>1, <1>2, <3>1
    <3> QED BY <3>1
  <2>2. PICK m \in S : \A k \in S : m <= k
    <3> HIDE DEF S
    <3> QED BY <1>4, <2>1, Least
  <2>3. PICK i \in DOMAIN file : /\ m = size - At(i) /\ At(i) < size
                                 /\ Walk[At(i)].rip # Entries(From(At(i)))
    BY <2>2
  <2> DEFINE p == At(i)
             q == GoesOn(p)
             pack == ReadPartition(p)
  <2>4. /\ i \in Nat /\ i >= 1 /\ p \in Nat /\ ItemAt(p) = file[i] /\ p < size
        /\ HasKey(p) /\ p + U = At(i + 1) /\ Walk[p] = WalkFrom(Walk, p)
    BY <1>1, <1>2, <2>3 DEF HasKey
  <2>5. pack = NoPack <=> file[i].kind \notin Packs
    BY <2>4, ReadAny
  <2>6. ASSUME NEW x \in Nat, p < x, x >= size \/ \E n \in DOMAIN file : x = At(n)
        PROVE  Walk[x].rip = Entries(From(x))
    <3>1. CASE x >= size
      BY <1>3, <3>1
    <3>2. CASE ~(x >= size)
      <4>1. PICK n \in DOMAIN file : x = At(n)
        BY <2>6, <3>2
      <4>2. x < size
        BY <1>1, <3>2
      <4>3. size - x \in Nat /\ ~(size - p <= size - x)
        BY <1>1, <2>4, <2>6, <4>2
      <4>4. ASSUME Walk[x].rip # Entries(From(x)) PROVE FALSE
        <5>1. size - x \in S
          BY <4>1, <4>2, <4>4
        <5>2. size - p <= size - x
          BY <2>2, <2>3, <5>1
        <5> QED BY <4>3, <5>2
      <4> QED BY <4>4
    <3> QED BY <3>1, <3>2
  <2>7. CASE ~Ends(p)
    <3>1. /\ q \in Nat /\ p < q
          /\ q >= size \/ \E n \in DOMAIN file : q = At(n)
          /\ From(p) = From(q) \cup (IF file[i].kind \in Packs THEN {p} ELSE {})
      BY <2>3, <2>7, Onward
    <3>2. Walk[q].rip = Entries(From(q)) /\ Walk[q] \in Results
      BY <1>1, <2>6, <3>1
    <3>3. CASE pack = NoPack
      <4>1. Walk[p] = Walk[q]
        BY <2>4, <2>7, <3>3 DEF WalkFrom, Ends, GoesOn
      <4>2. From(p) = From(q)
        BY <2>5, <3>1, <3>3
      <4> QED BY <2>3, <3>2, <4>1, <4>2
    <3>4. CASE pack # NoPack
      <4>1. Walk[p] = [Walk[q] EXCEPT !.rip = @ \cup Entries({p})]
        BY <2>4, <2>7, <3>4 DEF WalkFrom, Ends, GoesOn
      <4>2. Walk[p].rip = Walk[q].rip \cup Entries({p})
        <5> HIDE DEF p, q
        <5> QED BY <3>2, <4>1 DEF Results
      <4>3. Walk[p].rip = Entries(From(q)) \cup Entries({p})
        BY <3>2, <4>2
      <4>4. From(p) = From(q) \cup {p}
        BY <2>5, <3>1, <3>4
      <4>5. Walk[p].rip = Entries(From(q) \cup {p})
        BY <4>3, EntriesMore
      <4> QED BY <2>3, <4>4, <4>5
    <3> QED BY <3>3, <3>4
  <2>8. CASE Ends(p)
    <3> DEFINE x == IF p + U < size THEN p + U ELSE size
    <3>1. p + U >= size
      <4>1. CASE pack = NoPack
        <5>1. ~HasLength(p)
          BY <2>4, <2>8, <4>1 DEF Ends
        <5> QED BY <1>1, <2>4, <5>1 DEF HasLength, U
      <4>2. CASE pack # NoPack
        <5>1. ~HasKey(EndOf(p))
          BY <2>4, <2>8, <4>2 DEF Ends
        <5>2. ~(At(i + 1) < size)
          BY <2>3, <2>4, <5>1, EndOfIs
        <5> QED BY <1>1, <2>4, <5>2 DEF U
      <4> QED BY <4>1, <4>2
    <3>2. From(p) = From(size) \cup (IF file[i].kind \in Packs THEN {p} ELSE {})
      <4>1. i + 1 \in Nat /\ i + 1 > i /\ \A k \in i + 1 .. (i + 1) - 1 : FALSE
        BY <2>4
      <4>2. size <= At(i + 1) /\ At(i) < size
        BY <1>1, <2>3, <2>4, <3>1
      <4> QED BY <1>1, <4>1, <4>2, Between
    <3>3. From(size) = {}
      <4>1. size >= size
        BY <1>1
      <4> QED BY <1>1, <1>3, <4>1
    <3>4. CASE pack = NoPack
      <4>1. Walk[p] = [ok |-> FALSE, rip |-> {}]
        BY <2>4, <2>8, <3>4 DEF WalkFrom, Ends
      <4>2. From(p) = {}
        BY <2>5, <3>2, <3>3, <3>4
      <4> QED BY <2>3, <4>1, <4>2 DEF Entries
    <3>5. CASE pack # NoPack
      <4>1. Walk[p] = [ok |-> FALSE, rip |-> Entries({p})]
        BY <2>4, <2>8, <3>5 DEF WalkFrom, Ends
      <4>2. From(p) = {p}
        BY <2>5, <3>2, <3>3, <3>5
      <4>3. Walk[p].rip = Entries({p})
        BY <4>1
      <4> QED BY <2>3, <4>2, <4>3
    <3> QED BY <3>4, <3>5
  <2> QED BY <2>7, <2>8
<1>5. ASSUME Walk[At(j)].rip # Entries(From(At(j))) PROVE FALSE
  <2>1. size - At(j) \in S
    BY <1>5
  <2> QED BY <1>4, <2>1
<1> QED BY <1>5

\* BuildRIP finds what is there, however the file ends.
LEMMA BuildRIPTrue ==
    ASSUME IInv
    PROVE  RIPTrue(BuildRIP.rip) /\ Positions(BuildRIP.rip) = Present
<1>1. BuildRIP.rip = Entries(Present)
  <2>1. CASE HasKey(0)
    <3>1. At(1) = 0 /\ 1 \in DOMAIN file
      BY <2>1, ReadHeader
    <3>2. At(1) < size
      BY <2>1, <3>1 DEF HasKey
    <3>3. Walk[At(1)].rip = Entries(From(At(1)))
      BY <3>1, <3>2, WalkFinds
    <3>4. From(0) = Present
      BY PresentIs DEF From
    <3> QED BY <3>1, <3>3, <3>4 DEF BuildRIP
  <2>2. CASE ~HasKey(0)
    <3>1. Walk[0] = [ok |-> TRUE, rip |-> {}]
      BY <2>2, WalkIs DEF WalkFrom
    <3>2. Present = {}
      <4>1. ASSUME NEW p \in Present PROVE FALSE
        <5>1. p \in Nat /\ p < size
          BY PresentIs
        <5> QED BY <2>2, <5>1, Sizes DEF HasKey
      <4> QED BY <4>1
    <3> QED BY <3>1, <3>2 DEF BuildRIP, Entries
  <2> QED BY <2>1, <2>2
<1> QED BY <1>1, EntriesTrue DEF RIPTrue

\* GetRIP, by whichever way it goes.
LEMMA GetRIPOK ==
    ASSUME IInv, GetRIP
    PROVE  IInv'
<1> DEFINE result == IF RIPThere THEN [ok |-> TRUE, rip |-> RIPValue]
                     ELSE IF ScanRIP.ok THEN ScanRIP
                     ELSE BuildRIP
<1>1. /\ Reading /\ known' = known /\ rip' = result.rip
      /\ last' = [op |-> "GetRIP", ok |-> result.ok]
  BY Zenon DEF GetRIP
<1>2. RIPTrue(result.rip) /\ (LinkThere => Positions(result.rip) = Present)
  <2>1. CASE RIPThere
    BY <2>1, RIPValueTrue
  <2>2. CASE ~RIPThere /\ ScanRIP.ok
    BY <2>2, ScanRIPTrue
  <2>3. CASE ~RIPThere /\ ~ScanRIP.ok
    BY <2>3, BuildRIPTrue
  <2> QED BY <2>1, <2>2, <2>3
<1> HIDE DEF result
<1>3. last'.op = "GetRIP"
  BY <1>1
<1>4. known \in {"unknown", "yes", "no"} /\ (Finished => known # "yes")
  BY DEF IInv, TypeOK
<1> QED BY <1>1, <1>2, <1>3, <1>4, ReadNext

-----------------------------------------------------------------------------
(***************************************************************************)
(* 8. The theorems.                                                        *)
(***************************************************************************)
\* Nothing changes.
LEMMA StutterOK ==
    ASSUME IInv, UNCHANGED vars
    PROVE  IInv'
<1>1. /\ file' = file /\ size' = size /\ phase' = phase /\ rip' = rip /\ known' = known
      /\ last' = last
  BY DEF vars
<1>2. TypeOK' /\ FileOK(file)' /\ Quiet'
  BY <1>1 DEF IInv, TypeOK, Quiet
<1>3. Finished' = Finished
  BY <1>1 DEF Finished, PackItems, LastPack, Filled
<1>4. Found'
  <2>1. Present' = Present /\ Positions(rip)' = Positions(rip)
    BY <1>1 DEF Present, PackItems, At, Positions
  <2>2. FooterKeys' = FooterKeys
    BY <1>1 DEF FooterKeys, ItemStarts, At, HasKey, ItemAt
  <2>3. LinkThere' = LinkThere
    BY <1>1, <2>2 DEF LinkThere
  <2> QED BY <1>1, <2>1, <2>3 DEF IInv, AllFound, Found
<1>5. SidsTrue'
  BY <1>1 DEF IInv, AllFound, SidsTrue, Present, PackItems, ItemAt
<1>6. MasterFinal'
  BY <1>1 DEF IInv, AllFound, MasterFinal
<1>7. TruncationTrue'
  <2>1. ReadPartition(0)' = ReadPartition(0)
    BY <1>1 DEF ReadPartition, HasKey, ItemAt
  <2>2. LastKey' = LastKey
    BY <1>1 DEF LastKey, ItemStarts, At, HasKey, ItemAt
  <2> QED BY <1>1, <1>3, <2>1, <2>2 DEF IInv, TruncationTrue, WholeIsWhole, TruncationSeen
<1>8. (Finished => known # "yes")'
  BY <1>1, <1>3 DEF IInv
<1> QED BY <1>2, <1>4, <1>5, <1>6, <1>7, <1>8 DEF IInv, AllFound

\* Every step of the writer and of the reader keeps the invariant.
LEMMA StepOK == IInv /\ [Next]_vars => IInv'
<1> SUFFICES ASSUME IInv, [Next]_vars PROVE IInv'
  OBVIOUS
<1>1. CASE Write
  BY <1>1, WriteOK
<1>2. ASSUME NEW n \in 0 .. size, Stop(n) PROVE IInv'
  BY <1>2, StopOK
<1>3. CASE Read
  BY <1>3, GetRIPOK, ReadFooterPartitionOK, ReadMasterPartitionOK, IsTruncatedOK DEF Read
<1>4. CASE UNCHANGED vars
  BY <1>4, StutterOK
<1> QED BY <1>1, <1>2, <1>3, <1>4 DEF Next

\* The invariant holds at any time.
THEOREM Invariant == Spec => []IInv
BY InitOK, StepOK, PTL DEF Spec

(***************************************************************************)
(* Whatever the writer had done and wherever the file ends, but within the *)
(* first values of the footer pack (LinkThere), GetRIP finds the           *)
(* partitions that are there and nothing else, by the RIP, back along      *)
(* PreviousPartition or item by item; wherever it ends, their BodySIDs are *)
(* right or 0, and the master partition is one with final metadata: for    *)
(* any number of partitions, any BodySIDs and any distance FindFooter      *)
(* searches.                                                               *)
(***************************************************************************)
THEOREM AllFoundAlways == Spec => []AllFound
<1>1. IInv => AllFound
  BY DEF IInv
<1> QED BY Invariant, <1>1, PTL

(***************************************************************************)
(* IsTruncated never calls a file truncated that is there up to the end of *)
(* its footer, and with details it finds every other one out that has      *)
(* essence or says where its footer is.                                    *)
(***************************************************************************)
THEOREM TruncationTrueAlways == Spec => []TruncationTrue
<1>1. IInv => TruncationTrue
  BY DEF IInv
<1> QED BY Invariant, <1>1, PTL

=============================================================================
