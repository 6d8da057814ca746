------------------------------ MODULE Linking -------------------------------
(***************************************************************************)
(* The header metadata of a partition: class Partition of                  *)
(* mxflib/partition.h and .cpp, with the links between metadata sets that  *)
(* MDObject keeps (MakeRef, SetLink, WriteLinkedObjects).                  *)
(*                                                                         *)
(* A set is its InstanceUID.  It has reference properties, strong ones     *)
(* that own their target and weak ones.  A reference has a value, the UID  *)
(* on file, and a link, the object in memory.  Sets are read one by one in *)
(* any order, or built by the application; AddMetadata puts one, and all   *)
(* sets that it is strongly linked to, into the partition and matches the  *)
(* references with their targets.  AddMetadata calls itself: the calls in  *)
(* progress are a stack of frames, and each set it enters, each strong     *)
(* link it follows and each return is a step.                              *)
(*                                                                         *)
(* The lists of the partition are kept as what is in them: their order is  *)
(* not modelled, and only for the top level it matters how often a set is  *)
(* in it.  The entries of UnmatchedRefs for one set go together.           *)
(***************************************************************************)
EXTENDS Integers, Sequences, FiniteSets, SequencesExt

CONSTANTS
    Set,        \* metadata sets
    None,       \* no value, no link
    Refs,       \* the reference properties of each set, in their order
    Strong,     \* the properties that are strong references
    Targets     \* the sets a reference may point to

Ref == UNION {ToSet(Refs[s]) : s \in Set}

ASSUME LinkingAssumption ==
    /\ None \notin Set
    /\ Refs \in [Set -> Seq(Ref)]
    /\ \A s, t \in Set : s # t => ToSet(Refs[s]) \cap ToSet(Refs[t]) = {}
    /\ Strong \subseteq Ref
    /\ Targets \in [Ref -> SUBSET Set]

\* Strong references make trees: no set can own itself through others.
ASSUME TreeAssumption ==
    \A C \in SUBSET Set : C # {} =>
        \E s \in C : \A r \in ToSet(Refs[s]) \cap Strong : Targets[r] \cap C = {}

VARIABLES
    alive,      \* the sets that exist
    value,      \* the UID in each reference
    link,       \* Link of each reference
    all,        \* AllMetadata
    top,        \* TopLevelMetadata: how often each set is in it
    targets,    \* RefTargets
    unmatched,  \* UnmatchedRefs: pairs of a UID and a reference
    call        \* the frames of AddMetadata, the innermost first

vars == <<alive, value, link, all, top, targets, unmatched, call>>

FrameType == [set: Set, todo: Seq(Ref), linked: BOOLEAN, first: BOOLEAN]

TypeOK ==
    /\ alive \subseteq Set
    /\ value \in [Ref -> Set \cup {None}]
    /\ link \in [Ref -> Set \cup {None}]
    /\ all \subseteq Set /\ top \in [Set -> Nat]
    /\ targets \subseteq Set
    /\ unmatched \subseteq Set \X Ref
    /\ call \in Seq(FrameType)

Idle == call = << >>

RefsOf(S) == UNION {ToSet(Refs[s]) : s \in S}

Owner(r) == CHOOSE s \in Set : r \in ToSet(Refs[s])

\* The list without these sets.
Without(list, S) == [s \in Set |-> IF s \in S THEN 0 ELSE list[s]]

NoSets == [s \in Set |-> 0]

\* The sets that these sets own through their strong links.
Owned(S) ==
    {s \in Set : \A C \in SUBSET Set :
        (S \subseteq C /\ \A r \in RefsOf(C) \cap Strong : link[r] \in C \cup {None}) => s \in C}
-----------------------------------------------------------------------------
Init ==
    /\ alive = {}
    /\ value = [r \in Ref |-> None]
    /\ link = [r \in Ref |-> None]
    /\ all = {} /\ top = NoSets
    /\ targets = {}
    /\ unmatched = {}
    /\ call = << >>

NoStrongRef(s, r) == \A q \in (RefsOf(alive) \cap Strong) \ {r} : value[q] # s

\* A set may be the target of one strong reference only.
MayRefer(r, s) == s \in Targets[r] /\ (r \in Strong => NoStrongRef(s, r))

\* A set comes into being with these values in its references, as they are
\* on file, or with none.
NewSet(s, values) ==
    /\ Idle
    /\ s \notin alive
    /\ \A r \in ToSet(Refs[s]) : values[r] # None => MayRefer(r, values[r])
    /\ \A q, r \in ToSet(Refs[s]) \cap Strong : q # r /\ values[q] # None => values[q] # values[r]
    /\ alive' = alive \cup {s}
    /\ value' = [r \in Ref |-> IF r \in ToSet(Refs[s]) THEN values[r] ELSE value[r]]
    /\ UNCHANGED <<link, all, top, targets, unmatched, call>>

\* The application links sets that it builds, before it adds them.
MakeRef(r, s) ==
    /\ Idle
    /\ Owner(r) \in alive /\ s \in alive /\ MayRefer(r, s)
    /\ Owner(r) \notin all
    /\ value' = [value EXCEPT ![r] = s]
    /\ link' = [link EXCEPT ![r] = s]
    /\ UNCHANGED <<alive, all, top, targets, unmatched, call>>

\* The references that wait for this set.
Waiting(s) == {r \in Ref : <<s, r>> \in unmatched}

FrameTop(s, first) == [set |-> s, first |-> first, linked |-> FALSE, todo |-> Refs[s]]

\* The frame of AddMetadata for s, linked if a strong reference waits for it.
Frame(s, first) ==
    [set |-> s, first |-> first, linked |-> Waiting(s) \cap Strong # {}, todo |-> Refs[s]]

\* AddMetadata up to the scan of the references: a set that has a UID is made
\* a target, and all references that wait for it are linked.
EnterSet(s, first) ==
    /\ all' = IF first THEN all ELSE all \cup {s}
    /\ targets' = targets \cup {s}
    /\ link' = [r \in Ref |-> IF r \in Waiting(s) THEN s ELSE link[r]]
    /\ unmatched' = {u \in unmatched : u[1] # s}
    /\ UNCHANGED <<alive, value, top>>

AddMetadata(s, first) ==
    /\ Idle
    /\ s \in alive \ all
    /\ EnterSet(s, first)
    /\ call' = <<Frame(s, first)>>

\* The innermost frame goes on to its next reference.
NextRef(frames) == <<[Head(frames) EXCEPT !.todo = Tail(@)]>> \o Tail(frames)

FollowLinkAlways ==
    /\ ~Idle
    /\ Head(call).todo # << >>
    /\ LET r == Head(Head(call).todo)
       IN IF r \in Strong
            THEN /\ EnterSet(link[r], Head(call).first)
                 /\ call' = <<Frame(value[r], Head(call).first)>> \o call
            ELSE /\ call' = NextRef(call)
                 /\ UNCHANGED <<alive, value, link, all, top, targets, unmatched>>

FollowLinkStuck ==
    /\ ~Idle
    /\ Head(call).todo # << >>
    /\ LET r == Head(Head(call).todo)
       IN IF r \in Strong /\ link[r] # None
            THEN /\ EnterSet(link[r], Head(call).first)
                 /\ call' = <<Frame(link[r], Head(call).first)>> \o call
            ELSE UNCHANGED vars

\* A strong reference with a link: its target is added, too.
FollowLink ==
    /\ ~Idle
    /\ Head(call).todo # << >>
    /\ LET r == Head(Head(call).todo)
       IN IF r \in Strong /\ link[r] # None
            THEN /\ EnterSet(link[r], Head(call).first)
                 /\ call' = <<Frame(link[r], Head(call).first)>> \o call
            ELSE /\ call' = NextRef(call)
                 /\ UNCHANGED <<alive, value, link, all, top, targets, unmatched>>

FoundWeak(s) == {r \in ToSet(Refs[s]) : r \notin Strong /\ link[r] = None /\ value[r] \in targets}

\* ProcessChildRefs: the references of s that have no link and a target.
Found(s) == {r \in ToSet(Refs[s]) : link[r] = None /\ value[r] \in targets}

\* Those that have none.
Lost(s) == {r \in ToSet(Refs[s]) : link[r] = None /\ value[r] \in Set \ targets}

\* The end of AddMetadata for the innermost set, and in the caller's frame,
\* if there is one, the removal of the target from the top level.
LeaveSet ==
    /\ ~Idle
    /\ Head(call).todo = << >>
    /\ LET f == Head(call)
           topped == IF f.linked THEN top ELSE [top EXCEPT ![f.set] = @ + 1]
           owned == {value[r] : r \in Found(f.set) \cap Strong}
           rest == Tail(call)
       IN /\ all' = all \cup {f.set}
          /\ top' = Without(topped, owned \cup (IF rest = << >> THEN {} ELSE {f.set}))
          /\ link' = [r \in Ref |-> IF r \in Found(f.set) THEN value[r] ELSE link[r]]
          /\ unmatched' = unmatched \cup {<<value[r], r>> : r \in Lost(f.set)}
          /\ call' = IF rest = << >> THEN rest ELSE NextRef(rest)
          /\ UNCHANGED <<alive, value, targets>>

\* ClearMetadata: the lists and maps let go of their sets; those that only
\* the partition owned cease to exist, and weak links to them become NULL.
ClearAll(kept) ==
    /\ alive' = Owned(kept)
    /\ value' = [r \in Ref |-> IF r \in RefsOf(alive') THEN value[r] ELSE None]
    /\ unmatched' = {}

ClearMetadata ==
    /\ Idle
    /\ ClearAll(alive \ all)
    /\ link' = [r \in Ref |-> IF r \in RefsOf(alive') /\ link[r] \in alive' THEN link[r] ELSE None]
    /\ all' = {} /\ top' = NoSets /\ targets' = {}
    /\ UNCHANGED call

\* UpdateMetadata: clear, and add what the application passes and so keeps.
UpdateMetadata(s) ==
    /\ Idle
    /\ s \in alive
    /\ ClearAll((alive \ all) \cup {s})
    /\ link' = [r \in Ref |-> IF r \in RefsOf(alive') /\ link[r] \in alive' THEN link[r] ELSE None]
    /\ all' = {s} /\ top' = NoSets /\ targets' = {s}
    /\ call' = <<[set |-> s, first |-> FALSE, linked |-> FALSE, todo |-> Refs[s]]>>

Step ==
    \/ FollowLink
    \/ LeaveSet

Next ==
    \/ \E s \in Set : \E values \in [ToSet(Refs[s]) -> Set \cup {None}] : NewSet(s, values)
    \/ \E r \in Ref, s \in Set : MakeRef(r, s)
    \/ \E s \in Set, first \in BOOLEAN : AddMetadata(s, first)
    \/ Step
    \/ ClearMetadata
    \/ \E s \in Set : UpdateMetadata(s)

Spec == Init /\ [][Next]_vars

\* AddMetadata is one thread that goes on.
FairSpec == Spec /\ WF_vars(Step)
-----------------------------------------------------------------------------
(***************************************************************************)
(* Properties                                                              *)
(***************************************************************************)

InPartition == RefsOf(all)

\* Whatever the order in which sets and the references to them arrived, each
\* reference between sets of the partition is linked, and to what it says.
AllLinked ==
    Idle => \A r \in InPartition : value[r] \in all => link[r] = value[r]

\* A reference that waits has no link: it is neither linked by its own set
\* nor left behind when its target arrives.
UnmatchedUnlinked == \A u \in unmatched : link[u[2]] = None

\* WriteLinkedObjects from each top level set writes every set of the
\* partition exactly once.
WrittenOnce ==
    Idle => \A s \in all : top[s] + Cardinality({r \in InPartition \cap Strong : link[r] = s}) = 1

\* No reference waits on behalf of a set that has left the partition: a set
\* that arrives later is never given to it.
WaitersPresent ==
    Idle => \A u \in unmatched : Owner(u[2]) \in all

\* References and the sets they name meet, in whatever order they come, and
\* none waits on behalf of a set that has gone or once it is linked.
LinksTrue == AllLinked /\ UnmatchedUnlinked /\ WaitersPresent

\* A call of AddMetadata returns.
Returns == ~Idle ~> Idle
=============================================================================
