----------------------------- MODULE BodyStream -----------------------------
(***************************************************************************)
(* One essence stream as the body writer sees it: class BodyStream of      *)
(* mxflib/essence.h and .cpp, merged with the StreamInfo that the writer   *)
(* keeps for it, and the little of the GCWriter and of the IndexManager    *)
(* that decides what is written.                                           *)
(*                                                                         *)
(* An edit unit (one content package) is its number, counted from 0.  A    *)
(* source delivers "units" of them and then nothing more.  Sizes in bytes  *)
(* are left out: a stream offset counts whole content packages.            *)
(***************************************************************************)
EXTENDS Integers, Sequences, FiniteSets

CONSTANTS
    Stream,     \* the streams; a stream is also its BodySID and its IndexSID
    Profiles,   \* the kinds of stream a caller may add
    None        \* SID zero, or a NULL pointer

StateType == {"Start", "HeadIndex", "PreBodyIndex", "BodyWithIndex",
              "BodyNoIndex", "PostBodyIndex", "FootIndex", "Done"}

IndexType == {"FullFooter", "SparseFooter", "Sprinkled", "SprinkledIsolated",
              "CBRHeader", "CBRHeaderIsolated", "CBRFooter", "CBRBody",
              "CBRIsolated", "CBRPreIsolated"}

BodyStates == {"BodyWithIndex", "BodyNoIndex"}

(***************************************************************************)
(* What the caller fixes when it builds a stream: the number of edit units *)
(* of its source, the requested index tables, whether an IndexSID is set   *)
(* (else there is no index manager), whether every sub-stream has constant *)
(* size, clip wrapping, generic stream items, edit-aligned partitions,     *)
(* whether the source offers an edit unit to the index manager when it is  *)
(* read (MPEG-2) or leaves it to the write, and AddStream's StopAfter.     *)
(***************************************************************************)
ProfileType ==
    [units: Nat, index: SUBSET IndexType, managed: BOOLEAN, cbr: BOOLEAN,
     clip: BOOLEAN, generic: BOOLEAN, align: BOOLEAN, offers: BOOLEAN,
     stopAfter: Nat]

ASSUME ProfilesAssumption == Profiles \subseteq ProfileType
StreamType ==
    [profile: Profiles, index: SUBSET IndexType, footDone: SUBSET IndexType,
     state: StateType, active: BOOLEAN, stopAfter: Nat, read: Nat,
     written: Nat, pending: BOOLEAN, eos: BOOLEAN, nextSprinkled: Nat,
     sparse: SUBSET Int]

ASSUME NoneAssumption == None \notin Stream \cup StreamType

NewStream(p) ==
    [profile |-> p, index |-> p.index, footDone |-> {}, state |-> "Start",
     active |-> TRUE, stopAfter |-> p.stopAfter, read |-> 0, written |-> 0,
     pending |-> FALSE, eos |-> FALSE, nextSprinkled |-> 0, sparse |-> {}]

Wants(r, kinds) == r.index \cap kinds # {}

HasManager(r) == r.profile.managed /\ r.index # {}

VBRIndex(r) == HasManager(r) /\ ~r.profile.cbr

(***************************************************************************)
(* IndexManager::LastNewEditUnit: the last edit unit offered, below every  *)
(* edit unit (here -1) if there is none or the data is CBR.                *)
(***************************************************************************)
LastNewEditUnit(r) ==
    IF r.profile.cbr THEN -1
    ELSE (IF r.profile.offers THEN r.read ELSE r.written) - 1

(***************************************************************************)
(* IndexManager::AddEntriesToIndex over first..last.  An entry is complete *)
(* once its stream offset is known, which is when the unit is written.     *)
(***************************************************************************)
CompleteEntries(r, first, last) ==
    IF r.profile.cbr THEN {} ELSE {u \in first .. last : 0 <= u /\ u < r.written}

LeftOverSprinkles(r, kinds) ==
    Wants(r, kinds) /\ HasManager(r) /\ LastNewEditUnit(r) >= r.nextSprinkled

FooterState(r, kinds) ==
    IF Wants(r, {"SparseFooter", "CBRFooter", "FullFooter"})
          \/ LeftOverSprinkles(r, kinds)
    THEN "FootIndex" ELSE "Done"

IndexedBody(r, kinds) == IF Wants(r, kinds) THEN "BodyWithIndex" ELSE "BodyNoIndex"

(***************************************************************************)
(* Before any essence of the stream has been written.                      *)
(***************************************************************************)
FirstBody(r) ==
    IF Wants(r, {"CBRPreIsolated"}) THEN "PreBodyIndex"
    ELSE IndexedBody(r, {"CBRBody"})

(***************************************************************************)
(* GetNextState, case by case.  After a body partition the end of the      *)
(* stream is looked at before the next pre-body table, after a post-body   *)
(* table it is looked at behind it.                                        *)
(***************************************************************************)
NextState(r) ==
    CASE r.state = "Start" ->
            IF Wants(r, {"CBRHeader", "CBRHeaderIsolated"}) THEN "HeadIndex"
            ELSE FirstBody(r)
      [] r.state = "HeadIndex" -> FirstBody(r)
      [] r.state = "PreBodyIndex" -> IndexedBody(r, {"CBRBody", "Sprinkled"})
      [] r.state \in BodyStates ->
            IF Wants(r, {"CBRIsolated", "SprinkledIsolated"}) THEN "PostBodyIndex"
            ELSE IF r.eos THEN FooterState(r, {"Sprinkled"})
            ELSE IF Wants(r, {"CBRPreIsolated"}) THEN "PreBodyIndex"
            ELSE IF Wants(r, {"Sprinkled"}) THEN "BodyWithIndex"
            ELSE r.state
      [] r.state = "PostBodyIndex" ->
            IF Wants(r, {"CBRPreIsolated"}) THEN "PreBodyIndex"
            ELSE IF r.eos THEN FooterState(r, {"Sprinkled", "SprinkledIsolated"})
            ELSE IndexedBody(r, {"CBRBody", "Sprinkled"})
      [] r.state \in {"FootIndex", "Done"} -> "Done"

GetNextState(r) == [r EXCEPT !.state = NextState(r)]

(***************************************************************************)
(* GetState: the first look at a stream moves it out of Start.             *)
(***************************************************************************)
Settled(r) == IF r.state = "Start" THEN GetNextState(r) ELSE r

(***************************************************************************)
(* MakeIndex, filled with the complete entries of a VBR stream.            *)
(***************************************************************************)
TableType == [stream: Stream, cbr: BOOLEAN, units: SUBSET Int]

MakeIndex(s, r, units) == [stream |-> s, cbr |-> r.profile.cbr, units |-> units]

HasIndexData(t) == t # None /\ (t.cbr \/ t.units # {})

=============================================================================
