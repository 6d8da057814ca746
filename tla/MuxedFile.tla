----------------------------- MODULE MuxedFile ------------------------------
(***************************************************************************)
(* What a writer of an MXF file promises, however it chooses partitions:   *)
(* the file is written once, from its start to its end.  A partition holds *)
(* edit units of one stream only; each stream's units follow each other    *)
(* from its first one on; what is on file stays as it is, and nothing is   *)
(* added to a partition once another one has been started.                 *)
(*                                                                         *)
(* Any number of partitions may be begun in a step, and the last of them   *)
(* may get any number of units.                                            *)
(***************************************************************************)
EXTENDS Integers, Sequences

CONSTANT Streams

VARIABLES
    parts,      \* the partitions: kind, stream of its essence, units
    delivered   \* how many edit units of each stream are on file

vars == <<parts, delivered>>

Init ==
    /\ parts = << >>
    /\ delivered = [s \in Streams |-> 0]

\* The file is complete: its last partition is a footer.
Complete == parts # << >> /\ parts[Len(parts)].kind = "Footer"

\* No partition but the last may change, and that one only in its units.
Kept ==
    /\ Len(parts) <= Len(parts')
    /\ \A i \in DOMAIN parts :
          IF i < Len(parts') THEN parts'[i] = parts[i]
          ELSE parts'[i].kind = parts[i].kind /\ parts'[i].sid = parts[i].sid

\* How many units the last partition had before the step.
Had == IF Len(parts') = Len(parts) /\ parts # << >> THEN Len(parts[Len(parts)].units) ELSE 0

\* Partitions that are begun have no units, the last one excepted: it gets
\* the next units of its stream.
Continued ==
    LET last == parts'[Len(parts')]
        more == Len(last.units) - Had
    IN /\ \A i \in Len(parts) + 1 .. Len(parts') - 1 : parts'[i].units = << >>
       /\ more >= 0
       /\ Had > 0 => SubSeq(last.units, 1, Had) = parts[Len(parts)].units
       /\ \A k \in 1 .. more : last.units[Had + k] = <<last.sid, delivered[last.sid] + k - 1>>
       /\ more > 0 => last.sid \in Streams
       /\ delivered' = [s \in Streams |->
              IF more > 0 /\ s = last.sid THEN delivered[s] + more ELSE delivered[s]]

Write ==
    /\ ~Complete
    /\ Kept
    /\ parts' # << >>
    /\ Continued

Next == Write

Spec == Init /\ [][Next]_vars
=============================================================================
