---------------------------- MODULE MCBodyWriter ----------------------------
(***************************************************************************)
(* Instances of BodyWriter for TLC: the kinds of streams.                  *)
(***************************************************************************)
EXTENDS BodyWriter, TLC

Symmetry == Permutations(Stream)

Plain(units, index, cbr) ==
    [units |-> units, index |-> index, managed |-> TRUE, cbr |-> cbr,
     clip |-> FALSE, generic |-> FALSE, align |-> FALSE, offers |-> TRUE,
     stopAfter |-> 0]

\* The index types that SetStreamIndex of libprocesswrap asks for.
ToolCBR == {{"CBRHeaderIsolated", "CBRFooter"}, {"CBRHeader", "CBRBody", "CBRFooter"}}
ToolVBR == {{}, {"FullFooter"}, {"Sprinkled"}, {"SprinkledIsolated"},
            {"FullFooter", "SparseFooter", "Sprinkled"}}

ToolProfiles ==
    {Plain(u, k, TRUE) : u \in {1, 3}, k \in ToolCBR}
    \cup {Plain(u, k, FALSE) : u \in {1, 3}, k \in ToolVBR}

With(p, units, stop) == [p EXCEPT !.units = units, !.stopAfter = stop]

Index(p, kinds) == [p EXCEPT !.index = kinds]

C(units) == Plain(units, {}, TRUE)

V(units) == Plain(units, {}, FALSE)

\* Streams whose tables are in partitions of their own, and one whose is not.
IsolatedProfiles ==
    {Index(V(3), {"SprinkledIsolated"}), Index(C(2), {"CBRIsolated"}),
     Index(C(2), {"CBRPreIsolated"}), Index(C(1), {"CBRBody", "CBRFooter"})}

\* Streams of every index type, wrapping and kind of source.
ApiProfiles ==
    {V(0), With(V(2), 2, 1),
     [V(2) EXCEPT !.generic = TRUE, !.align = TRUE],
     [V(2) EXCEPT !.clip = TRUE, !.index = {"FullFooter", "SparseFooter"}],
     [Index(V(2), {"Sprinkled", "SparseFooter"}) EXCEPT !.offers = FALSE],
     Index(C(2), {"CBRHeaderIsolated", "CBRPreIsolated"}), Index(C(1), {"CBRIsolated"}),
     [Index(C(1), {"CBRBody"}) EXCEPT !.managed = FALSE],
     [Index(C(1), {"CBRFooter"}) EXCEPT !.managed = FALSE],
     Index(C(1), {"FullFooter", "CBRFooter"})}

LiveProfiles ==
    {V(2), Index(V(2), {"Sprinkled", "FullFooter"}), Index(C(2), {"CBRPreIsolated", "CBRFooter"}),
     Index(V(0), {"SparseFooter"})}

AllToolProfiles == ToolProfiles \cup LiveProfiles

\* Profiles of the runs that refute a claim.
StopProfiles == {With(V(2), 2, 1)}

=============================================================================
