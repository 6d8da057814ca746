---------------------------- MODULE MCBodyReader ----------------------------
(***************************************************************************)
(* Scenes of BodyReader for TLC: a file is given by its partitions, and *)
(* the offsets in the packs are what a writer puts there.                  *)
(***************************************************************************)
EXTENDS BodyReader, SequencesExt

\* A partition: its stream, a filler behind the pack, units of metadata and
\* index, and what follows.
P(sid, lead, meta, items) == [sid |-> sid, lead |-> lead, meta |-> meta, items |-> items]

Plain(type, sid) == [type |-> type, at |-> 0, sid |-> sid, offset |-> 0, meta |-> 0]

Before(parts, n) ==
    FoldLeft(LAMBDA a, k : a + (IF parts[k].sid = parts[n].sid
                                  THEN 2 * Cardinality({i \in DOMAIN parts[k].items : parts[k].items[i] \in {"klv", "fill"}})
                                ELSE 0), 0, [k \in 1..(n - 1) |-> k])

ItemsOf(parts, n) ==
    LET p == parts[n]
    IN <<[type |-> "pack", at |-> 0, sid |-> p.sid, offset |-> IF p.sid = 0 THEN 0 ELSE Before(parts, n), meta |-> p.meta]>>
         \o (IF p.lead THEN <<Plain("fill", 0)>> ELSE <<>>)
         \o [k \in 1..(p.meta \div 2) |-> Plain("meta", 0)]
         \o [k \in DOMAIN p.items |-> Plain(p.items[k], p.sid)]

\* The items one behind the other.
Placed(items) ==
    LET at[n \in 1..Len(items)] == IF n = 1 THEN 0 ELSE at[n - 1] + SizeOf(items[n - 1])
    IN [n \in DOMAIN items |-> [items[n] EXCEPT !.at = at[n]]]

Build(parts, tail) ==
    Placed(FlattenSeq([n \in DOMAIN parts |-> ItemsOf(parts, n)]) \o [k \in DOMAIN tail |-> Plain(tail[k], 0)])

K == <<"klv">>
KK == <<"klv", "klv">>
KFK == <<"klv", "fill", "klv">>

Whole ==
    { Build(<<P(0, TRUE, 2, <<>>), P(1, FALSE, 0, KK), P(2, FALSE, 0, K), P(1, TRUE, 0, KFK), P(0, FALSE, 2, <<>>)>>, <<"rip">>),
      Build(<<P(1, TRUE, 2, KFK), P(0, FALSE, 2, <<>>), P(1, FALSE, 2, K), P(2, TRUE, 0, KK), P(0, FALSE, 0, <<>>)>>, <<"rip">>) }

Base ==
    [files |-> Whole, sids |-> {1, 2}, handled |-> {"klv"}, answers |-> {"ok"}, modes |-> {FALSE},
     starts |-> {0}, targets |-> {}, loops |-> FALSE]

\* Two streams, read as a whole or KLV by KLV, with seeks between.
Seeking == [Base EXCEPT !.modes = {FALSE, TRUE}, !.starts = {0, 7}, !.targets = {1} \X {0, 2, 6, 8} \cup {2} \X {0, 2}]

\* Handlers that fail, stop the reading and push KLVs back.
Refusing ==
    [Base EXCEPT !.handled = {"klv", "fill"}, !.answers = {"ok", "fail", "stop", "push"}, !.targets = {<<1, 2>>, <<1, 8>>}]

\* A caller that reads one stream until it is told to stop.
Looping ==
    [Base EXCEPT !.sids = {1}, !.answers = {"ok", "stop", "fail"}, !.modes = {FALSE, TRUE}, !.starts = {}, !.loops = TRUE]

PassScenes == {Seeking, Refusing, Looping}

ASSUME UsableScenes == \A x \in PassScenes : Usable(x)
=============================================================================
