----------------------------- MODULE MCRecovery -----------------------------
(***************************************************************************)
(* Reading for TLC: the partitions of a file that may have been cut        *)
(* (Recovery), the sets and packs within one (Values), and their labels    *)
(* and UUIDs as texts (Identifiers).  They share no state, so a behaviour  *)
(* is about one of them, which part says, while the others rest.           *)
(*                                                                         *)
(* Recovery: the longest footer partition has four items and the RIP       *)
(* behind it; MaxScan may end within it.  Values: sets with every way to   *)
(* write keys and lengths, a fixed and a variable pack, and arrays,        *)
(* batches and compounds of integers; numbers with and without a sign.     *)
(* Identifiers: labels of SMPTE and of others, UUIDs that begin with small *)
(* and large bytes, a label that a UUID object keeps as it is.             *)
(***************************************************************************)
EXTENDS Recovery, TLC

LongScan == 5 * U

VARIABLES part, scene, object, said, whole, changed

\* Types and classes.
Signed(bytes) == [kind |-> "int", size |-> bytes, signed |-> TRUE]

Unsigned(bytes) == [kind |-> "int", size |-> bytes, signed |-> FALSE]

RawBytes(bytes) == [kind |-> "raw", size |-> bytes]

ArrayOf(base, items) == [kind |-> "array", base |-> base, size |-> items, batch |-> FALSE]

BatchOf(base) == [kind |-> "array", base |-> base, size |-> 0, batch |-> TRUE]

Pair(one, two) == [kind |-> "compound", parts |-> <<one, two>>]

Property(tag, type) == [tag |-> tag, type |-> type]

\* A set with two-byte tags and lengths and a GenerationUID.
LocalSet ==
    [kind |-> "set", key |-> 2, len |-> 2, unknown |-> 99, generation |-> 4,
     properties |-> <<Property(2, BatchOf(Unsigned(2))), Property(4, RawBytes(2))>>]

CompoundSet ==
    [kind |-> "set", key |-> 2, len |-> 1, unknown |-> 99,
     properties |-> <<Property(1, ArrayOf(Signed(2), 0)), Property(20, Pair(Unsigned(1), Signed(2)))>>]

\* One-byte tags and BER lengths; BER tags and one-byte lengths.
ByteSet ==
    [kind |-> "set", key |-> 1, len |-> 0, unknown |-> 15,
     properties |-> <<Property(1, ArrayOf(Signed(1), 2)), Property(2, RawBytes(0)), Property(3, Unsigned(1))>>]

BERSet ==
    [kind |-> "set", key |-> 0, len |-> 1, unknown |-> 15,
     properties |-> <<Property(9, BatchOf(Pair(Unsigned(1), Unsigned(2)))), Property(5, Signed(4))>>]

RandomIndex ==
    [kind |-> "pack", key |-> -1, len |-> -1, properties |-> <<Property(1, ArrayOf(Signed(2), 0)), Property(2, Signed(4))>>]

VariablePack ==
    [kind |-> "pack", key |-> -1, len |-> 1,
     properties |-> <<Property(1, RawBytes(0)), Property(2, BatchOf(Pair(Unsigned(1), Signed(1)))), Property(3, Unsigned(2))>>]

\* Other programs: tags that are not known, values that are longer or shorter
\* than their types, nothing in a value, a property twice, short lengths, a
\* batch that claims more than there is, and a pack without its last item.
OtherPrograms ==
    {[scene |-> LocalSet, says |-> 4 :> <<1, 2>> @@ 99 :> <<7>>,
      bytes |-> <<6, 3, 0, 1, 7>> \o <<0, 2, 0, 0>> \o <<0, 4, 0, 3, 1, 2, 3>> \o <<0, 4, 0, 2, 1, 1>>],
     [scene |-> ByteSet, says |-> 3 :> <<7>> @@ 1 :> <<<<-1>>, <<1>>>>,
      bytes |-> <<15, 1, 7>> \o <<3, 9, 2, 7, 7>> \o <<1, 10, 0, 3, 15, 1, 2>> \o <<2, 0>>],
     [scene |-> BERSet, says |-> 5 :> <<-16>> @@ 9 :> <<<<<<1>>, <<35>>>>>>,
      bytes |-> <<9, 7, 1, 5>> \o <<5, 2, 15, 0>> \o <<9, 1, 12>> \o <<0, 0, 0, 3, 0, 0, 0, 3, 1, 2, 3, 4>>],
     [scene |-> VariablePack, says |-> 1 :> <<7, 7>>, bytes |-> <<2, 7, 7, 0>>]}

V == INSTANCE Values WITH
         Scenes <- {LocalSet, CompoundSet, ByteSet, BERSet, RandomIndex, VariablePack},
         Numbers <- {-3, 9}, Lists <- {<<40>>, <<5, 4>>}, Strings <- {<<9>>, <<1, 2, 3>>}, MaxItems <- 2, Foreign <- OtherPrograms

valueVars == <<scene, object, said, whole, changed>>

\* Identifiers and labels: one that is itself the value of a label with mask.
SomeKey == <<6, 14, 43, 52, 1, 1, 1, 1, 13, 1, 2, 3, 4, 5, 6, 7>>

SomeUUID == <<137, 2, 3, 4, 5, 6, 7, 8, 17, 18, 19, 20, 21, 22, 23, 24>>

SomeIdentities ==
    {SomeKey, [SomeKey EXCEPT ![16] = 9], [SomeKey EXCEPT ![1] = 1], SomeUUID, [SomeUUID EXCEPT ![9] = 200],
     <<1, 2, 3, 4, 5, 6, 7, 8>> \o SubSeq(SomeKey, 1, 8)}

SomeLabels ==
    {[name |-> "Frame", value |-> SomeKey, mask |-> {}], [name |-> "Any", value |-> SomeKey, mask |-> {15, 16}],
     [name |-> "One", value |-> [SomeKey EXCEPT ![16] = 8], mask |-> {16}]}

VARIABLES class, ident, text, truth, labels, symbols, labelFormat

D == INSTANCE Identifiers WITH
         Identities <- SomeIdentities, Basic <- [i \in 1..16 |-> i], LabelDefs <- SomeLabels, MaxLabels <- 3

textVars == <<class, ident, text, truth, labels, symbols, labelFormat>>

\* What rests does so in one of its initial states, Recovery has only one.
MCInit ==
    /\ part \in {"file", "values", "identifiers"} /\ Init /\ V!Init /\ D!Init
    /\ part # "values" => scene = RandomIndex
    /\ part # "identifiers" => class = "UL" /\ truth = SomeKey

MCNext ==
    \/ part = "file" /\ Next /\ UNCHANGED <<part, valueVars, textVars>>
    \/ part = "values" /\ V!Next /\ UNCHANGED <<part, vars, textVars>>
    \/ part = "identifiers" /\ D!Next /\ UNCHANGED <<part, vars, valueVars>>

MCSpec == MCInit /\ [][MCNext]_<<part, vars, valueVars, textVars>>

\* What an object says is what was set last, through whatever is done to it, and it is known
\* to be modified when a property other than GenerationUID has been set.
ObjectsTrue == V!ValuesTrue /\ V!ModifiedTrue

\* An identifier remains what it is through any chain of texts, readers and classes.
IdentityTrue == D!IdentityTrue

=============================================================================
