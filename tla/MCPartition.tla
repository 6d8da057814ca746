---------------------------- MODULE MCPartition -----------------------------
(***************************************************************************)
(* The parts of a partition for TLC: its metadata sets and their links     *)
(* (Linking), its primer (Primer) and its layout in the file               *)
(* (PartitionLayout).  They share no state, so a behaviour is about one of *)
(* them, which part says, while the others rest.                           *)
(*                                                                         *)
(* Linking: a preface that owns packages, a package that owns tracks, and  *)
(* weak references up and down.  Primer: three properties, one with a      *)
(* static tag, and two dynamic tags.  PartitionLayout: sizes around that   *)
(* of the smallest filler and around multiples of the KAG.  Dictionary:    *)
(* two dictionaries, one extending the other, in every order.              *)
(***************************************************************************)
EXTENDS Linking, TLC

CONSTANTS preface, package, track, alpha, beta, gamma, Unknown

VARIABLES
    part,
    tagOf, primer, items, file,
    set, counts, spans, tail, result,
    dictionary, arrays, section, list, at, unresolved, stack, types, class, found, allTypes

\* Linking.
TreeRefs ==
    [s \in Set |-> CASE s = preface -> <<"Packages", "Primary">>
                     [] s = package -> <<"Tracks", "Back">>
                     [] OTHER -> << >>]

TreeStrong == {"Packages", "Tracks"}

TreeTargets ==
    [r \in Ref |-> CASE r \in {"Packages", "Primary"} -> {package, track}
                     [] r = "Tracks" -> {track}
                     [] OTHER -> {preface, track}]

\* Primer: another program that gives dynamic tags from below, that has two
\* tags for one property, and that claims fewer entries than it wrote.
OtherPrograms ==
    {[pack |-> <<<<1, alpha>>, <<3, beta>>>>, claimed |-> 2, items |-> {<<1, alpha>>, <<3, beta>>}],
     [pack |-> <<<<3, gamma>>, <<4, gamma>>>>, claimed |-> 2, items |-> {<<4, gamma>>}],
     [pack |-> <<<<4, beta>>, <<5, alpha>>, <<3, gamma>>>>, claimed |-> 2, items |-> {<<4, beta>>, <<3, gamma>>}]}

\* A metadictionary has a tag of its own for a property.
Tags ==
    INSTANCE Primer WITH Property <- {alpha, beta, gamma}, BuiltInTag <- [u \in {alpha, beta, gamma, Unknown} |-> IF u = alpha THEN 1 ELSE 0],
                         LowDynamic <- 4, TopDynamic <- 5, Foreign <- OtherPrograms, Metadict <- {<<gamma, 2>>}

\* PartitionLayout: any KAG, and block alignment without a KAG and without requested padding.
Free == {[size |-> 0, essence |-> 0, index |-> 0]}

Blocks == {[size |-> 64, essence |-> 0, index |-> 0], [size |-> 100, essence |-> 20, index |-> 30]}

Of(kags, blocks) == [kind : {"header", "body", "footer"}, kag : kags, block : blocks, sid : {0, 1}]

Sized(packs, metas, indexes, paddings) ==
    [start : {0}, pack : packs, meta : metas, index : indexes, padding : paddings, min : {0, 150}]

MCLayouts ==
    (Of({0, 1, 16, 20}, Free) \X Sized({88, 96}, {0, 64, 79, 80, 100}, {0, 32, 47, 48}, {0, 40}))
    \cup (Of({0, 1}, Blocks) \X Sized({88}, {0, 64, 80, 100}, {0, 32, 48}, {0}))

CONSTANT Drops

Layout ==
    INSTANCE PartitionLayout WITH Layouts <- MCLayouts, Rewrites <- {64, 79, 80, 100} \X {0, 32, 47, 48}

\* Dictionary: records that rest on later ones, and on what is never defined.
Type(name, kind, base, target) == [name |-> name, kind |-> kind, base |-> base, subs |-> << >>, target |-> target]

TypeRecords ==
    <<Type("Lost", "interpretation", "Nowhere", None), Type("Byte", "basic", None, None), Type("Id", "interpretation", "Byte", "Package"),
      Type("Ids", "multiple", "Id", None),
      [Type("Kind", "enum", "Id", None) EXCEPT !.subs = <<[name |-> "a", value |-> 1], [name |-> "b", value |-> 1]>>],
      [Type("Pair", "compound", None, None) EXCEPT !.subs = <<[name |-> "one", base |-> "Byte"], [name |-> "two", base |-> "Kind"]>>]>>

MoreTypes ==
    <<Type("Word", "interpretation", "Pair", None), Type("Byte", "basic", None, None),
      [Type("Kind", "enum", "Id", None) EXCEPT !.subs = <<[name |-> "c", value |-> 2]>>],
      [Type("Pair", "compound", None, None) EXCEPT !.subs = <<[name |-> "one", base |-> "Byte"], [name |-> "six", base |-> "Byte"]>>]>>

Item(name, type) ==
    [name |-> name, kind |-> "item", base |-> type, target |-> None, extendSubs |-> TRUE, children |-> << >>, parent |-> None]

Class(name, kind, base, children) ==
    [name |-> name, kind |-> kind, base |-> base, target |-> None, extendSubs |-> TRUE, children |-> children, parent |-> None]

ClassRecords ==
    <<Class("Orphan", "set", "Nowhere", <<Item("never", "Byte")>>),
      Class("Root", "set", None, <<Item("uid", "Id")>>),
      Class("Package", "set", "Root", <<Item("tracks", "Ids")>>),
      Class("Material", "set", "Package", <<Item("odd", "Lost"), Item("pair", "Pair")>>),
      Class("Root", "extend", None, <<Item("gen", "Kind")>>),
      Class("Host", "pack", None, <<Class("batch", "vector", None, <<Item("entry", "Id")>>),
                                    Class("inner", "set", "Package", << >>)>>)>>

MoreClasses ==
    <<[Class("Root", "extend", None, <<Item("own", "Byte")>>) EXCEPT !.extendSubs = FALSE],
      Class("Package", "extend", None, <<Item("gen", "Byte"), Item("name", "Word")>>),
      Class("Late", "set", "Package", <<Item("pair", "Pair")>>),
      Class("Host", "extend", None, <<Item("pair", "Pair"), Class("nest", "set", None, <<Item("leaf", "Byte")>>)>>)>>

\* All orders of what follows the first, which rests on nothing that there will be.
Orders(s) == {<<Head(s)>> \o [i \in DOMAIN Tail(s) |-> Tail(s)[p[i]]] : p \in Permutations(DOMAIN Tail(s))}

Section(kind, records) == [kind |-> kind, records |-> records]

MCDictionaries ==
    {<<Section("types", t), Section("classes", ClassRecords)>> : t \in Orders(TypeRecords)}
    \cup {<<Section("types", TypeRecords), Section("classes", c), Section("types", MoreTypes), Section("classes", MoreClasses)>> :
              c \in Orders(ClassRecords)}
    \cup {<<Section("types", TypeRecords), Section("classes", ClassRecords), Section("types", MoreTypes), Section("classes", c)>> :
              c \in Orders(MoreClasses)}

Dict == INSTANCE Dictionary WITH Dictionaries <- MCDictionaries

ASSUME PartitionAssumption == Tags!PrimerAssumption /\ Layout!LayoutAssumption

primerVars == <<tagOf, primer, items, file>>

layoutVars == <<set, counts, spans, tail, result>>

dictionaryVars == <<dictionary, arrays, section, list, at, unresolved, stack, types, class, found, allTypes>>

\* The dictionary rests in one of its initial states, the other parts have only one.
MCInit ==
    /\ part \in {"sets", "primer", "layout", "dictionary"} /\ Init /\ Tags!Init /\ Layout!Init /\ Dict!Init
    /\ part # "dictionary" => dictionary = CHOOSE d \in MCDictionaries : TRUE

MCNext ==
    \/ part = "sets" /\ Next /\ UNCHANGED <<part, primerVars, layoutVars, dictionaryVars>>
    \/ part = "primer" /\ Tags!Next /\ UNCHANGED <<vars, part, layoutVars, dictionaryVars>>
    \/ part = "layout" /\ Layout!Next /\ UNCHANGED <<vars, part, primerVars, dictionaryVars>>
    \/ part = "dictionary" /\ Dict!Next /\ UNCHANGED <<vars, part, primerVars, layoutVars>>

\* AddMetadata and LoadDictionary are calls of one thread that goes on.
MCSpec ==
    /\ MCInit /\ [][MCNext]_<<vars, part, primerVars, layoutVars, dictionaryVars>>
    /\ WF_vars(Step) /\ WF_dictionaryVars(part = "dictionary" /\ Dict!Step /\ UNCHANGED <<vars, part, primerVars, layoutVars>>)

\* The types of the three parts.
PartsOK == TypeOK /\ Tags!TypeOK /\ Layout!TypeOK

\* What is written through one primer is read back through another, and a
\* property goes without a tag only when all are in use.
TagsTrue == Tags!Readable /\ Tags!RoundTrip /\ Tags!ZeroOnlyWhenFull

\* Whatever is written again in place of a partition ends where it ended.
RewriteInPlace == Layout!RewriteInPlace

\* Fillers can be written, metadata, index and essence are on the KAG or the
\* block grid, the byte counts of the pack lead to them, and they stay within
\* the partition, also after it has been written again any number of times.
LayoutTrue ==
    /\ Layout!FillersFit /\ Layout!KagKept /\ Layout!BlockKept
    /\ Layout!CountsLead
    /\ RewriteInPlace

\* Whatever the order of its records, all of a dictionary that can be resolved is defined
\* once, and classes have the children of their bases, also those that these get later.
DictionaryTrue == part = "dictionary" => Dict!DictionaryTrue

\* A call of AddMetadata returns, along whatever links; so does LoadDictionary, whatever
\* cannot be resolved.
CallsReturn == Returns /\ (part = "dictionary" ~> Dict!Done)
=============================================================================
