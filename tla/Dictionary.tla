----------------------------- MODULE Dictionary -----------------------------
(***************************************************************************)
(* Loading a dictionary (deftypes.cpp, mdtype.cpp, MDOType in              *)
(* mdobject.cpp): types, and classes with their items, that refer to each  *)
(* other by name and come in any order.  What cannot be resolved yet is    *)
(* put aside and tried again, until nothing new can be resolved; classes   *)
(* derive the items of their base, also those that the base is given       *)
(* later.                                                                  *)
(*                                                                         *)
(* A name stands for the name and the UL of a type or class.  Sizes,       *)
(* traits, formats, defaults, tags and symbol spaces are left out, and so  *)
(* are labels and the types that the library needs itself.                 *)
(***************************************************************************)
EXTENDS Integers, SequencesExt

\* The dictionaries: sequences of lists of types and lists of classes.
CONSTANTS Dictionaries, None

VARIABLES
    dictionary, \* what is loaded
    arrays,     \* its lists, as they are read from memory
    section,    \* the list of it that is being loaded
    list,       \* the records of this pass
    at,         \* the next of them
    unresolved, \* Unresolved, those for the next pass
    stack,      \* the calls of DefineClass: a class, and its child in which that is
    types,      \* MDType::ULLookup
    class,      \* all MDOType objects
    found,      \* MDOType::ULLookup
    allTypes    \* MDOType::AllTypes

vars == <<dictionary, arrays, section, list, at, unresolved, stack, types, class, found, allTypes>>

Current == dictionary[section]

Done == section > Len(dictionary) + 1

\* LoadDictionary: a list of types or classes, or the references at the end.
Loading(kind) == section <= Len(dictionary) /\ Current.kind = kind

Put(f, key, value) == [k \in DOMAIN f \cup {key} |-> IF k = key THEN value ELSE f[k]]

Get(f, key) == IF key \in DOMAIN f THEN f[key] ELSE 0

-----------------------------------------------------------------------------
(***************************************************************************)
(* The arrays in memory: members follow their type, children follow their  *)
(* class and end with an entry of their own, as the macros write them.     *)
(***************************************************************************)
End == [kind |-> "end"]

HasMembers(r) == r.kind \in {"compound", "enum"}

HasChildren(r) == r.kind # "item"

FlatTypes(records) ==
    FlattenSeq([i \in DOMAIN records |->
        <<[records[i] EXCEPT !.subs = << >>]>> \o [k \in DOMAIN records[i].subs |-> [kind |-> "sub", sub |-> records[i].subs[k]]]])
    \o <<End>>

RECURSIVE FlatClasses(_)
FlatClasses(records) ==
    FlattenSeq([i \in DOMAIN records |->
        IF HasChildren(records[i])
        THEN <<[records[i] EXCEPT !.children = << >>]>> \o FlatClasses(records[i].children)
        ELSE <<records[i]>>]) \o <<End>>

\* LoadTypes of an array.
ReadTypes(flat) ==
    LET LastSub(i) == CHOOSE j \in i .. Len(flat) :
                        (\A k \in i + 1 .. j : flat[k].kind = "sub") /\ flat[j + 1].kind # "sub"
        Read(i) == IF HasMembers(flat[i])
                   THEN [flat[i] EXCEPT !.subs = [k \in 1 .. LastSub(i) - i |-> flat[i + k].sub]] ELSE flat[i]
        heads == SetToSortSeq({i \in DOMAIN flat : flat[i].kind \notin {"sub", "end"}}, <)
    IN  [n \in DOMAIN heads |-> Read(heads[n])]

\* LoadClassesSub, for the classes from entry i on: the records, and the entry that ends them.
RECURSIVE ReadClassesFrom(_, _)
ReadClassesFrom(flat, i) ==
    IF flat[i] = End THEN <<<< >>, i>>
    ELSE LET inner == IF HasChildren(flat[i]) THEN ReadClassesFrom(flat, i + 1) ELSE <<<< >>, i>>
             rest == ReadClassesFrom(flat, inner[2] + 1)
         IN  <<<<[flat[i] EXCEPT !.children = inner[1]]>> \o rest[1], rest[2]>>

\* LoadClasses of an array.
ReadClasses(flat) == ReadClassesFrom(flat, 1)[1]

\* What LoadDictionary is to load in turn.
RecordsOf(x) ==
    IF x.kind = "types" THEN ReadTypes(FlatTypes(x.records)) ELSE ReadClasses(FlatClasses(x.records))

-----------------------------------------------------------------------------
(***************************************************************************)
(* Types.                                                                  *)
(***************************************************************************)

Given(new, old) == IF new = None THEN old ELSE new

NewType(r, target) == [kind |-> r.kind, base |-> r.base, subs |-> << >>, target |-> target]

\* AddInterpretation copies what its base refers to; the others are asked for it when it is needed.
AddType(r) ==
    NewType(r, IF r.kind = "interpretation" THEN types[r.base].target ELSE None)

\* The type is made unless there is one with this UL.
DefineType(r) ==
    LET t == IF r.name \in DOMAIN types THEN types[r.name] ELSE AddType(r)
    IN  [t EXCEPT !.target = Given(r.target, @)]

NextType == Loading("types") /\ at <= Len(list)

Advance == at' = at + 1 /\ UNCHANGED <<dictionary, arrays, section, list, stack>>

DefineBasic ==
    /\ NextType /\ list[at].kind = "basic"
    /\ types' = Put(types, list[at].name, DefineType(list[at]))
    /\ Advance /\ UNCHANGED <<unresolved, class, found, allTypes>>

DefineDerivedType ==
    /\ NextType /\ list[at].kind \in {"interpretation", "multiple"}
    /\ list[at].base \in DOMAIN types
    /\ types' = Put(types, list[at].name, DefineType(list[at]))
    /\ Advance /\ UNCHANGED <<unresolved, class, found, allTypes>>

\* Names and values that are there already are refused.
AddEnumValue(values, v) ==
    IF \E i \in DOMAIN values : values[i].name = v.name \/ values[i].value = v.value
    THEN values ELSE Append(values, v)

DefineEnum ==
    /\ NextType /\ list[at].kind = "enum"
    /\ list[at].base \in DOMAIN types
    /\ LET r == list[at]
           t == IF r.name \in DOMAIN types THEN types[r.name] ELSE AddType(r)
       IN  types' = Put(types, r.name, [t EXCEPT !.subs = FoldLeft(AddEnumValue, @, r.subs)])
    /\ Advance /\ UNCHANGED <<unresolved, class, found, allTypes>>

Members(t) == {t.subs[i].name : i \in DOMAIN t.subs}

Extending(r) == r.name \in DOMAIN types

\* The first member that stops the definition of a compound.
Obstacles(r) ==
    {i \in DOMAIN r.subs : \/ r.subs[i].base \notin DOMAIN types
                           \/ Extending(r) /\ r.subs[i].name \notin Members(types[r.name])}

FirstObstacle(r) == CHOOSE i \in Obstacles(r) : \A j \in Obstacles(r) : i <= j

\* Of members with one name the first counts.
AddMember(members, m) ==
    IF \E i \in DOMAIN members : members[i].name = m.name THEN members ELSE Append(members, m)

DefineCompound ==
    /\ NextType /\ list[at].kind = "compound" /\ Obstacles(list[at]) = {}
    /\ LET r == list[at]
       IN  types' = IF Extending(r) THEN types
                    ELSE Put(types, r.name, [AddType(r) EXCEPT !.subs = FoldLeft(AddMember, << >>, r.subs)])
    /\ Advance /\ UNCHANGED <<unresolved, class, found, allTypes>>

\* A compound cannot be given new members: the record is passed over.
SkipCompound ==
    /\ NextType /\ list[at].kind = "compound" /\ Obstacles(list[at]) # {}
    /\ list[at].subs[FirstObstacle(list[at])].base \in DOMAIN types
    /\ Advance /\ UNCHANGED <<unresolved, types, class, found, allTypes>>

\* A base or a member's base is not known yet.
Unresolvable(r) ==
    \/ r.kind \in {"interpretation", "multiple", "enum"} /\ r.base \notin DOMAIN types
    \/ /\ r.kind = "compound" /\ Obstacles(r) # {}
       /\ r.subs[FirstObstacle(r)].base \notin DOMAIN types

DeferType ==
    /\ NextType /\ Unresolvable(list[at])
    /\ unresolved' = Append(unresolved, list[at])
    /\ Advance /\ UNCHANGED <<types, class, found, allTypes>>

NextPart ==
    /\ section' = section + 1 /\ at' = 1 /\ unresolved' = << >>
    /\ list' = IF section < Len(dictionary) THEN arrays[section + 1] ELSE << >>

NextPass == list' = unresolved /\ at' = 1 /\ unresolved' = << >> /\ UNCHANGED section

\* The end of a pass: nothing is left, nothing could be resolved, or there is a next pass.
EndTypes ==
    /\ Loading("types") /\ at > Len(list)
    /\ IF Len(unresolved) \in {0, Len(list)} THEN NextPart ELSE NextPass
    /\ UNCHANGED <<dictionary, arrays, stack, types, class, found, allTypes>>

\* EffectiveRefTargetName.
EffectiveTarget(name) ==
    LET Target[t \in DOMAIN types] ==
            IF types[t].target # None THEN types[t].target
            ELSE IF types[t].kind \in {"interpretation", "enum", "multiple"} THEN Target[types[t].base] ELSE None
    IN  Target[name]

-----------------------------------------------------------------------------
(***************************************************************************)
(* Classes.                                                                *)
(***************************************************************************)
Children(o) == {class[class[o].children[i]].name : i \in DOMAIN class[o].children}

ChildNamed(o, name) ==
    IF o # 0 /\ name \in Children(o)
    THEN CHOOSE c \in ToSet(class[o].children) : class[c].name = name ELSE 0

Top == stack[Len(stack)]

IsList(r) == r.kind \in {"array", "vector"}

\* Old-style arrays and vectors become types: their child is not built.
MoreChildren == stack # << >> /\ ~IsList(Top.record) /\ Top.next <= Len(Top.record.children)

\* The record that DefineClass is called for, and the class it is a child of.
Calls == Loading("classes") /\ (IF stack = << >> THEN at <= Len(list) ELSE MoreChildren)

Record ==
    IF stack = << >> THEN list[at]
    ELSE LET r == Top.record.children[Top.next]
         IN  [r EXCEPT !.extendSubs = @ /\ Top.record.extendSubs]

Parent == IF stack = << >> THEN Get(found, Record.parent) ELSE Top.object

\* The same child of the parent, or else a class with this UL.
Existing ==
    IF ChildNamed(Parent, Record.name) # 0 THEN ChildNamed(Parent, Record.name) ELSE Get(found, Record.name)

Enter(object, new) ==
    /\ stack' = Append(stack, [record |-> Record, object |-> object, new |-> new, next |-> 1])
    /\ UNCHANGED <<dictionary, arrays, section, list, at, unresolved, types, found, allTypes>>

\* ReDefine: items may be given another type and reference.
ReDefine(r, o) ==
    IF r.kind # "item" THEN class[o]
    ELSE [class[o] EXCEPT !.type = IF r.base \in DOMAIN types THEN r.base ELSE @,
                          !.target = Given(r.target, @)]

\* A class that is there is added to a second parent if that does not have it.
Extend ==
    /\ Calls /\ Existing # 0
    /\ LET redefined == [class EXCEPT ![Existing] = ReDefine(Record, Existing)]
           second == Parent \notin {0, class[Existing].parent} /\ Record.name \notin Children(Parent)
       IN  class' = IF second THEN [redefined EXCEPT ![Parent].children = Append(@, Existing)] ELSE redefined
    /\ Enter(Existing, FALSE)

NewClass(r, base, children, type, target) ==
    [name |-> r.name, kind |-> r.kind, base |-> base, parent |-> Parent, children |-> children,
     type |-> type, target |-> target, located |-> 0]

\* The new class is a child of its parent at once.
Create(o) ==
    /\ class' = LET c == Append(class, o)
                IN  IF Parent = 0 THEN c ELSE [c EXCEPT ![Parent].children = Append(@, Len(c))]
    /\ Enter(Len(class) + 1, TRUE)

CreateItem ==
    /\ Calls /\ Existing = 0
    /\ Record.kind = "item" /\ Record.base \in DOMAIN types
    /\ Create(NewClass(Record, 0, << >>, Record.base, Given(Record.target, EffectiveTarget(Record.base))))

\* Derive: all children of the base are children of this class too.
Derive ==
    /\ Calls /\ Existing = 0
    /\ Record.kind # "item" /\ Record.base \in DOMAIN found
    /\ LET b == found[Record.base]
       IN  Create([NewClass(Record, b, class[b].children, class[b].type, class[b].target)
                      EXCEPT !.parent = IF Parent = 0 THEN class[b].parent ELSE Parent])

\* An array of what its one child is; of a vector the reference is that of the child.
CreateList ==
    /\ Calls /\ Existing = 0
    /\ IsList(Record) /\ Record.base = None
    /\ Len(Record.children) = 1 /\ Record.children[1].base \in DOMAIN types
    /\ LET sub == Record.children[1]
       IN  Create(NewClass(Record, 0, << >>, sub.base,
                           IF Record.kind = "array" THEN None
                           ELSE Given(sub.target, EffectiveTarget(sub.base))))

CreateContainer ==
    /\ Calls /\ Existing = 0
    /\ Record.kind \in {"set", "pack"} /\ Record.base = None
    /\ Create(NewClass(Record, 0, << >>, None, None))

\* The base or the type is not known, or there is nothing to extend.
Fails ==
    LET r == Record
    IN  CASE r.kind = "item" -> r.base \notin DOMAIN types
          [] r.kind # "item" /\ r.base # None -> r.base \notin DOMAIN found
          [] IsList(r) /\ r.base = None ->
                Len(r.children) # 1 \/ r.children[1].base \notin DOMAIN types
          [] OTHER -> r.kind = "extend"

DeferClass ==
    /\ Calls /\ Existing = 0 /\ Fails /\ stack = << >>
    /\ unresolved' = Append(unresolved, Record)
    /\ at' = at + 1
    /\ UNCHANGED <<dictionary, arrays, section, list, stack, types, class, found, allTypes>>

\* Only a top-level class has a list for children that fail.  A child that fails in a
\* child makes that fail as a whole, wherever it has been entered so far.
DeferChild ==
    /\ Calls /\ Existing = 0 /\ Fails /\ stack # << >>
    /\ LET r == IF Len(stack) = 1 THEN Record ELSE stack[2].record
       IN  unresolved' = Append(unresolved, [r EXCEPT !.parent = stack[1].record.name])
    /\ stack' = <<[stack[1] EXCEPT !.next = @ + 1]>>
    /\ UNCHANGED <<dictionary, arrays, section, list, at, types, class, found, allTypes>>

\* IsA.
IsA(o, b) ==
    LET Is[c \in DOMAIN class] == c = b \/ (class[c].base # 0 /\ Is[class[c].base])
    IN  Is[o]

Alternate(s, t) ==
    [i \in 1 .. Len(s) + Len(t) |->
        LET n == IF Len(s) < Len(t) THEN Len(s) ELSE Len(t)
        IN  CASE i > 2 * n -> IF Len(s) > n THEN s[i - n] ELSE t[i - n]
              [] i % 2 = 1 -> s[(i + 1) \div 2]
              [] OTHER -> t[i \div 2]]

\* ReDerive: from the first difference on the children of the base are put in, each
\* before the next of the derived class.
ReDerive(own, base) ==
    LET differs == {i \in DOMAIN base : i > Len(own) \/ own[i] # base[i]}
        k == IF differs = {} THEN Len(base) + 1 ELSE CHOOSE i \in differs : \A j \in differs : i <= j
    IN  IF differs = {} THEN own
        ELSE SubSeq(own, 1, k - 1) \o Alternate(SubSeq(base, k, Len(base)), SubSeq(own, k, Len(own)))

\* Only those that derive from it directly.
ExtendedDirect(o) ==
    [c \in DOMAIN class |->
        IF c # o /\ c \in ToSet(allTypes) /\ class[c].base = o
        THEN [class[c] EXCEPT !.children = ReDerive(@, class[o].children)] ELSE class[c]]

\* All classes that derive from one that was extended.
Extended(o) ==
    [c \in DOMAIN class |->
        IF c # o /\ c \in ToSet(allTypes) /\ IsA(c, o)
        THEN [class[c] EXCEPT !.children = ReDerive(@, class[o].children)] ELSE class[c]]

\* DefineClass returns: a new class can be found from now on.
Leave ==
    /\ Loading("classes") /\ stack # << >> /\ ~MoreChildren
    /\ IF Top.new
       THEN /\ found' = Put(found, Top.record.name, Top.object)
            /\ allTypes' = Append(allTypes, Top.object)
            /\ UNCHANGED class
       ELSE /\ class' = IF Top.record.extendSubs /\ class[Top.object].children # << >>
                        THEN Extended(Top.object) ELSE class
            /\ UNCHANGED <<found, allTypes>>
    /\ IF Len(stack) = 1
       THEN stack' = << >> /\ at' = at + 1
       ELSE /\ stack' = [Front(stack) EXCEPT ![Len(stack) - 1].next = @ + 1]
            /\ UNCHANGED at
    /\ UNCHANGED <<dictionary, arrays, section, list, unresolved, types>>

\* CountClassRecords.
RECURSIVE CountClassRecords(_)
CountClassRecords(records) ==
    FoldLeft(LAMBDA n, r : n + CountClassRecords(r.children), Len(records), records)

Stuck ==
    /\ Len(unresolved) = Len(list)
    /\ CountClassRecords(unresolved) = CountClassRecords(list)

EndClasses ==
    /\ Loading("classes") /\ stack = << >> /\ at > Len(list)
    /\ IF unresolved = << >> \/ Stuck THEN NextPart ELSE NextPass
    /\ UNCHANGED <<dictionary, arrays, stack, types, class, found, allTypes>>

\* LocateRefTypes, at the end of LoadDictionary.
LocateRefTypes ==
    /\ section = Len(dictionary) + 1
    /\ class' = [c \in DOMAIN class |->
                    IF c \in ToSet(allTypes) /\ class[c].located = 0 /\ class[c].target # None
                    THEN [class[c] EXCEPT !.located = Get(found, class[c].target)] ELSE class[c]]
    /\ section' = section + 1
    /\ UNCHANGED <<dictionary, arrays, list, at, unresolved, stack, types, found, allTypes>>

Init ==
    /\ dictionary \in Dictionaries
    /\ arrays = [i \in DOMAIN dictionary |-> RecordsOf(dictionary[i])]
    /\ section = 1 /\ list = arrays[1] /\ at = 1
    /\ unresolved = << >> /\ stack = << >>
    /\ types = << >> /\ class = << >> /\ found = << >> /\ allTypes = << >>

Step ==
    \/ DefineBasic \/ DefineDerivedType \/ DefineEnum \/ DefineCompound \/ SkipCompound
    \/ DeferType \/ EndTypes
    \/ Extend \/ CreateItem \/ Derive \/ CreateList \/ CreateContainer
    \/ DeferClass \/ DeferChild \/ Leave \/ EndClasses
    \/ LocateRefTypes

Rest == Done /\ UNCHANGED vars

Next == Step \/ Rest

\* The loading is one call.
Spec == Init /\ [][Next]_vars /\ WF_vars(Step)

-----------------------------------------------------------------------------
(***************************************************************************)
(* What a dictionary says, without the order in which it says it.          *)
(***************************************************************************)
Lists(kind) == {p \in DOMAIN dictionary : dictionary[p].kind = kind}

Records(p) == ToSet(dictionary[p].records)

TypeNeeds(r) ==
    CASE r.kind = "basic" -> {}
      [] r.kind = "compound" -> {r.subs[i].base : i \in DOMAIN r.subs}
      [] OTHER -> {r.base}

\* Types up to a list: the least set that has what rests on it.
RECURSIVE TypesFrom(_, _)
TypesFrom(known, records) ==
    LET more == known \cup {r.name : r \in {x \in records : TypeNeeds(x) \subseteq known}}
    IN  IF more = known THEN known ELSE TypesFrom(more, records)

KnownTypes ==
    LET T[p \in 0 .. Len(dictionary)] ==
            IF p = 0 THEN {} ELSE IF p \in Lists("types") THEN TypesFrom(T[p - 1], Records(p)) ELSE T[p - 1]
    IN  T

\* What a class record needs before it can be resolved, and what it defines then.
Resolves(r, p, known) ==
    CASE r.kind = "item" -> r.base \in KnownTypes[p]
      [] r.kind # "item" /\ r.base # None -> r.base \in known
      [] IsList(r) -> r.children[1].base \in KnownTypes[p]
      [] r.kind = "extend" -> r.name \in known
      [] OTHER -> TRUE

Built(r, p, known) ==
    IF IsList(r) THEN {} ELSE {x \in ToSet(r.children) : x.name \in known \/ Resolves(x, p, known)}

Defines(r, p, known) ==
    {r.name} \cup {x.name : x \in Built(r, p, known)}
             \cup UNION {{y.name : y \in Built(x, p, known)} : x \in Built(r, p, known)}

RECURSIVE ClassesFrom(_, _)
ClassesFrom(known, p) ==
    LET more == known \cup UNION {Defines(r, p, known) : r \in {x \in Records(p) : Resolves(x, p, known)}}
    IN  IF more = known THEN known ELSE ClassesFrom(more, p)

KnownClasses ==
    LET C[p \in 0 .. Len(dictionary)] ==
            IF p = 0 THEN {} ELSE IF p \in Lists("classes") THEN ClassesFrom(C[p - 1], p) ELSE C[p - 1]
    IN  C[Len(dictionary)]

\* The records that give class c children: those of c and of the classes it derives from.
\* An extension that is not for derived classes is for those that come later.
AllRecords ==
    UNION {LET nested == {<<p, x>> : x \in UNION {ToSet(r.children) : r \in Records(p)}}
           IN  {<<p, r>> : r \in Records(p)} \cup nested : p \in Lists("classes")}

Origin(name) == {q \in AllRecords : q[2].name = name /\ q[2].kind # "extend"}

RECURSIVE Ancestors(_)
Ancestors(name) ==
    {name} \cup UNION {IF q[2].kind # "item" /\ q[2].base # None THEN Ancestors(q[2].base) ELSE {} : q \in Origin(name)}

ChildrenSaid(name) ==
    UNION {{x.name : x \in {y \in ToSet(q[2].children) : ~IsList(q[2]) /\ y.name \in KnownClasses}} :
              q \in {z \in AllRecords :
                        /\ z[2].name \in Ancestors(name)
                        /\ \/ z[2].name = name \/ z[2].kind # "extend" \/ z[2].extendSubs
                           \/ \A y \in Origin(name) : z[1] < y[1]}}

-----------------------------------------------------------------------------
\* Whatever the order of its records, everything of a dictionary that can be resolved is
\* defined once and can be found, each class has the children that its records and those of
\* all its bases say, its base's first, and references lead to the classes that they name.
DictionaryTrue ==
    Done =>
        /\ DOMAIN types = KnownTypes[Len(dictionary)]
        /\ DOMAIN found = KnownClasses
        /\ \A n \in KnownClasses :
              LET c == class[found[n]]
              IN  /\ c.name = n
                  /\ Children(found[n]) = ChildrenSaid(n)
                  /\ c.base # 0 =>
                        IsPrefix(SelectSeq(class[c.base].children, LAMBDA x : x \in ToSet(c.children)), c.children)
                  /\ c.target \in KnownClasses => class[c.located].name = c.target
        /\ IsInjective(allTypes)
        /\ \A i \in DOMAIN class : IsInjective(class[i].children)
        /\ \A i \in ToSet(allTypes) : class[i].parent # 0 => i \in ToSet(class[class[i].parent].children)

=============================================================================
