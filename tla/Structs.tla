------------------------------ MODULE Structs ------------------------------
(***************************************************************************)
(* Structures: construction along the chain of parents, copying, member    *)
(* access and finalizers (core/core.hpp, structure and struct_builder).    *)
(*                                                                         *)
(* An object is the sequence of its parts, one per class from the base on, *)
(* each with the domain of its class: the slots of its parent's domain,    *)
(* shared, and its own.  Slots and parts are names, with the tag of the    *)
(* copy they were made for: the number of the object, and then one digit   *)
(* for each parent that was copied for it.                                 *)
(***************************************************************************)
EXTENDS SequencesExt, FiniteSetsExt, Integers

CONSTANTS Owners,       \* the variables that hold objects
          Classes,      \* classes 1 .. Classes, each extends the one before
          DeclaredIn,   \* DeclaredIn[c]: the members that class c declares
          MaxObjects    \* bound: objects made, by new or by a copy

ASSUME StructsAssumption ==
    /\ Classes \in Nat \ {0} /\ MaxObjects \in Nat
    /\ \A c \in 1 .. Classes : DeclaredIn[c] # {}

VARIABLES held,        \* per variable, its object or NoObject
          finalized,   \* the parts whose finalizer ran, in order
          made         \* objects made so far
structsVars == <<held, finalized, made>>

Name(tag, x) == [copy |-> tag, of |-> x]
NoObject == <<>>
NoPart == Name(<<0>>, 0)
MembersOf(c) == UNION {DeclaredIn[d] : d \in 1 .. c}
PartsOf(o) == [d \in DOMAIN o |-> o[d].part]
SlotsOf(o) == UNION {{o[d].slot[m] : m \in DOMAIN o[d].slot} : d \in DOMAIN o}
-----------------------------------------------------------------------------
(* struct_builder::operator(): the parent is constructed first, its domain *)
(* is involved, and the members of the class are added or override: the    *)
(* slot of a member is from the last class that declares it.               *)
LastDeclaring(c, m) == Max({d \in 1 .. c : m \in DeclaredIn[d]})
SlotInBuilt(c, n) == [m \in MembersOf(c) |-> Name(<<n>>, <<LastDeclaring(c, m), m>>)]
Build(c, n) == [d \in 1 .. c |-> [part |-> Name(<<n>>, d), slot |-> SlotInBuilt(d, n)]]

(* structure(const structure &) copies the parent (digit 1), and takes from*)
(* it what the object shares with its parent; a parent that has one itself *)
(* brings a second "parent" along, which is copied again (digit 2) and     *)
(* stays.                                                                  *)
Down(tag, n, digit) == tag \o [i \in 1 .. n |-> digit]
TagInCopy(k, tag, d) ==
    IF d > 1 THEN Down(tag, k - d, 2)
    ELSE IF k > 1 THEN Append(Down(tag, k - 2, 2), 1) ELSE tag

(* A parent's copy takes from the copy of its own parent, down to the part *)
(* with which the member is not shared.                                    *)
SharedFrom(o, d, m) ==
    Min({e \in 1 .. d : \A f \in e .. d : m \in DOMAIN o[f].slot /\ o[f].slot[m] = o[d].slot[m]})
SlotInCopy(o, d, tag) ==
    [m \in DOMAIN o[d].slot |-> Name(Down(tag, d - SharedFrom(o, d, m), 1), o[d].slot[m].of)]
CopyStructure(o, tag) ==
    [d \in DOMAIN o |-> LET t == TagInCopy(Len(o), tag, d)
                        IN [part |-> Name(t, d), slot |-> SlotInCopy(o, d, t)]]

(* ~structure(): the finalizer of a part, then its domain and with it the  *)
(* parent.                                                                 *)
Done(parts, d) == [part |-> parts[d], parent |-> IF d = 1 THEN NoPart ELSE parts[d - 1]]
FinalizeParentFirst(parts) == \* MUTANT: the domain goes before the finalizer runs
    [i \in DOMAIN parts |-> Done(parts, i)]
Finalizing(parts) == [i \in DOMAIN parts |-> Done(parts, Len(parts) + 1 - i)]

(* The first copies of the parents do not outlive the copying.             *)
DroppedCopies[k \in Nat] ==
    [tag \in Seq(Nat) |->
        LET first == Append(tag, 1)
        IN IF k < 3 THEN <<>>
           ELSE DroppedCopies[k - 1][first] \o DroppedCopies[k - 1][Append(tag, 2)]
                \o Finalizing([d \in 1 .. (k - 1) |-> Name(TagInCopy(k - 1, first, d), d)])]
-----------------------------------------------------------------------------
StructsInit ==
    /\ held = [h \in Owners |-> NoObject]
    /\ finalized = <<>> /\ made = 0

Place(h, o, dropped) ==
    /\ made < MaxObjects
    /\ made' = made + 1
    /\ held' = [held EXCEPT ![h] = o]
    /\ finalized' = finalized \o dropped \o Finalizing(PartsOf(held[h]))

New(h, c) == Place(h, Build(c, made + 1), <<>>)

(* `var h = from`, and clone().                                            *)
CopyTo(h, from) ==
    /\ held[from] # NoObject
    /\ Place(h, CopyStructure(held[from], <<made + 1>>), DroppedCopies[Len(held[from])][<<made + 1>>])

ReleaseOwner(h) ==
    /\ held[h] # NoObject
    /\ held' = [held EXCEPT ![h] = NoObject]
    /\ finalized' = finalized \o Finalizing(PartsOf(held[h]))
    /\ UNCHANGED made

StructsNext ==
    \E h \in Owners :
        \/ \E c \in 1 .. Classes : New(h, c)
        \/ \E from \in Owners : CopyTo(h, from)
        \/ ReleaseOwner(h)
StructsSpec == StructsInit /\ [][StructsNext]_structsVars
-----------------------------------------------------------------------------
(* A member that a class inherits is one slot in the whole object, whether *)
(* it is reached through the object or through its parent.  In a copy this *)
(* is so for the parent that has no parent itself; what an object shares   *)
(* with any other parent its copy shares with the one that was dropped.    *)
IsCopy(o) == o[1].part.copy # o[Len(o)].part.copy
InheritedMembersAreShared ==
    \A h \in Owners : \A d \in 2 .. Len(held[h]) :
        d = 2 \/ ~IsCopy(held[h]) =>
            \A m \in MembersOf(d - 1) \ DeclaredIn[d] : held[h][d].slot[m] = held[h][d - 1].slot[m]

(* Two objects have no slot in common.                                     *)
CopiesAreDetached ==
    \A g, h \in Owners : g # h => SlotsOf(held[g]) \cap SlotsOf(held[h]) = {}

(* Finalizers run once for each part, for none that is alive, and for a    *)
(* part while its parent is still there.                                   *)
FinalizedOnce ==
    /\ \A i, j \in DOMAIN finalized : i # j => finalized[i].part # finalized[j].part
    /\ \A h \in Owners : \A d \in DOMAIN held[h] :
           \A i \in DOMAIN finalized : finalized[i].part # held[h][d].part
FinalizersSeeTheirParents ==
    \A i, j \in DOMAIN finalized : i < j => finalized[i].part # finalized[j].parent

(* An object of a class with parents is one object: inherited members are  *)
(* one slot, copies share none, and every part is finalized once, before   *)
(* its parent (struct_builder and copy and clear of structure).            *)
StructsInv ==
    /\ InheritedMembersAreShared
    /\ CopiesAreDetached
    /\ FinalizedOnce
    /\ FinalizersSeeTheirParents
=============================================================================
