--------------------------- MODULE StorageProofs ---------------------------
(***************************************************************************)
(* Machine-checked proofs about the variables of an instance: for any      *)
(* names, identifiers and number of domains, and whatever finalizers,      *)
(* nested compilations and fibers do in between, as long as no domain is   *)
(* moved while it is cleared, the cache in an identifier disagrees with    *)
(* the lookup by name for shadowed names and rewound globals only.         *)
(***************************************************************************)
EXTENDS Storage, SequenceTheorems, FiniteSetTheorems, TLAPS

(***************************************************************************)
(* The inductive invariant.  A domain has as many slots as names unless    *)
(* its slots are being given up, and no name has a slot it does not have;  *)
(* only a domain that has others below it is popped, and only the globals  *)
(* are ever rewound.                                                       *)
(***************************************************************************)
SlotsFit(d) == \A n \in DOMAIN d.index : d.index[n] < d.live

DomainSound(d) ==
    /\ d \in Domain
    /\ d.ending = "no" => d.live = Cardinality(DOMAIN d.index)
    /\ d.ending \in {"clear", "pop"} => d.index = <<>>
    /\ SlotsFit(d)

EndsRightly(d, s, k) ==
    /\ d.ending = "rewind" => s = Main /\ k = 1
    /\ d.ending = "pop" => k > 1

DataSound ==
    \A s \in Stacks : \A k \in 1 .. Len(data[s]) :
        DomainSound(data[s][k]) /\ EndsRightly(data[s][k], s, k)

SavedSound ==
    /\ saved \in Seq(Domain)
    /\ \A k \in 1 .. Len(saved) : DomainSound(saved[k]) /\ (intact => saved[k].ending = "no")
    /\ Len(saved) <= MaxDomains

SizesSound ==
    /\ data[Member] # <<>> /\ Len(data[Member]) = 1
    /\ Len(data[Main]) <= MaxDomains /\ Len(data[Fiber]) <= MaxDomains

(* What an identifier remembers is a live slot of its name, or one of a    *)
(* global that safe_rewind() has destroyed already.                        *)
EntryLive(i, e) ==
    Declares(DomainAt(e.of), NameOf[i]) /\ DomainAt(e.of).index[NameOf[i]] = e.slot
EntryRewound(e) ==
    Rewinding /\ e.of = <<Main, 1>> /\ e.slot >= data[Main][1].live
EntrySound(i, e) ==
    e.of # Nowhere =>
        /\ e.of[2] \in 1 .. Len(data[e.of[1]])
        /\ EntryLive(i, e) \/ EntryRewound(e)

SlotSound(i) == EntrySound(i, cache[i])

SlotsSound == \A i \in Ids : SlotSound(i)

StorageIInv ==
    StorageTypeOK /\ DataSound /\ SavedSound /\ SizesSound /\ SlotsSound
-----------------------------------------------------------------------------
(* Every non-empty set of naturals has the least element that Min chooses. *)
LEMMA MinOfNats ==
    ASSUME NEW S \in SUBSET Nat, S # {}
    PROVE  Min(S) \in S /\ \A x \in S : Min(S) <= x
<1>1. PICK x \in S : \A y \in S : ~ (<<y, x>> \in OpToRel(<, Nat))
  BY NatLessThanWellFounded, WFMin
<1>2. ASSUME NEW y \in S PROVE x <= y
  <2>1. <<y, x>> \in Nat \X Nat /\ <<y, x>>[1] = y /\ <<y, x>>[2] = x
    OBVIOUS
  <2>2. y < x => <<y, x>> \in OpToRel(<, Nat)
    BY <2>1, Zenon DEF OpToRel
  <2>3. ~ (y < x)
    BY <1>1, <2>2, Zenon
  <2> QED
    BY <2>3
<1> QED
  BY <1>2 DEF Min

(* A sum below its bound leaves room for one more in either part.          *)
LEMMA SumLeavesRoom ==
    ASSUME NEW a \in Nat, NEW b \in Nat, NEW m \in Nat, a + b < m
    PROVE  a + 1 <= m /\ b + 1 <= m
OBVIOUS

(* The bounds of the assumption, as the provers need them.                 *)
LEMMA NamesFinite ==
    /\ Cardinality(Names) \in Nat
    /\ \A S \in SUBSET Names : /\ IsFiniteSet(S)
                               /\ Cardinality(S) \in Nat
                               /\ Cardinality(S) <= Cardinality(Names)
BY StorageAssumption, FS_CardinalityType, FS_Subset

(* A new domain is empty.                                                  *)
LEMMA NewDomainSound ==
    DomainSound(NewDomain) /\ NewDomain.ending = "no"
<1>1. <<>> \in [{} -> 0 .. (Cardinality(Names) - 1)] /\ DOMAIN <<>> = {}
  OBVIOUS
<1>2. <<>> \in Indexes
  BY <1>1 DEF Indexes
<1>3. Cardinality({}) = 0
  BY FS_EmptySet
<1> QED
  BY <1>1, <1>2, <1>3, NamesFinite DEF DomainSound, SlotsFit, NewDomain, Domain, Endings

(* A domain that gets a name has one slot more, that of the name, and the  *)
(* other names keep theirs.                                                *)
LEMMA DeclaredSound ==
    ASSUME NEW d, NEW n \in Names, DomainSound(d), d.ending = "no", ~Declares(d, n)
    PROVE  /\ DomainSound(Declared(d, n))
           /\ Declared(d, n).ending = "no"
           /\ Declares(Declared(d, n), n)
           /\ \A m : Declares(d, m) => /\ Declares(Declared(d, n), m)
                                       /\ Declared(d, n).index[m] = d.index[m]
<1> DEFINE S == DOMAIN d.index
           c == Cardinality(Names)
           T == S \cup {n}
           f == [m \in {n} \cup S |-> IF m = n THEN d.live ELSE d.index[m]]
<1>1. d \in Domain /\ d.live = Cardinality(S) /\ n \notin S
  BY DEF DomainSound, Declares
<1>2. S \in SUBSET Names /\ d.index \in [S -> 0 .. (c - 1)]
  BY <1>1 DEF Domain, Indexes
<1>3. T \in SUBSET Names /\ Cardinality(T) = d.live + 1
  BY <1>1, <1>2, NamesFinite, FS_AddElement
<1>4. c \in Nat /\ d.live \in Nat /\ d.live + 1 <= c
  BY <1>1, <1>2, <1>3, NamesFinite
<1>5. f \in [T -> 0 .. (c - 1)] /\ DOMAIN f = T
  BY <1>2, <1>4
<1>6. f \in Indexes
  BY <1>3, <1>5 DEF Indexes
<1>7. Declared(d, n) = [index |-> f, live |-> d.live + 1, ending |-> "no"]
  BY DEF Declared
<1>8. DomainSound(Declared(d, n))
  <2>1. Declared(d, n) \in Domain
    BY <1>4, <1>6, <1>7 DEF Domain, Endings
  <2>2. /\ DOMAIN Declared(d, n).index = T
        /\ Declared(d, n).live = d.live + 1
        /\ Declared(d, n).ending = "no"
    BY <1>5, <1>7
  <2>3. Declared(d, n).live = Cardinality(DOMAIN Declared(d, n).index)
    BY <1>3, <2>2
  <2>4. ASSUME NEW m \in T PROVE f[m] < d.live + 1
    <3>1. CASE m = n
      BY <1>4, <3>1
    <3>2. CASE m # n
      <4>1. m \in S /\ f[m] = d.index[m] /\ d.index[m] \in 0 .. (c - 1)
        BY <1>2, <3>2
      <4>2. d.index[m] < d.live
        BY <4>1 DEF DomainSound, SlotsFit
      <4> QED
        BY <1>4, <4>1, <4>2
    <3> QED
      BY <3>1, <3>2
  <2>5. SlotsFit(Declared(d, n))
    BY <1>5, <1>7, <2>4 DEF SlotsFit
  <2> QED
    BY <2>1, <2>2, <2>3, <2>5, Zenon DEF DomainSound
<1> QED
  BY <1>1, <1>5, <1>7, <1>8 DEF Declares
-----------------------------------------------------------------------------
(* The domain on top exists and is sound.                                  *)
LEMMA TopSound ==
    ASSUME StorageIInv
    PROVE  /\ Here \in Stacks /\ Here # Member
           /\ data[Here] \in Seq(Domain)
           /\ Len(data[Here]) \in Nat \ {0}
           /\ Len(data[Here]) <= MaxDomains
           /\ Top = data[Here][Len(data[Here])]
           /\ DomainSound(Top)
           /\ EndsRightly(Top, Here, Len(data[Here]))
           /\ TopPlace \in Places /\ TopPlace # Nowhere
           /\ \A s \in Stacks : Len(data[s]) \in Nat
<1>1. /\ data \in [Stacks -> Seq(Domain)] /\ data[Main] # <<>>
      /\ inFiber \in BOOLEAN /\ (inFiber => data[Fiber] # <<>>)
  BY DEF StorageIInv, StorageTypeOK
<1>2. Here \in Stacks /\ Here # Member /\ Main \in Stacks /\ Fiber \in Stacks
  BY DEF Here, Stacks, Main, Fiber, Member
<1>3. data[Here] \in Seq(Domain) /\ data[Here] # <<>>
  BY <1>1, <1>2 DEF Here
<1>4. \A s \in Stacks : Len(data[s]) \in Nat
  BY <1>1, LenProperties
<1>5. Len(data[Here]) \in Nat \ {0}
  BY <1>3, EmptySeq
<1>6. Len(data[Here]) <= MaxDomains
  BY DEF StorageIInv, SizesSound, Here
<1>7. Top = data[Here][Len(data[Here])]
  BY DEF Top, Last
<1>8. DomainSound(Top) /\ EndsRightly(Top, Here, Len(data[Here]))
  BY <1>2, <1>5, <1>7 DEF StorageIInv, DataSound
<1>9. TopPlace \in Places /\ TopPlace # Nowhere
  BY <1>2, <1>5, <1>6, StorageAssumption DEF TopPlace, Places, Nowhere
<1> QED
  BY <1>2, <1>3, <1>4, <1>5, <1>6, <1>7, <1>8, <1>9

(* Replacing the domain on top by a sound one leaves everything sound but  *)
(* perhaps the caches.                                                     *)
LEMMA SetTopSound ==
    ASSUME StorageIInv, NEW d, DomainSound(d), EndsRightly(d, Here, Len(data[Here])),
           SetTop(d), UNCHANGED <<inFiber, saved, intact>>
    PROVE  /\ data' \in [Stacks -> Seq(Domain)]
           /\ data'[Main] # <<>> /\ (inFiber' => data'[Fiber] # <<>>)
           /\ \A s \in Stacks : Len(data'[s]) = Len(data[s])
           /\ \A s \in Stacks : \A k \in 1 .. Len(data[s]) :
                  data'[s][k] = IF s = Here /\ k = Len(data[s]) THEN d ELSE data[s][k]
           /\ DataSound' /\ SavedSound' /\ SizesSound'
<1> DEFINE n == Len(data[Here])
           top == [data[Here] EXCEPT ![n] = d]
<1>1. /\ Here \in Stacks
      /\ data[Here] \in Seq(Domain)
      /\ n \in 1 .. n
      /\ d \in Domain
      /\ \A s \in Stacks : Len(data[s]) \in Nat
  BY TopSound DEF DomainSound
<1>2. /\ top \in Seq(Domain)
      /\ Len(top) = n
      /\ \A k \in 1 .. n : top[k] = IF k = n THEN d ELSE data[Here][k]
  BY <1>1, ExceptSeq
<1>3. data' = [data EXCEPT ![Here] = top]
  BY DEF SetTop
<1> HIDE DEF top
<1>4. data \in [Stacks -> Seq(Domain)]
  BY DEF StorageIInv, StorageTypeOK
<1>5. data' \in [Stacks -> Seq(Domain)]
  BY <1>1, <1>2, <1>3, <1>4
<1>6. \A s \in Stacks : data'[s] = IF s = Here THEN top ELSE data[s]
  BY <1>3, <1>4
<1>7. \A s \in Stacks : Len(data'[s]) = Len(data[s])
  BY <1>2, <1>6
<1>8. \A s \in Stacks : \A k \in 1 .. Len(data[s]) :
          data'[s][k] = IF s = Here /\ k = Len(data[s]) THEN d ELSE data[s][k]
  BY <1>2, <1>6
<1>9. \A s \in Stacks : (data'[s] = <<>>) <=> (data[s] = <<>>)
  BY <1>4, <1>5, <1>7, EmptySeq
<1>10. Main \in Stacks /\ Fiber \in Stacks /\ Member \in Stacks
  BY DEF Stacks
<1>11. DataSound'
  BY <1>7, <1>8 DEF StorageIInv, DataSound, EndsRightly
<1>12. SavedSound' /\ SizesSound'
  BY <1>7, <1>9, <1>10 DEF StorageIInv, SavedSound, SizesSound
<1>13. data'[Main] # <<>> /\ (inFiber' => data'[Fiber] # <<>>)
  BY <1>9, <1>10 DEF StorageIInv, StorageTypeOK
<1> QED
  BY <1>5, <1>7, <1>8, <1>11, <1>12, <1>13

(* A cached slot stays sound if its domain keeps its names, or loses them  *)
(* to safe_rewind().                                                       *)
KeepsNames(d, e) ==
    /\ \A m \in DOMAIN d.index :
           \/ m \in DOMAIN e.index /\ e.index[m] = d.index[m]
           \/ e.ending = "rewind" /\ d.index[m] >= e.live
    /\ d.ending = "rewind" => e.ending = "rewind" /\ e.live <= d.live

(* The number of slots is a number.                                        *)
LEMMA LiveIsNat ==
    ASSUME NEW d, DomainSound(d)
    PROVE  d.live \in Nat
BY NamesFinite DEF DomainSound, Domain

(* A domain keeps its own names.                                           *)
LEMMA KeepsItself ==
    ASSUME NEW d, DomainSound(d)
    PROVE  KeepsNames(d, d)
BY LiveIsNat DEF KeepsNames

(* A cached slot stays sound while its domain keeps its names.             *)
LEMMA SlotKept ==
    ASSUME StorageIInv, DataSound', NEW i \in Ids,
           cache'[i] = cache[i] \/ cache'[i].of = Nowhere,
           \A s \in Stacks : \A k \in 1 .. Len(data[s]) :
               cache'[i].of = <<s, k>> =>
                   k \in 1 .. Len(data'[s]) /\ KeepsNames(data[s][k], data'[s][k])
    PROVE  SlotSound(i)'
<1>1. CASE cache'[i].of = Nowhere
  BY <1>1 DEF SlotSound, EntrySound
<1>2. CASE cache'[i] = cache[i] /\ cache[i].of # Nowhere
  <2> DEFINE s == cache[i].of[1]
             k == cache[i].of[2]
             d == data[s][k]
             e == data'[s][k]
             n == NameOf[i]
  <2>1. SlotSound(i)
    BY DEF StorageIInv, SlotsSound
  <2>2. cache[i].of \in Places /\ cache[i].slot \in Nat
    BY <1>2 DEF StorageIInv, StorageTypeOK
  <2>3. s \in Stacks /\ cache[i].of = <<s, k>>
    BY <2>2 DEF Places
  <2>4. k \in 1 .. Len(data[s])
    BY <1>2, <2>1 DEF SlotSound, EntrySound
  <2>5. k \in 1 .. Len(data'[s]) /\ KeepsNames(d, e)
    BY <1>2, <2>3, <2>4
  <2>6. DomainSound(d) /\ DomainSound(e) /\ EndsRightly(e, s, k)
    BY <2>3, <2>4, <2>5 DEF StorageIInv, DataSound, EndsRightly
  <2>7. d.live \in Nat /\ e.live \in Nat
    <3> HIDE DEF d, e
    <3>1. d.live \in Nat
      BY <2>6, LiveIsNat
    <3>2. e.live \in Nat
      BY <2>6, LiveIsNat
    <3> QED
      BY <3>1, <3>2
  <2>8. DomainAt(cache[i].of) = d
    BY DEF DomainAt
  <2>9. ASSUME e.ending = "rewind" PROVE s = Main /\ k = 1 /\ Rewinding'
    <3>1. s = Main /\ k = 1
      BY <2>6, <2>9 DEF EndsRightly
    <3>2. data'[Main][1].ending = "rewind"
      BY <2>9, <3>1
    <3> QED
      BY <3>1, <3>2 DEF Rewinding
  <2>10. CASE EntryLive(i, cache[i])
    <3>1. n \in DOMAIN d.index /\ d.index[n] = cache[i].slot
      BY <2>8, <2>10 DEF EntryLive, Declares
    <3>2. CASE n \in DOMAIN e.index /\ e.index[n] = d.index[n]
      <4>1. EntryLive(i, cache[i])'
        BY <1>2, <3>1, <3>2 DEF EntryLive, Declares, DomainAt
      <4> QED
        BY <1>2, <2>5, <4>1 DEF SlotSound, EntrySound
    <3>3. CASE e.ending = "rewind" /\ d.index[n] >= e.live
      <4>1. EntryRewound(cache[i])'
        BY <1>2, <2>3, <2>9, <3>1, <3>3 DEF EntryRewound
      <4> QED
        BY <1>2, <2>5, <4>1 DEF SlotSound, EntrySound
    <3> QED
      BY <2>5, <3>1, <3>2, <3>3 DEF KeepsNames
  <2>11. CASE EntryRewound(cache[i])
    <3>1. cache[i].of = <<Main, 1>> /\ d.ending = "rewind" /\ cache[i].slot >= d.live
      BY <2>11 DEF EntryRewound, Rewinding
    <3>2. e.ending = "rewind" /\ e.live <= d.live
      BY <2>5, <3>1 DEF KeepsNames
    <3>3. cache[i].slot >= e.live
      BY <2>2, <2>7, <3>1, <3>2
    <3>4. EntryRewound(cache[i])'
      BY <1>2, <2>3, <2>9, <3>2, <3>3 DEF EntryRewound
    <3> QED
      BY <1>2, <2>5, <3>4 DEF SlotSound, EntrySound
  <2> QED
    BY <1>2, <2>1, <2>10, <2>11 DEF SlotSound, EntrySound
<1> QED
  BY <1>1, <1>2

(* New identities for some places: their identifiers forget them.          *)
LEMMA RenewSound ==
    ASSUME StorageTypeOK, NEW P, Renew(P)
    PROVE  /\ cache' \in [Ids -> [of : Places \cup {Nowhere}, slot : Nat, dom : Nat]]
           /\ \A i \in Ids : cache[i].of \in P => cache'[i].of = Nowhere
           /\ \A i \in Ids : cache[i].of \notin P => cache'[i] = cache[i]
<1> DEFINE Entry == [of : Places \cup {Nowhere}, slot : Nat, dom : Nat]
           forgotten(i) == [cache[i] EXCEPT !.of = Nowhere, !.slot = 0]
<1>1. \A i \in Ids : cache[i] \in Entry
  BY DEF StorageTypeOK
<1>2. \A i \in Ids : forgotten(i) \in Entry /\ forgotten(i).of = Nowhere
  BY <1>1
<1>3. cache' = [i \in Ids |-> IF cache[i].of \in P THEN forgotten(i) ELSE cache[i]]
  BY DEF Renew
<1> HIDE DEF forgotten
<1>4. cache' \in [Ids -> Entry]
  BY <1>1, <1>2, <1>3
<1> QED
  BY <1>2, <1>3, <1>4
-----------------------------------------------------------------------------
(* The initial states satisfy the invariant.                               *)
LEMMA StorageInitSound ==
    ASSUME StorageInit
    PROVE  StorageIInv
<1>1. Main \in Stacks /\ Fiber \in Stacks /\ Member \in Stacks /\ Fiber # Main /\ Fiber # Member
  BY DEF Stacks, Main, Fiber, Member
<1>2. DomainSound(NewDomain) /\ NewDomain.ending = "no" /\ NewDomain \in Domain
  BY NewDomainSound DEF DomainSound
<1>3. <<>> \in Seq(Domain) /\ <<NewDomain>> \in Seq(Domain)
      /\ Len(<<>>) = 0 /\ Len(<<NewDomain>>) = 1 /\ <<NewDomain>>[1] = NewDomain
      /\ <<NewDomain>> # <<>>
  BY <1>2
<1>4. /\ data \in [Stacks -> Seq(Domain)]
      /\ \A s \in Stacks : data[s] = IF s = Fiber THEN <<>> ELSE <<NewDomain>>
  BY <1>3 DEF StorageInit
<1>5. StorageTypeOK
  BY <1>1, <1>3, <1>4 DEF StorageInit, StorageTypeOK, Places
<1>6. ASSUME NEW s \in Stacks, NEW k \in 1 .. Len(data[s])
      PROVE  data[s][k] = NewDomain /\ k = 1
  <2>1. CASE s = Fiber
    BY <1>3, <1>4, <2>1
  <2>2. CASE s # Fiber
    <3>1. data[s] = <<NewDomain>> /\ k \in 1 .. 1
      BY <1>3, <1>4, <2>2
    <3> QED
      BY <1>3, <3>1
  <2> QED
    BY <2>1, <2>2
<1>7. DataSound
  BY <1>2, <1>6 DEF DataSound, EndsRightly
<1>8. SavedSound
  BY <1>1, <1>3, <1>4, StorageAssumption DEF StorageInit, SavedSound, Unsaved
<1>9. SizesSound
  <2>1. /\ Len(data[Main]) = 1 /\ Len(data[Fiber]) = 0
        /\ data[Member] # <<>> /\ Len(data[Member]) = 1
    BY <1>1, <1>3, <1>4
  <2> QED
    BY <2>1, StorageAssumption DEF SizesSound
<1>10. SlotsSound
  BY DEF StorageInit, SlotsSound, SlotSound, EntrySound
<1> QED
  BY <1>5, <1>7, <1>8, <1>9, <1>10 DEF StorageIInv

(* A domain is pushed.                                                     *)
LEMMA EnterSound ==
    ASSUME StorageIInv, intact, NEW grows \in BOOLEAN, Enter(grows)
    PROVE  StorageIInv'
<1> DEFINE n == Len(data[Here])
<1>1. /\ Here \in Stacks /\ Here # Member
      /\ data[Here] \in Seq(Domain)
      /\ n \in Nat \ {0}
      /\ \A s \in Stacks : Len(data[s]) \in Nat
  BY TopSound
<1>2. /\ Main \in Stacks /\ Fiber \in Stacks /\ Member \in Stacks
      /\ (Here = Main \/ Here = Fiber) /\ Main # Fiber
  BY DEF Stacks, Here, Main, Fiber
<1>3. DomainSound(NewDomain) /\ NewDomain.ending = "no" /\ NewDomain \in Domain
  BY NewDomainSound DEF DomainSound
<1>4. data \in [Stacks -> Seq(Domain)]
  BY DEF StorageIInv, StorageTypeOK
<1>5. /\ Append(data[Here], NewDomain) \in Seq(Domain)
      /\ Append(data[Here], NewDomain) # <<>>
      /\ Len(Append(data[Here], NewDomain)) = n + 1
      /\ \A k \in 1 .. n : Append(data[Here], NewDomain)[k] = data[Here][k]
      /\ Append(data[Here], NewDomain)[n + 1] = NewDomain
  BY <1>1, <1>3, AppendProperties
<1>6. /\ data' \in [Stacks -> Seq(Domain)]
      /\ \A s \in Stacks : data'[s] = IF s = Here THEN Append(data[Here], NewDomain) ELSE data[s]
      /\ UNCHANGED <<inFiber, saved>> /\ intact' \in BOOLEAN
      /\ Len(data[Main]) + Len(data[Fiber]) < MaxDomains
  BY <1>1, <1>4, <1>5 DEF Enter
<1>7. \A s \in Stacks : /\ Len(data[s]) <= Len(data'[s])
                        /\ \A k \in 1 .. Len(data[s]) : data'[s][k] = data[s][k]
                        /\ \A k \in 1 .. Len(data'[s]) :
                               k \in 1 .. Len(data[s]) \/ data'[s][k] = NewDomain
  BY <1>1, <1>5, <1>6
<1>8. cache' \in [Ids -> [of : Places \cup {Nowhere}, slot : Nat, dom : Nat]]
  BY RenewSound DEF Enter, StorageIInv, StorageTypeOK
<1>9. StorageTypeOK'
  BY <1>2, <1>5, <1>6, <1>8 DEF StorageIInv, StorageTypeOK
<1>10. DataSound'
  BY <1>1, <1>3, <1>6, <1>7 DEF StorageIInv, DataSound, EndsRightly
<1>11. SavedSound'
  BY <1>2, <1>1, <1>6, <1>7 DEF StorageIInv, SavedSound
<1>12. SizesSound'
  <2>1. Len(data[Main]) \in Nat /\ Len(data[Fiber]) \in Nat /\ MaxDomains \in Nat
    BY <1>1, <1>2, StorageAssumption
  <2>2. Len(data[Main]) + 1 <= MaxDomains /\ Len(data[Fiber]) + 1 <= MaxDomains
    BY <1>6, <2>1, SumLeavesRoom
  <2>3. Len(data'[Main]) <= MaxDomains /\ Len(data'[Fiber]) <= MaxDomains
    <3>1. CASE Here = Main
      BY <1>2, <1>5, <1>6, <2>1, <2>2, <3>1 DEF StorageIInv, SizesSound
    <3>2. CASE Here = Fiber
      BY <1>2, <1>5, <1>6, <2>1, <2>2, <3>2 DEF StorageIInv, SizesSound
    <3> QED
      BY <1>2, <3>1, <3>2
  <2>4. data'[Member] # <<>> /\ Len(data'[Member]) = 1
    BY <1>1, <1>2, <1>6 DEF StorageIInv, SizesSound
  <2> QED
    BY <2>3, <2>4 DEF SizesSound
<1>13. ASSUME NEW i \in Ids PROVE SlotSound(i)'
  <2>1. cache'[i] = cache[i] \/ cache'[i].of = Nowhere
    BY RenewSound DEF Enter, StorageIInv
  <2>2. \A s \in Stacks : \A k \in 1 .. Len(data[s]) :
            k \in 1 .. Len(data'[s]) /\ KeepsNames(data[s][k], data'[s][k])
    BY <1>1, <1>6, <1>7, LenProperties, KeepsItself DEF StorageIInv, DataSound
  <2> QED
    BY <1>10, <2>1, <2>2, SlotKept
<1> QED
  BY <1>9, <1>10, <1>11, <1>12, <1>13 DEF StorageIInv, SlotsSound

(* A step that only replaces the domain on top, in the caches' words: an   *)
(* identifier of another domain keeps its slot, one of this domain keeps   *)
(* it if the names are kept.                                               *)
LEMMA SetTopSlot ==
    ASSUME StorageIInv, NEW d, DomainSound(d), EndsRightly(d, Here, Len(data[Here])),
           SetTop(d), UNCHANGED <<inFiber, saved, intact>>,
           NEW i \in Ids,
           cache'[i] = cache[i] \/ cache'[i].of = Nowhere,
           cache'[i].of = TopPlace => KeepsNames(Top, d)
    PROVE  SlotSound(i)'
<1>1. ASSUME NEW s \in Stacks, NEW k \in 1 .. Len(data[s]), cache'[i].of = <<s, k>>
      PROVE  k \in 1 .. Len(data'[s]) /\ KeepsNames(data[s][k], data'[s][k])
  <2>1. /\ Len(data'[s]) = Len(data[s])
        /\ data'[s][k] = IF s = Here /\ k = Len(data[s]) THEN d ELSE data[s][k]
    BY SetTopSound
  <2>2. CASE s = Here /\ k = Len(data[s])
    <3>1. cache'[i].of = TopPlace /\ Top = data[s][k] /\ data'[s][k] = d
      BY <1>1, <2>1, <2>2, TopSound DEF TopPlace
    <3> QED
      BY <2>1, <3>1
  <2>3. CASE ~ (s = Here /\ k = Len(data[s]))
    BY <2>1, <2>3, KeepsItself DEF StorageIInv, DataSound
  <2> QED
    BY <2>2, <2>3
<1>2. DataSound'
  BY SetTopSound
<1> QED
  BY <1>1, <1>2, SlotKept

(* A step that replaces the domain on top by another sound one.            *)
LEMMA SetTopStep ==
    ASSUME StorageIInv, NEW d, DomainSound(d), EndsRightly(d, Here, Len(data[Here])),
           SetTop(d), UNCHANGED <<inFiber, saved, intact>>,
           cache' \in [Ids -> [of : Places \cup {Nowhere}, slot : Nat, dom : Nat]],
           \A i \in Ids : SlotSound(i)'
    PROVE  StorageIInv'
<1>1. /\ data' \in [Stacks -> Seq(Domain)]
      /\ data'[Main] # <<>> /\ (inFiber' => data'[Fiber] # <<>>)
      /\ DataSound' /\ SavedSound' /\ SizesSound'
  BY SetTopSound
<1>2. StorageTypeOK'
  BY <1>1 DEF StorageIInv, StorageTypeOK
<1> QED
  BY <1>1, <1>2 DEF StorageIInv, SlotsSound

(* A domain gives up its names, and its identity with them.                *)
LEMMA ClearSound ==
    ASSUME StorageIInv, NEW how \in {"clear", "pop"}, Clear(how)
    PROVE  StorageIInv'
<1> DEFINE d == [index |-> <<>>, live |-> Top.live, ending |-> how]
<1>1. DomainSound(Top) /\ Top.ending = "no" /\ Len(data[Here]) \in Nat
  BY TopSound DEF Clear, Running
<1>3. <<>> \in Indexes
  BY NewDomainSound DEF DomainSound, NewDomain, Domain
<1>4. d \in Domain
  BY <1>1, <1>3 DEF DomainSound, Domain, Endings
<1>5. DomainSound(d)
  BY <1>4 DEF DomainSound, SlotsFit
<1>6. EndsRightly(d, Here, Len(data[Here]))
  BY <1>1 DEF EndsRightly, Clear
<1>7. SetTop(d) /\ Renew({TopPlace}) /\ UNCHANGED <<inFiber, saved, intact>>
  BY DEF Clear
<1> HIDE DEF d
<1>8. ASSUME NEW i \in Ids PROVE SlotSound(i)'
  <2>1. cache'[i] = cache[i] \/ cache'[i].of = Nowhere
    BY <1>7, RenewSound DEF StorageIInv
  <2>2. cache'[i].of # TopPlace
    <3>1. CASE cache[i].of = TopPlace
      BY <1>7, <3>1, RenewSound, TopSound DEF StorageIInv
    <3>2. CASE cache[i].of # TopPlace
      BY <1>7, <3>2, RenewSound DEF StorageIInv
    <3> QED
      BY <3>1, <3>2
  <2> QED
    BY <1>5, <1>6, <1>7, <2>1, <2>2, SetTopSlot
<1>9. cache' \in [Ids -> [of : Places \cup {Nowhere}, slot : Nat, dom : Nat]]
  BY <1>7, RenewSound DEF StorageIInv
<1> QED
  BY <1>5, <1>6, <1>7, <1>8, <1>9, SetTopStep

(* A cleared domain starts again, a popped one goes: it has no names that  *)
(* an identifier could remember.                                           *)
LEMMA ClearedSound ==
    ASSUME StorageIInv, Cleared
    PROVE  StorageIInv'
<1> DEFINE n == Len(data[Here])
<1>1. /\ Here \in Stacks /\ Here # Member
      /\ data[Here] \in Seq(Domain)
      /\ n \in Nat \ {0}
      /\ \A s \in Stacks : Len(data[s]) \in Nat
      /\ Top = data[Here][n] /\ TopPlace # Nowhere
      /\ Top.index = <<>>
      /\ EndsRightly(Top, Here, n)
  BY TopSound DEF Cleared, DomainSound
<1>2. UNCHANGED <<inFiber, cache, saved, intact>>
  BY DEF Cleared
<1>3. cache' \in [Ids -> [of : Places \cup {Nowhere}, slot : Nat, dom : Nat]]
  BY <1>2 DEF StorageIInv, StorageTypeOK
<1>4. ASSUME NEW i \in Ids PROVE cache[i].of # TopPlace
  <2>1. SUFFICES ASSUME cache[i].of = TopPlace PROVE FALSE
    OBVIOUS
  <2>2. SlotSound(i) /\ DomainAt(cache[i].of) = Top
    BY <1>1, <2>1 DEF StorageIInv, SlotsSound, DomainAt, TopPlace
  <2>3. ~ EntryRewound(cache[i])
    BY <2>2 DEF EntryRewound, Rewinding, DomainAt, Cleared
  <2>4. Declares(Top, NameOf[i])
    BY <1>1, <2>1, <2>2, <2>3 DEF SlotSound, EntrySound, EntryLive
  <2> QED
    BY <1>1, <2>4 DEF Declares
<1>5. CASE Top.ending # "pop"
  <2>1. DomainSound(NewDomain) /\ NewDomain.ending = "no"
    BY NewDomainSound
  <2>2. EndsRightly(NewDomain, Here, n)
    BY <2>1 DEF EndsRightly
  <2>3. SetTop(NewDomain)
    BY <1>5 DEF Cleared
  <2>4. ASSUME NEW i \in Ids PROVE SlotSound(i)'
    BY <1>2, <1>4, <2>1, <2>2, <2>3, SetTopSlot
  <2> QED
    BY <1>2, <1>3, <2>1, <2>2, <2>3, <2>4, SetTopStep
<1>6. CASE Top.ending = "pop"
  <2>1. n > 1
    BY <1>1, <1>6 DEF EndsRightly
  <2>2. /\ Front(data[Here]) \in Seq(Domain)
        /\ Len(Front(data[Here])) = n - 1
        /\ \A k \in 1 .. (n - 1) : Front(data[Here])[k] = data[Here][k]
        /\ Front(data[Here]) # <<>>
    <3>1. \A k \in 1 .. (n - 1) : data[Here][k] \in Domain
      BY <1>1, <2>1
    <3>2. /\ Front(data[Here]) \in Seq(Domain)
          /\ Len(Front(data[Here])) = n - 1
          /\ \A k \in 1 .. (n - 1) : Front(data[Here])[k] = data[Here][k]
      BY <1>1, <2>1, <3>1, SubSeqProperties DEF Front
    <3> QED
      BY <1>1, <2>1, <3>2, EmptySeq
  <2>3. data \in [Stacks -> Seq(Domain)]
    BY DEF StorageIInv, StorageTypeOK
  <2>4. data' = [data EXCEPT ![Here] = Front(data[Here])]
    BY <1>6 DEF Cleared
  <2>5. /\ data' \in [Stacks -> Seq(Domain)]
        /\ \A s \in Stacks : data'[s] = IF s = Here THEN Front(data[Here]) ELSE data[s]
    BY <1>1, <2>2, <2>3, <2>4
  <2>6. \A s \in Stacks : /\ Len(data'[s]) <= Len(data[s])
                          /\ \A k \in 1 .. Len(data'[s]) :
                                 k \in 1 .. Len(data[s]) /\ data'[s][k] = data[s][k]
                          /\ \A k \in 1 .. Len(data[s]) :
                                 k \in 1 .. Len(data'[s]) \/ (s = Here /\ k = n)
    <3> SUFFICES ASSUME NEW s \in Stacks
                 PROVE  /\ Len(data'[s]) <= Len(data[s])
                        /\ \A k \in 1 .. Len(data'[s]) :
                               k \in 1 .. Len(data[s]) /\ data'[s][k] = data[s][k]
                        /\ \A k \in 1 .. Len(data[s]) :
                               k \in 1 .. Len(data'[s]) \/ (s = Here /\ k = n)
      OBVIOUS
    <3>1. CASE s # Here
      BY <1>1, <2>5, <3>1
    <3>2. CASE s = Here
      <4>1. data'[s] = Front(data[Here]) /\ data[s] = data[Here]
        BY <2>5, <3>2
      <4> QED
        BY <1>1, <2>1, <2>2, <3>2, <4>1
    <3> QED
      BY <3>1, <3>2
  <2>7. /\ Main \in Stacks /\ Fiber \in Stacks /\ Member \in Stacks
        /\ Fiber # Main /\ (Here = Main \/ Here = Fiber)
    BY DEF Stacks, Main, Fiber, Here
  <2>8. StorageTypeOK'
    BY <1>2, <1>3, <2>2, <2>5, <2>7 DEF StorageIInv, StorageTypeOK
  <2>9. DataSound'
    BY <1>2, <2>6 DEF StorageIInv, DataSound, EndsRightly
  <2>10. SavedSound'
    BY <1>2 DEF StorageIInv, SavedSound
  <2>11. SizesSound'
    <3>1. /\ Len(data'[Main]) \in Nat /\ Len(data'[Fiber]) \in Nat
          /\ Len(data[Main]) \in Nat /\ Len(data[Fiber]) \in Nat /\ MaxDomains \in Nat
      BY <1>1, <2>5, <2>7, LenProperties, StorageAssumption
    <3>2. Len(data'[Main]) <= Len(data[Main]) /\ Len(data'[Fiber]) <= Len(data[Fiber])
      BY <2>6, <2>7
    <3>3. Len(data'[Main]) <= MaxDomains /\ Len(data'[Fiber]) <= MaxDomains
      BY <3>1, <3>2 DEF StorageIInv, SizesSound
    <3>4. data'[Member] # <<>> /\ Len(data'[Member]) = 1
      BY <1>1, <2>5, <2>7 DEF StorageIInv, SizesSound
    <3> QED
      BY <3>3, <3>4 DEF SizesSound
  <2>12. ASSUME NEW i \in Ids PROVE SlotSound(i)'
    <3>1. ASSUME NEW s \in Stacks, NEW k \in 1 .. Len(data[s]), cache'[i].of = <<s, k>>
          PROVE  k \in 1 .. Len(data'[s]) /\ KeepsNames(data[s][k], data'[s][k])
      <4>1. ~ (s = Here /\ k = n)
        BY <1>2, <1>4, <3>1 DEF TopPlace
      <4>2. k \in 1 .. Len(data'[s]) /\ data'[s][k] = data[s][k]
        BY <2>6, <4>1
      <4> QED
        BY <4>2, KeepsItself DEF StorageIInv, DataSound
    <3> QED
      BY <1>2, <2>9, <3>1, SlotKept
  <2> QED
    BY <2>8, <2>9, <2>10, <2>11, <2>12 DEF StorageIInv, SlotsSound
<1> QED
  BY <1>5, <1>6

(* The globals begin to be destroyed.                                      *)
LEMMA RewindSound ==
    ASSUME StorageIInv, Rewind
    PROVE  StorageIInv'
<1> DEFINE d == [Top EXCEPT !.ending = "rewind"]
<1>1. /\ DomainSound(Top) /\ Here = Main /\ Len(data[Here]) = 1
      /\ Renew({TopPlace}) /\ UNCHANGED <<inFiber, saved, intact>> /\ SetTop(d)
  BY TopSound DEF Rewind, Here
<1>2. d \in Domain /\ d.ending = "rewind" /\ d.index = Top.index /\ d.live = Top.live
  BY <1>1 DEF DomainSound, Domain, Endings
<1> HIDE DEF d
<1>3. DomainSound(d) /\ EndsRightly(d, Here, Len(data[Here]))
  BY <1>1, <1>2 DEF DomainSound, SlotsFit, EndsRightly
<1>6. Top.live \in Nat /\ Top.ending = "no"
  BY <1>1, NamesFinite DEF DomainSound, Domain, Rewind, Running
<1>4. cache' \in [Ids -> [of : Places \cup {Nowhere}, slot : Nat, dom : Nat]]
  BY <1>1, RenewSound DEF StorageIInv
<1>5. ASSUME NEW i \in Ids PROVE SlotSound(i)'
  <2>1. cache'[i] = cache[i] \/ cache'[i].of = Nowhere
    BY <1>1, RenewSound DEF StorageIInv
  <2>2. KeepsNames(Top, d)
    BY <1>2, <1>6 DEF KeepsNames
  <2> QED
    BY <1>1, <1>3, <2>1, <2>2, SetTopSlot
<1> QED
  BY <1>1, <1>3, <1>4, <1>5, SetTopStep

(* One global less.                                                        *)
LEMMA RewindSlotSound ==
    ASSUME StorageIInv, RewindSlot
    PROVE  StorageIInv'
<1> DEFINE rest == {n \in DOMAIN Top.index : Top.index[n] # Top.live - 1}
           index == Restrict(Top.index, rest)
           d == [index |-> index, live |-> Top.live - 1, ending |-> "rewind"]
           c == Cardinality(Names)
<1>1. /\ DomainSound(Top) /\ EndsRightly(Top, Here, Len(data[Here]))
      /\ UNCHANGED <<inFiber, cache, saved, intact>> /\ SetTop(d)
      /\ Top.ending = "rewind" /\ Top.live > 0
  BY TopSound DEF RewindSlot
<1>2. Top.live \in 0 .. c /\ c \in Nat /\ Top.index \in Indexes
  BY <1>1, NamesFinite DEF DomainSound, Domain
<1>3. PICK S \in SUBSET Names : Top.index \in [S -> 0 .. (c - 1)]
  BY <1>2 DEF Indexes
<1>4. /\ rest \in SUBSET Names /\ index \in [rest -> 0 .. (c - 1)]
      /\ \A n \in rest : index[n] = Top.index[n]
  BY <1>3 DEF Restrict
<1>11. ASSUME NEW n \in rest PROVE index[n] < Top.live - 1
  <2>1. n \in DOMAIN Top.index /\ Top.index[n] # Top.live - 1 /\ Top.index[n] \in 0 .. (c - 1)
    BY <1>3
  <2>2. Top.index[n] < Top.live
    BY <1>1, <2>1 DEF DomainSound, SlotsFit
  <2> QED
    BY <1>2, <1>4, <2>1, <2>2
<1>12. DOMAIN index = rest
  BY <1>4
<1>13. ASSUME NEW n \in DOMAIN Top.index
       PROVE  (n \in DOMAIN index /\ index[n] = Top.index[n]) \/ Top.index[n] >= Top.live - 1
  BY <1>2, <1>4, <1>12
<1>14. index \in [rest -> 0 .. (c - 1)]
  BY <1>4
<1>5. index \in Indexes
  BY <1>4 DEF Indexes
<1> HIDE DEF index
<1>6. Top.live - 1 \in 0 .. c
  BY <1>1, <1>2
<1>7. d \in Domain /\ d.ending = "rewind" /\ d.index = index /\ d.live = Top.live - 1
  BY <1>5, <1>6 DEF Domain, Endings
<1> HIDE DEF d
<1>15. SlotsFit(d)
  BY <1>7, <1>11, <1>12 DEF SlotsFit
<1>8. DomainSound(d) /\ EndsRightly(d, Here, Len(data[Here]))
  BY <1>1, <1>7, <1>15 DEF DomainSound, EndsRightly
<1>16. KeepsNames(Top, d)
  BY <1>2, <1>7, <1>13 DEF KeepsNames
<1>9. cache' \in [Ids -> [of : Places \cup {Nowhere}, slot : Nat, dom : Nat]]
  BY <1>1 DEF StorageIInv, StorageTypeOK
<1>10. ASSUME NEW i \in Ids PROVE SlotSound(i)'
  BY <1>1, <1>8, <1>16, SetTopSlot
<1> QED
  BY <1>1, <1>8, <1>9, <1>10, SetTopStep

(* A name is declared without an identifier.                               *)
LEMMA DeclareNameSound ==
    ASSUME StorageIInv, NEW n \in Names, DeclareName(n)
    PROVE  StorageIInv'
<1> DEFINE d == Declared(Top, n)
<1>1. /\ DomainSound(Top) /\ Top.ending = "no" /\ ~ Declares(Top, n)
      /\ UNCHANGED <<inFiber, cache, saved, intact>> /\ SetTop(d)
  BY TopSound DEF DeclareName, Running
<1>2. /\ DomainSound(d) /\ d.ending = "no"
      /\ \A m : Declares(Top, m) => Declares(d, m) /\ d.index[m] = Top.index[m]
  BY <1>1, DeclaredSound
<1> HIDE DEF d
<1>3. EndsRightly(d, Here, Len(data[Here])) /\ KeepsNames(Top, d)
  BY <1>1, <1>2 DEF EndsRightly, KeepsNames, Declares
<1>4. cache' \in [Ids -> [of : Places \cup {Nowhere}, slot : Nat, dom : Nat]]
  BY <1>1 DEF StorageIInv, StorageTypeOK
<1>5. ASSUME NEW i \in Ids PROVE SlotSound(i)'
  BY <1>1, <1>2, <1>3, SetTopSlot
<1> QED
  BY <1>1, <1>2, <1>3, <1>4, <1>5, SetTopStep

(* A name is declared through an identifier, which remembers its slot.     *)
LEMMA DeclareSound ==
    ASSUME StorageIInv, NEW i \in Ids, Declare(i)
    PROVE  StorageIInv'
<1> DEFINE n == NameOf[i]
           d == IF Declares(Top, n) THEN Top ELSE Declared(Top, n)
           c == Cardinality(Names)
           e == [of |-> TopPlace, slot |-> d.index[n], dom |-> cache[i].dom]
<1>1. /\ DomainSound(Top) /\ Top.ending = "no" /\ TopPlace \in Places
      /\ UNCHANGED <<inFiber, saved, intact>> /\ SetTop(d)
      /\ cache' = [cache EXCEPT ![i] = e]
  BY TopSound DEF Declare, Running
<1>2. n \in Names
  BY StorageAssumption
<1>3. /\ DomainSound(d) /\ d.ending = "no" /\ Declares(d, n)
      /\ \A m : Declares(Top, m) => Declares(d, m) /\ d.index[m] = Top.index[m]
  BY <1>1, <1>2, DeclaredSound
<1> HIDE DEF d
<1>4. EndsRightly(d, Here, Len(data[Here])) /\ KeepsNames(Top, d)
  BY <1>1, <1>3 DEF EndsRightly, KeepsNames, Declares
<1>5. d.index[n] \in Nat
  <2>1. PICK S \in SUBSET Names : d.index \in [S -> 0 .. (c - 1)]
    BY <1>3 DEF DomainSound, Domain, Indexes
  <2>2. d.index[n] \in 0 .. (c - 1)
    BY <1>3, <2>1 DEF Declares
  <2> QED
    BY <2>2
<1>6. cache \in [Ids -> [of : Places \cup {Nowhere}, slot : Nat, dom : Nat]]
  BY DEF StorageIInv, StorageTypeOK
<1>7. e \in [of : Places \cup {Nowhere}, slot : Nat, dom : Nat]
  BY <1>1, <1>5, <1>6
<1>8. cache' \in [Ids -> [of : Places \cup {Nowhere}, slot : Nat, dom : Nat]]
  BY <1>1, <1>6, <1>7
<1>9. ASSUME NEW j \in Ids PROVE SlotSound(j)'
  <2>1. CASE j = i
    <3>1. cache'[j] = e
      BY <1>1, <1>6, <2>1
    <3>2. Here \in Stacks /\ Len(data[Here]) \in 1 .. Len(data[Here])
      BY TopSound
    <3>3. Len(data'[Here]) = Len(data[Here]) /\ data'[Here][Len(data[Here])] = d
      BY <1>1, <1>3, <1>4, <3>2, SetTopSound
    <3> QED
      BY <1>3, <2>1, <3>1, <3>2, <3>3 DEF SlotSound, EntrySound, EntryLive, DomainAt, TopPlace
  <2>2. CASE j # i
    <3>1. cache'[j] = cache[j]
      BY <1>1, <1>6, <2>2
    <3> QED
      BY <1>1, <1>3, <1>4, <3>1, SetTopSlot
  <2> QED
    BY <2>1, <2>2
<1> QED
  BY <1>1, <1>3, <1>4, <1>8, <1>9, SetTopStep
-----------------------------------------------------------------------------
(* The lookup by name finds the topmost domain that declares the name.     *)
LEMMA NearestSound ==
    ASSUME StorageIInv, NEW n \in Names, NEW s \in {Main, Fiber}, Having(n, s) # {}
    PROVE  /\ Min(Having(n, s)) \in Having(n, s)
           /\ Nearest(n, s).of = PlaceAt(s, Min(Having(n, s)))
           /\ Nearest(n, s) \in [of : Places, slot : Nat, dom : Nat]
           /\ Nearest(n, s).of[2] \in 1 .. Len(data[Nearest(n, s).of[1]])
           /\ Declares(DomainAt(Nearest(n, s).of), n)
           /\ Nearest(n, s).slot = DomainAt(Nearest(n, s).of).index[n]
<1> DEFINE o == Min(Having(n, s))
           p == PlaceAt(s, o)
           d == DomainAt(p)
           c == Cardinality(Names)
<1>1. s \in Stacks /\ Main \in Stacks /\ Fiber \in Stacks
  BY DEF Stacks
<1>2. \A t \in Stacks : Len(data[t]) \in Nat
  BY TopSound
<1>3. Having(n, s) \in SUBSET Nat /\ Having(n, s) \subseteq 0 .. (Len(data[s]) - 1)
  BY <1>1, <1>2 DEF Having, Offsets
<1>4. o \in Having(n, s)
  BY <1>3, MinOfNats
<1>5. o \in 0 .. (Len(data[s]) - 1) /\ Declares(d, n)
  BY <1>3, <1>4 DEF Having
<1> HIDE DEF o
<1>6. p = <<s, Len(data[s]) - o>> /\ p[1] = s /\ p[2] = Len(data[s]) - o
  BY DEF PlaceAt
<1>7. p[2] \in 1 .. Len(data[s])
  BY <1>1, <1>2, <1>5, <1>6
<1>8. Len(data[s]) <= MaxDomains /\ MaxDomains \in Nat
  BY StorageAssumption DEF StorageIInv, SizesSound
<1>9. p[2] \in 1 .. MaxDomains
  BY <1>1, <1>2, <1>7, <1>8
<1>10. p \in Places
  BY <1>1, <1>6, <1>9 DEF Places
<1>11. d \in Domain
  BY <1>1, <1>6, <1>7 DEF StorageIInv, DataSound, DomainSound, DomainAt
<1>12. d.index[n] \in Nat
  <2>1. PICK S \in SUBSET Names : d.index \in [S -> 0 .. (c - 1)]
    BY <1>11 DEF Domain, Indexes
  <2>2. d.index[n] \in 0 .. (c - 1)
    BY <1>5, <2>1 DEF Declares
  <2> QED
    BY <2>2
<1>13. Nearest(n, s) = [of |-> p, slot |-> d.index[n], dom |-> o]
  BY DEF Nearest, o
<1> HIDE DEF p, d
<1>14. Nearest(n, s) \in [of : Places, slot : Nat, dom : Nat]
  BY <1>3, <1>4, <1>10, <1>12, <1>13
<1>15. Nearest(n, s).of = p /\ Nearest(n, s).slot = d.index[n]
  BY <1>13
<1> QED
  BY <1>4, <1>5, <1>6, <1>7, <1>14, <1>15 DEF p, d, o

(* What a lookup finds is a live slot of the name, or a rewound one.       *)
LEMMA FoundSound ==
    ASSUME StorageIInv, NEW i \in Ids
    PROVE  /\ Found(i) \in [of : Places \cup {Nowhere}, slot : Nat, dom : Nat]
           /\ EntrySound(i, Found(i))
<1>1. /\ cache[i] \in [of : Places \cup {Nowhere}, slot : Nat, dom : Nat]
      /\ SlotSound(i) /\ NameOf[i] \in Names
  BY StorageAssumption DEF StorageIInv, StorageTypeOK, SlotsSound
<1>2. EntrySound(i, cache[i])
  BY <1>1 DEF SlotSound
<1>3. ASSUME NEW s \in {Main, Fiber}, Seen(i, s)
      PROVE  /\ FoundIn(i, s) \in [of : Places \cup {Nowhere}, slot : Nat, dom : Nat]
             /\ EntrySound(i, FoundIn(i, s))
  <2>1. CASE Hits(i, s)
    BY <1>1, <1>2, <2>1 DEF FoundIn
  <2>2. CASE ~ Hits(i, s)
    <3>1. Having(NameOf[i], s) # {} /\ FoundIn(i, s) = Nearest(NameOf[i], s)
      BY <1>3, <2>2 DEF Seen, FoundIn
    <3>2. Nearest(NameOf[i], s) \in [of : Places \cup {Nowhere}, slot : Nat, dom : Nat]
      BY <1>1, <3>1, NearestSound
    <3>3. EntrySound(i, Nearest(NameOf[i], s))
      BY <1>1, <3>1, NearestSound DEF EntrySound, EntryLive
    <3> QED
      BY <3>1, <3>2, <3>3
  <2> QED
    BY <2>1, <2>2
<1>4. /\ Undefined \in [of : Places \cup {Nowhere}, slot : Nat, dom : Nat]
      /\ EntrySound(i, Undefined)
  BY DEF Undefined, EntrySound
<1> QED
  BY <1>3, <1>4 DEF Found

(* A step that changes what one identifier remembers.                      *)
LEMMA RememberSound ==
    ASSUME StorageIInv, UNCHANGED <<data, inFiber, saved, intact>>, NEW i \in Ids,
           NEW e \in [of : Places \cup {Nowhere}, slot : Nat, dom : Nat],
           EntrySound(i, e), cache' = [cache EXCEPT ![i] = e]
    PROVE  StorageIInv'
<1>1. cache \in [Ids -> [of : Places \cup {Nowhere}, slot : Nat, dom : Nat]]
  BY DEF StorageIInv, StorageTypeOK
<1>2. StorageTypeOK'
  BY <1>1 DEF StorageIInv, StorageTypeOK
<1>3. DataSound' /\ SavedSound' /\ SizesSound'
  BY DEF StorageIInv, DataSound, SavedSound, SizesSound, EndsRightly
<1>4. ASSUME NEW j \in Ids PROVE SlotSound(j)'
  <2>1. CASE j = i
    <3>1. cache'[j] = e
      BY <1>1, <2>1
    <3> QED
      BY <2>1, <3>1 DEF SlotSound, EntrySound, EntryLive, EntryRewound, Rewinding, DomainAt
  <2>2. CASE j # i
    <3>1. cache'[j] = cache[j] /\ SlotSound(j)
      BY <1>1, <2>2 DEF StorageIInv, SlotsSound
    <3> QED
      BY <3>1 DEF SlotSound, EntrySound, EntryLive, EntryRewound, Rewinding, DomainAt
  <2> QED
    BY <2>1, <2>2
<1> QED
  BY <1>2, <1>3, <1>4 DEF StorageIInv, SlotsSound

(* An identifier is evaluated.                                             *)
LEMMA ReadSound ==
    ASSUME StorageIInv, NEW i \in Ids, Read(i)
    PROVE  StorageIInv'
BY FoundSound, RememberSound DEF Read

(* An identifier is evaluated as a member.                                 *)
LEMMA ReadMemberSound ==
    ASSUME StorageIInv, NEW i \in Ids, ReadMember(i)
    PROVE  StorageIInv'
<1> DEFINE p == <<Member, 1>>
           d == DomainAt(p)
           c == Cardinality(Names)
           e == [of |-> p, slot |-> d.index[NameOf[i]], dom |-> cache[i].dom]
<1>1. /\ Declares(d, NameOf[i]) /\ cache' = [cache EXCEPT ![i] = e]
      /\ UNCHANGED <<data, inFiber, saved, intact>>
  BY DEF ReadMember
<1>2. Member \in Stacks /\ p \in Places
  BY StorageAssumption DEF Stacks, Places
<1>3. 1 \in 1 .. Len(data[Member])
  <2>1. data[Member] \in Seq(Domain) /\ data[Member] # <<>>
    BY <1>2 DEF StorageIInv, StorageTypeOK, SizesSound
  <2>2. Len(data[Member]) \in Nat \ {0}
    BY <2>1, EmptySeq
  <2> QED
    BY <2>2
<1>4. d \in Domain
  BY <1>2, <1>3 DEF StorageIInv, DataSound, DomainSound, DomainAt
<1>5. d.index[NameOf[i]] \in Nat
  <2>1. PICK S \in SUBSET Names : d.index \in [S -> 0 .. (c - 1)]
    BY <1>4 DEF Domain, Indexes
  <2>2. d.index[NameOf[i]] \in 0 .. (c - 1)
    BY <1>1, <2>1 DEF Declares
  <2> QED
    BY <2>2
<1>6. cache[i].dom \in Nat
  BY DEF StorageIInv, StorageTypeOK
<1>7. e \in [of : Places \cup {Nowhere}, slot : Nat, dom : Nat]
  BY <1>2, <1>5, <1>6
<1>8. EntrySound(i, e)
  BY <1>1, <1>3 DEF EntrySound, EntryLive
<1> QED
  BY <1>1, <1>7, <1>8, RememberSound
-----------------------------------------------------------------------------
(* A step that replaces a whole stack keeps the slots of the others; the   *)
(* identifiers of this one must have forgotten it, unless it was empty.    *)
LEMMA StackReplaced ==
    ASSUME StorageIInv, DataSound', NEW s \in Stacks, NEW q \in Seq(Domain),
           data' = [data EXCEPT ![s] = q],
           NEW i \in Ids,
           cache'[i] = cache[i] \/ cache'[i].of = Nowhere,
           cache'[i].of \notin {s} \X (1 .. MaxDomains) \/ data[s] = <<>>
    PROVE  SlotSound(i)'
<1>1. data \in [Stacks -> Seq(Domain)]
  BY DEF StorageIInv, StorageTypeOK
<1>2. ASSUME NEW t \in Stacks, NEW k \in 1 .. Len(data[t]), cache'[i].of = <<t, k>>
      PROVE  k \in 1 .. Len(data'[t]) /\ KeepsNames(data[t][k], data'[t][k])
  <2>1. cache'[i].of # Nowhere
    BY <1>2 DEF Nowhere, Stacks, Main, Fiber, Member
  <2>2. cache'[i].of \in Places
    BY <2>1 DEF StorageIInv, StorageTypeOK
  <2>3. k \in 1 .. MaxDomains
    BY <1>2, <2>2 DEF Places
  <2>4. t # s
    <3>1. CASE data[s] = <<>>
      <4>1. Len(data[s]) = 0
        BY <3>1
      <4> QED
        BY <1>2, <4>1
    <3>2. CASE cache'[i].of \notin {s} \X (1 .. MaxDomains)
      BY <1>2, <2>3, <3>2
    <3> QED
      BY <3>1, <3>2
  <2>5. data'[t] = data[t]
    BY <1>1, <2>4
  <2> QED
    BY <2>5, KeepsItself DEF StorageIInv, DataSound
<1> QED
  BY <1>2, SlotKept

(* A name space is assigned to another.                                    *)
LEMMA AssignMemberSound ==
    ASSUME StorageIInv, AssignMember
    PROVE  StorageIInv'
<1> DEFINE c == Cardinality(Names)
<1>1. PICK S \in SUBSET Names :
          \E index \in Bijection(S, 0 .. (Cardinality(S) - 1)) :
              data' = [data EXCEPT ![Member] =
                          <<[index |-> index, live |-> Cardinality(S), ending |-> "no"]>>]
  BY DEF AssignMember
<1>2. PICK index \in Bijection(S, 0 .. (Cardinality(S) - 1)) :
          data' = [data EXCEPT ![Member] =
                      <<[index |-> index, live |-> Cardinality(S), ending |-> "no"]>>]
  BY <1>1
<1> DEFINE d == [index |-> index, live |-> Cardinality(S), ending |-> "no"]
           q == <<d>>
<1>3. c \in Nat /\ Cardinality(S) \in Nat /\ Cardinality(S) <= c
  BY NamesFinite
<1>4. index \in [S -> 0 .. (Cardinality(S) - 1)] /\ DOMAIN index = S
  BY <1>2 DEF Bijection, Injection
<1>5. index \in [S -> 0 .. (c - 1)]
  BY <1>3, <1>4
<1>6. index \in Indexes
  BY <1>5 DEF Indexes
<1>7. d \in Domain
  BY <1>3, <1>6 DEF Domain, Endings
<1>8. DomainSound(d) /\ d.ending = "no"
  <2>1. SlotsFit(d)
    BY <1>3, <1>4 DEF SlotsFit
  <2> QED
    BY <1>4, <1>7, <2>1 DEF DomainSound
<1> HIDE DEF d
<1>9. q \in Seq(Domain) /\ Len(q) = 1 /\ q[1] = d /\ q # <<>>
  BY <1>7
<1>10. data' = [data EXCEPT ![Member] = q]
  BY <1>2 DEF d
<1> HIDE DEF q
<1>11. /\ Main \in Stacks /\ Fiber \in Stacks /\ Member \in Stacks
       /\ Main # Member /\ Fiber # Member
  BY DEF Stacks, Main, Fiber, Member
<1>12. data \in [Stacks -> Seq(Domain)]
  BY DEF StorageIInv, StorageTypeOK
<1>13. /\ data' \in [Stacks -> Seq(Domain)]
       /\ \A s \in Stacks : data'[s] = IF s = Member THEN q ELSE data[s]
  BY <1>9, <1>10, <1>11, <1>12
<1>14. Renew({<<Member, 1>>}) /\ UNCHANGED <<inFiber, saved, intact>>
  BY DEF AssignMember
<1>15. StorageTypeOK'
  <2>1. cache' \in [Ids -> [of : Places \cup {Nowhere}, slot : Nat, dom : Nat]]
    BY <1>14, RenewSound DEF StorageIInv
  <2> QED
    BY <1>11, <1>13, <1>14, <2>1 DEF StorageIInv, StorageTypeOK
<1>16. ASSUME NEW s \in Stacks, NEW k \in 1 .. Len(data'[s])
       PROVE  DomainSound(data'[s][k]) /\ EndsRightly(data'[s][k], s, k)
  <2>1. CASE s = Member
    <3>1. k \in 1 .. 1 /\ data'[s][k] = q[k]
      BY <1>9, <1>13, <2>1
    <3>2. data'[s][k] = d
      BY <1>9, <3>1
    <3> QED
      BY <1>8, <3>2 DEF EndsRightly
  <2>2. CASE s # Member
    BY <1>13, <2>2 DEF StorageIInv, DataSound
  <2> QED
    BY <2>1, <2>2
<1>17. DataSound'
  BY <1>14, <1>16 DEF DataSound, EndsRightly
<1>18. SavedSound' /\ SizesSound'
  BY <1>9, <1>11, <1>13, <1>14 DEF StorageIInv, SavedSound, SizesSound
<1>19. ASSUME NEW i \in Ids PROVE SlotSound(i)'
  <2>1. cache'[i] = cache[i] \/ cache'[i].of = Nowhere
    BY <1>14, RenewSound DEF StorageIInv
  <2>2. CASE cache[i].of = <<Member, 1>>
    <3>1. cache'[i].of = Nowhere
      BY <1>14, <2>2, RenewSound DEF StorageIInv
    <3> QED
      BY <3>1 DEF SlotSound, EntrySound
  <2>3. CASE cache[i].of # <<Member, 1>> /\ cache'[i] = cache[i]
    <3>1. ASSUME NEW s \in Stacks, NEW k \in 1 .. Len(data[s]), cache'[i].of = <<s, k>>
          PROVE  k \in 1 .. Len(data'[s]) /\ KeepsNames(data[s][k], data'[s][k])
      <4>1. s # Member
        <5>1. SUFFICES ASSUME s = Member PROVE FALSE
          OBVIOUS
        <5>2. Len(data[Member]) = 1
          BY <1>11 DEF StorageIInv, SizesSound
        <5> QED
          BY <2>3, <3>1, <5>1, <5>2
      <4> QED
        BY <1>13, <4>1, KeepsItself DEF StorageIInv, DataSound
    <3> QED
      BY <1>17, <2>1, <3>1, SlotKept
  <2> QED
    BY <2>1, <2>2, <2>3 DEF SlotSound, EntrySound
<1> QED
  BY <1>15, <1>17, <1>18, <1>19 DEF StorageIInv, SlotsSound

(* A fiber takes over, with a stack of its own.                            *)
LEMMA ResumeSound ==
    ASSUME StorageIInv, Resume
    PROVE  StorageIInv'
<1> DEFINE q == IF data[Fiber] = <<>> THEN <<NewDomain>> ELSE data[Fiber]
<1>1. /\ ~ inFiber /\ inFiber' = TRUE /\ UNCHANGED <<cache, saved, intact>>
      /\ data[Fiber] # <<>> \/ Len(data[Main]) < MaxDomains
      /\ data' = [data EXCEPT ![Fiber] = q]
  BY DEF Resume
<1>2. DomainSound(NewDomain) /\ NewDomain.ending = "no" /\ NewDomain \in Domain
  BY NewDomainSound DEF DomainSound
<1>3. /\ Main \in Stacks /\ Fiber \in Stacks /\ Member \in Stacks
      /\ Main # Fiber /\ Fiber # Member
  BY DEF Stacks, Main, Fiber, Member
<1>4. data \in [Stacks -> Seq(Domain)]
  BY DEF StorageIInv, StorageTypeOK
<1>5. <<NewDomain>> \in Seq(Domain) /\ <<NewDomain>>[1] = NewDomain
      /\ Len(<<NewDomain>>) = 1 /\ <<NewDomain>> # <<>>
  BY <1>2
<1>6. q \in Seq(Domain) /\ q # <<>>
  BY <1>3, <1>4, <1>5
<1>7. data[Fiber] = <<>> => /\ Len(q) = 1 /\ q[1] = NewDomain
                            /\ Len(data[Fiber]) = 0
  BY <1>5
<1>8. data[Fiber] # <<>> => q = data[Fiber]
  OBVIOUS
<1> HIDE DEF q
<1>9. /\ data' \in [Stacks -> Seq(Domain)]
      /\ \A s \in Stacks : data'[s] = IF s = Fiber THEN q ELSE data[s]
  BY <1>1, <1>3, <1>4, <1>6
<1>10. StorageTypeOK'
  BY <1>1, <1>3, <1>6, <1>9 DEF StorageIInv, StorageTypeOK
<1>11. ASSUME NEW s \in Stacks, NEW k \in 1 .. Len(data'[s])
       PROVE  DomainSound(data'[s][k]) /\ EndsRightly(data'[s][k], s, k)
  <2>1. CASE s = Fiber /\ data[Fiber] = <<>>
    <3>1. k \in 1 .. 1 /\ data'[s][k] = q[k]
      BY <1>7, <1>9, <2>1
    <3>2. data'[s][k] = NewDomain
      BY <1>7, <2>1, <3>1
    <3> QED
      BY <1>2, <3>2 DEF EndsRightly
  <2>2. CASE ~ (s = Fiber /\ data[Fiber] = <<>>)
    <3>1. data'[s] = data[s]
      BY <1>8, <1>9, <2>2
    <3> QED
      BY <3>1 DEF StorageIInv, DataSound
  <2> QED
    BY <2>1, <2>2
<1>12. DataSound'
  BY <1>1, <1>11 DEF DataSound, EndsRightly
<1>13. SavedSound'
  BY <1>1, <1>3, <1>9 DEF StorageIInv, SavedSound
<1>14. SizesSound'
  <2>1. data'[Main] = data[Main] /\ data'[Member] = data[Member] /\ data'[Fiber] = q
    BY <1>3, <1>9
  <2>2. CASE data[Fiber] # <<>>
    BY <1>8, <2>1, <2>2 DEF StorageIInv, SizesSound
  <2>3. CASE data[Fiber] = <<>>
    <3>1. 1 <= MaxDomains
      BY StorageAssumption
    <3>2. Len(data'[Fiber]) = 1
      BY <1>7, <2>1, <2>3
    <3> QED
      BY <2>1, <3>1, <3>2 DEF StorageIInv, SizesSound
  <2> QED
    BY <2>2, <2>3
<1>15. ASSUME NEW i \in Ids PROVE SlotSound(i)'
  <2>1. CASE data[Fiber] = <<>>
    BY <1>1, <1>3, <1>6, <1>12, <2>1, StackReplaced
  <2>2. CASE data[Fiber] # <<>>
    <3>1. data' = data
      BY <1>1, <1>4, <1>8, <2>2
    <3>2. SlotSound(i)
      BY DEF StorageIInv, SlotsSound
    <3> QED
      BY <1>1, <3>1, <3>2 DEF SlotSound, EntrySound, EntryLive, EntryRewound, Rewinding, DomainAt
  <2> QED
    BY <2>1, <2>2
<1> QED
  BY <1>10, <1>12, <1>13, <1>14, <1>15 DEF StorageIInv, SlotsSound

(* A fiber gives back control, perhaps for good: then its stack goes.      *)
LEMMA YieldSound ==
    ASSUME StorageIInv, NEW ends \in BOOLEAN, Yield(ends)
    PROVE  StorageIInv'
<1> DEFINE q == IF ends THEN <<>> ELSE data[Fiber]
<1>1. /\ inFiber' = FALSE /\ UNCHANGED <<saved, intact>>
      /\ data' = [data EXCEPT ![Fiber] = q]
      /\ IF ends THEN Renew({Fiber} \X (1 .. MaxDomains)) ELSE UNCHANGED cache
  BY DEF Yield
<1>2. /\ Main \in Stacks /\ Fiber \in Stacks /\ Member \in Stacks
      /\ Main # Fiber /\ Fiber # Member
  BY DEF Stacks, Main, Fiber, Member
<1>3. data \in [Stacks -> Seq(Domain)]
  BY DEF StorageIInv, StorageTypeOK
<1>4. /\ q \in Seq(Domain)
      /\ ends => q = <<>> /\ Len(q) = 0
      /\ ~ ends => q = data[Fiber]
  BY <1>2, <1>3, EmptySeq
<1> HIDE DEF q
<1>5. /\ data' \in [Stacks -> Seq(Domain)]
      /\ \A s \in Stacks : data'[s] = IF s = Fiber THEN q ELSE data[s]
  BY <1>1, <1>2, <1>3, <1>4
<1>6. cache' \in [Ids -> [of : Places \cup {Nowhere}, slot : Nat, dom : Nat]]
  BY <1>1, RenewSound DEF StorageIInv, StorageTypeOK
<1>7. StorageTypeOK'
  BY <1>1, <1>2, <1>5, <1>6 DEF StorageIInv, StorageTypeOK
<1>8. ASSUME NEW s \in Stacks, NEW k \in 1 .. Len(data'[s])
      PROVE  DomainSound(data'[s][k]) /\ EndsRightly(data'[s][k], s, k)
  <2>1. CASE s = Fiber /\ ends
    BY <1>4, <1>5, <2>1
  <2>2. CASE ~ (s = Fiber /\ ends)
    <3>1. data'[s] = data[s]
      BY <1>4, <1>5, <2>2
    <3> QED
      BY <3>1 DEF StorageIInv, DataSound
  <2> QED
    BY <2>1, <2>2
<1>9. DataSound'
  BY <1>1, <1>8 DEF DataSound, EndsRightly
<1>10. SavedSound'
  BY <1>1, <1>2, <1>5 DEF StorageIInv, SavedSound
<1>11. SizesSound'
  <2>1. data'[Main] = data[Main] /\ data'[Member] = data[Member] /\ data'[Fiber] = q
    BY <1>2, <1>5
  <2>2. CASE ~ ends
    BY <1>4, <2>1, <2>2 DEF StorageIInv, SizesSound
  <2>3. CASE ends
    BY <1>4, <2>1, <2>3, StorageAssumption DEF StorageIInv, SizesSound
  <2> QED
    BY <2>2, <2>3
<1>12. ASSUME NEW i \in Ids PROVE SlotSound(i)'
  <2>1. CASE ends
    <3>1. Renew({Fiber} \X (1 .. MaxDomains))
      BY <1>1, <2>1
    <3>2. cache'[i] = cache[i] \/ cache'[i].of = Nowhere
      BY <3>1, RenewSound DEF StorageIInv
    <3>3. CASE cache[i].of \in {Fiber} \X (1 .. MaxDomains)
      <4>1. cache'[i].of = Nowhere
        BY <3>1, <3>3, RenewSound DEF StorageIInv
      <4> QED
        BY <4>1 DEF SlotSound, EntrySound
    <3>4. CASE cache[i].of \notin {Fiber} \X (1 .. MaxDomains)
      <4>1. cache'[i] = cache[i]
        BY <3>1, <3>4, RenewSound DEF StorageIInv
      <4> QED
        BY <1>1, <1>2, <1>4, <1>9, <3>4, <4>1, StackReplaced
    <3> QED
      BY <3>3, <3>4
  <2>2. CASE ~ ends
    <3>1. data' = data
      BY <1>1, <1>2, <1>3, <1>4, <2>2
    <3>2. SlotSound(i)
      BY DEF StorageIInv, SlotsSound
    <3> QED
      BY <1>1, <2>2, <3>1, <3>2 DEF SlotSound, EntrySound, EntryLive, EntryRewound, Rewinding, DomainAt
  <2> QED
    BY <2>1, <2>2
<1> QED
  BY <1>7, <1>9, <1>10, <1>11, <1>12 DEF StorageIInv, SlotsSound

(* A compilation begins: the domains are saved, none of which is ending as *)
(* long as the storage is intact.                                          *)
LEMMA SaveSound ==
    ASSUME StorageIInv, Save
    PROVE  StorageIInv'
<1>1. /\ saved' = data[Main] /\ UNCHANGED <<data, inFiber, cache>>
      /\ intact' = ~ Ending(Main)
  BY DEF Save
<1>2. Main \in Stacks /\ data[Main] \in Seq(Domain)
  BY DEF StorageIInv, StorageTypeOK, Stacks
<1>3. Len(data[Main]) \in Nat /\ DOMAIN data[Main] = 1 .. Len(data[Main])
  BY <1>2, LenProperties
<1>4. \A k \in 1 .. Len(data[Main]) : intact' => data[Main][k].ending = "no"
  BY <1>1, <1>3 DEF Ending
<1>5. StorageTypeOK' /\ SizesSound'
  BY <1>1 DEF StorageIInv, StorageTypeOK, SizesSound
<1>6. SavedSound'
  BY <1>1, <1>2, <1>3, <1>4 DEF StorageIInv, SavedSound, DataSound, SizesSound
<1>7. DataSound'
  BY <1>1 DEF StorageIInv, DataSound, EndsRightly
<1>8. SlotsSound'
  BY <1>1 DEF StorageIInv, SlotsSound, SlotSound, EntrySound, EntryLive, EntryRewound, Rewinding,
              DomainAt
<1> QED
  BY <1>5, <1>6, <1>7, <1>8 DEF StorageIInv

(* It succeeds.                                                            *)
LEMMA CommitSound ==
    ASSUME StorageIInv, Commit
    PROVE  StorageIInv'
<1>1. saved' = <<>> /\ UNCHANGED <<data, inFiber, cache, intact>>
  BY DEF Commit, Unsaved
<1>2. saved' \in Seq(Domain) /\ Len(saved') = 0
  BY <1>1
<1>3. StorageTypeOK' /\ SizesSound'
  BY <1>1 DEF StorageIInv, StorageTypeOK, SizesSound
<1>4. SavedSound'
  BY <1>2, StorageAssumption DEF SavedSound
<1>5. DataSound'
  BY <1>1 DEF StorageIInv, DataSound, EndsRightly
<1>6. SlotsSound'
  BY <1>1 DEF StorageIInv, SlotsSound, SlotSound, EntrySound, EntryLive, EntryRewound, Rewinding,
              DomainAt
<1> QED
  BY <1>3, <1>4, <1>5, <1>6 DEF StorageIInv

(* It fails: the saved domains come back, and no identifier knows them.    *)
LEMMA RollbackSound ==
    ASSUME StorageIInv, intact, Rollback
    PROVE  StorageIInv'
<1>1. /\ saved # <<>> /\ data' = [data EXCEPT ![Main] = saved] /\ saved' = <<>>
      /\ Renew({Main} \X (1 .. MaxDomains)) /\ UNCHANGED inFiber
      /\ intact' \in BOOLEAN
  BY DEF Rollback, Unsaved
<1>2. /\ Main \in Stacks /\ Fiber \in Stacks /\ Member \in Stacks
      /\ Main # Fiber /\ Main # Member
  BY DEF Stacks, Main, Fiber, Member
<1>3. data \in [Stacks -> Seq(Domain)] /\ saved \in Seq(Domain)
  BY DEF StorageIInv, StorageTypeOK, SavedSound
<1>4. /\ data' \in [Stacks -> Seq(Domain)]
      /\ \A s \in Stacks : data'[s] = IF s = Main THEN saved ELSE data[s]
  BY <1>1, <1>2, <1>3
<1>5. saved' \in Seq(Domain) /\ Len(saved') = 0
  BY <1>1
<1>6. cache' \in [Ids -> [of : Places \cup {Nowhere}, slot : Nat, dom : Nat]]
  BY <1>1, RenewSound DEF StorageIInv
<1>7. StorageTypeOK'
  BY <1>1, <1>2, <1>4, <1>6 DEF StorageIInv, StorageTypeOK
<1>8. ASSUME NEW s \in Stacks, NEW k \in 1 .. Len(data'[s])
      PROVE  DomainSound(data'[s][k]) /\ EndsRightly(data'[s][k], s, k)
  <2>1. CASE s = Main
    BY <1>4, <2>1 DEF StorageIInv, SavedSound, EndsRightly
  <2>2. CASE s # Main
    <3>1. data'[s] = data[s]
      BY <1>4, <2>2
    <3> QED
      BY <3>1 DEF StorageIInv, DataSound
  <2> QED
    BY <2>1, <2>2
<1>9. DataSound'
  BY <1>8 DEF DataSound, EndsRightly
<1>10. SavedSound'
  BY <1>5, StorageAssumption DEF SavedSound
<1>11. SizesSound'
  BY <1>2, <1>4 DEF StorageIInv, SavedSound, SizesSound
<1>12. ASSUME NEW i \in Ids PROVE SlotSound(i)'
  <2>1. CASE cache[i].of \in {Main} \X (1 .. MaxDomains)
    <3>1. cache'[i].of = Nowhere
      BY <1>1, <2>1, RenewSound DEF StorageIInv
    <3> QED
      BY <3>1 DEF SlotSound, EntrySound
  <2>2. CASE cache[i].of \notin {Main} \X (1 .. MaxDomains)
    <3>1. cache'[i] = cache[i]
      BY <1>1, <2>2, RenewSound DEF StorageIInv
    <3> QED
      BY <1>1, <1>2, <1>3, <1>9, <2>2, <3>1, StackReplaced
  <2> QED
    BY <2>1, <2>2
<1> QED
  BY <1>7, <1>9, <1>10, <1>11, <1>12 DEF StorageIInv, SlotsSound
-----------------------------------------------------------------------------
(* A step that changes nothing.                                            *)
LEMMA StorageStutters ==
    ASSUME StorageIInv, UNCHANGED storageVars
    PROVE  StorageIInv'
<1>1. UNCHANGED <<data, inFiber, cache, saved, intact>>
  BY DEF storageVars
<1>2. StorageTypeOK' /\ SizesSound' /\ SavedSound'
  BY <1>1 DEF StorageIInv, StorageTypeOK, SizesSound, SavedSound
<1>3. DataSound'
  BY <1>1 DEF StorageIInv, DataSound, EndsRightly
<1>4. SlotsSound'
  BY <1>1 DEF StorageIInv, SlotsSound, SlotSound, EntrySound, EntryLive, EntryRewound, Rewinding,
              DomainAt
<1> QED
  BY <1>2, <1>3, <1>4 DEF StorageIInv

(* The strengthened invariant of the storage holds in every reachable      *)
(* state, for all names, identifiers and numbers of domains.               *)
THEOREM StorageInvariant == StorageSpec => []StorageIInv
<1>1. StorageInit => StorageIInv
  BY StorageInitSound
<1>2. StorageIInv /\ [StorageNext]_storageVars => StorageIInv'
  <2> SUFFICES ASSUME StorageIInv, [StorageNext]_storageVars PROVE StorageIInv'
    OBVIOUS
  <2>10. CASE ~ intact
    BY <2>10, StorageStutters DEF StorageNext
  <2>1. CASE intact /\ \E grows \in BOOLEAN : Enter(grows)
    BY <2>1, EnterSound
  <2>2. CASE \E how \in {"clear", "pop"} : Clear(how)
    BY <2>2, ClearSound
  <2>3. CASE Cleared \/ Rewind \/ RewindSlot
    BY <2>3, ClearedSound, RewindSound, RewindSlotSound
  <2>4. CASE \E i \in Ids : Declare(i) \/ Read(i) \/ ReadMember(i)
    BY <2>4, DeclareSound, ReadSound, ReadMemberSound
  <2>5. CASE \E n \in Names : DeclareName(n)
    BY <2>5, DeclareNameSound
  <2>6. CASE AssignMember \/ Resume
    BY <2>6, AssignMemberSound, ResumeSound
  <2>7. CASE \E ends \in BOOLEAN : Yield(ends)
    BY <2>7, YieldSound
  <2>8. CASE intact /\ (Save \/ Commit \/ Rollback)
    BY <2>8, SaveSound, CommitSound, RollbackSound
  <2>9. CASE UNCHANGED storageVars
    BY <2>9, StorageStutters
  <2> QED
    BY <2>1, <2>2, <2>3, <2>4, <2>5, <2>6, <2>7, <2>8, <2>9, <2>10 DEF StorageNext, StorageStep
<1> QED
  BY <1>1, <1>2, PTL DEF StorageSpec

(* A name declared in one domain in sight is found there: the topmost one  *)
(* is the only one.                                                        *)
LEMMA OnlyOne ==
    ASSUME NEW S, IsFiniteSet(S), Cardinality(S) <= 1, NEW x \in S, NEW y \in S
    PROVE  x = y
<1>1. Cardinality(S) \in Nat /\ Cardinality(S) # 0
  BY FS_CardinalityType, FS_EmptySet
<1>2. \E z : S = {z}
  BY <1>1, FS_Singleton
<1> QED
  BY <1>2

(* What the cache remembers of a domain in sight is what the lookup finds, *)
(* if the name is declared there once.                                     *)
LEMMA HitIsNearest ==
    ASSUME StorageIInv, NEW i \in Ids, ~ Rewound(i), NEW s \in {Main, Fiber}, Hits(i, s),
           Cardinality(Having(NameOf[i], s)) <= 1
    PROVE  /\ Having(NameOf[i], s) # {}
           /\ cache[i].of = Nearest(NameOf[i], s).of
           /\ cache[i].slot = Nearest(NameOf[i], s).slot
<1> DEFINE H == Having(NameOf[i], s)
           k == cache[i].dom
<1>1. /\ s \in Stacks /\ Main \in Stacks /\ NameOf[i] \in Names
      /\ Len(data[s]) \in Nat /\ Len(data[Main]) \in Nat \ {0}
  <2>1. s \in Stacks /\ Main \in Stacks
    BY DEF Stacks
  <2>2. data[Main] \in Seq(Domain) /\ data[Main] # <<>>
    BY <2>1 DEF StorageIInv, StorageTypeOK
  <2> QED
    BY <2>1, <2>2, TopSound, EmptySeq, StorageAssumption
<1>2. k \in Offsets(s) /\ cache[i].of = PlaceAt(s, k)
  BY DEF Hits
<1>3. /\ cache[i].of # Nowhere /\ cache[i].of[1] = s
      /\ cache[i].of[2] = Len(data[s]) - k /\ cache[i].of[2] \in 1 .. Len(data[s])
  <2>1. k \in 0 .. (Len(data[s]) - 1)
    BY <1>2 DEF Offsets
  <2>2. cache[i].of = <<s, Len(data[s]) - k>>
    BY <1>2 DEF PlaceAt
  <2>3. cache[i].of[1] = s /\ cache[i].of[2] = Len(data[s]) - k
    BY <2>2
  <2>4. cache[i].of[2] \in 1 .. Len(data[s])
    BY <1>1, <2>1, <2>3
  <2>5. cache[i].of # Nowhere
    BY <1>1, <2>2 DEF Nowhere, Stacks, Main, Fiber, Member
  <2> QED
    BY <2>3, <2>4, <2>5
<1>4. ~ EntryRewound(cache[i])
  BY DEF Rewound, EntryRewound
<1>5. /\ Declares(DomainAt(cache[i].of), NameOf[i])
      /\ DomainAt(cache[i].of).index[NameOf[i]] = cache[i].slot
  BY <1>3, <1>4 DEF StorageIInv, SlotsSound, SlotSound, EntrySound, EntryLive
<1>6. k \in H
  BY <1>2, <1>5 DEF Having
<1>7. IsFiniteSet(H)
  <2>1. H \in SUBSET (0 .. (Len(data[s]) - 1))
    BY DEF Having, Offsets
  <2>2. IsFiniteSet(0 .. (Len(data[s]) - 1))
    BY <1>1, FS_Interval
  <2> QED
    BY <2>1, <2>2, FS_Subset
<1>8. Min(H) \in H
  BY <1>1, <1>6, NearestSound
<1>9. Min(H) = k
  BY <1>6, <1>7, <1>8, OnlyOne
<1> QED
  BY <1>1, <1>2, <1>5, <1>6, <1>9, NearestSound

(* Lookups through the cache and by name agree where nothing is shadowed.  *)
LEMMA LookupsAgree ==
    ASSUME StorageIInv, NEW i \in Ids, ~ Rewound(i), ~ Shadowed(NameOf[i])
    PROVE  /\ Found(i).of = ByName(NameOf[i]).of
           /\ Found(i).slot = ByName(NameOf[i]).slot
<1> DEFINE n == NameOf[i]
<1>1. ASSUME NEW s \in {Main, Fiber}, s = Fiber => inFiber
      PROVE  Cardinality(Having(n, s)) <= 1
  <2>1. Cardinality(Having(n, Main)) \in Nat /\ Cardinality(Having(n, Fiber)) \in Nat
    <3>1. ASSUME NEW t \in {Main, Fiber} PROVE Cardinality(Having(n, t)) \in Nat
      <4>1. t \in Stacks
        BY DEF Stacks
      <4>2. Len(data[t]) \in Nat
        BY <4>1, TopSound
      <4>3. IsFiniteSet(0 .. (Len(data[t]) - 1))
        BY <4>2, FS_Interval
      <4>4. Having(n, t) \in SUBSET (0 .. (Len(data[t]) - 1))
        BY DEF Having, Offsets
      <4>5. IsFiniteSet(Having(n, t))
        BY <4>3, <4>4, FS_Subset
      <4> QED
        BY <4>5, FS_CardinalityType
    <3> QED
      BY <3>1
  <2> QED
    BY <1>1, <2>1 DEF Shadowed
<1>2. ASSUME NEW s \in {Main, Fiber}, s = Fiber => inFiber, Seen(i, s)
      PROVE  /\ Having(n, s) # {}
             /\ FoundIn(i, s).of = Nearest(n, s).of
             /\ FoundIn(i, s).slot = Nearest(n, s).slot
  <2>1. CASE Hits(i, s)
    BY <1>1, <1>2, <2>1, HitIsNearest DEF FoundIn
  <2>2. CASE ~ Hits(i, s)
    BY <1>2, <2>2 DEF FoundIn, Seen
  <2> QED
    BY <2>1, <2>2
<1>3. CASE inFiber /\ Seen(i, Fiber)
  <2>1. /\ Having(n, Fiber) # {}
        /\ FoundIn(i, Fiber).of = Nearest(n, Fiber).of
        /\ FoundIn(i, Fiber).slot = Nearest(n, Fiber).slot
    BY <1>2, <1>3
  <2> QED
    BY <1>3, <2>1 DEF Found, ByName
<1>4. CASE ~ (inFiber /\ Seen(i, Fiber)) /\ Seen(i, Main)
  <2>1. /\ Having(n, Main) # {}
        /\ FoundIn(i, Main).of = Nearest(n, Main).of
        /\ FoundIn(i, Main).slot = Nearest(n, Main).slot
    BY <1>2, <1>4 DEF Main, Fiber
  <2>2. ~ (inFiber /\ Having(n, Fiber) # {})
    BY <1>4 DEF Seen
  <2> QED
    BY <1>4, <2>1, <2>2 DEF Found, ByName
<1>5. CASE ~ (inFiber /\ Seen(i, Fiber)) /\ ~ Seen(i, Main)
  BY <1>5 DEF Found, ByName, Seen
<1> QED
  BY <1>3, <1>4, <1>5

(* Whatever finalizers, growth, fibers and nested compilations come in     *)
(* between, up to the first move of a domain in the middle of its clear(): *)
(* an identifier that carries the identity of a domain names a live slot   *)
(* of it, unless it is one of the globals that safe_rewind() has destroyed *)
(* (Rewound); and where moreover its name is declared in one domain in     *)
(* sight only (not Shadowed), reading it is reading by name: get_var of a  *)
(* var_id and of a string find the same slot.                              *)
THEOREM StorageCorrect == StorageSpec => []StorageInv
<1>1. StorageIInv => StorageInv
  <2> SUFFICES ASSUME StorageIInv PROVE StorageInv
    OBVIOUS
  <2>1. StorageTypeOK
    BY DEF StorageIInv
  <2>2. CachedSlotIsLive
    <3> SUFFICES ASSUME NEW i \in Ids, cache[i].of # Nowhere PROVE SlotIsLive(i) \/ Rewound(i)
      BY DEF CachedSlotIsLive, SlotIsLive
    <3>1. EntrySound(i, cache[i])
      BY DEF StorageIInv, SlotsSound, SlotSound
    <3> QED
      BY <3>1 DEF EntrySound, EntryLive, EntryRewound, SlotIsLive, Rewound
  <2>3. CacheAgrees
    BY LookupsAgree DEF CacheAgrees
  <2> QED
    BY <2>1, <2>2, <2>3 DEF StorageInv
<1> QED
  BY <1>1, StorageInvariant, PTL
=============================================================================
