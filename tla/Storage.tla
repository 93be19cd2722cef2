------------------------------ MODULE Storage ------------------------------
(***************************************************************************)
(* The variables of an instance: domain_manager (impl/runtime.hpp), the    *)
(* domains on its stack and the cache in every var_id (core/core.hpp).     *)
(* An identifier of the source text remembers where it was found last: the *)
(* position of the domain, the slot in it, and the identity of the domain  *)
(* (m_ref).  A domain gets a new identity whenever its slots are given up. *)
(*                                                                         *)
(* An identity is the place of the domain that has it: a new one makes the *)
(* identifiers forget the old.  The values of variables are left out, and  *)
(* with them the refusal to declare one twice, which changes nothing.      *)
(*                                                                         *)
(* While a domain is cleared its values are destroyed, and finalizers run: *)
(* they may call functions, resume fibers and compile.  When that moves,   *)
(* copies or drops the very domain, clear() goes on with storage that is   *)
(* gone; `intact` is FALSE then, and what follows is not modelled.         *)
(***************************************************************************)
EXTENDS SequencesExt, FiniteSetsExt, Functions, Naturals

CONSTANTS Names,          \* the names of variables
          Ids,            \* the identifiers that occur in the script
          NameOf,         \* identifier -> its name (m_id)
          MaxDomains      \* bound: domains on both stacks together

ASSUME StorageAssumption ==
    /\ IsFiniteSet(Names)
    /\ NameOf \in [Ids -> Names]
    /\ MaxDomains \in Nat \ {0}

VARIABLES
    data,   \* the domains of m_data, of the fiber that runs or is left, and
            \* the one of a structure or name space; the bottom first
    inFiber,\* fiber_stack is not null
    cache,  \* identifier -> m_ref, m_slot_id and m_domain_id
    saved,  \* the names of the domains in a storage_transaction, or Unsaved
    intact  \* no domain was moved, copied or dropped while it was cleared

storageVars == <<data, inFiber, cache, saved, intact>>

Main == 1
Fiber == 2
Member == 3
Stacks == {Main, Fiber, Member}
Places == Stacks \X (1 .. MaxDomains)
Nowhere == <<0, 0>>
Unsaved == <<>>

(* m_reflect is `index`; `live` is the size of m_slot.  `ending` is set    *)
(* while the values of the slots are destroyed and finalizers may run.     *)
Endings == {"no", "clear", "pop", "rewind"}
Indexes == UNION {[S -> 0 .. (Cardinality(Names) - 1)] : S \in SUBSET Names}
Domain == [index : Indexes, live : 0 .. Cardinality(Names), ending : Endings]
NewDomain == [index |-> <<>>, live |-> 0, ending |-> "no"]

StorageInit ==
    /\ data = [s \in Stacks |-> IF s = Fiber THEN <<>> ELSE <<NewDomain>>]
    /\ inFiber = FALSE
    /\ cache = [i \in Ids |-> [of |-> Nowhere, slot |-> 0, dom |-> 0]]
    /\ saved = Unsaved
    /\ intact = TRUE
-----------------------------------------------------------------------------
Here == IF inFiber THEN Fiber ELSE Main
Top == Last(data[Here])
TopPlace == <<Here, Len(data[Here])>>
Running == Top.ending = "no"
SetTop(d) == data' = [data EXCEPT ![Here][Len(data[Here])] = d]

(* stack_type counts from the top of the stack.                            *)
PlaceAt(s, offset) == <<s, Len(data[s]) - offset>>
DomainAt(p) == data[p[1]][p[2]]
Offsets(s) == 0 .. (Len(data[s]) - 1)

Declares(d, n) == n \in DOMAIN d.index
Declared(d, n) ==
    [index |-> [m \in {n} \cup DOMAIN d.index |-> IF m = n THEN d.live ELSE d.index[m]],
     live |-> d.live + 1, ending |-> d.ending]

(* The domains at these places get a new m_ref.                            *)
Renew(places) ==
    cache' = [i \in Ids |-> IF cache[i].of \in places
                            THEN [cache[i] EXCEPT !.of = Nowhere, !.slot = 0]
                            ELSE cache[i]]
-----------------------------------------------------------------------------
(* Some domain of the stack is in the middle of its clear().               *)
Ending(s) == \E k \in DOMAIN data[s] : data[s][k].ending # "no"

(* add_domain(): a vector that has to grow moves its domains, and a moved  *)
(* domain has a new identity.  A finalizer enters its function here too.   *)
Enter(grows) ==
    /\ Len(data[Main]) + Len(data[Fiber]) < MaxDomains
    /\ data' = [data EXCEPT ![Here] = Append(@, NewDomain)]
    /\ IF grows THEN Renew({Here} \X (1 .. MaxDomains)) ELSE UNCHANGED cache
    /\ intact' = ~(grows /\ Ending(Here))
    /\ UNCHANGED <<inFiber, saved>>

(* domain_type::clear() up to m_slot.clear(): remove_domain() pops the     *)
(* domain afterwards, clear_domain() keeps it.                             *)
ClearKeepsIdentity(how) == \* MUTANT: the identity is renewed after m_slot.clear()
    /\ Running
    /\ how = "pop" => Len(data[Here]) > 1
    /\ SetTop([index |-> <<>>, live |-> Top.live, ending |-> how])
    /\ UNCHANGED <<inFiber, cache, saved, intact>>

Clear(how) ==
    /\ Running
    /\ how = "pop" => Len(data[Here]) > 1
    /\ SetTop([index |-> <<>>, live |-> Top.live, ending |-> how])
    /\ Renew({TopPlace})
    /\ UNCHANGED <<inFiber, saved, intact>>

Cleared ==
    /\ Top.ending \in {"clear", "pop"}
    /\ IF Top.ending = "pop"
       THEN data' = [data EXCEPT ![Here] = Front(@)]
       ELSE SetTop(NewDomain)
    /\ UNCHANGED <<inFiber, cache, saved, intact>>

(* clear_global(), when the context ends: safe_rewind() renews the identity*)
(* once, then takes one variable after the other out of the index and      *)
(* destroys it; finalizers of the values run in between.                   *)
Rewind ==
    /\ ~inFiber /\ Len(data[Main]) = 1 /\ saved = Unsaved
    /\ Running
    /\ SetTop([Top EXCEPT !.ending = "rewind"])
    /\ Renew({TopPlace})
    /\ UNCHANGED <<inFiber, saved, intact>>

RewindSlot ==
    /\ Top.ending = "rewind" /\ Top.live > 0
    /\ LET rest == {n \in DOMAIN Top.index : Top.index[n] # Top.live - 1}
       IN SetTop([index |-> Restrict(Top.index, rest), live |-> Top.live - 1, ending |-> "rewind"])
    /\ UNCHANGED <<inFiber, cache, saved, intact>>
-----------------------------------------------------------------------------
(* add_var(var_id) of the domain on top.  An identifier cached for this    *)
(* very domain is assigned to or refused, which changes nothing here.      *)
Declare(i) ==
    /\ Running
    /\ cache[i].of # TopPlace
    /\ LET d == IF Declares(Top, NameOf[i]) THEN Top ELSE Declared(Top, NameOf[i])
       IN /\ SetTop(d)
          /\ cache' = [cache EXCEPT ![i] = [of |-> TopPlace, slot |-> d.index[NameOf[i]], dom |-> @.dom]]
    /\ UNCHANGED <<inFiber, saved, intact>>

(* add_var() of a plain name and involve_domain(): no identifier.          *)
DeclareName(n) ==
    /\ Running
    /\ ~Declares(Top, n)
    /\ SetTop(Declared(Top, n))
    /\ UNCHANGED <<inFiber, cache, saved, intact>>

(* get_var(var_id): the fiber's stack before m_data; the cached domain if  *)
(* it still has the cached identity, else the topmost one with the name.   *)
Hits(i, s) == cache[i].dom \in Offsets(s) /\ cache[i].of = PlaceAt(s, cache[i].dom)
Having(n, s) == {k \in Offsets(s) : Declares(DomainAt(PlaceAt(s, k)), n)}
Undefined == [of |-> Nowhere, slot |-> 0, dom |-> 0]

Nearest(n, s) ==
    LET o == Min(Having(n, s))
    IN [of |-> PlaceAt(s, o), slot |-> DomainAt(PlaceAt(s, o)).index[n], dom |-> o]
ByName(n) ==
    IF inFiber /\ Having(n, Fiber) # {} THEN Nearest(n, Fiber)
    ELSE IF Having(n, Main) # {} THEN Nearest(n, Main)
    ELSE Undefined

Seen(i, s) == Hits(i, s) \/ Having(NameOf[i], s) # {}
FoundIn(i, s) == IF Hits(i, s) THEN cache[i] ELSE Nearest(NameOf[i], s)
Found(i) ==
    IF inFiber /\ Seen(i, Fiber) THEN FoundIn(i, Fiber)
    ELSE IF Seen(i, Main) THEN FoundIn(i, Main)
    ELSE Undefined

Read(i) ==
    /\ Found(i) # Undefined
    /\ cache' = [cache EXCEPT ![i] = Found(i)]
    /\ UNCHANGED <<data, inFiber, saved, intact>>
-----------------------------------------------------------------------------
(* The right side of a dot: get_var_opt() of the domain of a structure or  *)
(* name space; assigning a name space clears its domain and copies another.*)
ReadMember(i) ==
    LET p == <<Member, 1>>
        d == DomainAt(p)
    IN /\ cache[i].of # p /\ Declares(d, NameOf[i])
       /\ cache' = [cache EXCEPT ![i] = [of |-> p, slot |-> d.index[NameOf[i]], dom |-> @.dom]]
       /\ UNCHANGED <<data, inFiber, saved, intact>>

AssignMember ==
    /\ \E S \in SUBSET Names : \E index \in Bijection(S, 0 .. (Cardinality(S) - 1)) :
           data' = [data EXCEPT ![Member] =
                       <<[index |-> index, live |-> Cardinality(S), ending |-> "no"]>>]
    /\ Renew({<<Member, 1>>})
    /\ UNCHANGED <<inFiber, saved, intact>>
-----------------------------------------------------------------------------
(* A fiber takes over and gives back control; its stack ends with it.      *)
Resume ==
    /\ ~inFiber /\ Running
    /\ data[Fiber] # <<>> \/ Len(data[Main]) < MaxDomains
    /\ inFiber' = TRUE
    /\ data' = [data EXCEPT ![Fiber] = IF @ = <<>> THEN <<NewDomain>> ELSE @]
    /\ UNCHANGED <<cache, saved, intact>>

Yield(ends) ==
    /\ inFiber
    /\ inFiber' = FALSE
    /\ data' = [data EXCEPT ![Fiber] = IF ends THEN <<>> ELSE @]
    /\ IF ends THEN Renew({Fiber} \X (1 .. MaxDomains)) ELSE UNCHANGED cache
    /\ UNCHANGED <<saved, intact>>

(* storage_transaction around a compilation: a failure puts copies of the  *)
(* saved domains in the place of all of m_data; a copy has a new identity. *)
(* Fibers and finalizers compile too, and what they interrupt may go on    *)
(* before their transaction ends.                                          *)
Save ==
    /\ saved = Unsaved
    /\ saved' = data[Main]
    /\ intact' = ~Ending(Main)
    /\ UNCHANGED <<data, inFiber, cache>>

Commit ==
    /\ saved # Unsaved
    /\ saved' = Unsaved
    /\ UNCHANGED <<data, inFiber, cache, intact>>

Rollback ==
    /\ saved # Unsaved
    /\ data' = [data EXCEPT ![Main] = saved]
    /\ saved' = Unsaved
    /\ Renew({Main} \X (1 .. MaxDomains))
    /\ intact' = ~Ending(Main)
    /\ UNCHANGED inFiber

StorageStep ==
    \/ \E grows \in BOOLEAN : Enter(grows)
    \/ \E how \in {"clear", "pop"} : Clear(how)
    \/ Cleared \/ Rewind \/ RewindSlot
    \/ \E i \in Ids : Declare(i) \/ Read(i) \/ ReadMember(i)
    \/ \E n \in Names : DeclareName(n)
    \/ AssignMember \/ Resume
    \/ \E ends \in BOOLEAN : Yield(ends)
    \/ Save \/ Commit \/ Rollback

StorageNext == intact /\ StorageStep

StorageSpec == StorageInit /\ [][StorageNext]_storageVars
-----------------------------------------------------------------------------
(* Every stack holds domains and every identifier a cache entry.           *)
StorageTypeOK ==
    /\ data \in [Stacks -> Seq(Domain)] /\ data[Main] # <<>>
    /\ inFiber \in BOOLEAN /\ (inFiber => data[Fiber] # <<>>)
    /\ cache \in [Ids -> [of : Places \cup {Nowhere}, slot : Nat, dom : Nat]]
    /\ intact \in BOOLEAN

(* An identifier that carries the identity of a domain names a live slot   *)
(* of it, the one of its own name: whoever meets the identity skips the    *)
(* lookup.                                                                 *)
SlotIsLive(i) ==
    cache[i].of # Nowhere =>
        /\ cache[i].of[2] \in 1 .. Len(data[cache[i].of[1]])
        /\ Declares(DomainAt(cache[i].of), NameOf[i])
        /\ DomainAt(cache[i].of).index[NameOf[i]] = cache[i].slot

(* The globals that are gone already while safe_rewind() destroys them: an *)
(* identifier that a finalizer evaluates is cached again, and nothing      *)
(* invalidates it when its own variable goes.                              *)
Rewinding == data[Main][1].ending = "rewind"
Rewound(i) ==
    Rewinding /\ cache[i].of = <<Main, 1>> /\ cache[i].slot >= data[Main][1].live

(* This is what "Invalidate cached var_ids before destroying vars" in      *)
(* domain_type::clear() and the fresh identity of a copied or moved domain *)
(* are for: whatever finalizers, growth, fibers and rollbacks come in      *)
(* between, the slot of every identifier is live, but for the globals that *)
(* safe_rewind() has destroyed already.                                    *)
CachedSlotIsLive == \A i \in Ids : SlotIsLive(i) \/ Rewound(i)

(* Unless a name is declared in several domains in sight, the cache never  *)
(* changes what an identifier means: get_var(var_id) and get_var(string)   *)
(* agree.  (With shadowing the variable depends on earlier evaluations.)   *)
Shadowed(n) ==
    \/ Cardinality(Having(n, Main)) > 1
    \/ inFiber /\ Cardinality(Having(n, Main)) + Cardinality(Having(n, Fiber)) > 1
CacheAgrees ==
    \A i \in Ids : ~Shadowed(NameOf[i]) /\ ~Rewound(i) =>
        /\ Found(i).of = ByName(NameOf[i]).of
        /\ Found(i).slot = ByName(NameOf[i]).slot

(* For a name that is declared once in sight, and not one of the globals   *)
(* safe_rewind() has destroyed, reading an identifier is reading by name   *)
(* (get_var of a var_id and of a string); and every cached slot is live.   *)
StorageInv ==
    /\ StorageTypeOK
    /\ CachedSlotIsLive
    /\ CacheAgrees
=============================================================================
