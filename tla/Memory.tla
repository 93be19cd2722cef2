------------------------------- MODULE Memory -------------------------------
(***************************************************************************)
(* Where values live: the allocator of a type (core/components.hpp), with  *)
(* a pool of blocks for the main thread and none for the others, and the   *)
(* store of a basic_var (core/variable.hpp), which keeps a small object in *)
(* place and a large one in a block of the allocator.                      *)
(*                                                                         *)
(* Copying or destroying an object runs its own code: a finalizer of the   *)
(* script, the copy constructor of a container.  What that code does to    *)
(* other stores happens between the two halves of an operation, so that    *)
(* the operations of a thread are a stack.                                 *)
(*                                                                         *)
(* That code may get at the very variable that is being written: the old   *)
(* object is still there while the new one is built.  While the old one is *)
(* destroyed its dispatcher is set, and the proxy of a variable that a     *)
(* script assigns to or drops can still be reached by its name; whatever   *)
(* is done to it then destroys the object, or releases the proxy, twice.   *)
(* `reached` is TRUE from there on, and what follows is not modelled.      *)
(***************************************************************************)
EXTENDS SequencesExt, FiniteSetsExt, Naturals

CONSTANTS MainThread, Worker,  \* the thread with the pool, one without
          Stores,              \* bound: the basic_vars
          Blocks,              \* bound: the blocks there are
          BlockSize,           \* blck_size, the capacity of the pool
          None,                \* no block
          MaxDepth             \* bound: operations inside of operations

ASSUME MemoryAssumption ==
    /\ MainThread # Worker
    /\ None \notin Blocks
    /\ BlockSize \in Nat /\ MaxDepth \in Nat

VARIABLES
    pool,    \* mPool up to mOffset
    heap,    \* the blocks the system allocator has lent
    store,   \* basic_var -> its dispatcher and its block
    running, \* thread -> its unfinished operations, the innermost last
    reached  \* a destructor's code got at the variable being destroyed

memoryVars == <<pool, heap, store, running, reached>>

Threads == {MainThread, Worker}
Empty == [how |-> "empty", block |-> None]
InPlace == [how |-> "svo", block |-> None]
InBlock(b) == [how |-> "heap", block |-> b]
Contents == {Empty, InPlace} \cup {InBlock(b) : b \in Blocks}

(* An operation that will put `new` into `into` once the old object of     *)
(* `into` is destroyed, or that builds an object in `new`'s block first.   *)
Operations == [phase : {"build", "destroy"}, into : Stores, new : Contents]

MemoryInit ==
    /\ pool = <<>>
    /\ heap = {}
    /\ store = [s \in Stores |-> Empty]
    /\ running = [t \in Threads |-> <<>>]
    /\ reached = FALSE
-----------------------------------------------------------------------------
(* acquire_block(): a pooled block first; another thread never looks.      *)
Acquirable(t) ==
    IF t = MainThread /\ pool # <<>> THEN {Last(pool)}
    ELSE Blocks \ heap
Acquire(t, b) ==
    IF t = MainThread /\ pool # <<>>
    THEN pool' = Front(pool) /\ UNCHANGED heap
    ELSE heap' = heap \cup {b} /\ UNCHANGED pool

(* release_block(): the pool keeps BlockSize blocks.                       *)
ReleaseBlock(t, b) ==
    IF t = MainThread /\ Len(pool) < BlockSize
    THEN pool' = Append(pool, b) /\ UNCHANGED heap
    ELSE heap' = heap \ {b} /\ UNCHANGED pool
Discarded(t, c) == IF c.how = "heap" THEN ReleaseBlock(t, c.block) ELSE UNCHANGED <<pool, heap>>

(* The thread is inside of the destructor of what s has.                   *)
Destroying(t, s) ==
    \E k \in DOMAIN running[t] : running[t][k].into = s /\ running[t][k].phase = "destroy"

(* What a thread may write without meeting itself; a variable is not       *)
(* written by two threads at once (docs/SDK.md:132).                       *)
Writable(t, s) ==
    /\ ~Destroying(t, s)
    /\ \A u \in Threads \ {t} : \A k \in DOMAIN running[u] : running[u][k].into # s
Begins(t, op) ==
    /\ Len(running[t]) < MaxDepth
    /\ running' = [running EXCEPT ![t] = Append(@, op)]
Current(t) == Last(running[t])
Ends(t) == running' = [running EXCEPT ![t] = Front(@)]
Phase(t, phase) == running[t] # <<>> /\ Current(t).phase = phase
-----------------------------------------------------------------------------
(* construct(): a block for a large object, then its constructor; copy()   *)
(* does the same into a scratch variable.                                  *)
Construct(t, s, how) ==
    /\ Writable(t, s)
    /\ IF how = "svo"
       THEN Begins(t, [phase |-> "build", into |-> s, new |-> InPlace])
            /\ UNCHANGED <<pool, heap>>
       ELSE \E b \in Acquirable(t) :
                /\ Begins(t, [phase |-> "build", into |-> s, new |-> InBlock(b)])
                /\ Acquire(t, b)
    /\ UNCHANGED <<store, reached>>

(* The constructor throws: the block goes back, the variable is as before. *)
Throw(t) ==
    /\ Phase(t, "build")
    /\ Discarded(t, Current(t).new)
    /\ Ends(t)
    /\ UNCHANGED <<store, reached>>

(* copy_store(): the object is built, destroy_store() starts.              *)
Built(t) ==
    /\ Phase(t, "build")
    /\ running' = [running EXCEPT ![t] = Append(Front(@), [Current(t) EXCEPT !.phase = "destroy"])]
    /\ UNCHANGED <<pool, heap, store, reached>>

(* The destructor has run: op_destroy() releases the block after it, then  *)
(* move_store() commits the new object with its dispatcher.                *)
Destroyed(t) ==
    /\ Phase(t, "destroy")
    /\ LET op == Current(t)
       IN /\ Discarded(t, store[op.into])
          /\ store' = [store EXCEPT ![op.into] = op.new]
    /\ Ends(t)
    /\ UNCHANGED reached

(* ~basic_var() and the assignment of an empty one.                        *)
ReleaseFirst(t, s) == \* MUTANT: op_destroy() releases the block before the destructor
    /\ Writable(t, s) /\ store[s] # Empty
    /\ Begins(t, [phase |-> "destroy", into |-> s, new |-> Empty])
    /\ Discarded(t, store[s])
    /\ UNCHANGED <<store, reached>>

Destroy(t, s) ==
    /\ Writable(t, s) /\ store[s] # Empty
    /\ Begins(t, [phase |-> "destroy", into |-> s, new |-> Empty])
    /\ UNCHANGED <<pool, heap, store, reached>>

(* operator=(basic_var &&): the old object is destroyed, then the block    *)
(* changes hands and `from` is empty.  (`from` gives it up here at once:   *)
(* it is a temporary that no other code sees.)                             *)
MoveStore(t, s, from) ==
    /\ s # from /\ Writable(t, s) /\ Writable(t, from) /\ store[from] # Empty
    /\ Begins(t, [phase |-> "destroy", into |-> s, new |-> store[from]])
    /\ store' = [store EXCEPT ![from] = Empty]
    /\ UNCHANGED <<pool, heap, reached>>

(* swap(): two moves through a scratch variable if the types differ, the   *)
(* move of the full one if the other is empty; nothing is destroyed.       *)
SwapStores(t, s, r) ==
    /\ s # r /\ Writable(t, s) /\ Writable(t, r) /\ store[s] # store[r]
    /\ store' = [store EXCEPT ![s] = store[r], ![r] = store[s]]
    /\ UNCHANGED <<pool, heap, running, reached>>

(* A destructor's code reads, assigns or drops the variable itself.        *)
Reach(t, s) ==
    /\ Destroying(t, s) /\ store[s] # Empty
    /\ reached' = TRUE
    /\ UNCHANGED <<pool, heap, store, running>>

MemoryStep ==
    \E t \in Threads :
        \/ \E s \in Stores : \/ \E how \in {"svo", "heap"} : Construct(t, s, how)
                             \/ Destroy(t, s) \/ Reach(t, s)
                             \/ \E r \in Stores : MoveStore(t, s, r) \/ SwapStores(t, s, r)
        \/ Throw(t) \/ Built(t) \/ Destroyed(t)

MemoryNext == ~reached /\ MemoryStep

MemorySpec == MemoryInit /\ [][MemoryNext]_memoryVars
-----------------------------------------------------------------------------
(* The pool, the stores and the operations have their types, and the pool  *)
(* fits in mPool.                                                          *)
MemoryTypeOK ==
    /\ pool \in Seq(Blocks) /\ Len(pool) <= BlockSize
    /\ heap \subseteq Blocks
    /\ store \in [Stores -> Contents]
    /\ running \in [Threads -> Seq(Operations)]
    /\ reached \in BOOLEAN

(* A block that the system has lent is in one place: the pool, a store, or *)
(* an operation that will put it into one; nothing is lent without a       *)
(* place.  So no block is lost when a constructor throws, none is handed   *)
(* out while a destructor still runs in it, none is freed twice, unless a  *)
(* destructor's code gets at the object it destroys (Reach).               *)
BlockPlaces(b) ==
    {<<"pool", k, 0>> : k \in {j \in DOMAIN pool : pool[j] = b}}
    \cup {<<"store", s, 0>> : s \in {r \in Stores : store[r] = InBlock(b)}}
    \cup UNION {{<<"operation", t, k>> :
                      k \in {j \in DOMAIN running[t] : running[t][j].new = InBlock(b)}} : t \in Threads}
BlockHasOnePlace ==
    \A b \in Blocks : /\ b \in heap <=> BlockPlaces(b) # {}
                     /\ \A p, q \in BlockPlaces(b) : p = q

(* The pool of blocks of any lends each block once, also when constructors *)
(* throw and destructors release more (the allocator of cs_impl::any).     *)
MemoryInv ==
    /\ MemoryTypeOK
    /\ BlockHasOnePlace
=============================================================================
