---------------------------- MODULE MemoryProofs ----------------------------
(***************************************************************************)
(* Machine-checked proofs about the allocator and the stores of values:    *)
(* for any stores, blocks, pool size and nesting of operations, a block is *)
(* in one place while it is lent and in none when it is not; and about the *)
(* handles on values: for any proxies, variables and operands, reference   *)
(* counts are counts of handles, and a copy has no other handle.           *)
(***************************************************************************)
EXTENDS Memory, Values, FiniteSetTheorems, SequenceTheorems, TLAPS

(***************************************************************************)
(* The three places of a block: the pool, a store and an operation that    *)
(* will put it into a store.  The inductive invariant says of each pair of *)
(* places that they do not share a block, and of a lent block that it has  *)
(* one of them.                                                            *)
(***************************************************************************)
Pooled(b) == \E k \in DOMAIN pool : pool[k] = b
Stored(b, s) == store[s] = InBlock(b)
Promised(b, t, k) == k \in DOMAIN running[t] /\ running[t][k].new = InBlock(b)

PoolOnce == \A j, k \in DOMAIN pool : pool[j] = pool[k] => j = k

Apart ==
    \A b \in Blocks :
        /\ \A s \in Stores : Stored(b, s) => ~Pooled(b)
        /\ \A t \in Threads, k \in Nat : Promised(b, t, k) => ~Pooled(b)
        /\ \A s \in Stores, t \in Threads, k \in Nat : ~(Stored(b, s) /\ Promised(b, t, k))
        /\ \A s, r \in Stores : Stored(b, s) /\ Stored(b, r) => s = r
        /\ \A t, u \in Threads, j, k \in Nat :
               Promised(b, t, j) /\ Promised(b, u, k) => t = u /\ j = k

Lent ==
    \A b \in Blocks :
        b \in heap <=> \/ Pooled(b)
                       \/ \E s \in Stores : Stored(b, s)
                       \/ \E t \in Threads, k \in Nat : Promised(b, t, k)

MemoryIInv == MemoryTypeOK /\ PoolOnce /\ Apart /\ Lent
-----------------------------------------------------------------------------
(* What Append and Front do to a sequence.                                 *)
LEMMA AppendElements ==
    ASSUME NEW S, NEW q \in Seq(S), NEW e \in S
    PROVE  /\ Append(q, e) \in Seq(S) /\ Len(q) \in Nat
           /\ Len(Append(q, e)) = Len(q) + 1
           /\ DOMAIN q = 1 .. Len(q) /\ DOMAIN Append(q, e) = 1 .. (Len(q) + 1)
           /\ \A k \in 1 .. Len(q) : Append(q, e)[k] = q[k]
           /\ Append(q, e)[Len(q) + 1] = e
OBVIOUS

(* A non-empty sequence without its last element.                          *)
LEMMA FrontElements ==
    ASSUME NEW S, NEW q \in Seq(S), q # <<>>
    PROVE  /\ Front(q) \in Seq(S) /\ Len(q) \in Nat \ {0}
           /\ Len(Front(q)) = Len(q) - 1
           /\ DOMAIN q = 1 .. Len(q) /\ DOMAIN Front(q) = 1 .. (Len(q) - 1)
           /\ \A k \in 1 .. (Len(q) - 1) : Front(q)[k] = q[k]
           /\ Last(q) = q[Len(q)] /\ Last(q) \in S
<1>1. Len(q) \in Nat \ {0} /\ DOMAIN q = 1 .. Len(q)
  BY EmptySeq, LenProperties
<1>2. Last(q) = q[Len(q)] /\ q[Len(q)] \in S
  BY <1>1, ElementOfSeq DEF Last
<1>3. /\ Front(q) \in Seq(S) /\ Len(Front(q)) = Len(q) - 1
      /\ \A k \in 1 .. (Len(q) - 1) : Front(q)[k] = q[k]
  BY <1>1, SubSeqProperties DEF Front
<1>4. DOMAIN Front(q) = 1 .. (Len(q) - 1)
  BY <1>1, <1>3, LenProperties
<1> QED
  BY <1>1, <1>2, <1>3, <1>4

(* What a store holds names at most one block.                             *)
LEMMA BlocksDiffer ==
    /\ \A b, c : InBlock(b) = InBlock(c) => b = c
    /\ \A b : InBlock(b).how = "heap" /\ InBlock(b).block = b
    /\ \A b : InBlock(b) # Empty /\ InBlock(b) # InPlace
    /\ \A c \in Contents : c.how = "heap" => c.block \in Blocks /\ c = InBlock(c.block)
    /\ \A c \in Contents : c.how # "heap" => \A b : c # InBlock(b)
BY DEF InBlock, Empty, InPlace, Contents
-----------------------------------------------------------------------------
(* An operation begins and promises what it will put into its store.       *)
LEMMA BeginsPromises ==
    ASSUME MemoryTypeOK, NEW t \in Threads, NEW op \in Operations, Begins(t, op)
    PROVE  /\ running' \in [Threads -> Seq(Operations)]
           /\ \A b \in Blocks, u \in Threads, k \in Nat :
                  Promised(b, u, k)' <=> \/ Promised(b, u, k)
                                         \/ u = t /\ k = Len(running[t]) + 1 /\ op.new = InBlock(b)
           /\ \A b \in Blocks : ~Promised(b, t, Len(running[t]) + 1)
           /\ Len(running[t]) + 1 \in Nat
<1>1. /\ running \in [Threads -> Seq(Operations)] /\ running[t] \in Seq(Operations)
      /\ running' = [running EXCEPT ![t] = Append(running[t], op)]
  BY DEF MemoryTypeOK, Begins
<1>2. /\ Append(running[t], op) \in Seq(Operations) /\ Len(running[t]) \in Nat
      /\ DOMAIN running[t] = 1 .. Len(running[t])
      /\ DOMAIN Append(running[t], op) = 1 .. (Len(running[t]) + 1)
      /\ \A k \in 1 .. Len(running[t]) : Append(running[t], op)[k] = running[t][k]
      /\ Append(running[t], op)[Len(running[t]) + 1] = op
  BY <1>1, AppendElements
<1>3. running' \in [Threads -> Seq(Operations)]
  BY <1>1, <1>2
<1>4. ASSUME NEW b \in Blocks, NEW u \in Threads, NEW k \in Nat
      PROVE  Promised(b, u, k)' <=> \/ Promised(b, u, k)
                                    \/ u = t /\ k = Len(running[t]) + 1 /\ op.new = InBlock(b)
  <2>1. CASE u # t
    <3>1. running'[u] = running[u]
      BY <1>1, <2>1
    <3> QED
      BY <2>1, <3>1 DEF Promised
  <2>2. CASE u = t
    <3>1. running'[t] = Append(running[t], op)
      BY <1>1
    <3>2. CASE k = Len(running[t]) + 1
      BY <1>2, <2>2, <3>1, <3>2 DEF Promised
    <3>3. CASE k # Len(running[t]) + 1
      <4>1. k \in DOMAIN running[t] <=> k \in DOMAIN Append(running[t], op)
        BY <1>2, <3>3
      <4> QED
        BY <1>2, <2>2, <3>1, <3>3, <4>1 DEF Promised
    <3> QED
      BY <3>2, <3>3
  <2> QED
    BY <2>1, <2>2
<1> QED
  BY <1>2, <1>3, <1>4 DEF Promised

(* The innermost operation ends, and its promise with it.                  *)
LEMMA EndsPromises ==
    ASSUME MemoryTypeOK, NEW t \in Threads, running[t] # <<>>, Ends(t)
    PROVE  /\ running' \in [Threads -> Seq(Operations)]
           /\ \A b \in Blocks, u \in Threads, k \in Nat :
                  Promised(b, u, k)' <=> Promised(b, u, k) /\ ~(u = t /\ k = Len(running[t]))
           /\ \A b \in Blocks : Promised(b, t, Len(running[t])) <=> Current(t).new = InBlock(b)
           /\ Len(running[t]) \in Nat /\ Current(t) \in Operations
<1>1. /\ running \in [Threads -> Seq(Operations)] /\ running[t] \in Seq(Operations)
      /\ running' = [running EXCEPT ![t] = Front(running[t])]
  BY DEF MemoryTypeOK, Ends
<1>2. /\ Front(running[t]) \in Seq(Operations) /\ Len(running[t]) \in Nat \ {0}
      /\ DOMAIN running[t] = 1 .. Len(running[t])
      /\ DOMAIN Front(running[t]) = 1 .. (Len(running[t]) - 1)
      /\ \A k \in 1 .. (Len(running[t]) - 1) : Front(running[t])[k] = running[t][k]
      /\ Current(t) = running[t][Len(running[t])] /\ Current(t) \in Operations
  BY <1>1, FrontElements DEF Current
<1>3. running' \in [Threads -> Seq(Operations)]
  BY <1>1, <1>2
<1>4. ASSUME NEW b \in Blocks, NEW u \in Threads, NEW k \in Nat
      PROVE  Promised(b, u, k)' <=> Promised(b, u, k) /\ ~(u = t /\ k = Len(running[t]))
  <2>1. CASE u # t
    <3>1. running'[u] = running[u]
      BY <1>1, <2>1
    <3> QED
      BY <2>1, <3>1 DEF Promised
  <2>2. CASE u = t
    <3>1. running'[t] = Front(running[t])
      BY <1>1
    <3>2. CASE k = Len(running[t])
      BY <1>2, <2>2, <3>1, <3>2 DEF Promised
    <3>3. CASE k # Len(running[t])
      <4>1. k \in DOMAIN running[t] <=> k \in DOMAIN Front(running[t])
        BY <1>2, <3>3
      <4> QED
        BY <1>2, <2>2, <3>1, <3>3, <4>1 DEF Promised
    <3> QED
      BY <3>2, <3>3
  <2> QED
    BY <2>1, <2>2
<1> QED
  BY <1>2, <1>3, <1>4 DEF Promised

(* A block that is acquired is in no other place.                          *)
LEMMA AcquireTakes ==
    ASSUME MemoryIInv, NEW t \in Threads, NEW b \in Acquirable(t), Acquire(t, b)
    PROVE  /\ b \in Blocks
           /\ pool' \in Seq(Blocks) /\ Len(pool') <= BlockSize /\ PoolOnce'
           /\ heap' = heap \cup {b}
           /\ \A c \in Blocks : Pooled(c)' <=> Pooled(c) /\ c # b
           /\ \A s \in Stores : ~Stored(b, s)
           /\ \A u \in Threads, k \in Nat : ~Promised(b, u, k)
<1>0. /\ pool \in Seq(Blocks) /\ Len(pool) <= BlockSize /\ heap \subseteq Blocks
      /\ PoolOnce /\ Apart /\ Lent /\ BlockSize \in Nat
  BY MemoryAssumption DEF MemoryIInv, MemoryTypeOK
<1>1. CASE t = MainThread /\ pool # <<>>
  <2>1. /\ b = pool[Len(pool)] /\ b \in Blocks /\ Len(pool) \in Nat \ {0}
        /\ pool' = Front(pool) /\ heap' = heap
        /\ Front(pool) \in Seq(Blocks) /\ Len(Front(pool)) = Len(pool) - 1
        /\ DOMAIN pool = 1 .. Len(pool) /\ DOMAIN Front(pool) = 1 .. (Len(pool) - 1)
        /\ \A k \in 1 .. (Len(pool) - 1) : Front(pool)[k] = pool[k]
    BY <1>0, <1>1, FrontElements DEF Acquirable, Acquire
  <2>2. Pooled(b)
    BY <2>1 DEF Pooled
  <2>3. b \in heap
    BY <1>0, <2>1, <2>2 DEF Lent
  <2>4. PoolOnce'
    BY <1>0, <2>1 DEF PoolOnce
  <2>5. ASSUME NEW c \in Blocks PROVE Pooled(c)' <=> Pooled(c) /\ c # b
    <3>1. CASE c = b
      BY <1>0, <2>1, <3>1 DEF Pooled, PoolOnce
    <3>2. CASE c # b
      BY <2>1, <3>2 DEF Pooled
    <3> QED
      BY <3>1, <3>2
  <2>6. Len(pool') <= BlockSize
    BY <1>0, <2>1
  <2>7. /\ \A s \in Stores : ~Stored(b, s)
        /\ \A u \in Threads, k \in Nat : ~Promised(b, u, k)
    BY <1>0, <2>1, <2>2 DEF Apart
  <2>8. heap' = heap \cup {b}
    BY <2>1, <2>3
  <2> QED
    BY <2>1, <2>4, <2>5, <2>6, <2>7, <2>8
<1>2. CASE ~(t = MainThread /\ pool # <<>>)
  <2>1. b \in Blocks /\ b \notin heap /\ heap' = heap \cup {b} /\ pool' = pool
    BY <1>2 DEF Acquirable, Acquire
  <2>2. /\ ~Pooled(b)
        /\ \A s \in Stores : ~Stored(b, s)
        /\ \A u \in Threads, k \in Nat : ~Promised(b, u, k)
    BY <1>0, <2>1 DEF Lent
  <2>3. PoolOnce' /\ \A c \in Blocks : Pooled(c)' <=> Pooled(c) /\ c # b
    BY <1>0, <2>1, <2>2 DEF PoolOnce, Pooled
  <2> QED
    BY <1>0, <2>1, <2>2, <2>3
<1> QED
  BY <1>1, <1>2

(* A block that is discarded goes to the pool or back to the system.       *)
LEMMA DiscardGives ==
    ASSUME MemoryIInv, NEW t \in Threads, NEW c \in Contents, Discarded(t, c),
           c.how = "heap" => ~Pooled(c.block) /\ c.block \in heap
    PROVE  /\ pool' \in Seq(Blocks) /\ Len(pool') <= BlockSize /\ PoolOnce'
           /\ \A b \in Blocks : c # InBlock(b) => /\ Pooled(b)' <=> Pooled(b)
                                                  /\ b \in heap' <=> b \in heap
           /\ \A b \in Blocks : c = InBlock(b) => (b \in heap' <=> Pooled(b)')
           /\ heap' \subseteq Blocks
<1>0. /\ pool \in Seq(Blocks) /\ Len(pool) <= BlockSize /\ heap \subseteq Blocks
      /\ PoolOnce /\ BlockSize \in Nat
  BY MemoryAssumption DEF MemoryIInv, MemoryTypeOK
<1>1. CASE c.how # "heap"
  <2>1. pool' = pool /\ heap' = heap /\ \A b \in Blocks : c # InBlock(b)
    BY <1>1, BlocksDiffer DEF Discarded
  <2> QED
    BY <1>0, <2>1 DEF PoolOnce, Pooled
<1>2. CASE c.how = "heap"
  <2> DEFINE a == c.block
  <2>1. a \in Blocks /\ c = InBlock(a) /\ \A b \in Blocks : c = InBlock(b) <=> b = a
    BY <1>2, BlocksDiffer
  <2>2. ~Pooled(a) /\ a \in heap /\ ReleaseBlock(t, a)
    BY <1>2 DEF Discarded
  <2>3. CASE t = MainThread /\ Len(pool) < BlockSize
    <3>1. /\ pool' = Append(pool, a) /\ heap' = heap
          /\ Append(pool, a) \in Seq(Blocks) /\ Len(pool) \in Nat
          /\ Len(Append(pool, a)) = Len(pool) + 1
          /\ DOMAIN pool = 1 .. Len(pool) /\ DOMAIN Append(pool, a) = 1 .. (Len(pool) + 1)
          /\ \A k \in 1 .. Len(pool) : Append(pool, a)[k] = pool[k]
          /\ Append(pool, a)[Len(pool) + 1] = a
      BY <1>0, <2>1, <2>2, <2>3, AppendElements DEF ReleaseBlock
    <3>2. PoolOnce'
      BY <1>0, <2>2, <3>1 DEF PoolOnce, Pooled
    <3>3. \A b \in Blocks : Pooled(b)' <=> Pooled(b) \/ b = a
      BY <3>1 DEF Pooled
    <3>4. Len(pool') <= BlockSize
      BY <1>0, <2>3, <3>1
    <3> QED
      BY <1>0, <2>1, <2>2, <3>1, <3>2, <3>3, <3>4
  <2>4. CASE ~(t = MainThread /\ Len(pool) < BlockSize)
    <3>1. pool' = pool /\ heap' = heap \ {a}
      BY <2>2, <2>4 DEF ReleaseBlock
    <3>2. PoolOnce' /\ \A b \in Blocks : Pooled(b)' <=> Pooled(b)
      BY <1>0, <3>1 DEF PoolOnce, Pooled
    <3> QED
      BY <1>0, <2>1, <2>2, <3>1, <3>2
  <2> QED
    BY <2>3, <2>4
<1> QED
  BY <1>1, <1>2
-----------------------------------------------------------------------------
(* No block is allocated before the first value.                           *)
LEMMA InitHasNoBlocks == MemoryInit => MemoryIInv
<1> SUFFICES ASSUME MemoryInit PROVE MemoryIInv
  OBVIOUS
<1>1. MemoryTypeOK
  <2>1. pool \in Seq(Blocks) /\ Len(pool) <= BlockSize /\ heap \subseteq Blocks
    BY MemoryAssumption DEF MemoryInit
  <2>2. store \in [Stores -> Contents] /\ reached \in BOOLEAN
    BY DEF MemoryInit, Contents
  <2>3. running \in [Threads -> Seq(Operations)]
    BY DEF MemoryInit
  <2> QED
    BY <2>1, <2>2, <2>3 DEF MemoryTypeOK
<1>2. \A b \in Blocks : /\ ~Pooled(b)
                        /\ \A s \in Stores : ~Stored(b, s)
                        /\ \A t \in Threads, k \in Nat : ~Promised(b, t, k)
  BY BlocksDiffer DEF MemoryInit, Pooled, Stored, Promised
<1>3. PoolOnce /\ Apart /\ Lent
  BY <1>2 DEF MemoryInit, PoolOnce, Apart, Lent
<1> QED
  BY <1>1, <1>3 DEF MemoryIInv

(* The actions. *)
LEMMA ConstructKeeps ==
    ASSUME MemoryIInv, NEW t \in Threads, NEW s \in Stores, NEW how \in {"svo", "heap"},
           Construct(t, s, how)
    PROVE  MemoryIInv'
<1>0. MemoryTypeOK /\ PoolOnce /\ Apart /\ Lent /\ store' = store /\ reached' = reached
  BY DEF MemoryIInv, Construct
<1>1. \A b \in Blocks, r \in Stores : Stored(b, r)' <=> Stored(b, r)
  BY <1>0 DEF Stored
<1>2. CASE how = "svo"
  <2> DEFINE op == [phase |-> "build", into |-> s, new |-> InPlace]
  <2>1. Begins(t, op) /\ op \in Operations /\ op.new = InPlace /\ pool' = pool /\ heap' = heap
    BY <1>2 DEF Construct, Operations, Contents
  <2>2. /\ running' \in [Threads -> Seq(Operations)]
        /\ \A b \in Blocks, u \in Threads, k \in Nat : Promised(b, u, k)' <=> Promised(b, u, k)
    BY <1>0, <2>1, BeginsPromises, BlocksDiffer
  <2>3. PoolOnce' /\ \A b \in Blocks : Pooled(b)' <=> Pooled(b)
    BY <1>0, <2>1 DEF PoolOnce, Pooled
  <2>4. MemoryTypeOK'
    BY <1>0, <2>1, <2>2 DEF MemoryTypeOK
  <2>5. Apart' /\ Lent'
    BY <1>0, <1>1, <2>1, <2>2, <2>3 DEF Apart, Lent
  <2> QED
    BY <2>3, <2>4, <2>5 DEF MemoryIInv
<1>3. CASE how = "heap"
  <2>1. PICK a \in Acquirable(t) :
            /\ Begins(t, [phase |-> "build", into |-> s, new |-> InBlock(a)])
            /\ Acquire(t, a)
    BY <1>3 DEF Construct
  <2> DEFINE op == [phase |-> "build", into |-> s, new |-> InBlock(a)]
             last == Len(running[t]) + 1
  <2>2. /\ a \in Blocks
        /\ pool' \in Seq(Blocks) /\ Len(pool') <= BlockSize /\ PoolOnce'
        /\ heap' = heap \cup {a}
        /\ \A c \in Blocks : Pooled(c)' <=> Pooled(c) /\ c # a
        /\ \A r \in Stores : ~Stored(a, r)
        /\ \A u \in Threads, k \in Nat : ~Promised(a, u, k)
    BY <2>1, AcquireTakes
  <2>3. op \in Operations /\ op.new = InBlock(a)
    BY <2>2 DEF Operations, Contents
  <2>4. /\ running' \in [Threads -> Seq(Operations)] /\ last \in Nat
        /\ \A b \in Blocks, u \in Threads, k \in Nat :
               Promised(b, u, k)' <=> Promised(b, u, k) \/ (u = t /\ k = last /\ b = a)
    BY <1>0, <2>1, <2>3, BeginsPromises, BlocksDiffer
  <2>5. MemoryTypeOK'
    BY <1>0, <2>2, <2>4 DEF MemoryTypeOK
  <2> HIDE DEF last
  <2>6. Apart'
    BY <1>0, <1>1, <2>2, <2>4 DEF Apart
  <2>7. Lent'
    BY <1>0, <1>1, <2>2, <2>4 DEF Lent
  <2> QED
    BY <2>2, <2>5, <2>6, <2>7 DEF MemoryIInv
<1> QED
  BY <1>2, <1>3

(* A constructor that throws gives its block back.                         *)
LEMMA ThrowKeeps ==
    ASSUME MemoryIInv, NEW t \in Threads, Throw(t)
    PROVE  MemoryIInv'
<1> DEFINE c == Current(t).new
           last == Len(running[t])
<1>0. /\ MemoryTypeOK /\ PoolOnce /\ Apart /\ Lent
      /\ store' = store /\ reached' = reached
      /\ running[t] # <<>> /\ Ends(t) /\ Discarded(t, c)
  BY DEF MemoryIInv, Throw, Phase
<1>1. \A b \in Blocks, r \in Stores : Stored(b, r)' <=> Stored(b, r)
  BY <1>0 DEF Stored
<1>2. /\ running' \in [Threads -> Seq(Operations)] /\ last \in Nat /\ c \in Contents
      /\ \A b \in Blocks, u \in Threads, k \in Nat :
             Promised(b, u, k)' <=> Promised(b, u, k) /\ ~(u = t /\ k = last)
      /\ \A b \in Blocks : Promised(b, t, last) <=> c = InBlock(b)
  BY <1>0, EndsPromises DEF Operations
<1>3. c.how = "heap" => ~Pooled(c.block) /\ c.block \in heap
  BY <1>0, <1>2, BlocksDiffer DEF Apart, Lent
<1>4. /\ pool' \in Seq(Blocks) /\ Len(pool') <= BlockSize /\ PoolOnce' /\ heap' \subseteq Blocks
      /\ \A b \in Blocks : c # InBlock(b) => /\ Pooled(b)' <=> Pooled(b)
                                             /\ b \in heap' <=> b \in heap
      /\ \A b \in Blocks : c = InBlock(b) => (b \in heap' <=> Pooled(b)')
  BY <1>0, <1>2, <1>3, DiscardGives
<1>5. MemoryTypeOK'
  BY <1>0, <1>2, <1>4 DEF MemoryTypeOK
<1> HIDE DEF c, last
<1>6. Apart'
  <2>1. ASSUME NEW b \in Blocks, c = InBlock(b)
        PROVE  /\ \A s \in Stores : ~Stored(b, s)'
               /\ \A u \in Threads, k \in Nat : ~Promised(b, u, k)'
    BY <1>0, <1>1, <1>2, <2>1 DEF Apart
  <2>2. ASSUME NEW b \in Blocks, c # InBlock(b)
        PROVE  /\ Pooled(b)' <=> Pooled(b)
               /\ \A s \in Stores : Stored(b, s)' <=> Stored(b, s)
               /\ \A u \in Threads, k \in Nat : Promised(b, u, k)' => Promised(b, u, k)
    BY <1>1, <1>2, <1>4, <2>2
  <2> QED
    BY <1>0, <2>1, <2>2 DEF Apart
<1>7. Lent'
  <2> SUFFICES ASSUME NEW b \in Blocks
               PROVE  b \in heap' <=>
                          \/ Pooled(b)'
                          \/ \E s \in Stores : Stored(b, s)'
                          \/ \E u \in Threads, k \in Nat : Promised(b, u, k)'
    BY DEF Lent
  <2>1. CASE c = InBlock(b)
    <3>1. Promised(b, t, last)
      BY <1>2, <2>1
    <3>2. /\ \A s \in Stores : ~Stored(b, s)
          /\ \A u \in Threads, k \in Nat : Promised(b, u, k) => u = t /\ k = last
      BY <1>0, <1>2, <3>1 DEF Apart
    <3> QED
      BY <1>1, <1>2, <1>4, <2>1, <3>2
  <2>2. CASE c # InBlock(b)
    <3>1. ~Promised(b, t, last)
      BY <1>2, <2>2
    <3>2. \A u \in Threads, k \in Nat : Promised(b, u, k)' <=> Promised(b, u, k)
      BY <1>2, <3>1
    <3> QED
      BY <1>0, <1>1, <1>4, <2>2, <3>2 DEF Lent
  <2> QED
    BY <2>1, <2>2
<1> QED
  BY <1>4, <1>5, <1>6, <1>7 DEF MemoryIInv

(* A value that was built replaces one that is to be destroyed.            *)
LEMMA BuiltKeeps ==
    ASSUME MemoryIInv, NEW t \in Threads, Built(t)
    PROVE  MemoryIInv'
<1> DEFINE op == [Current(t) EXCEPT !.phase = "destroy"]
           rest == Front(running[t])
<1>0. /\ MemoryTypeOK /\ PoolOnce /\ Apart /\ Lent /\ running[t] # <<>>
      /\ store' = store /\ pool' = pool /\ heap' = heap /\ reached' = reached
      /\ running' = [running EXCEPT ![t] = Append(rest, op)]
      /\ running \in [Threads -> Seq(Operations)]
  BY DEF MemoryIInv, MemoryTypeOK, Built, Phase
<1>1. /\ rest \in Seq(Operations) /\ Len(running[t]) \in Nat \ {0}
      /\ Len(rest) = Len(running[t]) - 1
      /\ DOMAIN running[t] = 1 .. Len(running[t])
      /\ \A k \in 1 .. (Len(running[t]) - 1) : rest[k] = running[t][k]
      /\ Current(t) = running[t][Len(running[t])] /\ Current(t) \in Operations
  BY <1>0, FrontElements DEF Current
<1>2. op \in Operations /\ op.new = Current(t).new
  BY <1>1 DEF Operations
<1>3. /\ Append(rest, op) \in Seq(Operations) /\ DOMAIN Append(rest, op) = 1 .. Len(running[t])
      /\ \A k \in 1 .. (Len(running[t]) - 1) : Append(rest, op)[k] = running[t][k]
      /\ Append(rest, op)[Len(running[t])] = op
  BY <1>1, <1>2, AppendElements
<1>4. /\ running' \in [Threads -> Seq(Operations)]
      /\ running'[t] = Append(rest, op) /\ \A u \in Threads \ {t} : running'[u] = running[u]
  BY <1>0, <1>3
<1>5. \A k \in DOMAIN running[t] : Append(rest, op)[k].new = running[t][k].new
  BY <1>1, <1>2, <1>3
<1> HIDE DEF op, rest
<1>6. \A b \in Blocks, u \in Threads, k \in Nat : Promised(b, u, k)' <=> Promised(b, u, k)
  BY <1>1, <1>3, <1>4, <1>5 DEF Promised
<1>7. /\ \A b \in Blocks, r \in Stores : Stored(b, r)' <=> Stored(b, r)
      /\ PoolOnce' /\ \A b \in Blocks : Pooled(b)' <=> Pooled(b)
  BY <1>0 DEF Stored, PoolOnce, Pooled
<1>8. MemoryTypeOK'
  BY <1>0, <1>4 DEF MemoryTypeOK
<1>9. Apart' /\ Lent'
  BY <1>0, <1>6, <1>7 DEF Apart, Lent
<1> QED
  BY <1>7, <1>8, <1>9 DEF MemoryIInv

(* The destroyed value gives its block back to the pool or the heap.       *)
LEMMA DestroyedKeeps ==
    ASSUME MemoryIInv, NEW t \in Threads, Destroyed(t)
    PROVE  MemoryIInv'
<1> DEFINE op == Current(t)
           c == store[op.into]
           last == Len(running[t])
<1>0. /\ MemoryTypeOK /\ PoolOnce /\ Apart /\ Lent /\ running[t] # <<>>
      /\ Ends(t) /\ Discarded(t, c) /\ store' = [store EXCEPT ![op.into] = op.new]
      /\ reached' = reached
  BY DEF MemoryIInv, Destroyed, Phase
<1>1. /\ running' \in [Threads -> Seq(Operations)] /\ last \in Nat /\ op \in Operations
      /\ \A b \in Blocks, u \in Threads, k \in Nat :
             Promised(b, u, k)' <=> Promised(b, u, k) /\ ~(u = t /\ k = last)
      /\ \A b \in Blocks : Promised(b, t, last) <=> op.new = InBlock(b)
  BY <1>0, EndsPromises
<1>2. op.into \in Stores /\ op.new \in Contents /\ c \in Contents
  BY <1>0, <1>1 DEF Operations, MemoryTypeOK
<1>3. c.how = "heap" => ~Pooled(c.block) /\ c.block \in heap
  BY <1>0, <1>2, BlocksDiffer DEF Apart, Lent, Stored
<1>4. /\ pool' \in Seq(Blocks) /\ Len(pool') <= BlockSize /\ PoolOnce' /\ heap' \subseteq Blocks
      /\ \A b \in Blocks : c # InBlock(b) => /\ Pooled(b)' <=> Pooled(b)
                                             /\ b \in heap' <=> b \in heap
      /\ \A b \in Blocks : c = InBlock(b) => (b \in heap' <=> Pooled(b)')
  BY <1>0, <1>2, <1>3, DiscardGives
<1>5. store' \in [Stores -> Contents] /\ store \in [Stores -> Contents]
  BY <1>0, <1>2 DEF MemoryTypeOK
<1>6. MemoryTypeOK'
  BY <1>0, <1>1, <1>4, <1>5 DEF MemoryTypeOK
<1>7. \A b \in Blocks, r \in Stores :
          Stored(b, r)' <=> IF r = op.into THEN Promised(b, t, last) ELSE Stored(b, r)
  BY <1>0, <1>1, <1>2, <1>5 DEF Stored
<1>8. \A b \in Blocks : c = InBlock(b) <=> Stored(b, op.into)
  BY DEF Stored
<1> HIDE DEF op, c, last
<1>9. Apart'
  <2>1. ASSUME NEW b \in Blocks, Stored(b, op.into)
        PROVE  /\ \A s \in Stores : ~Stored(b, s)'
               /\ \A u \in Threads, k \in Nat : ~Promised(b, u, k)'
    BY <1>0, <1>1, <1>2, <1>7, <2>1 DEF Apart
  <2>2. ASSUME NEW b \in Blocks, Promised(b, t, last)
        PROVE  /\ ~Pooled(b)'
               /\ \A s \in Stores : Stored(b, s)' <=> s = op.into
               /\ \A u \in Threads, k \in Nat : ~Promised(b, u, k)'
    <3>1. ~Pooled(b) /\ \A s \in Stores : ~Stored(b, s)
      BY <1>0, <1>1, <2>2 DEF Apart
    <3>2. c # InBlock(b)
      BY <1>2, <1>8, <3>1
    <3>3. \A u \in Threads, k \in Nat : Promised(b, u, k) => u = t /\ k = last
      BY <1>0, <1>1, <2>2 DEF Apart
    <3> QED
      BY <1>1, <1>4, <1>7, <2>2, <3>1, <3>2, <3>3
  <2>3. ASSUME NEW b \in Blocks, ~Stored(b, op.into), ~Promised(b, t, last)
        PROVE  /\ Pooled(b)' <=> Pooled(b)
               /\ \A s \in Stores : Stored(b, s)' => Stored(b, s)
               /\ \A u \in Threads, k \in Nat : Promised(b, u, k)' => Promised(b, u, k)
    BY <1>1, <1>4, <1>7, <1>8, <2>3
  <2> QED
    BY ZenonT(40), <1>0, <1>1, <2>1, <2>2, <2>3 DEF Apart
<1>10. Lent'
  <2> SUFFICES ASSUME NEW b \in Blocks
               PROVE  (b \in heap)' <=> \/ Pooled(b)'
                                        \/ \E s \in Stores : Stored(b, s)'
                                        \/ \E u \in Threads, k \in Nat : Promised(b, u, k)'
    BY DEF Lent
  <2>1. CASE Stored(b, op.into)
    <3>1. /\ \A s \in Stores : Stored(b, s) => s = op.into
          /\ \A u \in Threads, k \in Nat : ~Promised(b, u, k)
      BY <1>0, <1>2, <2>1 DEF Apart
    <3>2. ~Promised(b, t, last) /\ (b \in heap' <=> Pooled(b)')
      BY <1>1, <1>4, <1>8, <2>1, <3>1
    <3> QED
      BY <1>1, <1>7, <3>1, <3>2
  <2>2. CASE ~Stored(b, op.into)
    <3>1. (Pooled(b)' <=> Pooled(b)) /\ (b \in heap' <=> b \in heap)
      BY <1>4, <1>8, <2>2
    <3>2. (\E s \in Stores : Stored(b, s)') <=>
              Promised(b, t, last) \/ \E s \in Stores : Stored(b, s)
      BY <1>2, <1>7, <2>2
    <3>3. (\E u \in Threads, k \in Nat : Promised(b, u, k)) <=>
              Promised(b, t, last) \/ \E u \in Threads, k \in Nat : Promised(b, u, k)'
      BY <1>1
    <3> QED
      BY <1>0, <3>1, <3>2, <3>3 DEF Lent
  <2> QED
    BY <2>1, <2>2
<1> QED
  BY <1>4, <1>6, <1>9, <1>10 DEF MemoryIInv

(* The destruction of a variable begins.                                   *)
LEMMA DestroyKeeps ==
    ASSUME MemoryIInv, NEW t \in Threads, NEW s \in Stores, Destroy(t, s)
    PROVE  MemoryIInv'
<1> DEFINE op == [phase |-> "destroy", into |-> s, new |-> Empty]
<1>0. MemoryTypeOK /\ PoolOnce /\ Apart /\ Lent
  BY DEF MemoryIInv
<1>1. /\ Begins(t, op) /\ op \in Operations /\ op.new = Empty
      /\ pool' = pool /\ heap' = heap /\ store' = store /\ reached' = reached
  BY DEF Destroy, Operations, Contents
<1>2. /\ running' \in [Threads -> Seq(Operations)]
      /\ \A b \in Blocks, u \in Threads, k \in Nat : Promised(b, u, k)' <=> Promised(b, u, k)
  BY <1>0, <1>1, BeginsPromises, BlocksDiffer
<1>3. /\ \A b \in Blocks, r \in Stores : Stored(b, r)' <=> Stored(b, r)
      /\ PoolOnce' /\ \A b \in Blocks : Pooled(b)' <=> Pooled(b)
  BY <1>0, <1>1 DEF Stored, PoolOnce, Pooled
<1>4. MemoryTypeOK'
  BY <1>0, <1>1, <1>2 DEF MemoryTypeOK
<1>5. Apart' /\ Lent'
  BY <1>0, <1>1, <1>2, <1>3 DEF Apart, Lent
<1> QED
  BY <1>3, <1>4, <1>5 DEF MemoryIInv

(* A move takes the block of its source along.                             *)
LEMMA MoveStoreKeeps ==
    ASSUME MemoryIInv, NEW t \in Threads, NEW s \in Stores, NEW from \in Stores,
           MoveStore(t, s, from)
    PROVE  MemoryIInv'
<1> DEFINE op == [phase |-> "destroy", into |-> s, new |-> store[from]]
           last == Len(running[t]) + 1
<1>0. /\ MemoryTypeOK /\ PoolOnce /\ Apart /\ Lent /\ store \in [Stores -> Contents]
      /\ Begins(t, op) /\ pool' = pool /\ heap' = heap
      /\ store' = [store EXCEPT ![from] = Empty] /\ reached' = reached
  BY DEF MemoryIInv, MemoryTypeOK, MoveStore
<1>1. op \in Operations /\ op.new = store[from] /\ store' \in [Stores -> Contents]
  BY <1>0 DEF Operations, Contents
<1>2. /\ running' \in [Threads -> Seq(Operations)] /\ last \in Nat
      /\ \A b \in Blocks, u \in Threads, k \in Nat :
             Promised(b, u, k)' <=> Promised(b, u, k) \/ (u = t /\ k = last /\ Stored(b, from))
      /\ \A b \in Blocks : ~Promised(b, t, last)
  BY <1>0, <1>1, BeginsPromises DEF Stored
<1>3. \A b \in Blocks, r \in Stores : Stored(b, r)' <=> Stored(b, r) /\ r # from
  BY <1>0, BlocksDiffer DEF Stored
<1>4. PoolOnce' /\ \A b \in Blocks : Pooled(b)' <=> Pooled(b)
  BY <1>0 DEF PoolOnce, Pooled
<1>5. MemoryTypeOK'
  BY <1>0, <1>1, <1>2 DEF MemoryTypeOK
<1> HIDE DEF op, last
<1>6. Apart'
  BY <1>0, <1>2, <1>3, <1>4 DEF Apart
<1>7. Lent'
  BY <1>0, <1>2, <1>3, <1>4 DEF Lent
<1> QED
  BY <1>4, <1>5, <1>6, <1>7 DEF MemoryIInv

(* A swap exchanges two blocks.                                            *)
LEMMA SwapStoresKeeps ==
    ASSUME MemoryIInv, NEW t \in Threads, NEW s \in Stores, NEW r \in Stores,
           SwapStores(t, s, r)
    PROVE  MemoryIInv'
<1> DEFINE other(q) == IF q = s THEN r ELSE IF q = r THEN s ELSE q
<1>0. /\ MemoryTypeOK /\ PoolOnce /\ Apart /\ Lent /\ store \in [Stores -> Contents] /\ s # r
      /\ pool' = pool /\ heap' = heap /\ running' = running /\ reached' = reached
      /\ store' = [store EXCEPT ![s] = store[r], ![r] = store[s]]
  BY DEF MemoryIInv, MemoryTypeOK, SwapStores
<1>1. store' \in [Stores -> Contents] /\ \A q \in Stores : store'[q] = store[other(q)]
  BY <1>0
<1>2. /\ \A q \in Stores : other(q) \in Stores /\ other(other(q)) = q
      /\ \A b \in Blocks, q \in Stores : Stored(b, q)' <=> Stored(b, other(q))
  BY <1>1 DEF Stored
<1>3. /\ PoolOnce' /\ \A b \in Blocks : Pooled(b)' <=> Pooled(b)
      /\ \A b \in Blocks, u \in Threads, k \in Nat : Promised(b, u, k)' <=> Promised(b, u, k)
  BY <1>0 DEF PoolOnce, Pooled, Promised
<1>4. MemoryTypeOK'
  BY <1>0, <1>1 DEF MemoryTypeOK
<1> HIDE DEF other
<1>5. Apart'
  BY <1>0, <1>2, <1>3 DEF Apart
<1>6. Lent'
  BY <1>0, <1>2, <1>3 DEF Lent
<1> QED
  BY <1>3, <1>4, <1>5, <1>6 DEF MemoryIInv

(* Code of a destructor that gets at the object being destroyed changes    *)
(* nothing by itself.                                                      *)
LEMMA ReachKeeps ==
    ASSUME MemoryIInv, NEW t \in Threads, NEW s \in Stores, Reach(t, s)
    PROVE  MemoryIInv'
<1>1. /\ pool' = pool /\ heap' = heap /\ store' = store /\ running' = running
      /\ reached' \in BOOLEAN
  BY DEF Reach
<1> QED
  BY <1>1 DEF MemoryIInv, MemoryTypeOK, PoolOnce, Apart, Lent, Pooled, Stored, Promised

(* Every step of every thread keeps the invariant.                         *)
LEMMA NextKeeps == MemoryIInv /\ [MemoryNext]_memoryVars => MemoryIInv'
<1> SUFFICES ASSUME MemoryIInv, [MemoryNext]_memoryVars PROVE MemoryIInv'
  OBVIOUS
<1>1. ASSUME NEW t \in Threads, NEW s \in Stores, NEW how \in {"svo", "heap"}, Construct(t, s, how)
      PROVE  MemoryIInv'
  BY <1>1, ConstructKeeps
<1>2. ASSUME NEW t \in Threads, NEW s \in Stores, Destroy(t, s) \/ Reach(t, s)
      PROVE  MemoryIInv'
  BY <1>2, DestroyKeeps, ReachKeeps
<1>3. ASSUME NEW t \in Threads, NEW s \in Stores, NEW r \in Stores,
             MoveStore(t, s, r) \/ SwapStores(t, s, r)
      PROVE  MemoryIInv'
  BY <1>3, MoveStoreKeeps, SwapStoresKeeps
<1>4. ASSUME NEW t \in Threads, Throw(t) \/ Built(t) \/ Destroyed(t) PROVE MemoryIInv'
  BY <1>4, ThrowKeeps, BuiltKeeps, DestroyedKeeps
<1>5. CASE UNCHANGED memoryVars
  <2>1. /\ pool' = pool /\ heap' = heap /\ store' = store /\ running' = running
        /\ reached' = reached
    BY <1>5 DEF memoryVars
  <2> QED
    BY <2>1 DEF MemoryIInv, MemoryTypeOK, PoolOnce, Apart, Lent, Pooled, Stored, Promised
<1> QED
  BY <1>1, <1>2, <1>3, <1>4, <1>5 DEF MemoryNext, MemoryStep

(* The inductive invariant holds in every reachable state, whatever the    *)
(* nesting of the operations and whichever constructors throw.             *)
THEOREM MemoryInvariant == MemorySpec => []MemoryIInv
BY InitHasNoBlocks, NextKeeps, PTL DEF MemorySpec

(* A block the system has lent is in one place: the pool, a store or an    *)
(* unfinished operation, so that it is neither handed out twice nor lost,  *)
(* as long as no destructor's code gets at the object it destroys          *)
(* (acquire_block, release_block, copy_store, move_store).                 *)
THEOREM MemoryCorrect == MemorySpec => []MemoryInv
<1>1. MemoryIInv => MemoryInv
  <2> SUFFICES ASSUME MemoryIInv PROVE MemoryInv
    OBVIOUS
  <2>0. MemoryTypeOK /\ PoolOnce /\ Apart /\ Lent
    BY DEF MemoryIInv
  <2>1. DOMAIN pool \subseteq Nat /\ \A t \in Threads : DOMAIN running[t] \subseteq Nat
    <3>1. \A t \in Threads : running[t] \in Seq(Operations)
      BY <2>0 DEF MemoryTypeOK
    <3> QED
      BY <2>0, <3>1, LenProperties DEF MemoryTypeOK
  <2>2. ASSUME NEW b \in Blocks, NEW p
        PROVE  p \in BlockPlaces(b) <=>
                   \/ \E k \in DOMAIN pool : pool[k] = b /\ p = <<"pool", k, 0>>
                   \/ \E s \in Stores : Stored(b, s) /\ p = <<"store", s, 0>>
                   \/ \E t \in Threads, k \in Nat : Promised(b, t, k) /\ p = <<"operation", t, k>>
    <3>1. p \in {<<"pool", k, 0>> : k \in {j \in DOMAIN pool : pool[j] = b}}
              <=> \E k \in DOMAIN pool : pool[k] = b /\ p = <<"pool", k, 0>>
      BY Zenon
    <3>2. p \in {<<"store", s, 0>> : s \in {r \in Stores : store[r] = InBlock(b)}}
              <=> \E s \in Stores : Stored(b, s) /\ p = <<"store", s, 0>>
      BY Zenon DEF Stored
    <3>3. ASSUME NEW t \in Threads
          PROVE  p \in {<<"operation", t, k>> :
                            k \in {j \in DOMAIN running[t] : running[t][j].new = InBlock(b)}}
                     <=> \E k \in Nat : Promised(b, t, k) /\ p = <<"operation", t, k>>
      BY <2>1, Zenon DEF Promised
    <3> DEFINE inStack(t) == {<<"operation", t, k>> :
                                 k \in {j \in DOMAIN running[t] : running[t][j].new = InBlock(b)}}
    <3>4. p \in UNION {inStack(t) : t \in Threads}
              <=> \E t \in Threads : p \in inStack(t)
      BY Zenon
    <3>5. p \in UNION {inStack(t) : t \in Threads}
              <=> \E t \in Threads, k \in Nat : Promised(b, t, k) /\ p = <<"operation", t, k>>
      BY <3>3, <3>4, Zenon
    <3> QED
      BY <3>1, <3>2, <3>5, Zenon DEF BlockPlaces
  <2>3. ASSUME NEW b \in Blocks PROVE b \in heap <=> BlockPlaces(b) # {}
    BY ZenonT(40), <2>0, <2>2 DEF Lent, Pooled
  <2>4. ASSUME NEW b \in Blocks, NEW p \in BlockPlaces(b), NEW q \in BlockPlaces(b) PROVE p = q
    <3>1. CASE \E k \in DOMAIN pool : pool[k] = b /\ p = <<"pool", k, 0>>
      BY <2>0, <2>2, <3>1 DEF PoolOnce, Apart, Pooled
    <3>2. CASE \E s \in Stores : Stored(b, s) /\ p = <<"store", s, 0>>
      BY <2>0, <2>2, <3>2 DEF Apart, Pooled
    <3>3. CASE \E t \in Threads, k \in Nat : Promised(b, t, k) /\ p = <<"operation", t, k>>
      BY <2>0, <2>2, <3>3 DEF Apart, Pooled
    <3> QED
      BY <2>2, <3>1, <3>2, <3>3
  <2> QED
    BY <2>0, <2>3, <2>4 DEF MemoryInv, BlockHasOnePlace
<1> QED
  BY <1>1, MemoryInvariant, PTL
-----------------------------------------------------------------------------
(***************************************************************************)
(* Handles.  Counted has the handles on each proxy; a step takes some and  *)
(* gives others, and the reference counts of the proxies follow.           *)
(***************************************************************************)
HeldBy(hd, p) == Cardinality({h \in Holders : hd[h] = p})
InTemps(ts, p) == Cardinality({k \in DOMAIN ts : ts[k] = p})
Counted(hd, ts) == [p \in Proxies |-> HeldBy(hd, p) + InTemps(ts, p)]
Bound(hd, v, q) == [hd EXCEPT ![v] = q]
More(n, p) == IF p = Null THEN n ELSE [n EXCEPT ![p] = @ + 1]
Fewer(n, p) == IF p = Null THEN n ELSE [n EXCEPT ![p] = @ - 1]

(* The token and the function store keep their proxies.                    *)
Kept(n) == n[First] >= 1 /\ n[Second] >= 1

ProxyType == [rc : Nat, level : -1 .. 2, kind : {"free", "data", "lambda"},
              self : Proxies \cup {Null}]
HandleType == [Holders -> Proxies \cup {Null}]

(* Proxies px with n handles on each.                                      *)
Sound(px, n) ==
    /\ px \in [Proxies -> ProxyType]
    /\ \A p \in Proxies :
           /\ px[p].rc = n[p]
           /\ px[p].rc = 0 => px[p] = FreeProxy
           /\ px[p].level = Movable => px[p].rc = 1
           /\ px[p].kind = "lambda" => px[p].self = p
    /\ px[First].level = Constant /\ px[Second].level = Protected

(* What a variable holds is never marked movable.                          *)
HoldersAreSettled(hd, px) ==
    \A h \in Holders : hd[h] # Null => px[hd[h]].level # Movable

(***************************************************************************)
(* The inductive invariant: the counts, what a variable may hold, and that *)
(* a fresh copy has the one handle.                                        *)
(***************************************************************************)
ValuesIInv ==
    /\ handle \in HandleType
    /\ temps \in Seq(Proxies) /\ Len(temps) <= MaxTemps
    /\ copied \in Vars \cup {Null}
    /\ handle[Literal] = First /\ handle[Lambda] = Second
    /\ Sound(proxy, Counted(handle, temps))
    /\ HoldersAreSettled(handle, proxy)
    /\ copied # Null => /\ handle[copied] \in Proxies
                        /\ proxy[handle[copied]].rc = 1

LEMMA FirstAndSecond ==
    First \in Proxies /\ Second \in Proxies /\ First # Second /\ Null \notin Proxies
<1>1. \E p, q \in Proxies : p # q
  BY ValuesAssumption
<1>2. First \in Proxies
  BY <1>1 DEF First
<1>3. \E p \in Proxies : p # First
  BY <1>1
<1>4. Second \in Proxies /\ Second # First
  BY <1>3 DEF Second
<1> QED
  BY <1>2, <1>4, ValuesAssumption

LEMMA HoldersAreFinite == IsFiniteSet(Holders)
<1>2. IsFiniteSet(Vars \cup {Literal})
  BY ValuesAssumption, FS_AddElement
<1>3. IsFiniteSet((Vars \cup {Literal}) \cup {Lambda})
  BY <1>2, FS_AddElement
<1>4. Holders = (Vars \cup {Literal}) \cup {Lambda}
  BY DEF Holders
<1> QED
  BY <1>3, <1>4

(* The handles of the variables on a proxy, counted.                       *)
LEMMA HeldIsNat ==
    ASSUME NEW hd, NEW p
    PROVE  /\ IsFiniteSet({h \in Holders : hd[h] = p}) /\ HeldBy(hd, p) \in Nat
           /\ HeldBy(hd, p) = 0 <=> \A h \in Holders : hd[h] # p
           /\ HeldBy(hd, p) <= Cardinality(Holders)
<1> DEFINE H == {h \in Holders : hd[h] = p}
<1>1. IsFiniteSet(H) /\ Cardinality(H) <= Cardinality(Holders)
  BY HoldersAreFinite, FS_Subset
<1>2. Cardinality(H) \in Nat /\ (Cardinality(H) = 0 <=> H = {})
  BY <1>1, FS_CardinalityType, FS_EmptySet
<1> QED
  BY <1>1, <1>2 DEF HeldBy

LEMMA TempsIsNat ==
    ASSUME NEW ts \in Seq(Proxies), NEW p
    PROVE  /\ IsFiniteSet({k \in DOMAIN ts : ts[k] = p}) /\ InTemps(ts, p) \in Nat
           /\ InTemps(ts, p) = 0 <=> \A k \in DOMAIN ts : ts[k] # p
           /\ InTemps(ts, p) <= Len(ts)
<1> DEFINE K == {k \in DOMAIN ts : ts[k] = p}
<1>1. PICK n \in Nat : n = Len(ts) /\ DOMAIN ts = 1 .. n
  OBVIOUS
<1>2. IsFiniteSet(1 .. n) /\ Cardinality(1 .. n) = n
  <2>1. IsFiniteSet(1 .. n) /\ Cardinality(1 .. n) = IF 1 > n THEN 0 ELSE n - 1 + 1
    BY FS_Interval
  <2> QED
    BY <2>1
<1>3. IsFiniteSet(K) /\ Cardinality(K) <= n
  BY <1>1, <1>2, FS_Subset
<1>4. Cardinality(K) \in Nat /\ (Cardinality(K) = 0 <=> K = {})
  BY <1>3, FS_CardinalityType, FS_EmptySet
<1> QED
  BY <1>1, <1>3, <1>4 DEF InTemps

LEMMA CountedType ==
    ASSUME NEW hd \in HandleType, NEW ts \in Seq(Proxies)
    PROVE  Counted(hd, ts) \in [Proxies -> Nat]
<1>1. \A p \in Proxies : HeldBy(hd, p) + InTemps(ts, p) \in Nat
  <2> SUFFICES ASSUME NEW p \in Proxies PROVE HeldBy(hd, p) + InTemps(ts, p) \in Nat
    OBVIOUS
  <2>1. HeldBy(hd, p) \in Nat /\ InTemps(ts, p) \in Nat
    BY HeldIsNat, TempsIsNat
  <2> QED
    BY <2>1
<1> QED
  BY <1>1 DEF Counted

LEMMA BindOne ==
    ASSUME NEW hd \in HandleType, NEW v \in Holders, NEW q \in Proxies \cup {Null},
           NEW p \in Proxies
    PROVE  HeldBy(Bound(hd, v, q), p) =
               HeldBy(hd, p) - (IF hd[v] = p THEN 1 ELSE 0) + (IF q = p THEN 1 ELSE 0)
<1> DEFINE hd2 == Bound(hd, v, q)
           A == {h \in Holders \ {v} : hd[h] = p}
           B == {h \in Holders : hd[h] = p}
           C == {h \in Holders : hd2[h] = p}
<1>1. IsFiniteSet(A) /\ v \notin A /\ Cardinality(A) \in Nat
  <2>1. IsFiniteSet(A)
    BY HoldersAreFinite, FS_Subset
  <2> QED
    BY <2>1, FS_CardinalityType
<1>2. Cardinality(A \cup {v}) = Cardinality(A) + 1
  BY <1>1, FS_AddElement
<1>3. hd2[v] = q /\ \A h \in Holders \ {v} : hd2[h] = hd[h]
  BY DEF HandleType, Bound
<1> HIDE DEF hd2
<1>4. B = IF hd[v] = p THEN A \cup {v} ELSE A
  OBVIOUS
<1>5. C = IF q = p THEN A \cup {v} ELSE A
  BY <1>3
<1>6. HeldBy(hd, p) = Cardinality(B) /\ HeldBy(hd2, p) = Cardinality(C)
  BY DEF HeldBy
<1> HIDE DEF A, B, C
<1>7. Cardinality(B) = Cardinality(A) + IF hd[v] = p THEN 1 ELSE 0
  BY <1>1, <1>2, <1>4
<1>8. Cardinality(C) = Cardinality(A) + IF q = p THEN 1 ELSE 0
  BY <1>1, <1>2, <1>5
<1> QED
  BY <1>1, <1>6, <1>7, <1>8 DEF hd2

LEMMA CountedBind ==
    ASSUME NEW hd \in HandleType, NEW ts \in Seq(Proxies), NEW v \in Holders,
           NEW q \in Proxies \cup {Null}
    PROVE  /\ Bound(hd, v, q) \in HandleType
           /\ Counted(Bound(hd, v, q), ts) = More(Fewer(Counted(hd, ts), hd[v]), q)
<1> DEFINE hd2 == Bound(hd, v, q)
           n == Counted(hd, ts)
           m == Counted(hd2, ts)
           f == Fewer(n, hd[v])
           g == More(f, q)
<1>1. hd2 \in HandleType
  BY DEF HandleType, Bound
<1>2. n \in [Proxies -> Nat] /\ m \in [Proxies -> Nat]
  BY <1>1, CountedType
<1>3. hd[v] \in Proxies \cup {Null}
  BY DEF HandleType
<1>4. \A p \in Proxies : /\ m[p] = n[p] - (IF hd[v] = p THEN 1 ELSE 0) + (IF q = p THEN 1 ELSE 0)
  <2> SUFFICES ASSUME NEW p \in Proxies
               PROVE  m[p] = n[p] - (IF hd[v] = p THEN 1 ELSE 0) + (IF q = p THEN 1 ELSE 0)
    OBVIOUS
  <2>1. n[p] = HeldBy(hd, p) + InTemps(ts, p) /\ m[p] = HeldBy(hd2, p) + InTemps(ts, p)
    BY DEF Counted
  <2>2. HeldBy(hd2, p) = HeldBy(hd, p) - (IF hd[v] = p THEN 1 ELSE 0) + (IF q = p THEN 1 ELSE 0)
    BY BindOne
  <2>3. HeldBy(hd, p) \in Nat /\ InTemps(ts, p) \in Nat
    BY HeldIsNat, TempsIsNat
  <2> HIDE DEF hd2, n, m
  <2> QED
    BY <2>1, <2>2, <2>3
<1> HIDE DEF n, m
<1>5. f \in [Proxies -> Int] /\ \A p \in Proxies : f[p] = n[p] - IF hd[v] = p THEN 1 ELSE 0
  BY <1>2, <1>3, ValuesAssumption DEF Fewer
<1> HIDE DEF f
<1>6. g \in [Proxies -> Int] /\ \A p \in Proxies : g[p] = f[p] + IF q = p THEN 1 ELSE 0
  BY <1>5, ValuesAssumption DEF More
<1> HIDE DEF g
<1>7. \A p \in Proxies : m[p] = g[p]
  BY <1>2, <1>4, <1>5, <1>6
<1>8. m = g
  BY <1>2, <1>6, <1>7
<1> QED
  BY <1>1, <1>8 DEF m, g, f, n

LEMMA TempPushed ==
    ASSUME NEW ts \in Seq(Proxies), NEW q \in Proxies, NEW p
    PROVE  InTemps(Append(ts, q), p) = InTemps(ts, p) + IF q = p THEN 1 ELSE 0
<1> DEFINE A == {k \in DOMAIN ts : ts[k] = p}
           us == Append(ts, q)
           B == {k \in DOMAIN us : us[k] = p}
<1>1. PICK n \in Nat : n = Len(ts) /\ DOMAIN ts = 1 .. n
  OBVIOUS
<1>2. DOMAIN us = 1 .. n \cup {n + 1} /\ us[n + 1] = q /\ \A k \in 1 .. n : us[k] = ts[k]
  BY <1>1, AppendElements
<1> HIDE DEF us
<1>3. B = IF q = p THEN A \cup {n + 1} ELSE A
  BY <1>1, <1>2
<1>4. IsFiniteSet(A) /\ n + 1 \notin A /\ Cardinality(A) \in Nat
  <2>1. IsFiniteSet(A)
    BY TempsIsNat
  <2> QED
    BY <1>1, <2>1, FS_CardinalityType
<1>5. Cardinality(A \cup {n + 1}) = Cardinality(A) + 1
  BY <1>4, FS_AddElement
<1>6. InTemps(ts, p) = Cardinality(A) /\ InTemps(us, p) = Cardinality(B)
  BY DEF InTemps
<1> HIDE DEF A, B
<1>7. Cardinality(B) = Cardinality(A) + IF q = p THEN 1 ELSE 0
  BY <1>3, <1>4, <1>5
<1> QED
  BY <1>6, <1>7 DEF us

LEMMA CountedPush ==
    ASSUME NEW hd \in HandleType, NEW ts \in Seq(Proxies), NEW q \in Proxies
    PROVE  /\ Append(ts, q) \in Seq(Proxies) /\ Len(Append(ts, q)) = Len(ts) + 1
           /\ Counted(hd, Append(ts, q)) = More(Counted(hd, ts), q)
<1> DEFINE us == Append(ts, q)
           n == Counted(hd, ts)
           m == Counted(hd, us)
           g == More(n, q)
<1>1. us \in Seq(Proxies) /\ Len(us) = Len(ts) + 1
  BY AppendElements
<1>2. n \in [Proxies -> Nat] /\ m \in [Proxies -> Nat]
  BY <1>1, CountedType
<1>3. \A p \in Proxies : m[p] = n[p] + IF q = p THEN 1 ELSE 0
  <2> SUFFICES ASSUME NEW p \in Proxies
               PROVE  m[p] = n[p] + IF q = p THEN 1 ELSE 0
    OBVIOUS
  <2>1. n[p] = HeldBy(hd, p) + InTemps(ts, p) /\ m[p] = HeldBy(hd, p) + InTemps(us, p)
    BY DEF Counted
  <2>2. InTemps(us, p) = InTemps(ts, p) + IF q = p THEN 1 ELSE 0
    BY TempPushed
  <2>3. HeldBy(hd, p) \in Nat /\ InTemps(ts, p) \in Nat
    BY HeldIsNat, TempsIsNat
  <2> HIDE DEF us, n, m
  <2> QED
    BY <2>1, <2>2, <2>3
<1> HIDE DEF n, m
<1>4. g \in [Proxies -> Int] /\ \A p \in Proxies : g[p] = n[p] + IF q = p THEN 1 ELSE 0
  BY <1>2, ValuesAssumption DEF More
<1> HIDE DEF g
<1>5. \A p \in Proxies : m[p] = g[p]
  BY <1>3, <1>4
<1>6. m = g
  BY <1>2, <1>4, <1>5
<1> QED
  BY <1>1, <1>6 DEF m, g, n, us

(* One handle more, one fewer.                                             *)
LEMMA FewerType ==
    ASSUME NEW n \in [Proxies -> Nat], NEW p \in Proxies, n[p] >= 1
    PROVE  /\ Fewer(n, p) \in [Proxies -> Nat] /\ Fewer(n, p)[p] = n[p] - 1
           /\ \A q \in Proxies \ {p} : Fewer(n, p)[q] = n[q]
BY ValuesAssumption DEF Fewer

LEMMA MoreType ==
    ASSUME NEW n \in [Proxies -> Nat], NEW p \in Proxies
    PROVE  /\ More(n, p) \in [Proxies -> Nat] /\ More(n, p)[p] = n[p] + 1
           /\ \A q \in Proxies \ {p} : More(n, p)[q] = n[q]
           /\ Kept(n) => Kept(More(n, p))
<1>1. PICK m : m = More(n, p)
  OBVIOUS
<1>2. m = [n EXCEPT ![p] = @ + 1]
  BY <1>1, ValuesAssumption DEF More
<1>3. /\ m \in [Proxies -> Nat] /\ m[p] = n[p] + 1
      /\ \A q \in Proxies \ {p} : m[q] = n[q]
  BY <1>2
<1>4. \A q \in Proxies : m[q] \in Nat /\ n[q] \in Nat /\ m[q] >= n[q]
  BY <1>3
<1>5. Kept(n) => Kept(m)
  BY <1>4, FirstAndSecond DEF Kept
<1> QED
  BY <1>1, <1>3, <1>5

LEMMA MoreThenFewer ==
    ASSUME NEW n \in [Proxies -> Nat], NEW p \in Proxies
    PROVE  Fewer(More(n, p), p) = n
<1>1. PICK m : m = More(n, p)
  OBVIOUS
<1>2. /\ m \in [Proxies -> Nat] /\ m[p] = n[p] + 1
      /\ \A q \in Proxies \ {p} : m[q] = n[q]
  BY <1>1, MoreType
<1>3. PICK k : k = Fewer(m, p)
  OBVIOUS
<1>4. m[p] >= 1 /\ n[p] \in Nat
  BY <1>2
<1>5. /\ k \in [Proxies -> Nat] /\ k[p] = m[p] - 1
      /\ \A q \in Proxies \ {p} : k[q] = m[q]
  BY <1>2, <1>3, <1>4, FewerType
<1>6. \A q \in Proxies : k[q] = n[q]
  BY <1>2, <1>4, <1>5
<1>7. k = n
  BY <1>5, <1>6
<1> QED
  BY <1>1, <1>3, <1>7

LEMMA FewerThenMore ==
    ASSUME NEW n \in [Proxies -> Nat], NEW p \in Proxies, n[p] >= 1
    PROVE  More(Fewer(n, p), p) = n
<1>1. PICK m : m = Fewer(n, p)
  OBVIOUS
<1>2. /\ m \in [Proxies -> Nat] /\ m[p] = n[p] - 1
      /\ \A q \in Proxies \ {p} : m[q] = n[q]
  BY <1>1, FewerType
<1>3. PICK k : k = More(m, p)
  OBVIOUS
<1>4. /\ k \in [Proxies -> Nat] /\ k[p] = m[p] + 1
      /\ \A q \in Proxies \ {p} : k[q] = m[q]
  BY <1>2, <1>3, MoreType
<1>5. n[p] \in Nat
  OBVIOUS
<1>6. \A q \in Proxies : k[q] = n[q]
  BY <1>2, <1>4, <1>5
<1>7. k = n
  BY <1>4, <1>6
<1> QED
  BY <1>1, <1>3, <1>7

LEMMA LastBack ==
    ASSUME NEW ts \in Seq(Proxies), ts # <<>>
    PROVE  /\ Front(ts) \in Seq(Proxies) /\ Last(ts) \in Proxies
           /\ Len(Front(ts)) <= Len(ts)
           /\ ts = Append(Front(ts), Last(ts))
           /\ Len(ts) \in DOMAIN ts /\ Last(ts) = ts[Len(ts)]
<1>1. PICK n \in Nat : n = Len(ts) /\ DOMAIN ts = 1 .. n
  OBVIOUS
<1>2. n >= 1 /\ Last(ts) = ts[n] /\ Last(ts) \in Proxies
  BY <1>1 DEF Last
<1>3. /\ Front(ts) \in Seq(Proxies) /\ Len(Front(ts)) = n - 1
      /\ \A k \in 1 .. n - 1 : Front(ts)[k] = ts[k]
  BY <1>1, <1>2 DEF Front
<1> DEFINE us == Append(Front(ts), Last(ts))
<1>4. /\ us \in Seq(Proxies) /\ Len(us) = n /\ us[n] = ts[n]
      /\ \A k \in 1 .. n - 1 : us[k] = ts[k]
  BY <1>1, <1>2, <1>3
<1> HIDE DEF us
<1>5. \A k \in 1 .. n : us[k] = ts[k]
  <2>1. \A k \in 1 .. n : k = n \/ k \in 1 .. n - 1
    BY <1>2
  <2> QED
    BY <1>4, <2>1
<1>6. us = ts
  BY <1>1, <1>4, <1>5, SeqEqual
<1>7. Len(Front(ts)) <= Len(ts) /\ Len(ts) \in DOMAIN ts
  BY <1>1, <1>2, <1>3
<1> QED
  BY <1>1, <1>2, <1>3, <1>6, <1>7 DEF us

LEMMA CountedPop ==
    ASSUME NEW hd \in HandleType, NEW ts \in Seq(Proxies), ts # <<>>
    PROVE  Counted(hd, Front(ts)) = Fewer(Counted(hd, ts), Last(ts))
<1>1. PICK us, q : us = Front(ts) /\ q = Last(ts)
  OBVIOUS
<1>2. us \in Seq(Proxies) /\ q \in Proxies /\ ts = Append(us, q)
  BY <1>1, LastBack
<1>3. PICK n, m : n = Counted(hd, us) /\ m = Counted(hd, ts)
  OBVIOUS
<1>4. m = More(n, q)
  BY <1>2, <1>3, CountedPush
<1>5. n \in [Proxies -> Nat]
  BY <1>2, <1>3, CountedType
<1>6. Fewer(m, q) = n
  BY <1>2, <1>4, <1>5, MoreThenFewer
<1> QED
  BY <1>1, <1>3, <1>6

(* What is held is counted, and what is not counted is not held.           *)
LEMMA HeldIsCounted ==
    ASSUME NEW hd \in HandleType, NEW ts \in Seq(Proxies), NEW p \in Proxies
    PROVE  /\ Counted(hd, ts)[p] \in Nat
           /\ Counted(hd, ts)[p] = 0 =>
                  /\ \A h \in Holders : hd[h] # p
                  /\ \A k \in DOMAIN ts : ts[k] # p
           /\ Counted(hd, ts)[p] <= Cardinality(Holders) + Len(ts)
<1>1. /\ HeldBy(hd, p) \in Nat
      /\ HeldBy(hd, p) = 0 <=> \A h \in Holders : hd[h] # p
      /\ HeldBy(hd, p) <= Cardinality(Holders)
  BY HeldIsNat
<1>2. /\ InTemps(ts, p) \in Nat
      /\ InTemps(ts, p) = 0 <=> \A k \in DOMAIN ts : ts[k] # p
      /\ InTemps(ts, p) <= Len(ts)
  BY TempsIsNat
<1>3. Counted(hd, ts)[p] = HeldBy(hd, p) + InTemps(ts, p)
  BY DEF Counted
<1>4. Cardinality(Holders) \in Nat /\ Len(ts) \in Nat
  BY HoldersAreFinite, FS_CardinalityType
<1>5. Counted(hd, ts)[p] = 0 => HeldBy(hd, p) = 0 /\ InTemps(ts, p) = 0
  BY <1>1, <1>2, <1>3
<1>6. Counted(hd, ts)[p] <= Cardinality(Holders) + Len(ts) /\ Counted(hd, ts)[p] \in Nat
  BY <1>1, <1>2, <1>3, <1>4
<1> QED
  BY <1>1, <1>2, <1>5, <1>6

LEMMA HoldersKeep ==
    ASSUME NEW hd \in HandleType, NEW ts \in Seq(Proxies),
           hd[Literal] = First, hd[Lambda] = Second
    PROVE  Kept(Counted(hd, ts))
<1>1. Literal \in Holders /\ Lambda \in Holders
  BY DEF Holders
<1>2. Counted(hd, ts)[First] # 0 /\ Counted(hd, ts)[Second] # 0
  BY <1>1, FirstAndSecond, HeldIsCounted
<1>3. Counted(hd, ts)[First] \in Nat /\ Counted(hd, ts)[Second] \in Nat
  BY FirstAndSecond, HeldIsCounted
<1> QED
  BY <1>2, <1>3 DEF Kept

(***************************************************************************)
(* What the operations on proxies do to the counts.                        *)
(***************************************************************************)
LEMMA ShareSound ==
    ASSUME NEW px, NEW n \in [Proxies -> Nat], Sound(px, n), NEW p \in Proxies,
           px[p].level # Movable, n[p] >= 1
    PROVE  /\ Sound(Share(px, p), More(n, p))
           /\ \A q \in Proxies : Share(px, p)[q].level = px[q].level
<1>1. Share(px, p) = [px EXCEPT ![p].rc = @ + 1] /\ p # Null
  BY ValuesAssumption DEF Share
<1>2. px \in [Proxies -> ProxyType] /\ px[p] \in ProxyType
  BY DEF Sound
<1>3. PICK py : py = Share(px, p)
  OBVIOUS
<1>4. /\ py[p] = [px[p] EXCEPT !.rc = @ + 1]
      /\ \A q \in Proxies \ {p} : py[q] = px[q]
  BY <1>1, <1>2, <1>3
<1>5. /\ py[p] \in ProxyType /\ py[p].rc = px[p].rc + 1 /\ py[p].level = px[p].level
      /\ py[p].kind = px[p].kind /\ py[p].self = px[p].self
  BY <1>2, <1>4 DEF ProxyType
<1>6. py \in [Proxies -> ProxyType]
  BY <1>1, <1>2, <1>3, <1>4, <1>5
<1>7. \A q \in Proxies : py[q].level = px[q].level
  BY <1>4, <1>5
<1>8. PICK m : m = More(n, p)
  OBVIOUS
<1>9. m[p] = n[p] + 1 /\ \A q \in Proxies \ {p} : m[q] = n[q]
  BY <1>8, MoreType
<1>10. px[p].rc = n[p] /\ n[p] \in Nat
  BY DEF Sound
<1>11. /\ py[p].rc = m[p] /\ py[p].rc # 0 /\ py[p].level # Movable
       /\ py[p].kind = "lambda" => py[p].self = p
  BY <1>5, <1>9, <1>10 DEF Sound
<1>12. \A q \in Proxies :
           /\ py[q].rc = m[q]
           /\ py[q].rc = 0 => py[q] = FreeProxy
           /\ py[q].level = Movable => py[q].rc = 1
           /\ py[q].kind = "lambda" => py[q].self = q
  BY <1>4, <1>9, <1>11 DEF Sound
<1>13. py[First].level = Constant /\ py[Second].level = Protected
  BY <1>7, FirstAndSecond DEF Sound
<1> QED
  BY <1>3, <1>6, <1>7, <1>8, <1>12, <1>13 DEF Sound

LEMMA ReleaseSound ==
    ASSUME NEW px, NEW n \in [Proxies -> Nat], Sound(px, n), NEW p \in Proxies,
           n[p] >= 1, Kept(Fewer(n, p))
    PROVE  /\ Sound(Release(px, p), Fewer(n, p))
           /\ \A q \in Proxies : Release(px, p)[q].level \in {px[q].level, Trivial}
           /\ \A q \in Proxies \ {p} : Release(px, p)[q] = px[q]
<1>1. p # Null /\ px \in [Proxies -> ProxyType] /\ px[p] \in ProxyType
  BY ValuesAssumption DEF Sound
<1>2. PICK py, m : py = Release(px, p) /\ m = Fewer(n, p)
  OBVIOUS
<1>3. m[p] = n[p] - 1 /\ \A q \in Proxies \ {p} : m[q] = n[q]
  BY <1>2, FewerType
<1>4. px[p].rc = n[p] /\ n[p] \in Nat
  BY DEF Sound
<1>5. /\ FreeProxy \in ProxyType /\ FreeProxy.rc = 0 /\ FreeProxy.level = Trivial
      /\ FreeProxy.kind = "free"
  BY DEF FreeProxy, ProxyType, Trivial
<1>6. /\ py \in [Proxies -> ProxyType] /\ py[p].rc = m[p]
      /\ py[p].rc = 0 => py[p] = FreeProxy
      /\ py[p].level = Movable => py[p].rc = 1
      /\ py[p].kind = "lambda" => py[p].self = p
      /\ m[p] # 0 => py[p].level = px[p].level
      /\ py[p].level \in {px[p].level, Trivial}
  <2>1. CASE px[p].rc = 1
    <3>1. py = [px EXCEPT ![p] = FreeProxy]
      BY <1>1, <1>2, <2>1 DEF Release
    <3>2. py[p] = FreeProxy
      BY <1>1, <3>1
    <3>3. py \in [Proxies -> ProxyType]
      BY <1>1, <1>5, <3>1
    <3> QED
      BY <1>3, <1>4, <1>5, <2>1, <3>2, <3>3 DEF Movable, Trivial
  <2>2. CASE px[p].rc # 1
    <3>1. py = [px EXCEPT ![p].rc = @ - 1]
      BY <1>1, <1>2, <2>2 DEF Release
    <3>2. py[p] = [px[p] EXCEPT !.rc = @ - 1]
      BY <1>1, <3>1
    <3>3. px[p].rc - 1 \in Nat \ {0}
      BY <1>4, <2>2
    <3>4. /\ py[p] \in ProxyType /\ py[p].rc = px[p].rc - 1 /\ py[p].level = px[p].level
          /\ py[p].kind = px[p].kind /\ py[p].self = px[p].self
      BY <1>1, <3>2, <3>3 DEF ProxyType
    <3>5. px[p].level # Movable /\ (px[p].kind = "lambda" => px[p].self = p)
      BY <2>2 DEF Sound
    <3>6. py \in [Proxies -> ProxyType]
      BY <1>1, <3>1, <3>2, <3>4
    <3> QED
      BY <1>3, <1>4, <3>3, <3>4, <3>5, <3>6
  <2> QED
    BY <2>1, <2>2
<1>7. \A q \in Proxies \ {p} : py[q] = px[q]
  BY <1>1, <1>2 DEF Release
<1>8. \A q \in Proxies :
           /\ py[q].rc = m[q]
           /\ py[q].rc = 0 => py[q] = FreeProxy
           /\ py[q].level = Movable => py[q].rc = 1
           /\ py[q].kind = "lambda" => py[q].self = q
  BY <1>3, <1>6, <1>7 DEF Sound
<1>9. py[First].level = Constant /\ py[Second].level = Protected
  <2>1. m[First] # 0 /\ m[Second] # 0
    BY <1>2, <1>3 DEF Kept
  <2>2. \A q \in Proxies : m[q] # 0 => py[q].level = px[q].level
    BY <1>6, <1>7
  <2> QED
    BY <2>1, <2>2, FirstAndSecond DEF Sound
<1>10. \A q \in Proxies : py[q].level \in {px[q].level, Trivial}
  BY <1>6, <1>7
<1> QED
  BY <1>2, <1>6, <1>7, <1>8, <1>9, <1>10 DEF Sound

(* A handle's level is set; a result is marked when it has no other.       *)
LEMMA MarkSound ==
    ASSUME NEW px, NEW n \in [Proxies -> Nat], Sound(px, n), NEW p \in Proxies, n[p] = 1,
           p \notin {First, Second}, NEW level \in {Movable, Trivial}
    PROVE  /\ Sound(Mark(px, p, level), n)
           /\ Mark(px, p, level)[p].level = level /\ Mark(px, p, level)[p].kind = px[p].kind
           /\ \A q \in Proxies \ {p} : Mark(px, p, level)[q] = px[q]
<1>1. px \in [Proxies -> ProxyType] /\ px[p] \in ProxyType /\ px[p].rc = 1
  BY DEF Sound
<1>2. PICK py : py = Mark(px, p, level)
  OBVIOUS
<1>3. /\ py[p] = [px[p] EXCEPT !.level = level]
      /\ \A q \in Proxies \ {p} : py[q] = px[q]
  BY <1>1, <1>2 DEF Mark
<1>4. level \in -1 .. 2
  BY DEF Movable, Trivial
<1>5. /\ py[p] \in ProxyType /\ py[p].rc = px[p].rc /\ py[p].level = level
      /\ py[p].kind = px[p].kind /\ py[p].self = px[p].self
  BY <1>1, <1>3, <1>4 DEF ProxyType
<1>6. py \in [Proxies -> ProxyType]
  BY <1>1, <1>2, <1>3, <1>5 DEF Mark
<1>7. /\ py[p].rc = n[p] /\ py[p].rc = 1
      /\ py[p].kind = "lambda" => py[p].self = p
  BY <1>1, <1>5 DEF Sound
<1>8. \A q \in Proxies :
           /\ py[q].rc = n[q]
           /\ py[q].rc = 0 => py[q] = FreeProxy
           /\ py[q].level = Movable => py[q].rc = 1
           /\ py[q].kind = "lambda" => py[q].self = q
  <2> SUFFICES ASSUME NEW q \in Proxies
               PROVE  /\ py[q].rc = n[q]
                      /\ py[q].rc = 0 => py[q] = FreeProxy
                      /\ py[q].level = Movable => py[q].rc = 1
                      /\ py[q].kind = "lambda" => py[q].self = q
    OBVIOUS
  <2>1. CASE q = p
    BY <1>7, <2>1
  <2>2. CASE q # p
    <3>1. py[q] = px[q]
      BY <1>3, <2>2
    <3> QED
      BY <3>1 DEF Sound
  <2> QED
    BY <2>1, <2>2
<1>9. py[First].level = Constant /\ py[Second].level = Protected
  BY <1>3, FirstAndSecond DEF Sound
<1> QED
  BY <1>2, <1>3, <1>5, <1>6, <1>8, <1>9 DEF Sound

LEMMA TryMoveSound ==
    ASSUME NEW px, NEW n \in [Proxies -> Nat], Sound(px, n), NEW p \in Proxies,
           p \in {First, Second} => n[p] # 1
    PROVE  /\ Sound(TryMove(px, p), n)
           /\ n[p] # 1 => TryMove(px, p) = px
           /\ \A q \in Proxies \ {p} : TryMove(px, p)[q] = px[q]
<1>1. px[p].rc = n[p]
  BY DEF Sound
<1>2. CASE n[p] = 1
  <2>1. TryMove(px, p) = Mark(px, p, Movable)
    BY <1>1, <1>2 DEF TryMove
  <2>2. p \notin {First, Second} /\ Movable \in {Movable, Trivial}
    BY <1>2
  <2>3. Sound(Mark(px, p, Movable), n)
    BY <1>2, <2>2, MarkSound
  <2>4. \A q \in Proxies \ {p} : Mark(px, p, Movable)[q] = px[q]
    BY <1>2, <2>2, MarkSound
  <2> QED
    BY <1>2, <2>1, <2>3, <2>4
<1>3. CASE n[p] # 1
  BY <1>1, <1>3 DEF TryMove
<1> QED
  BY <1>2, <1>3

(* A free proxy gets a value.                                              *)
Put(px, q, x) == [px EXCEPT ![q] = x]

LEMMA PutSound ==
    ASSUME NEW px, NEW n \in [Proxies -> Nat], Sound(px, n), Kept(n), NEW q \in Proxies,
           n[q] = 0, NEW x \in ProxyType, x.rc = 1, x.kind = "lambda" => x.self = q
    PROVE  /\ Sound(Put(px, q, x), More(n, q))
           /\ Put(px, q, x)[q] = x /\ \A r \in Proxies \ {q} : Put(px, q, x)[r] = px[r]
           /\ q \notin {First, Second}
<1>1. px \in [Proxies -> ProxyType]
  BY DEF Sound
<1>2. q # First /\ q # Second
  BY DEF Kept
<1>3. PICK py, m : py = Put(px, q, x) /\ m = More(n, q)
  OBVIOUS
<1>4. py \in [Proxies -> ProxyType] /\ py[q] = x /\ \A r \in Proxies \ {q} : py[r] = px[r]
  BY <1>1, <1>3 DEF Put
<1>5. m[q] = 1 /\ \A r \in Proxies \ {q} : m[r] = n[r]
  BY <1>3, MoreType
<1>6. \A r \in Proxies :
           /\ py[r].rc = m[r]
           /\ py[r].rc = 0 => py[r] = FreeProxy
           /\ py[r].level = Movable => py[r].rc = 1
           /\ py[r].kind = "lambda" => py[r].self = r
  BY <1>4, <1>5 DEF Sound
<1>7. py[First].level = Constant /\ py[Second].level = Protected
  BY <1>2, <1>4, FirstAndSecond DEF Sound
<1> QED
  BY <1>2, <1>3, <1>4, <1>6, <1>7 DEF Sound

LEMMA FewerMoreCommute ==
    ASSUME NEW n \in [Proxies -> Nat], NEW p \in Proxies, n[p] >= 1, NEW q \in Proxies, q # p
    PROVE  Fewer(More(n, q), p) = More(Fewer(n, p), q)
<1>1. PICK a, b : a = More(n, q) /\ b = Fewer(n, p)
  OBVIOUS
<1>2. /\ a \in [Proxies -> Nat] /\ a[q] = n[q] + 1
      /\ \A r \in Proxies \ {q} : a[r] = n[r]
  BY <1>1, MoreType
<1>3. /\ b \in [Proxies -> Nat] /\ b[p] = n[p] - 1
      /\ \A r \in Proxies \ {p} : b[r] = n[r]
  BY <1>1, FewerType
<1>4. PICK c, d : c = Fewer(a, p) /\ d = More(b, q)
  OBVIOUS
<1>5. a[p] >= 1
  BY <1>2
<1>6. /\ c \in [Proxies -> Nat] /\ c[p] = a[p] - 1
      /\ \A r \in Proxies \ {p} : c[r] = a[r]
  BY <1>2, <1>4, <1>5, FewerType
<1>7. /\ d \in [Proxies -> Nat] /\ d[q] = b[q] + 1
      /\ \A r \in Proxies \ {q} : d[r] = b[r]
  BY <1>3, <1>4, MoreType
<1>8. \A r \in Proxies : c[r] = d[r]
  BY <1>2, <1>3, <1>6, <1>7
<1>9. c = d
  BY <1>6, <1>7, <1>8
<1> QED
  BY <1>1, <1>4, <1>9

(* copy() moves the share of a temporary to the copy, which has it alone.  *)
CopyGives(px, n, p, py, q) ==
    /\ q \in Proxies
    /\ Sound(py, More(Fewer(n, p), q))
    /\ py[q].level = Trivial /\ py[q].kind = px[p].kind
    /\ More(Fewer(n, p), q)[q] = 1
    /\ \A r \in Proxies \ {q} : /\ py[r].level \in {px[r].level, Trivial}
                                /\ Fewer(n, p)[r] >= 1 => py[r] = [px[r] EXCEPT !.rc = py[r].rc]
    /\ q # p => n[q] = 0
    /\ q = p => px[p].level = Movable

LEMMA TakenSound ==
    ASSUME NEW px, NEW n \in [Proxies -> Nat], Sound(px, n), NEW p \in Proxies,
           px[p].level = Movable
    PROVE  CopyGives(px, n, p, Mark(px, p, Trivial), p)
<1>1. px[p].rc = 1 /\ n[p] = 1 /\ p \notin {First, Second}
  BY FirstAndSecond DEF Sound, Movable, Constant, Protected
<1>2. More(Fewer(n, p), p) = n
  BY <1>1, FewerThenMore
<1>3. Trivial \in {Movable, Trivial}
  OBVIOUS
<1>4. PICK py : py = Mark(px, p, Trivial)
  OBVIOUS
<1>5. Sound(py, n)
  BY <1>1, <1>3, <1>4, MarkSound
<1>6. /\ py[p].level = Trivial /\ py[p].kind = px[p].kind
      /\ \A q \in Proxies \ {p} : py[q] = px[q]
  BY <1>1, <1>3, <1>4, MarkSound
<1>7. \A q \in Proxies : px[q] = [px[q] EXCEPT !.rc = px[q].rc]
  BY DEF Sound, ProxyType
<1>8. \A r \in Proxies \ {p} : /\ py[r].level \in {px[r].level, Trivial}
                               /\ py[r] = [px[r] EXCEPT !.rc = py[r].rc]
  BY <1>6, <1>7
<1> QED
  BY <1>1, <1>2, <1>4, <1>5, <1>6, <1>8 DEF CopyGives

LEMMA ClonedSound ==
    ASSUME NEW px, NEW n \in [Proxies -> Nat], Sound(px, n), NEW p \in Proxies,
           n[p] >= 1, Kept(Fewer(n, p)), NEW q \in Proxies, px[q].rc = 0
    PROVE  CopyGives(px, n, p, Release(Put(px, q, CloneOf(px, p, q)), p), q)
<1>1. n[q] = 0 /\ q # p /\ px[p] \in ProxyType
  BY DEF Sound
<1>2. Kept(n)
  <2>1. PICK k : k = Fewer(n, p)
    OBVIOUS
  <2>2. k \in [Proxies -> Nat] /\ k[p] = n[p] - 1 /\ \A r \in Proxies \ {p} : k[r] = n[r]
    BY <2>1, FewerType
  <2>3. \A r \in Proxies : n[r] >= k[r] /\ k[r] \in Nat /\ n[r] \in Nat
    BY <2>2
  <2> QED
    BY <2>1, <2>3, FirstAndSecond DEF Kept
<1>3. PICK x : x = CloneOf(px, p, q)
  OBVIOUS
<1>4. /\ x \in ProxyType /\ x.rc = 1 /\ x.level = Trivial /\ x.kind = px[p].kind
      /\ x.self = IF px[p].self = p THEN q ELSE px[p].self
  <2>1. PICK sf : sf = IF px[p].self = p THEN q ELSE px[p].self
    OBVIOUS
  <2>2. sf \in Proxies \cup {Null} /\ 1 \in Nat /\ 0 \in -1 .. 2
    BY <1>1, <2>1 DEF ProxyType
  <2>3. x = [px[p] EXCEPT !.rc = 1, !.level = 0, !.self = sf]
    BY <1>3, <2>1 DEF CloneOf, Trivial
  <2>4. x.rc = 1 /\ x.level = 0 /\ x.kind = px[p].kind /\ x.self = sf /\ x \in ProxyType
    BY <1>1, <2>2, <2>3 DEF ProxyType
  <2> QED
    BY <2>1, <2>4 DEF Trivial
<1>5. x.kind = "lambda" => x.self = q
  BY <1>4 DEF Sound
<1>6. PICK pz, m : pz = Put(px, q, x) /\ m = More(n, q)
  OBVIOUS
<1>7. Sound(pz, m)
  BY <1>1, <1>2, <1>4, <1>5, <1>6, PutSound
<1>8. pz[q] = x /\ \A r \in Proxies \ {q} : pz[r] = px[r]
  BY <1>1, <1>2, <1>4, <1>5, <1>6, PutSound
<1>9. /\ m \in [Proxies -> Nat] /\ m[q] = n[q] + 1
      /\ \A r \in Proxies \ {q} : m[r] = n[r]
  BY <1>6, MoreType
<1>10. Fewer(m, p) = More(Fewer(n, p), q)
  BY <1>1, <1>6, FewerMoreCommute
<1>11. Kept(Fewer(m, p))
  <2>1. Fewer(n, p) \in [Proxies -> Nat]
    BY FewerType
  <2> QED
    BY <1>10, <2>1, MoreType
<1>12. m[p] >= 1
  BY <1>1, <1>9
<1>13. PICK py : py = Release(pz, p)
  OBVIOUS
<1>14. /\ Sound(py, Fewer(m, p))
       /\ \A r \in Proxies : py[r].level \in {pz[r].level, Trivial}
       /\ \A r \in Proxies \ {p} : py[r] = pz[r]
  BY <1>7, <1>9, <1>11, <1>12, <1>13, ReleaseSound
<1>15. py[q] = x
  BY <1>1, <1>8, <1>14
<1>16. Fewer(m, p)[q] = 1
  BY <1>1, <1>9, <1>12, FewerType
<1>17. \A r \in Proxies \ {q} : py[r].level \in {px[r].level, Trivial}
  BY <1>8, <1>14
<1>18. \A r \in Proxies \ {q} : Fewer(n, p)[r] >= 1 => py[r] = [px[r] EXCEPT !.rc = py[r].rc]
  <2> SUFFICES ASSUME NEW r \in Proxies \ {q}, Fewer(n, p)[r] >= 1
               PROVE  py[r] = [px[r] EXCEPT !.rc = py[r].rc]
    OBVIOUS
  <2>1. px[r] \in ProxyType
    BY DEF Sound
  <2>2. CASE r # p
    <3>1. py[r] = px[r]
      BY <1>8, <1>14, <2>2
    <3> QED
      BY <2>1, <3>1 DEF ProxyType
  <2>3. CASE r = p
    <3>1. Fewer(n, p)[p] = n[p] - 1
      BY FewerType
    <3>2. pz[p] = px[p] /\ px[p].rc = n[p] /\ n[p] \in Nat
      BY <1>1, <1>8 DEF Sound
    <3>3. pz[p].rc # 1
      BY <2>3, <3>1, <3>2
    <3>4. py = [pz EXCEPT ![p].rc = @ - 1]
      BY <1>13, <3>3, ValuesAssumption DEF Release
    <3>5. pz \in [Proxies -> ProxyType]
      BY <1>7 DEF Sound
    <3>6. py[p] = [px[p] EXCEPT !.rc = @ - 1]
      BY <3>2, <3>4, <3>5
    <3> QED
      BY <2>1, <2>3, <3>6 DEF ProxyType
  <2> QED
    BY <2>2, <2>3
<1> QED
  BY <1>1, <1>3, <1>4, <1>6, <1>10, <1>13, <1>14, <1>15, <1>16, <1>17, <1>18 DEF CopyGives

LEMMA CopySound ==
    ASSUME NEW px, NEW n \in [Proxies -> Nat], Sound(px, n), NEW p \in Proxies,
           n[p] >= 1, Kept(Fewer(n, p)),
           px[p].level = Movable \/ \E q \in Proxies : px[q].rc = 0
    PROVE  \E py, q : Copy(px, p) = <<py, q>> /\ CopyGives(px, n, p, py, q)
<1>1. CASE px[p].level = Movable
  <2>1. Copy(px, p) = <<Mark(px, p, Trivial), p>>
    BY <1>1 DEF Copy
  <2>2. CopyGives(px, n, p, Mark(px, p, Trivial), p)
    BY <1>1, TakenSound
  <2> QED
    BY <2>1, <2>2
<1>2. CASE px[p].level # Movable
  <2>1. PICK q : q = CHOOSE r \in Proxies : px[r].rc = 0
    OBVIOUS
  <2>2. q \in Proxies /\ px[q].rc = 0
    BY <1>2, <2>1
  <2>3. Copy(px, p) = <<Release(Put(px, q, CloneOf(px, p, q)), p), q>>
    BY <1>2, <2>1 DEF Copy, Put
  <2>4. CopyGives(px, n, p, Release(Put(px, q, CloneOf(px, p, q)), p), q)
    BY <2>2, ClonedSound
  <2> QED
    BY <2>3, <2>4
<1> QED
  BY <1>1, <1>2

(* An assignment swaps the data of the variable and of the copy.           *)
LEMMA SwappedSound ==
    ASSUME NEW px, NEW n \in [Proxies -> Nat], Sound(px, n), NEW p \in Proxies,
           NEW q \in Proxies, p # q, n[p] >= 1, n[q] >= 1,
           px[p].kind # "lambda", px[q].kind # "lambda"
    PROVE  /\ Sound(Swapped(px, p, q), n)
           /\ \A r \in Proxies : Swapped(px, p, q)[r].level = px[r].level
<1>1. px \in [Proxies -> ProxyType] /\ px[p] \in ProxyType /\ px[q] \in ProxyType
  BY DEF Sound
<1>2. PICK py : py = Swapped(px, p, q)
  OBVIOUS
<1>3. /\ py[p] = [px[p] EXCEPT !.kind = px[q].kind, !.self = px[q].self]
      /\ py[q] = [px[q] EXCEPT !.kind = px[p].kind, !.self = px[p].self]
      /\ \A r \in Proxies \ {p, q} : py[r] = px[r]
  BY <1>1, <1>2 DEF Swapped
<1>4. /\ py[p] \in ProxyType /\ py[p].rc = px[p].rc /\ py[p].level = px[p].level
      /\ py[p].kind = px[q].kind
  BY <1>1, <1>3 DEF ProxyType
<1>5. /\ py[q] \in ProxyType /\ py[q].rc = px[q].rc /\ py[q].level = px[q].level
      /\ py[q].kind = px[p].kind
  BY <1>1, <1>3 DEF ProxyType
<1>6. py \in [Proxies -> ProxyType]
  <2>1. \A r \in Proxies : py[r] \in ProxyType
    BY <1>1, <1>3, <1>4, <1>5
  <2> QED
    BY <1>1, <1>2, <2>1 DEF Swapped
<1>7. px[p].rc # 0 /\ px[q].rc # 0
  BY DEF Sound
<1>8. \A r \in Proxies : py[r].rc = px[r].rc /\ py[r].level = px[r].level
  BY <1>3, <1>4, <1>5
<1>9. \A r \in Proxies :
           /\ py[r].rc = n[r]
           /\ py[r].rc = 0 => py[r] = FreeProxy
           /\ py[r].level = Movable => py[r].rc = 1
           /\ py[r].kind = "lambda" => py[r].self = r
  <2> SUFFICES ASSUME NEW r \in Proxies
               PROVE  /\ py[r].rc = n[r]
                      /\ py[r].rc = 0 => py[r] = FreeProxy
                      /\ py[r].level = Movable => py[r].rc = 1
                      /\ py[r].kind = "lambda" => py[r].self = r
    OBVIOUS
  <2>1. py[r].rc = n[r] /\ (py[r].level = Movable => py[r].rc = 1)
    BY <1>8 DEF Sound
  <2>2. CASE r \in {p, q}
    BY <1>4, <1>5, <1>7, <2>1, <2>2
  <2>3. CASE r \notin {p, q}
    <3>1. py[r] = px[r]
      BY <1>3, <2>3
    <3> QED
      BY <3>1 DEF Sound
  <2> QED
    BY <2>2, <2>3
<1>10. py[First].level = Constant /\ py[Second].level = Protected
  BY <1>8, FirstAndSecond DEF Sound
<1> QED
  BY <1>2, <1>6, <1>8, <1>9, <1>10 DEF Sound

(***************************************************************************)
(* The steps.                                                              *)
(***************************************************************************)

(* What is known of a handle, a temporary and the counts.                  *)
LEMMA HandlesNow ==
    ASSUME ValuesIInv, NEW n, n = Counted(handle, temps)
    PROVE  /\ n \in [Proxies -> Nat] /\ Kept(n) /\ Sound(proxy, n)
           /\ \A p \in Proxies : proxy[p].rc = n[p] /\ n[p] \in Nat
           /\ \A h \in Holders : handle[h] # Null =>
                  /\ handle[h] \in Proxies /\ n[handle[h]] >= 1
                  /\ proxy[handle[h]].level # Movable
           /\ temps # <<>> => Operand \in Proxies /\ n[Operand] >= 1
           /\ MaxTemps \in Nat /\ Len(temps) \in Nat
<1>1. handle \in HandleType /\ temps \in Seq(Proxies) /\ MaxTemps \in Nat
  BY ValuesAssumption DEF ValuesIInv
<1>2. n \in [Proxies -> Nat] /\ Kept(n) /\ Sound(proxy, n)
  BY <1>1, CountedType, HoldersKeep DEF ValuesIInv
<1>3. ASSUME NEW h \in Holders, handle[h] # Null
      PROVE  /\ handle[h] \in Proxies /\ n[handle[h]] >= 1
             /\ proxy[handle[h]].level # Movable
  <2>1. handle[h] \in Proxies
    BY <1>1, <1>3 DEF HandleType
  <2>2. n[handle[h]] # 0 /\ n[handle[h]] \in Nat
    BY <1>1, <2>1, HeldIsCounted
  <2> QED
    BY <1>3, <2>1, <2>2 DEF ValuesIInv, HoldersAreSettled
<1>4. ASSUME temps # <<>>
      PROVE  Operand \in Proxies /\ n[Operand] >= 1
  <2>1. Operand \in Proxies /\ Len(temps) \in DOMAIN temps /\ Operand = temps[Len(temps)]
    BY <1>1, <1>4, LastBack DEF Operand
  <2>2. n[Operand] # 0 /\ n[Operand] \in Nat
    BY <1>1, <2>1, HeldIsCounted
  <2> QED
    BY <2>1, <2>2
<1> QED
  BY <1>1, <1>2, <1>3, <1>4 DEF Sound

(* A variable is bound anew.                                               *)
LEMMA BoundAnew ==
    ASSUME ValuesIInv, NEW v \in Vars, NEW q \in Proxies \cup {Null}, Bind(v, q),
           NEW ts \in Seq(Proxies)
    PROVE  /\ handle' \in HandleType /\ handle'[Literal] = First /\ handle'[Lambda] = Second
           /\ handle'[v] = q /\ \A h \in Holders \ {v} : handle'[h] = handle[h]
           /\ Counted(handle', ts) = More(Fewer(Counted(handle, ts), handle[v]), q)
<1>1. v \in Holders /\ v # Literal /\ v # Lambda
  BY ValuesAssumption DEF Holders
<1>2. handle' = Bound(handle, v, q)
  BY DEF Bind, Bound
<1>3. handle \in HandleType
  BY DEF ValuesIInv
<1>4. Counted(handle', ts) = More(Fewer(Counted(handle, ts), handle[v]), q)
  BY <1>1, <1>2, <1>3, CountedBind
<1>5. handle' \in HandleType
  BY <1>1, <1>2, <1>3, CountedBind
<1>6. handle'[v] = q /\ \A h \in Holders \ {v} : handle'[h] = handle[h]
  BY <1>1, <1>2, <1>3 DEF Bound, HandleType
<1>7. Literal \in Holders /\ Lambda \in Holders
  BY DEF Holders
<1> QED
  BY <1>1, <1>4, <1>5, <1>6, <1>7 DEF ValuesIInv

LEMMA Pushed ==
    ASSUME ValuesIInv, NEW p \in Proxies, Room, Push(p), NEW hd \in HandleType
    PROVE  /\ temps' \in Seq(Proxies) /\ Len(temps') <= MaxTemps
           /\ Counted(hd, temps') = More(Counted(hd, temps), p)
<1>1. temps \in Seq(Proxies) /\ temps' = Append(temps, p) /\ MaxTemps \in Nat
      /\ Len(temps) \in Nat /\ Len(temps) < MaxTemps
  BY ValuesAssumption DEF ValuesIInv, Push, Room
<1>2. /\ temps' \in Seq(Proxies) /\ Len(temps') = Len(temps) + 1
      /\ Counted(hd, temps') = More(Counted(hd, temps), p)
  BY <1>1, CountedPush
<1> QED
  BY <1>1, <1>2

LEMMA Popped ==
    ASSUME ValuesIInv, temps # <<>>, Pop, NEW hd \in HandleType
    PROVE  /\ temps' \in Seq(Proxies) /\ Len(temps') <= MaxTemps
           /\ Counted(hd, temps') = Fewer(Counted(hd, temps), Operand)
<1>1. temps \in Seq(Proxies) /\ temps' = Front(temps) /\ MaxTemps \in Nat
      /\ Len(temps) <= MaxTemps /\ Len(temps) \in Nat
  BY ValuesAssumption DEF ValuesIInv, Pop
<1>2. temps' \in Seq(Proxies) /\ Len(temps') <= Len(temps)
  BY <1>1, LastBack
<1>3. Counted(hd, temps') = Fewer(Counted(hd, temps), Operand)
  BY <1>1, CountedPop DEF Operand
<1> QED
  BY <1>1, <1>2, <1>3

(* The handles stay where they are, and no level becomes movable.          *)
LEMMA StillSettled ==
    ASSUME ValuesIInv, \A p \in Proxies : proxy'[p].level \in {proxy[p].level, Trivial},
           handle' \in HandleType,
           \A h \in Holders : handle'[h] \in {handle[h], Null}
    PROVE  HoldersAreSettled(handle', proxy')
<1> SUFFICES ASSUME NEW h \in Holders, handle'[h] # Null PROVE proxy'[handle'[h]].level # Movable
  BY DEF HoldersAreSettled
<1>1. handle'[h] = handle[h] /\ handle[h] \in Proxies
  BY DEF HandleType
<1>2. proxy[handle[h]].level # Movable
  BY <1>1 DEF ValuesIInv, HoldersAreSettled
<1> QED
  BY <1>1, <1>2 DEF Trivial, Movable

LEMMA EvaluateNameKeeps ==
    ASSUME ValuesIInv, NEW h \in Holders, EvaluateName(h)
    PROVE  ValuesIInv'
<1>1. PICK n, p : n = Counted(handle, temps) /\ p = handle[h]
  OBVIOUS
<1>2. /\ n \in [Proxies -> Nat] /\ Sound(proxy, n)
      /\ p \in Proxies /\ n[p] >= 1 /\ proxy[p].level # Movable
  BY <1>1, HandlesNow DEF EvaluateName
<1>3. /\ proxy' = Share(proxy, p) /\ Push(p) /\ Room /\ copied' = Null /\ handle' = handle
      /\ handle \in HandleType
  BY <1>1 DEF EvaluateName, ValuesIInv
<1>4. /\ temps' \in Seq(Proxies) /\ Len(temps') <= MaxTemps
      /\ Counted(handle, temps') = More(n, p)
  BY <1>1, <1>2, <1>3, Pushed
<1>5. Sound(proxy', More(n, p)) /\ \A q \in Proxies : proxy'[q].level = proxy[q].level
  BY <1>2, <1>3, ShareSound
<1>6. HoldersAreSettled(handle', proxy')
  BY <1>3, <1>5, StillSettled
<1> QED
  BY <1>3, <1>4, <1>5, <1>6 DEF ValuesIInv

LEMMA EvaluateNewKeeps ==
    ASSUME ValuesIInv, EvaluateNew
    PROVE  ValuesIInv'
<1>1. PICK n, p, x : n = Counted(handle, temps) /\ p = FreeOne /\ x = Made(Trivial, "data", Null)
  OBVIOUS
<1>2. p \in Proxies /\ proxy[p].rc = 0
  BY <1>1 DEF EvaluateNew, Free, FreeOne
<1>3. n \in [Proxies -> Nat] /\ Sound(proxy, n) /\ Kept(n) /\ n[p] = 0
  BY <1>1, <1>2, HandlesNow
<1>4. x \in ProxyType /\ x.rc = 1 /\ x.kind = "data"
  BY <1>1 DEF Made, ProxyType, Trivial
<1>5. PICK pz, m : pz = Put(proxy, p, x) /\ m = More(n, p)
  OBVIOUS
<1>6. /\ Sound(pz, m) /\ p \notin {First, Second}
      /\ \A r \in Proxies \ {p} : pz[r] = proxy[r]
  BY <1>2, <1>3, <1>4, <1>5, PutSound
<1>7. m \in [Proxies -> Nat] /\ m[p] = 1
  BY <1>2, <1>3, <1>5, MoreType
<1>8. /\ proxy' = TryMove(pz, p) /\ Push(p) /\ Room /\ copied' = Null /\ handle' = handle
      /\ handle \in HandleType
  BY <1>1, <1>5 DEF EvaluateNew, Put, ValuesIInv
<1>9. Sound(proxy', m) /\ \A r \in Proxies \ {p} : proxy'[r] = pz[r]
  BY <1>2, <1>6, <1>7, <1>8, TryMoveSound
<1>10. /\ temps' \in Seq(Proxies) /\ Len(temps') <= MaxTemps
       /\ Counted(handle, temps') = m
  BY <1>1, <1>2, <1>5, <1>8, Pushed
<1>11. \A h \in Holders : handle[h] # p
  <2>1. temps \in Seq(Proxies)
    BY DEF ValuesIInv
  <2> QED
    BY <1>1, <1>2, <1>3, <1>8, <2>1, HeldIsCounted
<1>12. HoldersAreSettled(handle', proxy')
  <2> SUFFICES ASSUME NEW h \in Holders, handle[h] # Null PROVE proxy'[handle[h]].level # Movable
    BY <1>8 DEF HoldersAreSettled
  <2>1. handle[h] \in Proxies \ {p}
    BY <1>8, <1>11 DEF HandleType
  <2>2. proxy'[handle[h]] = proxy[handle[h]]
    BY <1>6, <1>9, <2>1
  <2> QED
    BY <2>2 DEF ValuesIInv, HoldersAreSettled
<1> QED
  BY <1>8, <1>9, <1>10, <1>12 DEF ValuesIInv

LEMMA ReturnKeeps ==
    ASSUME ValuesIInv, NEW v \in Vars, Return(v)
    PROVE  ValuesIInv'
<1>0. v \in Holders
  BY DEF Holders
<1>1. PICK n, p : n = Counted(handle, temps) /\ p = handle[v]
  OBVIOUS
<1>2. /\ n \in [Proxies -> Nat] /\ Sound(proxy, n) /\ p \in Proxies /\ n[p] >= 1
  BY <1>0, <1>1, HandlesNow DEF Return
<1>3. /\ proxy' = TryMove(proxy, p) /\ Push(p) /\ Room /\ copied' = Null /\ Bind(v, Null)
      /\ temps \in Seq(Proxies)
  BY <1>1 DEF Return, ValuesIInv
<1>4. /\ handle' \in HandleType /\ handle'[Literal] = First /\ handle'[Lambda] = Second
      /\ handle'[v] = Null /\ \A h \in Holders \ {v} : handle'[h] = handle[h]
      /\ Counted(handle', temps) = More(Fewer(n, p), Null)
  BY <1>1, <1>3, BoundAnew
<1>5. Counted(handle', temps) = Fewer(n, p)
  BY <1>4 DEF More
<1>6. /\ temps' \in Seq(Proxies) /\ Len(temps') <= MaxTemps
      /\ Counted(handle', temps') = More(Fewer(n, p), p)
  BY <1>2, <1>3, <1>4, <1>5, Pushed
<1>7. Counted(handle', temps') = n
  BY <1>2, <1>6, FewerThenMore
<1>8. Kept(Fewer(n, p)) /\ Fewer(n, p)[p] = n[p] - 1 /\ n[p] \in Nat
  BY <1>2, <1>3, <1>4, <1>5, HoldersKeep, FewerType
<1>9. p \in {First, Second} => n[p] # 1
  BY <1>8 DEF Kept
<1>10. /\ Sound(proxy', n) /\ (n[p] # 1 => proxy' = proxy)
       /\ \A q \in Proxies \ {p} : proxy'[q] = proxy[q]
  BY <1>2, <1>3, <1>9, TryMoveSound
<1>11. n[p] = 1 => \A h \in Holders : handle'[h] # p
  BY <1>2, <1>3, <1>4, <1>5, <1>8, HeldIsCounted
<1>12. HoldersAreSettled(handle', proxy')
  <2> SUFFICES ASSUME NEW h \in Holders, handle'[h] # Null PROVE proxy'[handle'[h]].level # Movable
    BY DEF HoldersAreSettled
  <2>1. h # v /\ handle'[h] = handle[h] /\ handle[h] \in Proxies
    BY <1>4 DEF HandleType
  <2>2. proxy'[handle[h]] = proxy[handle[h]]
    BY <1>10, <1>11, <2>1
  <2> QED
    BY <2>1, <2>2 DEF ValuesIInv, HoldersAreSettled
<1> QED
  BY <1>3, <1>4, <1>6, <1>7, <1>10, <1>12 DEF ValuesIInv

LEMMA ReturnOuterKeeps ==
    ASSUME ValuesIInv, NEW h \in Holders, ReturnOuter(h)
    PROVE  ValuesIInv'
<1>1. PICK n, p : n = Counted(handle, temps) /\ p = handle[h]
  OBVIOUS
<1>2. /\ n \in [Proxies -> Nat] /\ Sound(proxy, n)
      /\ p \in Proxies /\ n[p] >= 1 /\ proxy[p].level # Movable
  BY <1>1, HandlesNow DEF ReturnOuter
<1>3. PICK pz, m : pz = Share(proxy, p) /\ m = More(n, p)
  OBVIOUS
<1>4. /\ proxy' = TryMove(pz, p) /\ Push(p) /\ Room /\ copied' = Null /\ handle' = handle
      /\ handle \in HandleType
  BY <1>1, <1>3 DEF ReturnOuter, ValuesIInv
<1>5. /\ temps' \in Seq(Proxies) /\ Len(temps') <= MaxTemps
      /\ Counted(handle, temps') = m
  BY <1>1, <1>2, <1>3, <1>4, Pushed
<1>6. Sound(pz, m) /\ \A q \in Proxies : pz[q].level = proxy[q].level
  BY <1>2, <1>3, ShareSound
<1>7. m \in [Proxies -> Nat] /\ m[p] = n[p] + 1 /\ m[p] # 1
  <2>1. m \in [Proxies -> Nat] /\ m[p] = n[p] + 1
    BY <1>2, <1>3, MoreType
  <2>2. n[p] \in Nat
    BY <1>2
  <2> QED
    BY <1>2, <2>1, <2>2
<1>8. Sound(proxy', m) /\ proxy' = pz
  BY <1>2, <1>4, <1>6, <1>7, TryMoveSound
<1>9. HoldersAreSettled(handle', proxy')
  BY <1>4, <1>6, <1>8, StillSettled
<1> QED
  BY <1>4, <1>5, <1>8, <1>9 DEF ValuesIInv

LEMMA DiscardKeeps ==
    ASSUME ValuesIInv, Discard
    PROVE  ValuesIInv'
<1>1. PICK n, p : n = Counted(handle, temps) /\ p = Operand
  OBVIOUS
<1>2. n \in [Proxies -> Nat] /\ Sound(proxy, n) /\ p \in Proxies /\ n[p] >= 1
  BY <1>1, HandlesNow DEF Discard
<1>3. /\ proxy' = Release(proxy, p) /\ Pop /\ temps # <<>> /\ copied' = Null
      /\ handle' = handle /\ handle \in HandleType
      /\ handle[Literal] = First /\ handle[Lambda] = Second
  BY <1>1 DEF Discard, ValuesIInv
<1>4. /\ temps' \in Seq(Proxies) /\ Len(temps') <= MaxTemps
      /\ Counted(handle, temps') = Fewer(n, p)
  BY <1>1, <1>3, Popped
<1>5. Kept(Fewer(n, p))
  BY <1>3, <1>4, HoldersKeep
<1>6. /\ Sound(proxy', Fewer(n, p))
      /\ \A q \in Proxies : proxy'[q].level \in {proxy[q].level, Trivial}
  BY <1>2, <1>3, <1>5, ReleaseSound
<1>7. HoldersAreSettled(handle', proxy')
  BY <1>3, <1>6, StillSettled
<1> QED
  BY <1>3, <1>4, <1>6, <1>7 DEF ValuesIInv

(* A variable is given a copy of p, in place of p or of nothing.           *)
LEMMA CopiedKeeps ==
    ASSUME ValuesIInv, NEW n, n = Counted(handle, temps), NEW v \in Vars, NEW p \in Proxies,
           n[p] >= 1, Kept(Fewer(n, p)), proxy[p].level = Movable \/ Free # {},
           proxy' = Copy(proxy, p)[1], Bind(v, Copy(proxy, p)[2]), copied' = v,
           temps' \in Seq(Proxies), Len(temps') <= MaxTemps,
           Fewer(Counted(handle, temps'), handle[v]) = Fewer(n, p)
    PROVE  ValuesIInv'
<1>1. n \in [Proxies -> Nat] /\ Sound(proxy, n)
  BY HandlesNow
<1>2. proxy[p].level = Movable \/ \E q \in Proxies : proxy[q].rc = 0
  BY DEF Free
<1>3. PICK py, q : Copy(proxy, p) = <<py, q>> /\ CopyGives(proxy, n, p, py, q)
  BY <1>1, <1>2, CopySound
<1>4. proxy' = py /\ Bind(v, q)
  BY <1>3
<1>5. /\ q \in Proxies /\ Sound(py, More(Fewer(n, p), q)) /\ py[q].level = Trivial
      /\ More(Fewer(n, p), q)[q] = 1
      /\ \A r \in Proxies : py[r].level \in {proxy[r].level, Trivial}
  BY <1>3 DEF CopyGives
<1>6. /\ handle' \in HandleType /\ handle'[Literal] = First /\ handle'[Lambda] = Second
      /\ handle'[v] = q /\ \A h \in Holders \ {v} : handle'[h] = handle[h]
      /\ Counted(handle', temps') = More(Fewer(Counted(handle, temps'), handle[v]), q)
  BY <1>4, <1>5, BoundAnew
<1>7. Sound(proxy', Counted(handle', temps'))
  BY <1>4, <1>5, <1>6
<1>8. HoldersAreSettled(handle', proxy')
  <2> SUFFICES ASSUME NEW h \in Holders, handle'[h] # Null PROVE proxy'[handle'[h]].level # Movable
    BY DEF HoldersAreSettled
  <2>1. CASE h = v
    BY <1>4, <1>5, <1>6, <2>1 DEF Movable, Trivial
  <2>2. CASE h # v
    <3>1. handle'[h] = handle[h] /\ handle[h] \in Proxies
      BY <1>6, <2>2 DEF HandleType
    <3>2. proxy[handle[h]].level # Movable
      BY <3>1, HandlesNow
    <3> QED
      BY <1>4, <1>5, <3>1, <3>2 DEF Movable, Trivial
  <2> QED
    BY <2>1, <2>2
<1>9. proxy'[handle'[v]].rc = 1
  BY <1>4, <1>5, <1>6 DEF Sound
<1> QED
  BY <1>5, <1>6, <1>7, <1>8, <1>9 DEF ValuesIInv

(* The share that the operand takes out of the counts.                     *)
LEMMA OperandCounts ==
    ASSUME ValuesIInv, temps # <<>>, Pop, NEW n, n = Counted(handle, temps)
    PROVE  /\ Operand \in Proxies /\ n[Operand] >= 1 /\ Kept(Fewer(n, Operand))
           /\ temps' \in Seq(Proxies) /\ Len(temps') <= MaxTemps
           /\ Counted(handle, temps') = Fewer(n, Operand)
<1>1. /\ handle \in HandleType /\ handle[Literal] = First /\ handle[Lambda] = Second
  BY DEF ValuesIInv
<1>2. /\ temps' \in Seq(Proxies) /\ Len(temps') <= MaxTemps
      /\ Counted(handle, temps') = Fewer(n, Operand)
  BY <1>1, Popped
<1>3. Kept(Fewer(n, Operand))
  BY <1>1, <1>2, HoldersKeep
<1> QED
  BY <1>2, <1>3, HandlesNow

(* The share that a variable takes out of the counts.                      *)
LEMMA VariableCounts ==
    ASSUME ValuesIInv, NEW v \in Vars, handle[v] # Null, NEW n, n = Counted(handle, temps)
    PROVE  handle[v] \in Proxies /\ n[handle[v]] >= 1 /\ Kept(Fewer(n, handle[v]))
<1>1. v \in Holders /\ v # Literal /\ v # Lambda /\ Literal \in Holders /\ Lambda \in Holders
  BY ValuesAssumption DEF Holders
<1>2. handle \in HandleType /\ temps \in Seq(Proxies)
  BY DEF ValuesIInv
<1>3. PICK hd : hd = Bound(handle, v, Null)
  OBVIOUS
<1>4. hd \in HandleType /\ Counted(hd, temps) = More(Fewer(n, handle[v]), Null)
  BY <1>1, <1>2, <1>3, CountedBind
<1>5. hd[Literal] = First /\ hd[Lambda] = Second
  BY <1>1, <1>2, <1>3 DEF Bound, HandleType, ValuesIInv
<1>6. Kept(Counted(hd, temps))
  BY <1>2, <1>4, <1>5, HoldersKeep
<1>7. Kept(Fewer(n, handle[v]))
  BY <1>4, <1>6 DEF More
<1> QED
  BY <1>1, <1>7, HandlesNow

LEMMA DefineKeeps ==
    ASSUME ValuesIInv, NEW v \in Vars, Define(v)
    PROVE  ValuesIInv'
<1>1. PICK n, p : n = Counted(handle, temps) /\ p = Operand
  OBVIOUS
<1>2. /\ temps # <<>> /\ Pop /\ handle[v] = Null /\ copied' = v
      /\ proxy' = Copy(proxy, p)[1] /\ Bind(v, Copy(proxy, p)[2])
      /\ proxy[p].level = Movable \/ Free # {}
  BY <1>1 DEF Define, CanCopy
<1>3. /\ p \in Proxies /\ n[p] >= 1 /\ Kept(Fewer(n, p))
      /\ temps' \in Seq(Proxies) /\ Len(temps') <= MaxTemps
      /\ Counted(handle, temps') = Fewer(n, p)
  BY <1>1, <1>2, OperandCounts
<1>4. Fewer(Counted(handle, temps'), handle[v]) = Fewer(n, p)
  BY <1>2, <1>3 DEF Fewer
<1> QED
  BY <1>1, <1>2, <1>3, <1>4, CopiedKeeps

LEMMA UnlinkKeeps ==
    ASSUME ValuesIInv, NEW v \in Vars, Unlink(v)
    PROVE  ValuesIInv'
<1>1. PICK n, p : n = Counted(handle, temps) /\ p = handle[v]
  OBVIOUS
<1>2. /\ p # Null /\ copied' = v /\ temps' = temps
      /\ proxy' = Copy(proxy, p)[1] /\ Bind(v, Copy(proxy, p)[2])
      /\ proxy[p].level = Movable \/ Free # {}
  BY <1>1 DEF Unlink
<1>3. p \in Proxies /\ n[p] >= 1 /\ Kept(Fewer(n, p))
  BY <1>1, <1>2, VariableCounts
<1>4. temps' \in Seq(Proxies) /\ Len(temps') <= MaxTemps
  BY <1>2 DEF ValuesIInv
<1>5. Fewer(Counted(handle, temps'), handle[v]) = Fewer(n, p)
  BY <1>1, <1>2
<1> QED
  BY <1>1, <1>2, <1>3, <1>4, <1>5, CopiedKeeps

LEMMA UnbindKeeps ==
    ASSUME ValuesIInv, NEW v \in Vars, Unbind(v)
    PROVE  ValuesIInv'
<1>1. PICK n, p : n = Counted(handle, temps) /\ p = handle[v]
  OBVIOUS
<1>2. /\ p # Null /\ copied' = Null /\ temps' = temps /\ proxy' = Release(proxy, p)
      /\ Bind(v, Null) /\ temps \in Seq(Proxies) /\ Len(temps) <= MaxTemps
  BY <1>1 DEF Unbind, ValuesIInv
<1>3. p \in Proxies /\ n[p] >= 1 /\ Kept(Fewer(n, p)) /\ n \in [Proxies -> Nat] /\ Sound(proxy, n)
  BY <1>1, <1>2, VariableCounts, HandlesNow
<1>4. /\ handle' \in HandleType /\ handle'[Literal] = First /\ handle'[Lambda] = Second
      /\ handle'[v] = Null /\ \A h \in Holders \ {v} : handle'[h] = handle[h]
      /\ Counted(handle', temps) = More(Fewer(n, p), Null)
  BY <1>1, <1>2, BoundAnew
<1>5. Counted(handle', temps') = Fewer(n, p)
  BY <1>2, <1>4 DEF More
<1>6. /\ Sound(proxy', Fewer(n, p))
      /\ \A q \in Proxies : proxy'[q].level \in {proxy[q].level, Trivial}
  BY <1>2, <1>3, ReleaseSound
<1>7. HoldersAreSettled(handle', proxy')
  <2>1. \A h \in Holders : handle'[h] \in {handle[h], Null}
    BY <1>4
  <2> QED
    BY <1>4, <1>6, <2>1, StillSettled
<1> QED
  BY <1>2, <1>4, <1>5, <1>6, <1>7 DEF ValuesIInv

(* The operand becomes the value of a variable, and keeps its share.       *)
LEMMA OperandBound ==
    ASSUME ValuesIInv, NEW n, n = Counted(handle, temps), NEW v \in Vars, handle[v] = Null,
           temps # <<>>, Pop, Bind(v, Operand), copied' = Null,
           Sound(proxy', n), proxy'[Operand].level # Movable,
           \A r \in Proxies : proxy'[r].level \in {proxy[r].level, Trivial}
    PROVE  ValuesIInv'
<1>1. PICK p : p = Operand
  OBVIOUS
<1>2. /\ p \in Proxies /\ n[p] >= 1
      /\ temps' \in Seq(Proxies) /\ Len(temps') <= MaxTemps
      /\ Counted(handle, temps') = Fewer(n, p)
  BY <1>1, OperandCounts
<1>3. /\ handle' \in HandleType /\ handle'[Literal] = First /\ handle'[Lambda] = Second
      /\ handle'[v] = p /\ \A h \in Holders \ {v} : handle'[h] = handle[h]
      /\ Counted(handle', temps') = More(Fewer(Counted(handle, temps'), handle[v]), p)
  BY <1>1, <1>2, BoundAnew
<1>4. n \in [Proxies -> Nat]
  BY HandlesNow
<1>5. Counted(handle', temps') = n
  <2>1. Fewer(Counted(handle, temps'), handle[v]) = Fewer(n, p)
    BY <1>2 DEF Fewer
  <2> QED
    BY <1>2, <1>3, <1>4, <2>1, FewerThenMore
<1>6. HoldersAreSettled(handle', proxy')
  <2> SUFFICES ASSUME NEW h \in Holders, handle'[h] # Null PROVE proxy'[handle'[h]].level # Movable
    BY DEF HoldersAreSettled
  <2>1. CASE h = v
    BY <1>1, <1>3, <2>1
  <2>2. CASE h # v
    <3>1. handle'[h] = handle[h] /\ handle[h] \in Proxies
      BY <1>3, <2>2 DEF HandleType
    <3>2. proxy[handle[h]].level # Movable
      BY <3>1, HandlesNow
    <3> QED
      BY <3>1, <3>2 DEF Movable, Trivial
  <2> QED
    BY <2>1, <2>2
<1> QED
  BY <1>2, <1>3, <1>5, <1>6 DEF ValuesIInv

LEMMA LinkKeeps ==
    ASSUME ValuesIInv, ~LinksResults, NEW v \in Vars, Link(v)
    PROVE  ValuesIInv'
<1>1. PICK n : n = Counted(handle, temps)
  OBVIOUS
<1>2. /\ temps # <<>> /\ Pop /\ handle[v] = Null /\ Bind(v, Operand) /\ copied' = Null
      /\ proxy[Operand].level # Movable /\ proxy' = proxy
  BY DEF Link
<1>3. Sound(proxy, n)
  BY <1>1, HandlesNow
<1> QED
  BY <1>1, <1>2, <1>3, OperandBound

LEMMA ArgumentKeeps ==
    ASSUME ValuesIInv, NEW v \in Vars, Argument(v)
    PROVE  ValuesIInv'
<1>1. PICK n, p : n = Counted(handle, temps) /\ p = Operand
  OBVIOUS
<1>2. /\ temps # <<>> /\ Pop /\ handle[v] = Null /\ Bind(v, Operand) /\ copied' = Null
      /\ proxy' = Lvalue(proxy, p)
  BY <1>1 DEF Argument
<1>3. Sound(proxy, n) /\ n \in [Proxies -> Nat] /\ p \in Proxies
  BY <1>1, <1>2, HandlesNow
<1>4. /\ Sound(proxy', n) /\ proxy'[p].level # Movable
      /\ \A r \in Proxies : proxy'[r].level \in {proxy[r].level, Trivial}
  <2>1. CASE proxy[p].level = Movable
    <3>1. proxy' = Mark(proxy, p, Trivial) /\ Trivial \in {Movable, Trivial}
      BY <1>2, <2>1 DEF Lvalue
    <3>2. n[p] = 1 /\ p \notin {First, Second}
      BY <1>3, <2>1, FirstAndSecond DEF Sound, Movable, Constant, Protected
    <3>3. /\ Sound(proxy', n) /\ proxy'[p].level = Trivial
          /\ \A q \in Proxies \ {p} : proxy'[q] = proxy[q]
      BY <1>3, <3>1, <3>2, MarkSound
    <3> QED
      BY <3>3 DEF Movable, Trivial
  <2>2. CASE proxy[p].level # Movable
    <3>1. proxy' = proxy
      BY <1>2, <2>2 DEF Lvalue
    <3> QED
      BY <1>3, <2>2, <3>1
  <2> QED
    BY <2>1, <2>2
<1> QED
  BY <1>1, <1>2, <1>4, OperandBound

LEMMA AssignKeeps ==
    ASSUME ValuesIInv, ~AssignsLambdas, NEW v \in Vars, Assign(v)
    PROVE  ValuesIInv'
<1>1. PICK n, p, o : n = Counted(handle, temps) /\ p = handle[v] /\ o = Operand
  OBVIOUS
<1>2. /\ temps # <<>> /\ Pop /\ p # Null /\ copied' = Null /\ handle' = handle
      /\ proxy[o].level = Movable \/ \E q \in Proxies : proxy[q].rc = 0
      /\ proxy[o].kind # "lambda" /\ proxy[p].kind # "lambda"
  BY <1>1 DEF Assign, CanCopy, Free
<1>3. /\ o \in Proxies /\ n[o] >= 1 /\ Kept(Fewer(n, o))
      /\ temps' \in Seq(Proxies) /\ Len(temps') <= MaxTemps
      /\ Counted(handle, temps') = Fewer(n, o)
  BY <1>1, <1>2, OperandCounts
<1>4. v \in Holders /\ p \in Proxies /\ n[p] >= 1 /\ proxy[p].level # Movable
      /\ n \in [Proxies -> Nat] /\ Sound(proxy, n)
  BY <1>1, <1>2, HandlesNow DEF Holders
<1>5. PICK py, q : Copy(proxy, o) = <<py, q>> /\ CopyGives(proxy, n, o, py, q)
  BY <1>2, <1>3, <1>4, CopySound
<1>6. PICK m : m = More(Fewer(n, o), q)
  OBVIOUS
<1>7. /\ q \in Proxies /\ Sound(py, m) /\ py[q].level = Trivial
      /\ py[q].kind = proxy[o].kind /\ m[q] = 1
      /\ \A r \in Proxies : py[r].level \in {proxy[r].level, Trivial}
      /\ p # q
  <2>1. /\ q \in Proxies /\ Sound(py, m) /\ py[q].level = Trivial
        /\ py[q].kind = proxy[o].kind /\ m[q] = 1
    BY <1>5, <1>6 DEF CopyGives
  <2>2. \A r \in Proxies : py[r].level \in {proxy[r].level, Trivial}
    BY <1>5 DEF CopyGives
  <2>3. (q # o => n[q] = 0) /\ (q = o => proxy[o].level = Movable)
    BY <1>5 DEF CopyGives
  <2> QED
    BY <1>4, <2>1, <2>2, <2>3
<1>8. PICK pz : pz = IF py[p].level # Trivial THEN py ELSE Swapped(py, p, q)
  OBVIOUS
<1>9. proxy' = Release(pz, q)
  BY <1>1, <1>5, <1>8 DEF Assign
<1>10. Fewer(n, o) \in [Proxies -> Nat] /\ Fewer(n, o)[p] >= 1
  <2>1. handle \in HandleType
    BY DEF ValuesIInv
  <2>2. Fewer(n, o)[p] \in Nat /\ Fewer(n, o)[p] # 0
    BY <1>1, <1>3, <1>4, <2>1, HeldIsCounted
  <2>3. Fewer(n, o) \in [Proxies -> Nat]
    BY <1>3, <1>4, FewerType
  <2> QED
    BY <2>2, <2>3
<1>11. m \in [Proxies -> Nat] /\ m[p] >= 1 /\ Fewer(m, q) = Fewer(n, o)
  BY <1>4, <1>6, <1>7, <1>10, MoreType, MoreThenFewer
<1>12. py[p].kind # "lambda" /\ py[q].kind # "lambda"
  <2>1. py[p] = [proxy[p] EXCEPT !.rc = py[p].rc] /\ proxy[p] \in ProxyType
    BY <1>4, <1>5, <1>7, <1>10 DEF CopyGives, Sound
  <2>2. py[p].kind = proxy[p].kind
    BY <2>1 DEF ProxyType
  <2> QED
    BY <1>2, <1>7, <2>2
<1>13. /\ Sound(pz, m)
       /\ \A r \in Proxies : pz[r].level = py[r].level
  <2>1. CASE py[p].level # Trivial
    BY <1>7, <1>8, <2>1
  <2>2. CASE py[p].level = Trivial
    <3>1. pz = Swapped(py, p, q) /\ m[q] >= 1
      BY <1>7, <1>8, <2>2
    <3> QED
      BY <1>4, <1>7, <1>11, <1>12, <3>1, SwappedSound
  <2> QED
    BY <2>1, <2>2
<1>14. /\ Sound(proxy', Fewer(n, o))
       /\ \A r \in Proxies : proxy'[r].level \in {pz[r].level, Trivial}
  <2>1. m[q] >= 1 /\ Kept(Fewer(m, q))
    BY <1>3, <1>7, <1>11
  <2>2. /\ Sound(proxy', Fewer(m, q))
        /\ \A r \in Proxies : proxy'[r].level \in {pz[r].level, Trivial}
    BY <1>7, <1>9, <1>11, <1>13, <2>1, ReleaseSound
  <2> QED
    BY <1>11, <2>2
<1>15. HoldersAreSettled(handle', proxy')
  <2>1. \A r \in Proxies : proxy'[r].level \in {proxy[r].level, Trivial}
    BY <1>7, <1>13, <1>14
  <2>2. handle' \in HandleType
    BY <1>2 DEF ValuesIInv
  <2> QED
    BY <1>2, <2>1, <2>2, StillSettled
<1>16. /\ handle' \in HandleType /\ handle'[Literal] = First /\ handle'[Lambda] = Second
       /\ Counted(handle', temps') = Fewer(n, o)
  BY <1>2, <1>3 DEF ValuesIInv
<1> QED
  BY <1>2, <1>3, <1>14, <1>15, <1>16 DEF ValuesIInv

LEMMA AssignLinkKeeps ==
    ASSUME ValuesIInv, ~LinksResults, NEW v \in Vars, AssignLink(v)
    PROVE  ValuesIInv'
<1>1. PICK n, p, o : n = Counted(handle, temps) /\ p = handle[v] /\ o = Operand
  OBVIOUS
<1>2. /\ temps # <<>> /\ Pop /\ p # Null /\ copied' = Null
      /\ proxy[o].level # Movable
  BY <1>1 DEF AssignLink
<1>3. /\ o \in Proxies /\ n[o] >= 1 /\ Kept(Fewer(n, o))
      /\ temps' \in Seq(Proxies) /\ Len(temps') <= MaxTemps
      /\ Counted(handle, temps') = Fewer(n, o)
  BY <1>1, <1>2, OperandCounts
<1>4. p \in Proxies /\ n[p] >= 1 /\ Kept(Fewer(n, p)) /\ n \in [Proxies -> Nat] /\ Sound(proxy, n)
  BY <1>1, <1>2, VariableCounts, HandlesNow
<1>5. CASE proxy' = Release(proxy, o) /\ handle' = handle
  <2>1. /\ Sound(proxy', Fewer(n, o))
        /\ \A r \in Proxies : proxy'[r].level \in {proxy[r].level, Trivial}
    BY <1>3, <1>4, <1>5, ReleaseSound
  <2>2. /\ handle' \in HandleType /\ handle'[Literal] = First /\ handle'[Lambda] = Second
        /\ Counted(handle', temps') = Fewer(n, o)
    BY <1>3, <1>5 DEF ValuesIInv
  <2>3. HoldersAreSettled(handle', proxy')
    BY <1>5, <2>1, <2>2, StillSettled
  <2> QED
    BY <1>2, <1>3, <2>1, <2>2, <2>3 DEF ValuesIInv
<1>6. CASE p # o /\ proxy' = Release(proxy, p) /\ Bind(v, o)
  <2>1. /\ Sound(proxy', Fewer(n, p))
        /\ \A r \in Proxies : proxy'[r].level \in {proxy[r].level, Trivial}
    BY <1>4, <1>6, ReleaseSound
  <2>2. /\ handle' \in HandleType /\ handle'[Literal] = First /\ handle'[Lambda] = Second
        /\ handle'[v] = o /\ \A h \in Holders \ {v} : handle'[h] = handle[h]
        /\ Counted(handle', temps') = More(Fewer(Counted(handle, temps'), handle[v]), o)
    BY <1>3, <1>6, BoundAnew
  <2>3. Counted(handle', temps') = Fewer(n, p)
    <3>1. PICK m : m = Fewer(n, o)
      OBVIOUS
    <3>2. m \in [Proxies -> Nat] /\ m[p] = n[p]
      BY <1>3, <1>4, <1>6, <3>1, FewerType
    <3>3. Fewer(More(m, o), p) = More(Fewer(m, p), o)
      BY <1>3, <1>4, <1>6, <3>2, FewerMoreCommute
    <3>4. More(m, o) = n
      BY <1>3, <1>4, <3>1, FewerThenMore
    <3>5. Counted(handle', temps') = More(Fewer(m, p), o)
      BY <1>1, <1>3, <2>2, <3>1
    <3> QED
      BY <3>3, <3>4, <3>5
  <2>4. HoldersAreSettled(handle', proxy')
    <3> SUFFICES ASSUME NEW h \in Holders, handle'[h] # Null
                 PROVE  proxy'[handle'[h]].level # Movable
      BY DEF HoldersAreSettled
    <3>1. handle'[h] \in Proxies /\ proxy[handle'[h]].level # Movable
      <4>1. CASE h = v
        BY <1>2, <1>3, <2>2, <4>1
      <4>2. CASE h # v
        <5>1. handle'[h] = handle[h]
          BY <2>2, <4>2
        <5> QED
          BY <1>1, <5>1, HandlesNow
      <4> QED
        BY <4>1, <4>2
    <3> QED
      BY <2>1, <3>1 DEF Movable, Trivial
  <2>5. Sound(proxy', Counted(handle', temps'))
    BY <2>1, <2>3
  <2> QED
    BY <1>2, <1>3, <2>2, <2>4, <2>5 DEF ValuesIInv
<1> QED
  BY <1>1, <1>5, <1>6 DEF AssignLink

LEMMA ValuesBegins == ValuesInit => ValuesIInv
<1> SUFFICES ASSUME ValuesInit PROVE ValuesIInv
  OBVIOUS
<1>1. /\ Literal \in Holders /\ Lambda \in Holders /\ Literal # Lambda
  BY ValuesAssumption DEF Holders
<1>2. /\ handle = [h \in Holders |-> CASE h = Literal -> First
                                       [] h = Lambda -> Second
                                       [] OTHER -> Null]
      /\ temps = <<>> /\ copied = Null
      /\ temps \in Seq(Proxies) /\ Len(temps) = 0
  BY DEF ValuesInit
<1>3. /\ handle[Literal] = First /\ handle[Lambda] = Second
      /\ \A h \in Holders \ {Literal, Lambda} : handle[h] = Null
      /\ handle \in HandleType
  <2>1. \A h \in Holders : handle[h] \in Proxies \cup {Null}
    BY <1>1, <1>2, FirstAndSecond
  <2> QED
    BY <1>1, <1>2, <2>1 DEF HandleType
<1>4. PICK n : n = Counted(handle, temps)
  OBVIOUS
<1>5. \A p \in Proxies : n[p] = IF p \in {First, Second} THEN 1 ELSE 0
  <2> SUFFICES ASSUME NEW p \in Proxies
               PROVE  n[p] = IF p \in {First, Second} THEN 1 ELSE 0
    OBVIOUS
  <2>1. InTemps(temps, p) = 0
    <3>1. DOMAIN temps = {}
      BY <1>2
    <3> QED
      BY <1>2, <3>1, TempsIsNat
  <2>2. n[p] = HeldBy(handle, p) + 0
    BY <1>4, <2>1 DEF Counted
  <2>3. HeldBy(handle, p) = IF p \in {First, Second} THEN 1 ELSE 0
    <3>1. CASE p = First
      <4>1. {h \in Holders : handle[h] = p} = {Literal}
        BY <1>1, <1>3, <3>1, FirstAndSecond
      <4> QED
        BY <3>1, <4>1, FS_Singleton DEF HeldBy
    <3>2. CASE p = Second
      <4>1. {h \in Holders : handle[h] = p} = {Lambda}
        BY <1>1, <1>3, <3>2, FirstAndSecond
      <4> QED
        BY <3>2, <4>1, FS_Singleton DEF HeldBy
    <3>3. CASE p \notin {First, Second}
      <4>1. \A h \in Holders : handle[h] # p
        BY <1>3, <3>3, FirstAndSecond
      <4> QED
        BY <3>3, <4>1, HeldIsNat
    <3> QED
      BY <3>1, <3>2, <3>3
  <2> QED
    BY <2>2, <2>3
<1>6. /\ proxy[First] = Made(Constant, "data", Null)
      /\ proxy[Second] = Made(Protected, "lambda", Second)
      /\ \A p \in Proxies \ {First, Second} : proxy[p] = FreeProxy
      /\ proxy = [p \in Proxies |-> proxy[p]]
  BY FirstAndSecond DEF ValuesInit
<1>7. \A p \in Proxies :
          /\ proxy[p] \in ProxyType
          /\ proxy[p].rc = n[p]
          /\ proxy[p].rc = 0 => proxy[p] = FreeProxy
          /\ proxy[p].level = Movable => proxy[p].rc = 1
          /\ proxy[p].kind = "lambda" => proxy[p].self = p
  <2> SUFFICES ASSUME NEW p \in Proxies
               PROVE  /\ proxy[p] \in ProxyType
                      /\ proxy[p].rc = n[p]
                      /\ proxy[p].rc = 0 => proxy[p] = FreeProxy
                      /\ proxy[p].level = Movable => proxy[p].rc = 1
                      /\ proxy[p].kind = "lambda" => proxy[p].self = p
    OBVIOUS
  <2>1. CASE p = First
    BY <1>5, <1>6, <2>1 DEF Made, ProxyType, Constant, Movable
  <2>2. CASE p = Second
    BY <1>5, <1>6, <2>2 DEF Made, ProxyType, Protected, Movable
  <2>3. CASE p \notin {First, Second}
    BY <1>5, <1>6, <2>3 DEF FreeProxy, ProxyType, Trivial, Movable
  <2> QED
    BY <2>1, <2>2, <2>3
<1>8. proxy[First].level = Constant /\ proxy[Second].level = Protected
  BY <1>6 DEF Made
<1>9. proxy \in [Proxies -> ProxyType]
  BY <1>6, <1>7
<1>10. Sound(proxy, Counted(handle, temps))
  BY <1>4, <1>7, <1>8, <1>9 DEF Sound
<1>11. HoldersAreSettled(handle, proxy)
  <2> SUFFICES ASSUME NEW h \in Holders, handle[h] # Null PROVE proxy[handle[h]].level # Movable
    BY DEF HoldersAreSettled
  <2>1. handle[h] \in {First, Second}
    BY <1>3
  <2> QED
    BY <1>8, <2>1 DEF Movable, Constant, Protected
<1> QED
  BY <1>2, <1>3, <1>10, <1>11, ValuesAssumption DEF ValuesIInv

LEMMA ValuesStep ==
    ASSUME ~LinksResults, ~AssignsLambdas, ValuesIInv, [ValuesNext]_valuesVars
    PROVE  ValuesIInv'
<1>1. ASSUME NEW h \in Holders, EvaluateName(h) PROVE ValuesIInv'
  BY <1>1, EvaluateNameKeeps
<1>2. ASSUME NEW h \in Holders, ReturnOuter(h) PROVE ValuesIInv'
  BY <1>2, ReturnOuterKeeps
<1>3. CASE EvaluateNew
  BY <1>3, EvaluateNewKeeps
<1>4. CASE Discard
  BY <1>4, DiscardKeeps
<1>5. ASSUME NEW v \in Vars, Return(v) PROVE ValuesIInv'
  BY <1>5, ReturnKeeps
<1>6. ASSUME NEW v \in Vars, Define(v) PROVE ValuesIInv'
  BY <1>6, DefineKeeps
<1>7. ASSUME NEW v \in Vars, Link(v) PROVE ValuesIInv'
  BY <1>7, LinkKeeps
<1>8. ASSUME NEW v \in Vars, Argument(v) PROVE ValuesIInv'
  BY <1>8, ArgumentKeeps
<1>9. ASSUME NEW v \in Vars, Assign(v) PROVE ValuesIInv'
  BY <1>9, AssignKeeps
<1>10. ASSUME NEW v \in Vars, AssignLink(v) PROVE ValuesIInv'
  BY <1>10, AssignLinkKeeps
<1>11. ASSUME NEW v \in Vars, Unlink(v) PROVE ValuesIInv'
  BY <1>11, UnlinkKeeps
<1>12. ASSUME NEW v \in Vars, Unbind(v) PROVE ValuesIInv'
  BY <1>12, UnbindKeeps
<1>13. CASE UNCHANGED valuesVars
  <2>1. proxy' = proxy /\ handle' = handle /\ temps' = temps /\ copied' = copied
    BY <1>13 DEF valuesVars
  <2> QED
    BY <2>1 DEF ValuesIInv
<1> QED
  BY <1>1, <1>2, <1>3, <1>4, <1>5, <1>6, <1>7, <1>8, <1>9, <1>10, <1>11, <1>12, <1>13
     DEF ValuesNext

(* In a script that links no variable to a result and assigns no lambdas,  *)
(* the counts and what a variable may hold stay as ValuesIInv says.        *)
THEOREM ValuesInvariant ==
    ASSUME ~LinksResults, ~AssignsLambdas
    PROVE  ValuesSpec => []ValuesIInv
<1>1. ValuesIInv /\ [ValuesNext]_valuesVars => ValuesIInv'
  BY ValuesStep
<1> QED
  BY <1>1, ValuesBegins, PTL DEF ValuesSpec

LEMMA ValuesFromCounts == ValuesIInv => ValuesInv
<1> SUFFICES ASSUME ValuesIInv PROVE ValuesInv
  OBVIOUS
<1>1. PICK n : n = Counted(handle, temps)
  OBVIOUS
<1>2. handle \in HandleType /\ temps \in Seq(Proxies) /\ Sound(proxy, n)
  BY <1>1 DEF ValuesIInv
<1>3. \A p \in Proxies : n[p] = Shares(p)
  BY <1>1 DEF Counted, HeldBy, InTemps, Shares
<1>4. proxy \in [Proxies -> Proxy]
  <2> SUFFICES ASSUME NEW p \in Proxies PROVE proxy[p] \in Proxy
    BY <1>2 DEF Sound
  <2>1. n[p] \in Nat /\ n[p] <= Cardinality(Holders) + Len(temps)
    BY <1>1, <1>2, HeldIsCounted
  <2>2. Cardinality(Holders) \in Nat /\ Len(temps) \in Nat /\ Len(temps) <= MaxTemps /\ MaxTemps \in Nat
    BY HoldersAreFinite, FS_CardinalityType, ValuesAssumption DEF ValuesIInv
  <2>3. n[p] \in 0 .. (Cardinality(Holders) + MaxTemps + 1)
    BY <2>1, <2>2
  <2>4. proxy[p] \in ProxyType /\ proxy[p].rc = n[p]
    BY <1>2 DEF Sound
  <2> QED
    BY <2>3, <2>4 DEF ProxyType, Proxy
<1>5. ValuesTypeOK
  BY <1>4 DEF ValuesTypeOK, ValuesIInv, HandleType
<1>6. CountsAreShares
  BY <1>2, <1>3 DEF CountsAreShares, Sound
<1>7. MovableIsAlone /\ SelfIsTheLambda
  BY <1>2 DEF MovableIsAlone, SelfIsTheLambda, Sound
<1>8. LiteralIsConstant
  BY <1>2 DEF LiteralIsConstant, Sound, ValuesIInv
<1> QED
  BY <1>5, <1>6, <1>7, <1>8 DEF ValuesInv

(* The reference count of a proxy is the number of handles on it, only a   *)
(* value that one handle holds is movable, and constants and lambdas stay  *)
(* what they are (cs_impl::any, copy(), parse_asi()).                      *)
THEOREM ValuesCorrect ==
    ASSUME ~LinksResults, ~AssignsLambdas
    PROVE  ValuesSpec => []ValuesInv
BY ValuesInvariant, ValuesFromCounts, PTL

LEMMA FreshIsDetached == ValuesIInv => CopyIsDetached
<1> SUFFICES ASSUME ValuesIInv, copied # Null,
                    NEW h \in Holders \ {copied}, handle[h] = handle[copied]
             PROVE  FALSE
  BY DEF CopyIsDetached
<1>1. PICK v, p, n : v = copied /\ p = handle[copied] /\ n = Counted(handle, temps)
  OBVIOUS
<1>2. /\ v \in Vars /\ v \in Holders /\ p \in Proxies /\ p # Null /\ proxy[p].rc = 1
      /\ handle \in HandleType /\ temps \in Seq(Proxies)
  BY <1>1, ValuesAssumption DEF ValuesIInv, Holders
<1>3. n[p] = 1
  BY <1>1, <1>2 DEF ValuesIInv, Sound
<1>4. PICK hd : hd = Bound(handle, v, Null)
  OBVIOUS
<1>5. /\ hd \in HandleType
      /\ Counted(hd, temps) = More(Fewer(n, p), Null)
  BY <1>1, <1>2, <1>4, CountedBind
<1>6. Counted(hd, temps)[p] = 0
  <2>1. n \in [Proxies -> Nat] /\ n[p] >= 1
    BY <1>1, <1>2, <1>3, CountedType
  <2>2. Fewer(n, p)[p] = n[p] - 1
    BY <1>2, <2>1, FewerType
  <2> QED
    BY <1>3, <1>5, <2>2 DEF More
<1>7. hd[h] # p
  BY <1>2, <1>5, <1>6, HeldIsCounted
<1>8. hd[h] = handle[h]
  BY <1>1, <1>2, <1>4 DEF Bound, HandleType
<1> QED
  BY <1>1, <1>7, <1>8

(* After `var v = ...` or unlink_var() no other variable shares the proxy  *)
(* of v, whatever results were moved into it (copy(), docs/SDK.md:179).    *)
THEOREM CopiesAreDetached ==
    ASSUME ~LinksResults, ~AssignsLambdas
    PROVE  ValuesSpec => []CopyIsDetached
BY ValuesInvariant, FreshIsDetached, PTL
=============================================================================
