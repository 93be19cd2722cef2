--------------------------- MODULE SessionProofs ---------------------------
(***************************************************************************)
(* Machine-checked proofs about the parts of a session around its code:    *)
(* the process tree and its signals, the module cache, and the statements  *)
(* of the interactive interpreter; for any processes, threads, modules and *)
(* depth of nesting.                                                       *)
(***************************************************************************)
EXTENDS Processes, ImportCache, Repl, FiniteSetTheorems, SequenceTheorems,
        WellFoundedInduction, TLAPS

(***************************************************************************)
(* Sequences and numbers.                                                  *)
(***************************************************************************)

LEMMA AppendedSeq ==
    ASSUME NEW S, NEW s \in Seq(S), NEW x \in S, NEW n \in Nat, n = Len(s)
    PROVE  /\ Append(s, x) \in Seq(S)
           /\ Len(Append(s, x)) = n + 1
           /\ DOMAIN Append(s, x) = 1 .. n + 1
           /\ Append(s, x)[n + 1] = x
           /\ \A i \in 1 .. n : Append(s, x)[i] = s[i]
           /\ Append(s, x) # <<>> /\ Last(Append(s, x)) = x
<1>1. /\ Append(s, x) \in Seq(S) /\ Len(Append(s, x)) = n + 1
      /\ Append(s, x)[n + 1] = x /\ \A i \in 1 .. n : Append(s, x)[i] = s[i]
  OBVIOUS
<1>2. DOMAIN Append(s, x) = 1 .. n + 1 /\ Append(s, x) # <<>>
  BY <1>1
<1> QED
  BY <1>1, <1>2 DEF Last

LEMMA FrontSeq ==
    ASSUME NEW S, NEW s \in Seq(S), s # <<>>, NEW n \in Nat, n = Len(s)
    PROVE  /\ n >= 1 /\ n - 1 \in Nat /\ DOMAIN s = 1 .. n
           /\ Last(s) = s[n] /\ Last(s) \in S
           /\ Front(s) \in Seq(S)
           /\ Len(Front(s)) = n - 1
           /\ DOMAIN Front(s) = 1 .. n - 1
           /\ \A i \in 1 .. n - 1 : Front(s)[i] = s[i]
<1>1. n >= 1 /\ n - 1 \in Nat /\ DOMAIN s = 1 .. n /\ s[n] \in S
  OBVIOUS
<1>2. /\ Front(s) \in Seq(S) /\ Len(Front(s)) = n - 1
      /\ \A i \in 1 .. n - 1 : Front(s)[i] = s[i]
  BY <1>1 DEF Front
<1>3. DOMAIN Front(s) = 1 .. n - 1
  BY <1>1, <1>2
<1> QED
  BY <1>1, <1>2, <1>3 DEF Last

(* A set of positions that is not empty has a last one.                    *)
LEMMA LastPosition ==
    ASSUME NEW n \in Nat, NEW S \in SUBSET (0 .. n), S # {}
    PROVE  \E x \in S : \A w \in S : w <= x
<1> DEFINE below == {n - x : x \in S}
<1>1. below \in SUBSET Nat /\ below # {}
  <2>1. \A x \in S : x \in 0 .. n
    OBVIOUS
  <2>2. \A x \in 0 .. n : n - x \in Nat
    OBVIOUS
  <2> QED
    BY <2>1, <2>2
<1>2. PICK y \in below : \A z \in below : ~ (<<z, y>> \in OpToRel(<, Nat))
  BY <1>1, NatLessThanWellFounded, WFMin
<1>3. ASSUME NEW z \in below PROVE y <= z
  <2>1. <<z, y>> \in Nat \X Nat /\ <<z, y>>[1] = z /\ <<z, y>>[2] = y
    BY <1>1
  <2>2. z < y => <<z, y>> \in OpToRel(<, Nat)
    BY <2>1, Zenon DEF OpToRel
  <2>3. ~ (z < y)
    BY <1>2, <2>2, Zenon
  <2> QED
    BY <1>1, <2>3
<1>4. PICK x \in S : y = n - x
  OBVIOUS
<1>5. \A w \in S : w <= x
  <2> SUFFICES ASSUME NEW w \in S PROVE w <= x
    OBVIOUS
  <2>1. n - w \in below
    OBVIOUS
  <2>2. n - x <= n - w
    BY <1>3, <1>4, <2>1
  <2>3. w \in Nat /\ x \in Nat
    OBVIOUS
  <2> HIDE DEF below
  <2> QED
    BY <2>2, <2>3
<1> QED
  BY <1>5
-----------------------------------------------------------------------------
(***************************************************************************)
(* Processes and signals.                                                  *)
(*                                                                         *)
(* The inductive invariant: the processes form trees under the sessions,   *)
(* root[p] being the session above p, and a thread is in one tree.         *)
(***************************************************************************)
Scopes == [p : made, fiber : BOOLEAN]

TreeTypes ==
    /\ parent \in [Procs -> Procs \cup {NoProc}]
    /\ made \subseteq Procs /\ sessions \subseteq made
    /\ \A p \in Procs \ made : parent[p] = NoProc
    /\ chain \in [Threads -> Seq(Scopes)]
    /\ \A t \in Threads : Len(chain[t]) <= MaxChain

SignalTypes ==
    /\ raised \subseteq Signals /\ owed \subseteq Signals
    /\ carried \in [Threads -> Signals \cup {Idle}]

(* A thread carries something only once it has unwound.                    *)
CarriesAtTheEnd == \A t \in Threads : chain[t] # <<>> => carried[t] = Idle

Rooted(root) ==
    \A p \in made :
        /\ root[p] \in sessions /\ root[p] \in Lineage(p) /\ parent[root[p]] = NoProc
        /\ parent[p] = NoProc => root[p] = p
        /\ parent[p] # NoProc => parent[p] \in made /\ root[parent[p]] = root[p]

SameRoot(root, s) == \A m, n \in DOMAIN s : root[s[m].p] = root[s[n].p]

ProcessesIInv ==
    /\ TreeTypes /\ SignalTypes /\ CarriesAtTheEnd
    /\ SignalsAreKept
    /\ ~killed
    /\ \E root \in [Procs -> Procs] :
           Rooted(root) /\ \A t \in Threads : SameRoot(root, chain[t])

(* A process and its ancestors are in one tree.                            *)
LEMMA LineageInTree ==
    ASSUME TreeTypes, NEW root \in [Procs -> Procs], Rooted(root),
           NEW p \in made, NEW q \in Lineage(p)
    PROVE  q \in made /\ root[q] = root[p]
<1> DEFINE S == {r \in made : root[r] = root[p]}
<1>1. S \in SUBSET Procs /\ p \in S
  BY DEF TreeTypes
<1>2. Upward(S)
  BY DEF Upward, Rooted
<1> QED
  BY <1>1, <1>2 DEF Lineage

(* So its session is the root of that tree.                                *)
LEMMA SessionIsRoot ==
    ASSUME TreeTypes, NEW root \in [Procs -> Procs], Rooted(root), NEW p \in made
    PROVE  Session(p) = root[p] /\ Session(p) \in sessions
<1>1. /\ root[p] \in Lineage(p) /\ IsSession(root[p]) /\ root[p] \in sessions
  BY DEF Rooted, IsSession
<1>2. ASSUME NEW q \in Lineage(p), IsSession(q)
      PROVE  q = root[p]
  <2>1. q \in made /\ root[q] = root[p]
    BY LineageInTree
  <2> QED
    BY <2>1, <1>2 DEF Rooted, IsSession
<1>3. Session(p) \in Lineage(p) /\ IsSession(Session(p))
  BY <1>1 DEF Session
<1> QED
  BY <1>1, <1>2, <1>3

(* Related processes are in one tree.                                      *)
LEMMA RelatedInTree ==
    ASSUME TreeTypes, NEW root \in [Procs -> Procs], Rooted(root),
           NEW p \in made, NEW q \in made, IsRelated(p, q)
    PROVE  root[p] = root[q]
BY LineageInTree DEF IsRelated

(* What the steps do to the run scopes of a thread keeps them in one tree. *)
LEMMA ScopesOfOneTree ==
    ASSUME NEW E, NEW root, NEW s \in Seq([p : E, fiber : BOOLEAN]), SameRoot(root, s),
           s # <<>>
    PROVE  /\ Last(s) \in [p : E, fiber : BOOLEAN] /\ Head(s) \in [p : E, fiber : BOOLEAN]
           /\ \A n \in DOMAIN s : root[s[n].p] = root[Last(s).p]
           /\ /\ Front(s) \in Seq([p : E, fiber : BOOLEAN]) /\ SameRoot(root, Front(s))
              /\ Len(Front(s)) <= Len(s)
           /\ \A x \in [p : E, fiber : BOOLEAN] :
                  /\ <<x>> \in Seq([p : E, fiber : BOOLEAN]) /\ SameRoot(root, <<x>>)
                  /\ Len(<<x>>) = 1
                  /\ root[x.p] = root[Last(s).p] => SameRoot(root, Append(s, x))
<1> DEFINE R == [p : E, fiber : BOOLEAN]
<1>1. s \in Seq(R)
  OBVIOUS
<1> HIDE DEF R
<1>2. PICK k \in Nat : k = Len(s)
  BY <1>1
<1>3. /\ k >= 1 /\ DOMAIN s = 1 .. k /\ Last(s) = s[k] /\ Last(s) \in R
      /\ Front(s) \in Seq(R) /\ Len(Front(s)) = k - 1 /\ DOMAIN Front(s) = 1 .. k - 1
      /\ \A i \in 1 .. k - 1 : Front(s)[i] = s[i]
  BY <1>1, <1>2, FrontSeq
<1>4. k \in DOMAIN s /\ 1 \in DOMAIN s /\ \A i \in 1 .. k - 1 : i \in DOMAIN s
  BY <1>3
<1>5. \A n \in DOMAIN s : root[s[n].p] = root[Last(s).p]
  BY <1>3, <1>4 DEF SameRoot
<1>6. SameRoot(root, Front(s)) /\ Len(Front(s)) <= Len(s)
  <2>1. \A i \in DOMAIN Front(s) : i \in DOMAIN s /\ Front(s)[i] = s[i]
    BY <1>3, <1>4
  <2>2. SameRoot(root, Front(s))
    BY <2>1 DEF SameRoot
  <2>3. k - 1 <= k
    BY <1>2
  <2> QED
    BY <2>2, <2>3, <1>2, <1>3
<1>7. Head(s) \in R
  BY <1>1
<1>8. ASSUME NEW x \in R
      PROVE  /\ <<x>> \in Seq(R) /\ SameRoot(root, <<x>>) /\ Len(<<x>>) = 1
             /\ root[x.p] = root[Last(s).p] => SameRoot(root, Append(s, x))
  <2>1. <<x>> \in Seq(R) /\ SameRoot(root, <<x>>) /\ Len(<<x>>) = 1
    BY DEF SameRoot
  <2>2. ASSUME root[x.p] = root[Last(s).p]
        PROVE  SameRoot(root, Append(s, x))
    <3> DEFINE u == Append(s, x)
    <3>1. DOMAIN u = 1 .. k + 1 /\ u[k + 1] = x /\ \A i \in 1 .. k : u[i] = s[i]
      BY <1>1, <1>2, AppendedSeq
    <3> HIDE DEF u
    <3>2. \A i \in 1 .. k + 1 : i = k + 1 \/ i \in 1 .. k
      BY <1>2
    <3>3. \A i \in DOMAIN u : root[u[i].p] = root[Last(s).p]
      BY <3>1, <3>2, <2>2, <1>3, <1>5
    <3>4. SameRoot(root, u)
      BY <3>3 DEF SameRoot
    <3> QED
      BY <3>4 DEF u
  <2> QED
    BY <2>1, <2>2
<1> QED
  <2> USE DEF R
  <2>1. Last(s) \in R /\ Head(s) \in R /\ \A n \in DOMAIN s : root[s[n].p] = root[Last(s).p]
    BY <1>3, <1>5, <1>7
  <2>2. Front(s) \in Seq(R) /\ SameRoot(root, Front(s)) /\ Len(Front(s)) <= Len(s)
    BY <1>3, <1>6
  <2> QED
    BY <2>1, <2>2, <1>8, Zenon

LEMMA NoScopes ==
    ASSUME NEW R
    PROVE  /\ <<>> \in Seq(R) /\ Len(<<>>) = 0
           /\ \A root : SameRoot(root, <<>>)
BY DEF SameRoot

(* A step that only changes the run scopes of threads, and what is owed,   *)
(* keeps the trees.                                                        *)
LEMMA TreesStay ==
    ASSUME ProcessesIInv, UNCHANGED <<parent, made, sessions>>,
           chain' \in [Threads -> Seq(Scopes)],
           \A t \in Threads : Len(chain'[t]) <= MaxChain,
           \A root \in [Procs -> Procs] :
               Rooted(root) /\ (\A t \in Threads : SameRoot(root, chain[t]))
                   => \A t \in Threads : SameRoot(root, chain'[t]),
           SignalTypes', CarriesAtTheEnd', SignalsAreKept', ~killed'
    PROVE  ProcessesIInv'
<1>1. PICK root \in [Procs -> Procs] :
          Rooted(root) /\ \A t \in Threads : SameRoot(root, chain[t])
  BY DEF ProcessesIInv
<1>2. Rooted(root)'
  BY <1>1 DEF Rooted, Lineage, Upward
<1>3. \A t \in Threads : SameRoot(root, chain'[t])
  BY <1>1
<1>4. \E r \in [Procs -> Procs] : Rooted(r)' /\ \A t \in Threads : SameRoot(r, chain'[t])
  BY <1>2, <1>3
<1>5. \E r \in [Procs -> Procs] : (Rooted(r) /\ \A t \in Threads : SameRoot(r, chain[t]))'
  BY <1>4 DEF SameRoot
<1>6. TreeTypes'
  BY DEF ProcessesIInv, TreeTypes, Scopes
<1> QED
  BY <1>5, <1>6 DEF ProcessesIInv

(* The process of a thread that runs exists.                               *)
LEMMA RunsAProcess ==
    ASSUME TreeTypes, NEW t \in Threads, chain[t] # <<>>
    PROVE  /\ chain[t] \in Seq(Scopes) /\ CurrentProc(t) = Last(chain[t]).p
           /\ CurrentProc(t) \in made /\ CurrentProc(t) # NoProc
           /\ \A n \in DOMAIN chain[t] : chain[t][n].p \in made
<1>1. chain[t] \in Seq(Scopes)
  BY DEF TreeTypes
<1>2. PICK k \in Nat : k = Len(chain[t])
  BY <1>1
<1>3. Last(chain[t]) \in Scopes
  BY <1>1, <1>2, FrontSeq
<1>4. \A n \in DOMAIN chain[t] : chain[t][n] \in Scopes
  BY <1>1
<1> QED
  BY <1>1, <1>3, <1>4, ProcessesAssumption DEF CurrentProc, Scopes, TreeTypes

LEMMA EnterProcInv ==
    ASSUME ProcessesIInv, NEW t \in Threads, NEW p \in Procs, EnterProc(t, p)
    PROVE  ProcessesIInv'
<1>1. TreeTypes /\ SignalTypes
  BY DEF ProcessesIInv
<1>2. PICK fiber \in BOOLEAN :
          chain' = [chain EXCEPT ![t] = Append(chain[t], [p |-> p, fiber |-> fiber])]
  BY DEF EnterProc
<1> DEFINE s == chain[t]
           x == [p |-> p, fiber |-> fiber]
<1>3. p \in made /\ s # <<>> /\ MayEnter(t, p) /\ x \in Scopes /\ x.p = p
      /\ Len(s) < MaxChain
  BY DEF EnterProc, Scopes
<1>4. /\ s \in Seq(Scopes) /\ CurrentProc(t) \in made /\ CurrentProc(t) # NoProc
      /\ CurrentProc(t) = Last(s).p
  BY <1>1, <1>3, RunsAProcess
<1>5. PICK k \in Nat : k = Len(s)
  BY <1>4
<1>6. Append(s, x) \in Seq(Scopes) /\ Len(Append(s, x)) = k + 1 /\ Append(s, x) # <<>>
  BY <1>3, <1>4, <1>5, AppendedSeq
<1>7. chain'[t] = Append(s, x) /\ \A u \in Threads \ {t} : chain'[u] = chain[u]
  BY <1>1, <1>2 DEF TreeTypes
<1>8. chain' \in [Threads -> Seq(Scopes)]
  BY <1>1, <1>2, <1>6 DEF TreeTypes
<1>9. \A u \in Threads : Len(chain'[u]) <= MaxChain
  <2>1. k + 1 <= MaxChain
    BY <1>3, <1>5, ProcessesAssumption
  <2> QED
    BY <2>1, <1>1, <1>6, <1>7 DEF TreeTypes
<1>10. ASSUME NEW root \in [Procs -> Procs], Rooted(root),
              \A u \in Threads : SameRoot(root, chain[u])
       PROVE  \A u \in Threads : SameRoot(root, chain'[u])
  <2>1. root[CurrentProc(t)] = root[p]
    BY <1>1, <1>3, <1>4, <1>10, RelatedInTree DEF MayEnter
  <2>2. SameRoot(root, Append(s, x))
    BY <2>1, <1>3, <1>4, <1>10, ScopesOfOneTree DEF Scopes
  <2> QED
    BY <2>2, <1>7, <1>10
<1>11. SignalTypes' /\ CarriesAtTheEnd' /\ SignalsAreKept' /\ ~killed'
  <2>1. UNCHANGED <<raised, carried, owed, killed>>
    BY DEF EnterProc
  <2> QED
    BY <2>1, <1>3, <1>7 DEF ProcessesIInv, SignalTypes, CarriesAtTheEnd, SignalsAreKept
<1>12. UNCHANGED <<parent, made, sessions>>
  BY DEF EnterProc
<1> QED
  BY <1>8, <1>9, <1>10, <1>11, <1>12, TreesStay

LEMMA LeaveInv ==
    ASSUME ProcessesIInv, NEW t \in Threads, Leave(t)
    PROVE  ProcessesIInv'
<1>1. TreeTypes /\ SignalTypes
  BY DEF ProcessesIInv
<1> DEFINE s == chain[t]
<1>2. s # <<>> /\ chain' = [chain EXCEPT ![t] = Front(s)]
  BY DEF Leave
<1>3. s \in Seq(Scopes)
  BY <1>1 DEF TreeTypes
<1>4. PICK k \in Nat : k = Len(s)
  BY <1>3
<1>5. Front(s) \in Seq(Scopes) /\ Len(Front(s)) = k - 1
  BY <1>2, <1>3, <1>4, FrontSeq
<1>7. chain'[t] = Front(s) /\ \A u \in Threads \ {t} : chain'[u] = chain[u]
  BY <1>1, <1>2 DEF TreeTypes
<1>8. chain' \in [Threads -> Seq(Scopes)]
  BY <1>1, <1>2, <1>5 DEF TreeTypes
<1>9. \A u \in Threads : Len(chain'[u]) <= MaxChain
  <2>1. k - 1 <= MaxChain
    BY <1>1, <1>4, ProcessesAssumption DEF TreeTypes
  <2> QED
    BY <2>1, <1>1, <1>5, <1>7 DEF TreeTypes
<1>10. ASSUME NEW root \in [Procs -> Procs], Rooted(root),
              \A u \in Threads : SameRoot(root, chain[u])
       PROVE  \A u \in Threads : SameRoot(root, chain'[u])
  <2>1. SameRoot(root, Front(s))
    BY <1>2, <1>3, <1>10, ScopesOfOneTree DEF Scopes
  <2> QED
    BY <2>1, <1>7, <1>10
<1>11. SignalTypes' /\ CarriesAtTheEnd' /\ SignalsAreKept' /\ ~killed'
  <2>1. UNCHANGED <<raised, carried, owed, killed>>
    BY DEF Leave
  <2> QED
    BY <2>1, <1>2, <1>7 DEF ProcessesIInv, SignalTypes, CarriesAtTheEnd, SignalsAreKept
<1>12. UNCHANGED <<parent, made, sessions>>
  BY DEF Leave
<1> QED
  BY <1>8, <1>9, <1>10, <1>11, <1>12, TreesStay

LEMMA StartAsyncInv ==
    ASSUME ProcessesIInv, NEW w \in Threads, StartAsync(w)
    PROVE  ProcessesIInv'
<1>1. TreeTypes /\ SignalTypes
  BY DEF ProcessesIInv
<1> DEFINE x == [p |-> CurrentProc(MainThread), fiber |-> FALSE]
           s == chain[MainThread]
<1>2. /\ chain[MainThread] # <<>> /\ chain[w] = <<>> /\ carried[w] = Idle
      /\ chain' = [chain EXCEPT ![w] = <<x>>]
  BY DEF StartAsync
<1>3. MainThread \in Threads /\ s \in Seq(Scopes) /\ x \in Scopes
      /\ x.p = CurrentProc(MainThread)
  BY <1>1, <1>2, RunsAProcess, ProcessesAssumption DEF Scopes
<1> HIDE DEF x
<1>4. <<x>> \in Seq(Scopes) /\ Len(<<x>>) = 1 /\ <<x>> # <<>>
  BY <1>3
<1>7. chain'[w] = <<x>> /\ \A u \in Threads \ {w} : chain'[u] = chain[u]
  BY <1>1, <1>2 DEF TreeTypes
<1>8. chain' \in [Threads -> Seq(Scopes)]
  BY <1>1, <1>2, <1>4 DEF TreeTypes
<1>9. \A u \in Threads : Len(chain'[u]) <= MaxChain
  <2>1. 1 <= MaxChain
    BY ProcessesAssumption
  <2>2. Len(chain'[w]) <= MaxChain
    BY <2>1, <1>4, <1>7
  <2> QED
    BY <2>2, <1>1, <1>7 DEF TreeTypes
<1>10. ASSUME NEW root \in [Procs -> Procs], Rooted(root),
              \A u \in Threads : SameRoot(root, chain[u])
       PROVE  \A u \in Threads : SameRoot(root, chain'[u])
  <2>1. SameRoot(root, <<x>>)
    BY <1>2, <1>3, <1>10, ScopesOfOneTree DEF Scopes
  <2> QED
    BY <2>1, <1>7, <1>10
<1>11. SignalTypes' /\ CarriesAtTheEnd' /\ SignalsAreKept' /\ ~killed'
  <2>1. UNCHANGED <<raised, carried, owed, killed>>
    BY DEF StartAsync
  <2> QED
    BY <2>1, <1>2, <1>7 DEF ProcessesIInv, SignalTypes, CarriesAtTheEnd, SignalsAreKept
<1>12. UNCHANGED <<parent, made, sessions>>
  BY DEF StartAsync
<1> QED
  BY <1>8, <1>9, <1>10, <1>11, <1>12, TreesStay

(* A thread that unwinds, to its session or altogether.                    *)
LEMMA UnwindInv ==
    ASSUME ProcessesIInv, NEW t \in Threads, chain[t] # <<>>,
           NEW u \in {<<>>, <<Head(chain[t])>>}, chain' = [chain EXCEPT ![t] = u],
           UNCHANGED <<parent, made, sessions>>,
           SignalTypes', CarriesAtTheEnd', SignalsAreKept', ~killed'
    PROVE  ProcessesIInv'
<1>1. TreeTypes
  BY DEF ProcessesIInv
<1>2. chain[t] \in Seq(Scopes)
  BY <1>1 DEF TreeTypes
<1>3. u \in Seq(Scopes) /\ Len(u) <= 1
  <2>1. Head(chain[t]) \in Scopes
    BY <1>2
  <2>2. CASE u = <<>>
    BY <2>2
  <2>3. CASE u = <<Head(chain[t])>>
    BY <2>1, <2>3
  <2> QED
    BY <2>2, <2>3
<1>4. chain'[t] = u /\ \A v \in Threads \ {t} : chain'[v] = chain[v]
  BY <1>1 DEF TreeTypes
<1>5. chain' \in [Threads -> Seq(Scopes)]
  BY <1>1, <1>3 DEF TreeTypes
<1>6. \A v \in Threads : Len(chain'[v]) <= MaxChain
  <2>1. Len(u) <= MaxChain
    BY <1>3, ProcessesAssumption
  <2> QED
    BY <2>1, <1>1, <1>4 DEF TreeTypes
<1>7. ASSUME NEW root \in [Procs -> Procs], Rooted(root),
             \A v \in Threads : SameRoot(root, chain[v])
      PROVE  \A v \in Threads : SameRoot(root, chain'[v])
  <2>1. SameRoot(root, u)
    <3>1. Head(chain[t]) \in Scopes
      BY <1>2
    <3>2. SameRoot(root, <<Head(chain[t])>>)
      BY <3>1, <1>2, <1>7, ScopesOfOneTree DEF Scopes
    <3> QED
      BY <3>2, NoScopes
  <2> QED
    BY <2>1, <1>4, <1>7
<1> QED
  BY <1>5, <1>6, <1>7, TreesStay

LEMMA PollInv ==
    ASSUME ProcessesIInv, NEW t \in Threads, Poll(t)
    PROVE  ProcessesIInv'
<1> DEFINE sig == IF "sigint" \in raised THEN "sigint" ELSE "exit"
<1>1. TreeTypes /\ SignalTypes /\ CarriesAtTheEnd /\ SignalsAreKept /\ ~killed
  BY DEF ProcessesIInv
<1>2. PICK root \in [Procs -> Procs] : Rooted(root)
  BY DEF ProcessesIInv
<1>3. chain[t] # <<>> /\ CurrentProc(t) \in made
  BY <1>1, RunsAProcess DEF Poll
<1>4. Session(CurrentProc(t)) \in sessions
  BY <1>1, <1>2, <1>3, SessionIsRoot
<1>5. sig \in Signals /\ raised' = raised \ {sig} /\ UNCHANGED <<parent, made, sessions, killed>>
  BY <1>4 DEF Poll, FlagsAfter, Signals
<1>6. \E u \in {<<>>, <<Head(chain[t])>>} : chain' = [chain EXCEPT ![t] = u]
  BY <1>4 DEF Poll
<1>7. \/ owed' = owed \ {sig} /\ carried' = carried
      \/ owed' = owed /\ carried' = [carried EXCEPT ![t] = sig] /\ chain' = [chain EXCEPT ![t] = <<>>]
  BY <1>4 DEF Poll
<1> HIDE DEF sig
<1>8. carried[t] = Idle /\ Idle \notin Signals
  BY <1>1, <1>3 DEF CarriesAtTheEnd, Idle, Signals
<1>9. \A v \in Threads \ {t} : chain'[v] = chain[v]
  BY <1>1, <1>6 DEF TreeTypes
<1>10. SignalTypes'
  BY <1>1, <1>5, <1>7 DEF SignalTypes
<1>11. CarriesAtTheEnd'
  BY <1>1, <1>6, <1>7, <1>8, <1>9 DEF CarriesAtTheEnd, TreeTypes, SignalTypes
<1>12. SignalsAreKept'
  <2>1. CASE owed' = owed \ {sig} /\ carried' = carried
    BY <2>1, <1>1, <1>5 DEF SignalsAreKept
  <2>2. CASE owed' = owed /\ carried' = [carried EXCEPT ![t] = sig]
    <3>1. carried'[t] = sig /\ \A v \in Threads \ {t} : carried'[v] = carried[v]
      BY <2>2, <1>1 DEF SignalTypes
    <3> SUFFICES ASSUME NEW g \in owed
                 PROVE  g \in raised' \/ \E v \in Threads : carried'[v] = g
      BY <2>2 DEF SignalsAreKept
    <3>2. g \in Signals /\ (g \in raised \/ \E v \in Threads : carried[v] = g)
      BY <1>1 DEF SignalsAreKept, SignalTypes
    <3> QED
      BY <3>1, <3>2, <1>5, <1>8
  <2> QED
    BY <1>7, <2>1, <2>2
<1> QED
  BY <1>1, <1>3, <1>5, <1>6, <1>10, <1>11, <1>12, UnwindInv

LEMMA TakeFutureInv ==
    ASSUME ProcessesIInv, NEW w \in Threads, TakeFuture(w)
    PROVE  ProcessesIInv'
<1>1. TreeTypes /\ SignalTypes /\ CarriesAtTheEnd /\ SignalsAreKept /\ ~killed
  BY DEF ProcessesIInv
<1>2. /\ chain[w] = <<>> /\ carried[w] # Idle /\ chain[MainThread] # <<>>
      /\ carried' = [carried EXCEPT ![w] = Idle]
      /\ owed' = owed \ {carried[w]}
      /\ UNCHANGED <<parent, made, sessions, raised, killed>>
      /\ \E u \in {<<>>, <<Head(chain[MainThread])>>} :
             chain' = [chain EXCEPT ![MainThread] = u]
  BY DEF TakeFuture
<1>3. MainThread \in Threads /\ MainThread # w
  BY <1>2, ProcessesAssumption
<1>4. \A v \in Threads \ {MainThread} : chain'[v] = chain[v]
  BY <1>1, <1>2 DEF TreeTypes
<1>5. carried'[w] = Idle /\ \A v \in Threads \ {w} : carried'[v] = carried[v]
  BY <1>1, <1>2 DEF SignalTypes
<1>6. SignalTypes'
  BY <1>1, <1>2 DEF SignalTypes
<1>7. CarriesAtTheEnd'
  <2> SUFFICES ASSUME NEW v \in Threads, chain'[v] # <<>>
               PROVE  carried'[v] = Idle
    BY DEF CarriesAtTheEnd
  <2>1. CASE v = MainThread
    BY <2>1, <1>1, <1>2, <1>3, <1>5 DEF CarriesAtTheEnd
  <2>2. CASE v # MainThread
    BY <2>2, <1>1, <1>4, <1>5 DEF CarriesAtTheEnd
  <2> QED
    BY <2>1, <2>2
<1>8. SignalsAreKept'
  <2> SUFFICES ASSUME NEW g \in owed, g # carried[w]
               PROVE  g \in raised \/ \E v \in Threads : carried'[v] = g
    BY <1>2 DEF SignalsAreKept
  <2> QED
    BY <1>1, <1>5 DEF SignalsAreKept
<1> QED
  BY <1>1, <1>2, <1>3, <1>6, <1>7, <1>8, UnwindInv

LEMMA RaiseSignalInv ==
    ASSUME ProcessesIInv, NEW g \in Signals, RaiseSignal(g)
    PROVE  ProcessesIInv'
<1>1. TreeTypes /\ SignalTypes /\ CarriesAtTheEnd /\ SignalsAreKept /\ ~killed
  BY DEF ProcessesIInv
<1>2. /\ raised' = raised \cup {g} /\ owed' = owed \cup {g}
      /\ UNCHANGED <<parent, made, sessions, chain, carried, killed>>
  BY DEF RaiseSignal
<1>3. SignalTypes' /\ CarriesAtTheEnd' /\ SignalsAreKept' /\ ~killed'
  BY <1>1, <1>2 DEF SignalTypes, CarriesAtTheEnd, SignalsAreKept
<1> QED
  BY <1>1, <1>2, <1>3, TreesStay DEF TreeTypes

(* A session is a tree of its own.                                         *)
LEMMA CreateContextInv ==
    ASSUME ProcessesIInv, NEW p \in Procs, CreateContext(p)
    PROVE  ProcessesIInv'
<1>1. TreeTypes /\ SignalTypes /\ CarriesAtTheEnd /\ SignalsAreKept /\ ~killed
  BY DEF ProcessesIInv
<1>2. PICK root \in [Procs -> Procs] : Rooted(root)
  BY DEF ProcessesIInv
<1> DEFINE x == [p |-> p, fiber |-> FALSE]
           new == [root EXCEPT ![p] = p]
<1>3. /\ p \notin made /\ \A t \in Threads : chain[t] = <<>> /\ carried[t] = Idle
      /\ made' = made \cup {p} /\ sessions' = sessions \cup {p}
      /\ chain' = [chain EXCEPT ![MainThread] = <<x>>]
      /\ UNCHANGED <<parent, raised, carried, owed, killed>>
  BY DEF CreateContext
<1>4. x \in Scopes' /\ x.p = p /\ MainThread \in Threads
  BY <1>3, ProcessesAssumption DEF Scopes
<1>5. new \in [Procs -> Procs] /\ new[p] = p /\ \A q \in made : new[q] = root[q]
  BY <1>1, <1>3 DEF TreeTypes
<1> HIDE DEF x, new
<1>6. chain'[MainThread] = <<x>> /\ \A t \in Threads \ {MainThread} : chain'[t] = <<>>
  BY <1>1, <1>3, <1>4 DEF TreeTypes
<1>7. /\ <<x>> \in Seq(Scopes') /\ Len(<<x>>) = 1 /\ <<>> \in Seq(Scopes')
      /\ \A n \in DOMAIN <<x>> : <<x>>[n] = x
  BY <1>4
<1>8. chain' \in [Threads -> Seq(Scopes')]
  BY <1>1, <1>3, <1>6, <1>7 DEF TreeTypes
<1>9. TreeTypes'
  <2>1. 1 <= MaxChain /\ 0 <= MaxChain /\ Len(<<>>) = 0
    BY ProcessesAssumption
  <2>2. \A t \in Threads : Len(chain'[t]) <= MaxChain
    BY <2>1, <1>6, <1>7
  <2> QED
    BY <2>2, <1>1, <1>3, <1>8 DEF TreeTypes
<1>10. Rooted(new)'
  <2>1. \A q : Lineage(q)' = Lineage(q)
    BY <1>3 DEF Lineage, Upward
  <2>2. parent[p] = NoProc /\ p \in Lineage(p)
    BY <1>1, <1>3 DEF TreeTypes, Lineage
  <2>3. ASSUME NEW q \in made
        PROVE  /\ new[q] \in sessions /\ new[q] \in Lineage(q) /\ parent[new[q]] = NoProc
               /\ parent[q] = NoProc => new[q] = q
               /\ parent[q] # NoProc => parent[q] \in made /\ new[parent[q]] = new[q]
    BY <1>2, <1>5 DEF Rooted
  <2> QED
    BY <2>1, <2>2, <2>3, <1>3, <1>5 DEF Rooted
<1>11. \A t \in Threads : SameRoot(new, chain'[t])
  BY <1>6, <1>7, NoScopes DEF SameRoot
<1>12. \E r \in [Procs -> Procs] :
           (Rooted(r) /\ \A t \in Threads : SameRoot(r, chain[t]))'
  BY <1>5, <1>10, <1>11 DEF SameRoot
<1>13. SignalTypes' /\ CarriesAtTheEnd' /\ SignalsAreKept' /\ ~killed'
  BY <1>1, <1>3 DEF SignalTypes, CarriesAtTheEnd, SignalsAreKept
<1> QED
  BY <1>9, <1>12, <1>13 DEF ProcessesIInv

(* The process current_owner() finds exists.                               *)
LEMMA ForkParentExists ==
    ASSUME TreeTypes, NEW t \in Threads, chain[t] # <<>>
    PROVE  ForkParent(t) \in made
<1> DEFINE fibers == {n \in DOMAIN chain[t] : chain[t][n].fiber}
<1>1. /\ chain[t] \in Seq(Scopes) /\ CurrentProc(t) \in made
      /\ \A n \in DOMAIN chain[t] : chain[t][n].p \in made
  BY RunsAProcess
<1>2. PICK k \in Nat : k = Len(chain[t]) /\ DOMAIN chain[t] = 1 .. k
  BY <1>1
<1>3. CASE fibers = {}
  BY <1>1, <1>3 DEF ForkParent
<1>4. CASE fibers # {}
  <2>1. fibers \in SUBSET (0 .. k) /\ fibers \subseteq DOMAIN chain[t]
    BY <1>2
  <2> HIDE DEF fibers
  <2>2. \E n \in fibers : \A m \in fibers : m <= n
    BY <2>1, <1>4, LastPosition
  <2>3. (CHOOSE n \in fibers : \A m \in fibers : m <= n) \in fibers
    BY <2>2
  <2> QED
    BY <2>1, <2>3, <1>1, <1>4 DEF ForkParent, fibers
<1> QED
  BY <1>3, <1>4

(* A fork joins the tree of its parent.                                    *)
LEMMA ForkInv ==
    ASSUME ProcessesIInv, NEW t \in Threads, NEW p \in Procs, Fork(t, p)
    PROVE  ProcessesIInv'
<1>1. TreeTypes /\ SignalTypes /\ CarriesAtTheEnd /\ SignalsAreKept /\ ~killed
  BY DEF ProcessesIInv
<1>2. PICK root \in [Procs -> Procs] :
          Rooted(root) /\ \A u \in Threads : SameRoot(root, chain[u])
  BY DEF ProcessesIInv
<1>f. PICK f \in made : f = ForkParent(t)
  BY <1>1, ForkParentExists DEF Fork
<1> DEFINE new == [root EXCEPT ![p] = root[f]]
<1>3. /\ p \notin made /\ chain[t] # <<>> /\ made' = made \cup {p}
      /\ parent' = [parent EXCEPT ![p] = f]
      /\ UNCHANGED <<sessions, chain, raised, carried, owed, killed>>
  BY <1>f DEF Fork
<1>4. f \in made /\ f \in Procs /\ f # NoProc /\ f # p
  BY <1>1, <1>3, ProcessesAssumption DEF TreeTypes
<1>5. /\ new \in [Procs -> Procs] /\ new[p] = root[f]
      /\ \A q \in made : new[q] = root[q]
  BY <1>1, <1>3, <1>4 DEF TreeTypes
<1>6. parent'[p] = f /\ \A q \in Procs \ {p} : parent'[q] = parent[q]
  BY <1>1, <1>3 DEF TreeTypes
<1> HIDE DEF new
<1>7. made \subseteq Procs /\ parent[p] = NoProc
  BY <1>1, <1>3 DEF TreeTypes
<1>8. ASSUME NEW q \in made
      PROVE  root[q] \in Lineage(q)'
  <2>1. root[q] \in Lineage(q) /\ root[q] \in Procs
    BY <1>2, <1>7 DEF Rooted, Lineage
  <2>2. ASSUME NEW S \in SUBSET Procs, q \in S, \A r \in S : parent'[r] = NoProc \/ parent'[r] \in S
        PROVE  root[q] \in S
    <3>1. Upward(S)
      BY <2>2, <1>6, <1>7 DEF Upward
    <3> QED
      BY <3>1, <2>1, <2>2 DEF Lineage
  <2> QED
    BY <2>1, <2>2 DEF Lineage, Upward
<1>9. root[f] \in Lineage(p)'
  <2>1. root[f] \in Lineage(f)' /\ root[f] \in Procs
    BY <1>4, <1>8
  <2>2. ASSUME NEW S \in SUBSET Procs, p \in S, \A r \in S : parent'[r] = NoProc \/ parent'[r] \in S
        PROVE  root[f] \in S
    <3>1. f \in S
      BY <2>2, <1>4, <1>6
    <3> QED
      BY <3>1, <2>1, <2>2 DEF Lineage, Upward
  <2> QED
    BY <2>1, <2>2 DEF Lineage, Upward
<1>10. ASSUME NEW q \in made'
       PROVE  /\ new[q] \in sessions /\ new[q] \in Lineage(q)' /\ parent'[new[q]] = NoProc
              /\ parent'[q] = NoProc => new[q] = q
              /\ parent'[q] # NoProc => parent'[q] \in made' /\ new[parent'[q]] = new[q]
  <2>0. ASSUME NEW g \in made
        PROVE  /\ root[g] \in sessions /\ root[g] \in made /\ root[g] # p
               /\ parent[root[g]] = NoProc /\ parent'[root[g]] = NoProc
               /\ parent[g] = NoProc => root[g] = g
               /\ parent[g] # NoProc => parent[g] \in made /\ root[parent[g]] = root[g]
    <3>1. root[g] \in sessions /\ sessions \subseteq made /\ parent[root[g]] = NoProc
      BY <1>1, <1>2 DEF Rooted, TreeTypes
    <3> QED
      BY <3>1, <1>2, <1>3, <1>6, <1>7 DEF Rooted
  <2>1. CASE q = p
    BY <2>0, <2>1, <1>3, <1>4, <1>5, <1>6, <1>9
  <2>2. CASE q \in made
    BY <2>0, <2>2, <1>3, <1>5, <1>6, <1>7, <1>8
  <2> QED
    BY <2>1, <2>2, <1>3
<1>11. Rooted(new)'
  BY <1>3, <1>10 DEF Rooted
<1>12. ASSUME NEW u \in Threads
       PROVE  SameRoot(new, chain'[u])
  <2>1. chain[u] \in Seq(Scopes)
    BY <1>1 DEF TreeTypes
  <2>2. \A n \in DOMAIN chain[u] : chain[u][n].p \in made
    <3>1. \A n \in DOMAIN chain[u] : chain[u][n] \in Scopes
      BY <2>1
    <3> QED
      BY <3>1 DEF Scopes
  <2> QED
    BY <2>2, <1>2, <1>3, <1>5 DEF SameRoot
<1>13. \E r \in [Procs -> Procs] :
           (Rooted(r) /\ \A u \in Threads : SameRoot(r, chain[u]))'
  BY <1>5, <1>11, <1>12 DEF SameRoot
<1>14. TreeTypes'
  <2>1. \A u \in Threads : chain[u] \in Seq(Scopes')
    <3>1. Scopes \subseteq Scopes'
      BY <1>3 DEF Scopes
    <3> QED
      BY <3>1, <1>1, SeqMonotonic DEF TreeTypes
  <2>2. chain' \in [Threads -> Seq(Scopes')]
    BY <2>1, <1>1, <1>3 DEF TreeTypes
  <2>3. parent' \in [Procs -> Procs \cup {NoProc}]
    BY <1>1, <1>3, <1>4 DEF TreeTypes
  <2> QED
    BY <2>2, <2>3, <1>1, <1>3, <1>6 DEF TreeTypes
<1>15. SignalTypes' /\ CarriesAtTheEnd' /\ SignalsAreKept' /\ ~killed'
  BY <1>1, <1>3 DEF SignalTypes, CarriesAtTheEnd, SignalsAreKept
<1> QED
  BY <1>13, <1>14, <1>15 DEF ProcessesIInv

LEMMA ProcessesInitInv == ProcessesInit => ProcessesIInv
<1> SUFFICES ASSUME ProcessesInit
             PROVE  ProcessesIInv
  OBVIOUS
<1>1. TreeTypes /\ SignalTypes /\ CarriesAtTheEnd /\ SignalsAreKept /\ ~killed
  <2>1. 0 <= MaxChain /\ \A R : <<>> \in Seq(R) /\ Len(<<>>) = 0
    BY ProcessesAssumption
  <2> QED
    BY <2>1 DEF ProcessesInit, TreeTypes, SignalTypes, CarriesAtTheEnd, SignalsAreKept
<1> DEFINE root == [p \in Procs |-> p]
<1>2. root \in [Procs -> Procs] /\ Rooted(root) /\ \A t \in Threads : SameRoot(root, chain[t])
  BY NoScopes DEF ProcessesInit, Rooted
<1> QED
  BY <1>1, <1>2 DEF ProcessesIInv

LEMMA ProcessesNextInv == ProcessesIInv /\ [ProcessesNext]_processesVars => ProcessesIInv'
<1> SUFFICES ASSUME ProcessesIInv, [ProcessesNext]_processesVars
             PROVE  ProcessesIInv'
  OBVIOUS
<1>1. CASE UNCHANGED processesVars
  <2>1. UNCHANGED <<parent, made, sessions, chain, raised, carried, owed, killed>>
    BY <1>1 DEF processesVars
  <2>2. /\ TreeTypes /\ SignalTypes' /\ CarriesAtTheEnd' /\ SignalsAreKept' /\ ~killed'
    BY <2>1 DEF ProcessesIInv, SignalTypes, CarriesAtTheEnd, SignalsAreKept
  <2> QED
    BY <2>1, <2>2, TreesStay DEF TreeTypes
<1>2. CASE \E p \in Procs : CreateContext(p)
  BY <1>2, CreateContextInv
<1>3. CASE \E t \in Threads, p \in Procs : EnterProc(t, p) \/ Fork(t, p)
  BY <1>3, EnterProcInv, ForkInv
<1>4. CASE \E t \in Threads : Leave(t) \/ Poll(t) \/ StartAsync(t) \/ TakeFuture(t)
  BY <1>4, LeaveInv, PollInv, StartAsyncInv, TakeFutureInv
<1>5. CASE \E g \in Signals : RaiseSignal(g)
  BY <1>5, RaiseSignalInv
<1> QED
  BY <1>1, <1>2, <1>3, <1>4, <1>5 DEF ProcessesNext

(* The trees of processes and the signals under way, in every state of any *)
(* number of threads (process_context, poll_event).                        *)
THEOREM ProcessesInvariant == ProcessesSpec => []ProcessesIInv
BY ProcessesInitInv, ProcessesNextInv, PTL DEF ProcessesSpec

(* Whatever processes a thread enters belong to its session, no signal is  *)
(* swallowed, and an exit goes through the listeners of the session.       *)
THEOREM ProcessesCorrect == ProcessesSpec => []ProcessesInv
<1>1. ProcessesIInv => ProcessesInv
  <2> SUFFICES ASSUME ProcessesIInv
               PROVE  ProcessesInv
    OBVIOUS
  <2>1. TreeTypes /\ SignalTypes /\ SignalsAreKept /\ ~killed
    BY DEF ProcessesIInv
  <2>2. \A t \in Threads : \A n \in DOMAIN chain[t] : chain[t][n].p \in made
    <3> SUFFICES ASSUME NEW t \in Threads, NEW n \in DOMAIN chain[t]
                 PROVE  chain[t][n].p \in made
      OBVIOUS
    <3>1. chain[t] \in Seq(Scopes)
      BY <2>1 DEF TreeTypes
    <3>2. chain[t][n] \in Scopes
      BY <3>1
    <3> QED
      BY <3>2 DEF Scopes
  <2>3. ProcessesTypeOK
    BY <2>1, <2>2 DEF ProcessesTypeOK, TreeTypes, SignalTypes
  <2>4. PICK root \in [Procs -> Procs] :
            Rooted(root) /\ \A t \in Threads : SameRoot(root, chain[t])
    BY DEF ProcessesIInv
  <2>5. OneSessionPerThread
    <3> SUFFICES ASSUME NEW t \in Threads, NEW m \in DOMAIN chain[t], NEW n \in DOMAIN chain[t]
                 PROVE  Session(chain[t][m].p) = Session(chain[t][n].p)
      BY DEF OneSessionPerThread
    <3>1. Session(chain[t][m].p) = root[chain[t][m].p] /\ Session(chain[t][n].p) = root[chain[t][n].p]
      BY <2>1, <2>2, <2>4, SessionIsRoot
    <3> QED
      BY <3>1, <2>4 DEF SameRoot
  <2> QED
    BY <2>1, <2>3, <2>5 DEF ProcessesInv, ExitsThroughTheSession
<1>2. ProcessesSpec => []ProcessesIInv
  BY ProcessesInvariant
<1> QED
  BY <1>1, <1>2, PTL
-----------------------------------------------------------------------------
(***************************************************************************)
(* The module cache, for one task: imports nest.                           *)
(*                                                                         *)
(* The inductive invariant is stated of a cache m, the namespaces ls, the  *)
(* stack im of imports in progress and the namespaces h that the program   *)
(* holds, because a step changes them one after the other; R is a set that *)
(* has all that is reachable.                                              *)
(***************************************************************************)
LoadType == [key : Keys, status : {"loading", "full", "failed"},
             loader : Nat \cup {None}, uses : SUBSET Nat]
FrameType == [load : Nat, known : SUBSET Keys]
KeysOf(m) == {e.key : e \in m}
CurrentOf(im) == IF im = <<>> THEN None ELSE Last(im).load

CacheTypes(m, ls, im, h) ==
    /\ ls \in Seq(LoadType) /\ im \in Seq(FrameType)
    /\ m \subseteq [key : Keys, load : DOMAIN ls] /\ h \subseteq DOMAIN ls
    /\ \A a \in DOMAIN ls :
           /\ ls[a].uses \subseteq DOMAIN ls
           /\ ls[a].loader = None \/ (ls[a].loader \in DOMAIN ls /\ ls[a].loader < a)
    /\ \A e, f \in m : e.key = f.key => e = f

(* An import remembers the keys of the namespaces older than its own; the  *)
(* imports on the stack are each loaded from the one below.                *)
StackOK(m, ls, im) ==
    /\ \A i \in DOMAIN im :
           /\ im[i].load \in DOMAIN ls /\ im[i].known \subseteq KeysOf(m)
           /\ ls[im[i].load].loader = IF i = 1 THEN None ELSE im[i - 1].load
           /\ \A e \in m : e.key \in im[i].known <=> e.load < im[i].load
    /\ \A i, j \in DOMAIN im :
           i < j => im[i].load < im[j].load /\ im[i].known \subseteq im[j].known
    /\ \A a \in DOMAIN ls :
           ls[a].status = "loading" <=> \E i \in DOMAIN im : im[i].load = a

(* b is a, or loaded it, or loaded what loaded it, and so on.              *)
LoadedFrom(ls, a, b) ==
    \A T \in SUBSET DOMAIN ls :
        a \in T /\ (\A k \in T : ls[k].loader = None \/ ls[k].loader \in T) => b \in T

(* What an import in progress has loaded is known only to what it has      *)
(* loaded, and was loaded from it.                                         *)
EdgesOK(ls, im, h) ==
    \A i \in DOMAIN im :
        /\ \A b \in h : b < im[i].load
        /\ \A a \in DOMAIN ls :
               /\ \A b \in ls[a].uses : b >= im[i].load => a >= im[i].load
               /\ a >= im[i].load => LoadedFrom(ls, a, im[i].load)

(* All that is reachable is in the cache and has not failed.               *)
ReachOK(m, ls, im, h, R) ==
    /\ R \subseteq DOMAIN ls /\ h \subseteq R
    /\ \A e \in m : e.load \in R
    /\ \A i \in DOMAIN im : im[i].load \in R
    /\ \A a \in R :
           /\ ls[a].uses \subseteq R
           /\ ls[a].loader = None \/ ls[a].loader \in R
           /\ ls[a].status # "failed"
           /\ [key |-> ls[a].key, load |-> a] \in m

CacheOK(m, ls, im, h, R) ==
    /\ CacheTypes(m, ls, im, h)
    /\ StackOK(m, ls, im)
    /\ EdgesOK(ls, im, h)
    /\ ReachOK(m, ls, im, h, R)

ImportIInv ==
    /\ imports \in [Tasks -> Seq(FrameType)]
    /\ held \in [Tasks -> SUBSET Nat]
    /\ \A t \in Tasks :
           \E R \in SUBSET Ids : CacheOK(modules, loads, imports[t], held[t], R)

(* The import that runs is the last of the stack, and its namespace the    *)
(* youngest of those that are being loaded.                                *)
LEMMA TopOfStack ==
    ASSUME NEW im \in Seq(FrameType), im # <<>>, NEW n \in Nat, n = Len(im)
    PROVE  /\ n >= 1 /\ n \in DOMAIN im /\ DOMAIN im = 1 .. n
           /\ Last(im) = im[n] /\ CurrentOf(im) = im[n].load
           /\ \A i \in DOMAIN im : im[i].load \in Nat /\ (i = n \/ i < n)
<1>1. n >= 1 /\ DOMAIN im = 1 .. n /\ Last(im) = im[n]
  BY FrontSeq
<1>2. n \in 1 .. n /\ \A i \in 1 .. n : i = n \/ i < n
  BY <1>1
<1>3. \A i \in DOMAIN im : im[i] \in FrameType
  OBVIOUS
<1> QED
  BY <1>1, <1>2, <1>3 DEF CurrentOf, FrameType

(* A namespace is given to the code that is running.                       *)
LEMMA GiveKeeps ==
    ASSUME NEW m, NEW ls, NEW im, NEW h, NEW R, CacheOK(m, ls, im, h, R),
           im # <<>>, NEW o \in R
    PROVE  LET l == CurrentOf(im)
           IN  CacheOK(m, [ls EXCEPT ![l].uses = @ \cup {o}], im, h, R)
<1> DEFINE l == CurrentOf(im)
           ls2 == [ls EXCEPT ![l].uses = @ \cup {o}]
<1>1. /\ CacheTypes(m, ls, im, h) /\ StackOK(m, ls, im)
      /\ EdgesOK(ls, im, h) /\ ReachOK(m, ls, im, h, R)
  BY DEF CacheOK
<1>2. ls \in Seq(LoadType) /\ im \in Seq(FrameType)
  BY <1>1 DEF CacheTypes
<1>3. PICK n \in Nat : n = Len(im)
  BY <1>2
<1>4. n \in DOMAIN im /\ l = im[n].load
  BY <1>2, <1>3, TopOfStack
<1>5. l \in DOMAIN ls /\ l \in R
  BY <1>1, <1>4 DEF StackOK, ReachOK
<1>6. /\ DOMAIN ls2 = DOMAIN ls
      /\ \A a \in DOMAIN ls : /\ ls2[a] \in LoadType
                              /\ ls2[a].key = ls[a].key /\ ls2[a].status = ls[a].status
                              /\ ls2[a].loader = ls[a].loader
                              /\ ls2[a].uses = IF a = l THEN ls[a].uses \cup {o} ELSE ls[a].uses
      /\ ls2 \in Seq(LoadType)
  <2>0. o \in Nat /\ o \in DOMAIN ls
    BY <1>1, <1>2 DEF ReachOK
  <2>1. ls2 = [ls EXCEPT ![l] = [ls[l] EXCEPT !.uses = ls[l].uses \cup {o}]]
    BY <1>5
  <2> DEFINE r == [ls[l] EXCEPT !.uses = ls[l].uses \cup {o}]
  <2>2. /\ r \in LoadType /\ r.key = ls[l].key /\ r.status = ls[l].status
        /\ r.loader = ls[l].loader /\ r.uses = ls[l].uses \cup {o}
    <3>1. ls[l] \in LoadType
      BY <1>2, <1>5
    <3> QED
      BY <3>1, <2>0 DEF LoadType
  <2> HIDE DEF r
  <2>3. \A a \in DOMAIN ls : ls2[a] = IF a = l THEN r ELSE ls[a]
    BY <2>1, <1>2 DEF r
  <2>4. ls2 \in Seq(LoadType) /\ DOMAIN ls2 = DOMAIN ls
    <3>1. l \in 1 .. Len(ls)
      BY <1>2, <1>5
    <3>2. [ls EXCEPT ![l] = r] \in Seq(LoadType) /\ Len([ls EXCEPT ![l] = r]) = Len(ls)
      BY <3>1, <2>2, <1>2, ExceptSeq
    <3> QED
      BY <3>2, <2>1 DEF r
  <2>5. \A a \in DOMAIN ls : ls[a] \in LoadType
    BY <1>2
  <2> QED
    BY <2>2, <2>3, <2>4, <2>5
<1> HIDE DEF ls2, l
<1>7. o \in DOMAIN ls
  BY <1>1 DEF ReachOK
<1>8. CacheTypes(m, ls2, im, h)
  BY <1>1, <1>6, <1>7 DEF CacheTypes
<1>9. StackOK(m, ls2, im)
  BY <1>1, <1>6 DEF StackOK
<1>10. EdgesOK(ls2, im, h)
  <2>1. \A a, b : LoadedFrom(ls, a, b) => LoadedFrom(ls2, a, b)
    BY <1>6 DEF LoadedFrom
  <2>2. \A i \in DOMAIN im : l >= im[i].load
    <3> SUFFICES ASSUME NEW i \in DOMAIN im PROVE l >= im[i].load
      OBVIOUS
    <3>1. im[i].load \in Nat /\ im[n].load \in Nat
      BY <1>2, <1>3, <1>4, TopOfStack
    <3>2. i = n \/ i < n
      BY <1>2, <1>3, TopOfStack
    <3> QED
      BY <3>1, <3>2, <1>1, <1>4 DEF StackOK
  <2> QED
    BY <2>1, <2>2, <1>1, <1>6 DEF EdgesOK
<1>11. ReachOK(m, ls2, im, h, R)
  BY <1>1, <1>6 DEF ReachOK
<1> QED
  BY <1>8, <1>9, <1>10, <1>11 DEF CacheOK, ls2, l

(* A namespace is given to the program itself, between its imports.        *)
LEMMA HoldKeeps ==
    ASSUME NEW m, NEW ls, NEW im, NEW h, NEW R, CacheOK(m, ls, im, h, R),
           im = <<>>, NEW o \in R
    PROVE  CacheOK(m, ls, im, h \cup {o}, R)
BY DEF CacheOK, CacheTypes, EdgesOK, ReachOK

(* A namespace is made: of an extension, full at once, or of a source      *)
(* module, whose import is then in progress.                               *)
LEMMA LoadKeeps ==
    ASSUME NEW m, NEW ls, NEW im, NEW h, NEW R, CacheOK(m, ls, im, h, R),
           NEW k \in Keys, k \notin KeysOf(m), NEW N \in Nat, N = Len(ls) + 1,
           NEW st \in {"loading", "full"},
           NEW im2,
           st = "full" => im2 = im,
           st = "loading" => im2 = Append(im, [load |-> N, known |-> KeysOf(m)])
    PROVE  CacheOK(m \cup {[key |-> k, load |-> N]},
                   Append(ls, Namespace(k, st, CurrentOf(im))), im2, h, R \cup {N})
<1> DEFINE new == Namespace(k, st, CurrentOf(im))
           m2 == m \cup {[key |-> k, load |-> N]}
           ls2 == Append(ls, new)
           fr == [load |-> N, known |-> KeysOf(m)]
           R2 == R \cup {N}
<1>1. /\ CacheTypes(m, ls, im, h) /\ StackOK(m, ls, im)
      /\ EdgesOK(ls, im, h) /\ ReachOK(m, ls, im, h, R)
  BY DEF CacheOK
<1>2. ls \in Seq(LoadType) /\ im \in Seq(FrameType) /\ None \notin Nat
  BY <1>1, ImportAssumption DEF CacheTypes
<1>3. PICK n \in Nat : n = Len(im) /\ DOMAIN im = 1 .. n
  BY <1>2
<1>4. PICK L \in Nat : L = Len(ls) /\ DOMAIN ls = 1 .. L /\ N = L + 1
  BY <1>2
<1>5. \A a \in DOMAIN ls : a \in Nat /\ a < N /\ a # N
  BY <1>4
<1>6. im # <<>> => /\ n \in DOMAIN im /\ CurrentOf(im) = im[n].load
                   /\ CurrentOf(im) \in DOMAIN ls /\ CurrentOf(im) \in R
                   /\ CurrentOf(im) # None
  BY <1>1, <1>2, <1>3, <1>4, TopOfStack DEF StackOK, ReachOK
<1>7. im = <<>> => CurrentOf(im) = None /\ n = 0
  BY <1>3 DEF CurrentOf
<1>8. /\ new.key = k /\ new.status = st /\ new.loader = CurrentOf(im) /\ new.uses = {}
      /\ new \in LoadType
  BY <1>4, <1>6, <1>7 DEF Namespace, LoadType
<1> HIDE DEF new
<1>9. /\ ls2 \in Seq(LoadType) /\ DOMAIN ls2 = 1 .. N /\ ls2[N] = new
      /\ \A a \in DOMAIN ls : ls2[a] = ls[a]
  BY <1>2, <1>4, <1>8, AppendedSeq
<1>10. \A a : a \in DOMAIN ls2 <=> a \in DOMAIN ls \/ a = N
  BY <1>4, <1>9
<1>11. KeysOf(m) \subseteq Keys
  BY <1>1 DEF KeysOf, CacheTypes
<1>12. /\ fr \in FrameType /\ fr.load = N /\ fr.known = KeysOf(m)
       /\ im2 \in Seq(FrameType)
       /\ \A i \in DOMAIN im : i \in DOMAIN im2 /\ im2[i] = im[i]
       /\ \A i \in DOMAIN im2 : i \in DOMAIN im
                                \/ (i = n + 1 /\ st = "loading" /\ im2[i] = fr)
       /\ st = "loading" => n + 1 \in DOMAIN im2 /\ im2[n + 1] = fr
  <2>1. fr \in FrameType /\ fr.load = N /\ fr.known = KeysOf(m)
    BY <1>11 DEF FrameType
  <2>2. CASE st = "full"
    BY <2>1, <2>2, <1>2
  <2>3. CASE st = "loading"
    <3> DEFINE u == Append(im, fr)
    <3>1. /\ u \in Seq(FrameType) /\ DOMAIN u = 1 .. n + 1 /\ u[n + 1] = fr
          /\ \A i \in 1 .. n : u[i] = im[i]
      BY <1>2, <1>3, <2>1, AppendedSeq
    <3>2. im2 = u
      BY <2>3
    <3> HIDE DEF u, fr
    <3>3. /\ \A i \in 1 .. n : i \in 1 .. n + 1
          /\ \A i \in 1 .. n + 1 : i \in 1 .. n \/ i = n + 1
          /\ n + 1 \in 1 .. n + 1
      BY <1>3
    <3> QED
      BY <3>1, <3>2, <3>3, <2>1, <2>3, <1>3
  <2> QED
    BY <2>2, <2>3
<1>13. /\ \A e \in m : e \in m2 /\ e.load \in DOMAIN ls /\ e.key \in KeysOf(m)
       /\ [key |-> k, load |-> N].key = k /\ [key |-> k, load |-> N].load = N
       /\ KeysOf(m) \subseteq KeysOf(m2)
  BY <1>1 DEF CacheTypes, KeysOf
<1> DEFINE ent == [key |-> k, load |-> N]
<1>14. \A e \in m2 : e \in m \/ (e = ent /\ e.key = k /\ e.load = N)
  BY <1>13
<1> HIDE DEF m2, ls2, fr, R2, ent
<1>15. CacheTypes(m2, ls2, im2, h)
  <2>1. m2 \subseteq [key : Keys, load : DOMAIN ls2]
    <3>1. ent \in [key : Keys, load : DOMAIN ls2]
      BY <1>10 DEF ent
    <3>2. m \subseteq [key : Keys, load : DOMAIN ls2]
      BY <1>1, <1>10 DEF CacheTypes
    <3> QED
      BY <3>1, <3>2 DEF m2, ent
  <2>2. h \subseteq DOMAIN ls2
    BY <1>1, <1>10 DEF CacheTypes
  <2>3. ASSUME NEW a \in DOMAIN ls2
        PROVE  /\ ls2[a].uses \subseteq DOMAIN ls2
               /\ ls2[a].loader = None \/ (ls2[a].loader \in DOMAIN ls2 /\ ls2[a].loader < a)
    <3>1. CASE a \in DOMAIN ls
      BY <3>1, <1>1, <1>9, <1>10 DEF CacheTypes
    <3>2. CASE a = N
      BY <3>2, <1>5, <1>6, <1>7, <1>8, <1>9, <1>10
    <3> QED
      BY <3>1, <3>2, <1>10
  <2>4. \A e, f \in m2 : e.key = f.key => e = f
    <3> SUFFICES ASSUME NEW e \in m2, NEW f \in m2, e.key = f.key
                 PROVE  e = f
      OBVIOUS
    <3>1. CASE e \in m /\ f \in m
      BY <3>1, <1>1 DEF CacheTypes
    <3>2. CASE e = ent /\ f = ent
      BY <3>2
    <3>3. CASE e \in m /\ f = ent /\ f.key = k
      BY <3>3, <1>13
    <3>4. CASE f \in m /\ e = ent /\ e.key = k
      BY <3>4, <1>13
    <3> QED
      BY <3>1, <3>2, <3>3, <3>4, <1>14
  <2> QED
    BY <2>1, <2>2, <2>3, <2>4, <1>9, <1>12 DEF CacheTypes
<1>16. \A i \in DOMAIN im : im[i].load \in DOMAIN ls /\ im[i].load < N /\ im[i].load \in Nat
                            /\ im[i].known \subseteq KeysOf(m)
  BY <1>1, <1>5 DEF StackOK
<1>17. StackOK(m2, ls2, im2)
  <2>1. ASSUME NEW i \in DOMAIN im2
        PROVE  /\ im2[i].load \in DOMAIN ls2 /\ im2[i].known \subseteq KeysOf(m2)
               /\ ls2[im2[i].load].loader = IF i = 1 THEN None ELSE im2[i - 1].load
               /\ \A e \in m2 : e.key \in im2[i].known <=> e.load < im2[i].load
    <3>1. CASE i \in DOMAIN im
      <4>1. im2[i] = im[i] /\ i \in 1 .. n /\ (i = 1 \/ (i - 1 \in DOMAIN im /\ i - 1 \in 1 .. n))
        BY <3>1, <1>3, <1>12
      <4>2. im2[i].load \in DOMAIN ls2 /\ im2[i].known \subseteq KeysOf(m2)
        BY <4>1, <3>1, <1>10, <1>13, <1>16
      <4>3. ls2[im2[i].load].loader = IF i = 1 THEN None ELSE im2[i - 1].load
        BY <4>1, <3>1, <1>1, <1>9, <1>12, <1>16 DEF StackOK
      <4>4. ASSUME NEW e \in m2
            PROVE  e.key \in im2[i].known <=> e.load < im2[i].load
        <5>1. CASE e \in m
          BY <5>1, <4>1, <3>1, <1>1 DEF StackOK
        <5>2. CASE e.key = k /\ e.load = N
          <6>1. ~ (N < im[i].load)
            BY <3>1, <1>16
          <6> QED
            BY <5>2, <6>1, <4>1, <3>1, <1>16
        <5> QED
          BY <5>1, <5>2, <1>14
      <4> QED
        BY <4>2, <4>3, <4>4
    <3>2. CASE i = n + 1 /\ st = "loading" /\ im2[i] = fr
      <4>1. im2[i].load = N /\ im2[i].known = KeysOf(m)
        BY <3>2, <1>12
      <4>2. ls2[N].loader = IF i = 1 THEN None ELSE im2[i - 1].load
        <5>1. CASE im = <<>>
          BY <5>1, <3>2, <1>7, <1>8, <1>9
        <5>2. CASE im # <<>>
          <6>1. n >= 1 /\ i - 1 = n /\ i # 1
            BY <5>2, <3>2, <1>2, <1>3, TopOfStack
          <6> QED
            BY <6>1, <5>2, <1>6, <1>8, <1>9, <1>12
        <5> QED
          BY <5>1, <5>2
      <4>3. \A e \in m2 : e.key \in KeysOf(m) <=> e.load < N
        BY <1>5, <1>13, <1>14
      <4> QED
        BY <4>1, <4>2, <4>3, <1>10, <1>13
    <3> QED
      BY <3>1, <3>2, <1>12
  <2>2. ASSUME NEW i \in DOMAIN im2, NEW j \in DOMAIN im2, i < j
        PROVE  im2[i].load < im2[j].load /\ im2[i].known \subseteq im2[j].known
    <3>0. \A x \in DOMAIN im : x \in Nat /\ x <= n
      BY <1>3
    <3>1. CASE i \in DOMAIN im /\ j \in DOMAIN im
      BY <3>1, <2>2, <1>1, <1>12 DEF StackOK
    <3>2. CASE i \in DOMAIN im /\ j = n + 1 /\ im2[j] = fr
      BY <3>2, <1>12, <1>16
    <3>3. CASE i = n + 1 /\ j \in DOMAIN im
      BY <3>0, <3>3, <2>2
    <3>4. CASE i = n + 1 /\ j = n + 1
      BY <3>4, <2>2
    <3> QED
      BY <3>1, <3>2, <3>3, <3>4, <1>12
  <2>3. ASSUME NEW a \in DOMAIN ls2
        PROVE  ls2[a].status = "loading" <=> \E i \in DOMAIN im2 : im2[i].load = a
    <3>1. CASE a \in DOMAIN ls
      <4>1. (\E i \in DOMAIN im2 : im2[i].load = a) <=> \E i \in DOMAIN im : im[i].load = a
        BY <3>1, <1>5, <1>12
      <4> QED
        BY <3>1, <4>1, <1>1, <1>9 DEF StackOK
    <3>2. CASE a = N
      <4>1. (\E i \in DOMAIN im2 : im2[i].load = N) <=> st = "loading"
        BY <1>5, <1>12, <1>16
      <4> QED
        BY <3>2, <4>1, <1>8, <1>9
    <3> QED
      BY <3>1, <3>2, <1>10
  <2> QED
    BY <2>1, <2>2, <2>3 DEF StackOK
<1>18. EdgesOK(ls2, im2, h)
  <2>1. ASSUME NEW a \in DOMAIN ls, NEW b, LoadedFrom(ls, a, b)
        PROVE  LoadedFrom(ls2, a, b)
    <3> SUFFICES ASSUME NEW T \in SUBSET DOMAIN ls2, a \in T,
                        \A x \in T : ls2[x].loader = None \/ ls2[x].loader \in T
                 PROVE  b \in T
      BY DEF LoadedFrom
    <3> DEFINE U == T \cap DOMAIN ls
    <3>1. a \in U /\ U \in SUBSET DOMAIN ls
      OBVIOUS
    <3>2. \A x \in U : ls[x].loader = None \/ ls[x].loader \in U
      BY <1>1, <1>9 DEF CacheTypes
    <3> QED
      BY <3>1, <3>2, <2>1 DEF LoadedFrom
  <2>2. ASSUME NEW i \in DOMAIN im
        PROVE  LoadedFrom(ls2, N, im[i].load)
    <3>1. im # <<>>
      BY <1>3
    <3> DEFINE c == CurrentOf(im)
    <3>2. c \in DOMAIN ls /\ c >= im[i].load /\ c # None
      <4>1. im[i].load \in Nat /\ im[n].load \in Nat /\ (i = n \/ i < n) /\ n \in DOMAIN im
        BY <3>1, <1>2, <1>3, TopOfStack
      <4> QED
        BY <4>1, <3>1, <1>1, <1>6 DEF StackOK
    <3> HIDE DEF c
    <3>3. LoadedFrom(ls2, c, im[i].load)
      BY <3>2, <2>1, <1>1 DEF EdgesOK
    <3>4. N \in DOMAIN ls2 /\ ls2[N].loader = c
      BY <1>8, <1>9, <1>10 DEF c
    <3> QED
      BY <3>2, <3>3, <3>4 DEF LoadedFrom
  <2>3. LoadedFrom(ls2, N, N)
    BY DEF LoadedFrom
  <2>4. ASSUME NEW i \in DOMAIN im
        PROVE  /\ \A b \in h : b < im[i].load
               /\ \A a \in DOMAIN ls2 :
                      /\ \A b \in ls2[a].uses : b >= im[i].load => a >= im[i].load
                      /\ a >= im[i].load => LoadedFrom(ls2, a, im[i].load)
    <3>1. \A b \in h : b < im[i].load
      BY <1>1 DEF EdgesOK
    <3>2. ASSUME NEW a \in DOMAIN ls
          PROVE  /\ \A b \in ls2[a].uses : b >= im[i].load => a >= im[i].load
                 /\ a >= im[i].load => LoadedFrom(ls2, a, im[i].load)
      BY <2>1, <1>1, <1>9 DEF EdgesOK
    <3>3. ls2[N].uses = {}
      BY <1>8, <1>9
    <3> QED
      BY <3>1, <3>2, <3>3, <2>2, <1>10
  <2>5. /\ \A b \in h : b < N
        /\ \A a \in DOMAIN ls2 :
               /\ \A b \in ls2[a].uses : b >= N => a >= N
               /\ a >= N => LoadedFrom(ls2, a, N)
    <3>1. \A b \in h : b < N
      BY <1>1, <1>5 DEF CacheTypes
    <3>2. ASSUME NEW a \in DOMAIN ls
          PROVE  ~ (a >= N) /\ \A b \in ls2[a].uses : ~ (b >= N)
      BY <1>1, <1>5, <1>9 DEF CacheTypes
    <3>3. ls2[N].uses = {}
      BY <1>8, <1>9
    <3> QED
      BY <3>1, <3>2, <3>3, <2>3, <1>10
  <2>6. ASSUME NEW i \in DOMAIN im2
        PROVE  im2[i].load = N \/ (i \in DOMAIN im /\ im2[i] = im[i])
    BY <1>12
  <2> QED
    BY <2>4, <2>5, <2>6 DEF EdgesOK
<1>19. ReachOK(m2, ls2, im2, h, R2)
  <2>1. R2 \subseteq DOMAIN ls2 /\ h \subseteq R2 /\ N \in R2 /\ R \subseteq R2
    BY <1>1, <1>10 DEF ReachOK, R2
  <2>2. \A e \in m2 : e.load \in R2
    BY <2>1, <1>1, <1>14 DEF ReachOK
  <2>3. \A i \in DOMAIN im2 : im2[i].load \in R2
    BY <2>1, <1>1, <1>12 DEF ReachOK
  <2>4. ASSUME NEW a \in R
        PROVE  /\ ls2[a].uses \subseteq R2
               /\ ls2[a].loader = None \/ ls2[a].loader \in R2
               /\ ls2[a].status # "failed"
               /\ [key |-> ls2[a].key, load |-> a] \in m2
    <3>1. a \in DOMAIN ls /\ ls2[a] = ls[a]
      BY <1>1, <1>9 DEF ReachOK
    <3> QED
      BY <3>1, <2>1, <1>1, <1>13 DEF ReachOK
  <2>5. /\ ls2[N].uses \subseteq R2
        /\ ls2[N].loader = None \/ ls2[N].loader \in R2
        /\ ls2[N].status # "failed"
        /\ [key |-> ls2[N].key, load |-> N] \in m2
    <3>1. [key |-> ls2[N].key, load |-> N] \in m2
      BY <1>8, <1>9 DEF m2
    <3> QED
      BY <3>1, <2>1, <1>6, <1>7, <1>8, <1>9
  <2> QED
    BY <2>1, <2>2, <2>3, <2>4, <2>5 DEF ReachOK, R2
<1> QED
  BY <1>15, <1>17, <1>18, <1>19 DEF CacheOK, m2, ls2, R2, new, ent

(* The last import is taken off the stack.                                 *)
LEMMA PoppedStack ==
    ASSUME NEW m, NEW ls, NEW im \in Seq(FrameType), StackOK(m, ls, im), im # <<>>,
           NEW n \in Nat, n = Len(im)
    PROVE  /\ Front(im) \in Seq(FrameType) /\ DOMAIN Front(im) = 1 .. n - 1
           /\ \A i \in DOMAIN Front(im) :
                  /\ i \in DOMAIN im /\ Front(im)[i] = im[i] /\ im[i].load < im[n].load
                  /\ im[i].known \subseteq im[n].known
                  /\ i = 1 \/ (i - 1 \in DOMAIN Front(im) /\ i - 1 \in DOMAIN im)
           /\ \A i \in DOMAIN im : i = n \/ i \in DOMAIN Front(im)
<1>1. /\ n >= 1 /\ DOMAIN im = 1 .. n /\ DOMAIN Front(im) = 1 .. n - 1
      /\ Front(im) \in Seq(FrameType)
      /\ \A i \in 1 .. n - 1 : Front(im)[i] = im[i]
  BY FrontSeq
<1>2. /\ \A i \in 1 .. n - 1 : i \in 1 .. n /\ i < n
      /\ \A i \in 1 .. n - 1 : i = 1 \/ (i - 1 \in 1 .. n - 1 /\ i - 1 \in 1 .. n)
      /\ \A i \in 1 .. n : i = n \/ i \in 1 .. n - 1
      /\ n \in 1 .. n
  BY <1>1
<1>3. \A i \in 1 .. n - 1 : im[i].load < im[n].load /\ im[i].known \subseteq im[n].known
  BY <1>1, <1>2 DEF StackOK
<1> QED
  BY <1>1, <1>2, <1>3

(* Changing the status of a namespace, and perhaps what it uses.           *)
LEMMA ChangedLoad ==
    ASSUME NEW ls \in Seq(LoadType), NEW l \in DOMAIN ls, NEW r \in LoadType,
           r.key = ls[l].key, r.loader = ls[l].loader, NEW ls2,
           ls2 = [ls EXCEPT ![l] = r]
    PROVE  /\ ls2 \in Seq(LoadType) /\ DOMAIN ls2 = DOMAIN ls /\ ls2[l] = r
           /\ \A a \in DOMAIN ls : /\ ls2[a].key = ls[a].key /\ ls2[a].loader = ls[a].loader
                                   /\ a # l => ls2[a] = ls[a]
<1>1. l \in 1 .. Len(ls) /\ DOMAIN ls = 1 .. Len(ls)
  OBVIOUS
<1>2. ls2 \in Seq(LoadType) /\ Len(ls2) = Len(ls)
  BY <1>1, ExceptSeq
<1>3. DOMAIN ls2 = DOMAIN ls /\ \A a \in DOMAIN ls : ls2[a] = IF a = l THEN r ELSE ls[a]
  BY <1>1
<1> QED
  BY <1>2, <1>3

(* The code of a module has run to its end.                                *)
LEMMA EndKeeps ==
    ASSUME NEW m, NEW ls, NEW im, NEW h, NEW R, CacheOK(m, ls, im, h, R),
           im # <<>>, NEW l, l = CurrentOf(im)
    PROVE  /\ CacheOK(m, [ls EXCEPT ![l].status = "full"], Front(im), h, R)
           /\ l \in R /\ l \in DOMAIN ls
           /\ ls[l].loader = CurrentOf(Front(im))
<1> DEFINE ls2 == [ls EXCEPT ![l].status = "full"]
           im2 == Front(im)
<1>1. /\ CacheTypes(m, ls, im, h) /\ StackOK(m, ls, im)
      /\ EdgesOK(ls, im, h) /\ ReachOK(m, ls, im, h, R)
  BY DEF CacheOK
<1>2. ls \in Seq(LoadType) /\ im \in Seq(FrameType)
  BY <1>1 DEF CacheTypes
<1>3. PICK n \in Nat : n = Len(im)
  BY <1>2
<1>4. n >= 1 /\ n \in DOMAIN im /\ l = im[n].load /\ l \in Nat
  BY <1>2, <1>3, TopOfStack
<1>5. l \in DOMAIN ls /\ l \in R
  BY <1>1, <1>4 DEF StackOK, ReachOK
<1>6. /\ ls2 \in Seq(LoadType) /\ DOMAIN ls2 = DOMAIN ls
      /\ \A a \in DOMAIN ls : /\ ls2[a].key = ls[a].key /\ ls2[a].loader = ls[a].loader
                              /\ a # l => ls2[a] = ls[a]
                              /\ ls2[a].uses = ls[a].uses
      /\ ls2[l].status = "full"
  <2> DEFINE r == [ls[l] EXCEPT !.status = "full"]
  <2>1. ls[l] \in LoadType
    BY <1>2, <1>5
  <2>2. /\ r \in LoadType /\ r.key = ls[l].key /\ r.loader = ls[l].loader
        /\ r.uses = ls[l].uses /\ r.status = "full"
    BY <2>1 DEF LoadType
  <2>3. ls2 = [ls EXCEPT ![l] = r]
    BY <1>5
  <2> HIDE DEF r, ls2
  <2>4. /\ ls2 \in Seq(LoadType) /\ DOMAIN ls2 = DOMAIN ls /\ ls2[l] = r
        /\ \A a \in DOMAIN ls : /\ ls2[a].key = ls[a].key /\ ls2[a].loader = ls[a].loader
                                /\ a # l => ls2[a] = ls[a]
    BY <1>2, <1>5, <2>2, <2>3, ChangedLoad
  <2> QED
    BY <2>2, <2>4
<1>7. /\ im2 \in Seq(FrameType) /\ DOMAIN im2 = 1 .. n - 1
      /\ \A i \in DOMAIN im2 :
             /\ i \in DOMAIN im /\ im2[i] = im[i] /\ im[i].load < l
             /\ i = 1 \/ (i - 1 \in DOMAIN im2 /\ i - 1 \in DOMAIN im)
      /\ \A i \in DOMAIN im : i = n \/ i \in DOMAIN im2
  BY <1>1, <1>2, <1>3, <1>4, PoppedStack
<1> HIDE DEF ls2, im2
<1>8. CacheTypes(m, ls2, im2, h)
  BY <1>1, <1>6, <1>7 DEF CacheTypes
<1>9. StackOK(m, ls2, im2)
  <2>1. ASSUME NEW i \in DOMAIN im2
        PROVE  /\ im2[i].load \in DOMAIN ls2 /\ im2[i].known \subseteq KeysOf(m)
               /\ ls2[im2[i].load].loader = IF i = 1 THEN None ELSE im2[i - 1].load
               /\ \A e \in m : e.key \in im2[i].known <=> e.load < im2[i].load
    <3>1. im2[i] = im[i] /\ i \in DOMAIN im /\ (i = 1 \/ im2[i - 1] = im[i - 1])
      BY <1>7
    <3> QED
      BY <3>1, <1>1, <1>6 DEF StackOK
  <2>2. ASSUME NEW i \in DOMAIN im2, NEW j \in DOMAIN im2, i < j
        PROVE  im2[i].load < im2[j].load /\ im2[i].known \subseteq im2[j].known
    BY <2>2, <1>1, <1>7 DEF StackOK
  <2>3. ASSUME NEW a \in DOMAIN ls
        PROVE  ls2[a].status = "loading" <=> \E i \in DOMAIN im2 : im2[i].load = a
    <3>1. CASE a = l
      <4>1. \A i \in DOMAIN im2 : im2[i].load # l
        BY <1>4, <1>7
      <4> QED
        BY <3>1, <4>1, <1>6
    <3>2. CASE a # l
      <4>1. (\E i \in DOMAIN im2 : im2[i].load = a) <=> \E i \in DOMAIN im : im[i].load = a
        BY <3>2, <1>4, <1>7
      <4> QED
        BY <3>2, <4>1, <1>1, <1>6 DEF StackOK
    <3> QED
      BY <3>1, <3>2
  <2> QED
    BY <2>1, <2>2, <2>3, <1>6 DEF StackOK
<1>10. EdgesOK(ls2, im2, h)
  <2>1. \A a, b : LoadedFrom(ls, a, b) => LoadedFrom(ls2, a, b)
    BY <1>6 DEF LoadedFrom
  <2> QED
    BY <2>1, <1>1, <1>6, <1>7 DEF EdgesOK
<1>11. ReachOK(m, ls2, im2, h, R)
  <2>1. \A a \in R : ls2[a].status # "failed"
    BY <1>1, <1>6 DEF ReachOK
  <2> QED
    BY <2>1, <1>1, <1>6, <1>7 DEF ReachOK
<1>12. ls[l].loader = CurrentOf(im2)
  <2>1. ls[l].loader = IF n = 1 THEN None ELSE im[n - 1].load
    BY <1>1, <1>4 DEF StackOK
  <2>2. PICK k \in Nat : k = Len(im2)
    BY <1>7
  <2>3. k = n - 1 /\ (im2 = <<>> <=> n = 1)
    BY <2>2, <1>4, <1>7
  <2>4. CASE n = 1
    BY <2>1, <2>3, <2>4 DEF CurrentOf
  <2>5. CASE n # 1
    <3>1. CurrentOf(im2) = im2[n - 1].load /\ n - 1 \in DOMAIN im2
      BY <2>2, <2>3, <2>5, <1>7, TopOfStack
    <3> QED
      BY <2>1, <2>5, <3>1, <1>7
  <2> QED
    BY <2>4, <2>5
<1> QED
  BY <1>5, <1>8, <1>9, <1>10, <1>11, <1>12 DEF CacheOK, ls2, im2

(* What a failure makes of the namespaces and of the cache.                *)
FailedLoads(ls, l) == [ls EXCEPT ![l].status = "failed", ![l].uses = {}]
KnownEntries(m, im) == {e \in m : e.key \in Last(im).known}

(* It threw: what the import has loaded is not in the cache any more.      *)
LEMMA FailKeeps ==
    ASSUME NEW m, NEW ls, NEW im, NEW h, NEW R, CacheOK(m, ls, im, h, R),
           im # <<>>, NEW l, l = CurrentOf(im), NEW ls2,
           ls2 = FailedLoads(ls, l), NEW kept, kept = KnownEntries(m, im)
    PROVE  /\ kept = {e \in m : e.load < l}
           /\ \E R2 \in SUBSET DOMAIN ls2 : CacheOK(kept, ls2, Front(im), h, R2)
<1> DEFINE im2 == Front(im)
           m2 == {e \in m : e.load < l}
           R2 == {a \in R : a < l}
<1>1. /\ CacheTypes(m, ls, im, h) /\ StackOK(m, ls, im)
      /\ EdgesOK(ls, im, h) /\ ReachOK(m, ls, im, h, R)
  BY DEF CacheOK
<1>2. ls \in Seq(LoadType) /\ im \in Seq(FrameType)
  BY <1>1 DEF CacheTypes
<1>3. PICK n \in Nat : n = Len(im)
  BY <1>2
<1>4. n >= 1 /\ n \in DOMAIN im /\ l = im[n].load /\ l \in Nat /\ Last(im) = im[n]
  BY <1>2, <1>3, TopOfStack
<1>5. l \in DOMAIN ls
  BY <1>1, <1>4 DEF StackOK
<1>6. /\ ls2 \in Seq(LoadType) /\ DOMAIN ls2 = DOMAIN ls
      /\ \A a \in DOMAIN ls : /\ ls2[a].key = ls[a].key /\ ls2[a].loader = ls[a].loader
                              /\ a # l => ls2[a] = ls[a]
      /\ ls2[l].status = "failed" /\ ls2[l].uses = {}
  <2> DEFINE q == [ls[l] EXCEPT !.status = "failed", !.uses = {}]
  <2>0. PICK r : r = q
    OBVIOUS
  <2>1. ls[l] \in LoadType
    BY <1>2, <1>5
  <2>2. /\ r \in LoadType /\ r.key = ls[l].key /\ r.loader = ls[l].loader
        /\ r.uses = {} /\ r.status = "failed"
    BY <2>0, <2>1 DEF LoadType
  <2>3. ls2 = [ls EXCEPT ![l] = r]
    BY <1>2, <1>5, <2>0, <2>1 DEF LoadType, FailedLoads
  <2> HIDE DEF q
  <2>4. /\ ls2 \in Seq(LoadType) /\ DOMAIN ls2 = DOMAIN ls /\ ls2[l] = r
        /\ \A a \in DOMAIN ls : /\ ls2[a].key = ls[a].key /\ ls2[a].loader = ls[a].loader
                                /\ a # l => ls2[a] = ls[a]
    BY <1>2, <1>5, <2>2, <2>3, ChangedLoad
  <2> QED
    BY <2>2, <2>4
<1>7. /\ im2 \in Seq(FrameType) /\ DOMAIN im2 = 1 .. n - 1
      /\ \A i \in DOMAIN im2 :
             /\ i \in DOMAIN im /\ im2[i] = im[i] /\ im[i].load < l
             /\ im[i].known \subseteq im[n].known
             /\ i = 1 \/ (i - 1 \in DOMAIN im2 /\ i - 1 \in DOMAIN im)
      /\ \A i \in DOMAIN im : i = n \/ i \in DOMAIN im2
  BY <1>1, <1>2, <1>3, <1>4, PoppedStack
<1>8. \A e \in m : e.key \in im[n].known <=> e.load < l
  BY <1>1, <1>4 DEF StackOK
<1>9. kept = m2
  BY <1>4, <1>8 DEF KnownEntries
<1>10. \A a \in DOMAIN ls : a \in Nat
  BY <1>2
<1> HIDE DEF im2
<1>11. CacheTypes(m2, ls2, im2, h)
  <2>1. ASSUME NEW a \in DOMAIN ls
        PROVE  /\ ls2[a].uses \subseteq DOMAIN ls
               /\ ls2[a].loader = None \/ (ls2[a].loader \in DOMAIN ls /\ ls2[a].loader < a)
    <3>1. ls2[a].uses = {} \/ ls2[a].uses = ls[a].uses
      BY <1>6
    <3> QED
      BY <3>1, <1>1, <1>6 DEF CacheTypes
  <2>2. m2 \subseteq [key : Keys, load : DOMAIN ls2] /\ h \subseteq DOMAIN ls2
        /\ \A e, f \in m2 : e.key = f.key => e = f
    BY <1>1, <1>6 DEF CacheTypes
  <2> QED
    BY <2>1, <2>2, <1>6, <1>7 DEF CacheTypes
<1>12. StackOK(m2, ls2, im2)
  <2>1. ASSUME NEW i \in DOMAIN im2
        PROVE  /\ im2[i].load \in DOMAIN ls2 /\ im2[i].known \subseteq KeysOf(m2)
               /\ ls2[im2[i].load].loader = IF i = 1 THEN None ELSE im2[i - 1].load
               /\ \A e \in m2 : e.key \in im2[i].known <=> e.load < im2[i].load
    <3>1. im2[i] = im[i] /\ i \in DOMAIN im /\ (i = 1 \/ im2[i - 1] = im[i - 1])
      BY <1>7
    <3>2. im[i].known \subseteq KeysOf(m2)
      <4> SUFFICES ASSUME NEW k \in im[i].known
                   PROVE  k \in KeysOf(m2)
        OBVIOUS
      <4>1. k \in KeysOf(m)
        BY <3>1, <1>1 DEF StackOK
      <4>2. PICK e \in m : e.key = k
        BY <4>1 DEF KeysOf
      <4>3. e \in m2
        BY <4>2, <1>7, <1>8
      <4> QED
        BY <4>2, <4>3 DEF KeysOf
    <3> QED
      BY <3>1, <3>2, <1>1, <1>6 DEF StackOK
  <2>2. ASSUME NEW i \in DOMAIN im2, NEW j \in DOMAIN im2, i < j
        PROVE  im2[i].load < im2[j].load /\ im2[i].known \subseteq im2[j].known
    BY <2>2, <1>1, <1>7 DEF StackOK
  <2>3. ASSUME NEW a \in DOMAIN ls
        PROVE  ls2[a].status = "loading" <=> \E i \in DOMAIN im2 : im2[i].load = a
    <3>1. CASE a = l
      <4>1. \A i \in DOMAIN im2 : im2[i].load # l
        BY <1>4, <1>7
      <4> QED
        BY <3>1, <4>1, <1>6
    <3>2. CASE a # l
      <4>1. (\E i \in DOMAIN im2 : im2[i].load = a) <=> \E i \in DOMAIN im : im[i].load = a
        BY <3>2, <1>4, <1>7
      <4> QED
        BY <3>2, <4>1, <1>1, <1>6 DEF StackOK
    <3> QED
      BY <3>1, <3>2
  <2> QED
    BY <2>1, <2>2, <2>3, <1>6 DEF StackOK
<1>13. EdgesOK(ls2, im2, h)
  <2>1. \A a, b : LoadedFrom(ls, a, b) => LoadedFrom(ls2, a, b)
    BY <1>6 DEF LoadedFrom
  <2>2. \A a \in DOMAIN ls : ls2[a].uses \subseteq ls[a].uses
    BY <1>6
  <2> QED
    BY <2>1, <2>2, <1>1, <1>6, <1>7 DEF EdgesOK
<1>14. ReachOK(m2, ls2, im2, h, R2)
  <2>1. R2 \subseteq DOMAIN ls2 /\ h \subseteq R2
    BY <1>1, <1>4, <1>6 DEF ReachOK, EdgesOK
  <2>2. \A e \in m2 : e.load \in R2
    BY <1>1 DEF ReachOK
  <2>3. \A i \in DOMAIN im2 : im2[i].load \in R2
    BY <1>1, <1>7 DEF ReachOK
  <2>4. ASSUME NEW a \in R2
        PROVE  /\ ls2[a].uses \subseteq R2
               /\ ls2[a].loader = None \/ ls2[a].loader \in R2
               /\ ls2[a].status # "failed"
               /\ [key |-> ls2[a].key, load |-> a] \in m2
    <3>1. a \in R /\ a \in DOMAIN ls /\ a < l /\ a # l /\ a \in Nat
      BY <1>1, <1>4, <1>10 DEF ReachOK
    <3>2. ls2[a] = ls[a]
      BY <3>1, <1>6
    <3>3. ASSUME NEW b \in ls[a].uses
          PROVE  b \in R2
      <4>1. b \in R /\ b \in Nat
        BY <3>1, <1>1, <1>10 DEF ReachOK
      <4>2. ~ (b >= l)
        BY <3>1, <1>1, <1>4 DEF EdgesOK
      <4> QED
        BY <4>1, <4>2, <1>4
    <3>4. ls[a].loader = None \/ ls[a].loader \in R2
      <4> SUFFICES ASSUME ls[a].loader # None PROVE ls[a].loader \in R2
        OBVIOUS
      <4>1. ls[a].loader \in R /\ ls[a].loader \in DOMAIN ls /\ ls[a].loader < a
        BY <3>1, <1>1 DEF ReachOK, CacheTypes
      <4>2. ls[a].loader \in Nat
        BY <4>1, <1>10
      <4>3. ls[a].loader < l
        BY <3>1, <4>1, <4>2, <1>4
      <4> QED
        BY <4>1, <4>3
    <3>5. ls[a].status # "failed" /\ [key |-> ls[a].key, load |-> a] \in m2
      BY <3>1, <1>1 DEF ReachOK
    <3> QED
      BY <3>2, <3>3, <3>4, <3>5
  <2> QED
    BY <2>1, <2>2, <2>3, <2>4 DEF ReachOK
<1>15. CacheOK(m2, ls2, im2, h, R2) /\ R2 \in SUBSET DOMAIN ls2
  BY <1>11, <1>12, <1>13, <1>14 DEF CacheOK, ReachOK
<1>16. CacheOK(kept, ls2, Front(im), h, R2) /\ kept = m2
  BY <1>9, <1>15 DEF im2
<1> QED
  BY <1>15, <1>16
-----------------------------------------------------------------------------
LEMMA CurrentIsNone ==
    ASSUME NEW m, NEW ls, NEW im, NEW h, CacheTypes(m, ls, im, h)
    PROVE  CurrentOf(im) = None <=> im = <<>>
<1>1. im \in Seq(FrameType) /\ None \notin Nat
  BY ImportAssumption DEF CacheTypes
<1>2. CASE im = <<>>
  BY <1>2 DEF CurrentOf
<1>3. CASE im # <<>>
  <2>1. PICK n \in Nat : n = Len(im)
    BY <1>1
  <2>2. CurrentOf(im) = im[n].load /\ im[n].load \in Nat
    BY <1>1, <1>3, <2>1, TopOfStack
  <2> QED
    BY <1>1, <1>3, <2>2
<1> QED
  BY <1>2, <1>3

(* A namespace is given to the code that runs, whichever it is.            *)
LEMMA GivenKeeps ==
    ASSUME NEW t \in Tasks, held \in [Tasks -> SUBSET Nat], NEW m, NEW ls, NEW im,
           NEW R \in SUBSET DOMAIN ls, CacheOK(m, ls, im, held[t], R),
           NEW o \in R, Given(ls, CurrentOf(im), t, o)
    PROVE  /\ held' \in [Tasks -> SUBSET Nat]
           /\ R \in SUBSET DOMAIN loads' /\ CacheOK(m, loads', im, held'[t], R)
<1>1. CacheTypes(m, ls, im, held[t])
  BY DEF CacheOK
<1>2. o \in Nat
  BY <1>1 DEF CacheTypes
<1>3. CacheOK(m, loads', im, held'[t], R) /\ held' \in [Tasks -> SUBSET Nat]
  <2>1. CASE im = <<>>
    <3>1. loads' = ls /\ held' = [held EXCEPT ![t] = @ \cup {o}]
      BY <1>1, <2>1, CurrentIsNone DEF Given
    <3>2. held'[t] = held[t] \cup {o} /\ held' \in [Tasks -> SUBSET Nat]
      BY <3>1, <1>2
    <3>3. CacheOK(m, ls, im, held[t] \cup {o}, R)
      BY <2>1, HoldKeeps
    <3> QED
      BY <3>1, <3>2, <3>3
  <2>2. CASE im # <<>>
    <3>1. loads' = [ls EXCEPT ![CurrentOf(im)].uses = @ \cup {o}] /\ held' = held
      BY <1>1, <2>2, CurrentIsNone DEF Given
    <3>2. CacheOK(m, [ls EXCEPT ![CurrentOf(im)].uses = @ \cup {o}], im, held[t], R)
      BY <2>2, GiveKeeps
    <3> QED
      BY <3>1, <3>2
  <2> QED
    BY <2>1, <2>2
<1> QED
  BY <1>3 DEF CacheOK, ReachOK

(* What an action has to establish when there is one task.                 *)
LEMMA OneTask ==
    ASSUME NEW t, Tasks = {t}, ImportIInv, NEW im, imports' = [imports EXCEPT ![t] = im],
           held' \in [Tasks -> SUBSET Nat],
           NEW R \in SUBSET DOMAIN loads', CacheOK(modules', loads', im, held'[t], R)
    PROVE  ImportIInv'
<1>1. im \in Seq(FrameType)
  BY DEF CacheOK, CacheTypes
<1>2. imports' \in [Tasks -> Seq(FrameType)] /\ imports'[t] = im
  BY <1>1 DEF ImportIInv
<1> QED
  BY <1>2 DEF ImportIInv, Ids

LEMMA CachedKeeps ==
    ASSUME NEW t, Tasks = {t}, ImportIInv, NEW k \in Keys, ImportCached(t, k)
    PROVE  ImportIInv'
<1>1. PICK R \in SUBSET DOMAIN loads : CacheOK(modules, loads, imports[t], held[t], R)
  BY DEF ImportIInv, Ids
<1>2. Entry(k) \in modules
  <2>1. \E e \in modules : e.key = k
    BY DEF ImportCached, Cached
  <2> QED
    BY <2>1 DEF Entry
<1>3. Entry(k).load \in R
  BY <1>1, <1>2 DEF CacheOK, ReachOK
<1>4. Given(loads, CurrentOf(imports[t]), t, Entry(k).load)
  BY DEF ImportCached, Current, CurrentOf
<1>5. held \in [Tasks -> SUBSET Nat]
  BY DEF ImportIInv
<1>6. /\ held' \in [Tasks -> SUBSET Nat]
      /\ R \in SUBSET DOMAIN loads' /\ CacheOK(modules, loads', imports[t], held'[t], R)
  BY <1>1, <1>3, <1>4, <1>5, GivenKeeps
<1>7. modules' = modules /\ imports' = [imports EXCEPT ![t] = imports[t]]
  BY DEF ImportCached, ImportIInv
<1> QED
  BY <1>6, <1>7, OneTask

LEMMA ExtensionKeeps ==
    ASSUME NEW t, Tasks = {t}, ImportIInv, NEW k \in Keys, ImportExtension(t, k)
    PROVE  ImportIInv'
<1>1. PICK R \in SUBSET DOMAIN loads : CacheOK(modules, loads, imports[t], held[t], R)
  BY DEF ImportIInv, Ids
<1>2. PICK N : N = Len(loads) + 1
  OBVIOUS
<1>3. PICK ls : ls = Append(loads, Namespace(k, "full", Current(t)))
  OBVIOUS
<1>4. Current(t) = CurrentOf(imports[t]) /\ k \notin KeysOf(modules)
  BY DEF Current, CurrentOf, ImportExtension, KeysOf, Cached
<1>5. N \in Nat
  BY <1>1, <1>2 DEF CacheOK, CacheTypes
<1>6. CacheOK(modules \cup {[key |-> k, load |-> N]}, ls, imports[t], held[t], R \cup {N})
  BY <1>1, <1>2, <1>3, <1>4, <1>5, LoadKeeps
<1>7. PICK m : m = modules \cup {[key |-> k, load |-> N]}
  OBVIOUS
<1>8. PICK R2 : R2 = R \cup {N}
  OBVIOUS
<1>9. R2 \in SUBSET DOMAIN ls /\ N \in R2 /\ CacheOK(m, ls, imports[t], held[t], R2)
  BY <1>6, <1>7, <1>8 DEF CacheOK, ReachOK
<1>10. Given(ls, CurrentOf(imports[t]), t, N)
  BY <1>2, <1>3, <1>4 DEF ImportExtension
<1>11. held \in [Tasks -> SUBSET Nat]
  BY DEF ImportIInv
<1>12. /\ held' \in [Tasks -> SUBSET Nat]
       /\ R2 \in SUBSET DOMAIN loads' /\ CacheOK(m, loads', imports[t], held'[t], R2)
  BY <1>9, <1>10, <1>11, GivenKeeps
<1>13. modules' = m /\ imports' = [imports EXCEPT ![t] = imports[t]]
  BY <1>2, <1>7 DEF ImportExtension, ImportIInv
<1> QED
  BY <1>12, <1>13, OneTask

LEMMA BeginKeeps ==
    ASSUME NEW t, Tasks = {t}, ImportIInv, NEW k \in Keys, BeginImport(t, k)
    PROVE  ImportIInv'
<1>1. PICK R \in SUBSET DOMAIN loads : CacheOK(modules, loads, imports[t], held[t], R)
  BY DEF ImportIInv, Ids
<1>2. PICK N : N = Len(loads) + 1
  OBVIOUS
<1>3. PICK im2 : im2 = Append(imports[t], [load |-> N, known |-> KeysOf(modules)])
  OBVIOUS
<1>4. Current(t) = CurrentOf(imports[t]) /\ k \notin KeysOf(modules)
  BY DEF Current, CurrentOf, BeginImport, KeysOf, Cached
<1>5. N \in Nat
  BY <1>1, <1>2 DEF CacheOK, CacheTypes
<1>6. CacheOK(modules \cup {[key |-> k, load |-> N]},
              Append(loads, Namespace(k, "loading", CurrentOf(imports[t]))), im2, held[t],
              R \cup {N})
  BY <1>1, <1>2, <1>3, <1>4, <1>5, LoadKeeps
<1>7. /\ modules' = modules \cup {[key |-> k, load |-> N]}
      /\ loads' = Append(loads, Namespace(k, "loading", CurrentOf(imports[t])))
      /\ held' = held /\ held \in [Tasks -> SUBSET Nat]
  BY <1>2, <1>4 DEF BeginImport, Entered, ImportIInv
<1>8. imports' = [imports EXCEPT ![t] = im2]
  BY <1>2, <1>3 DEF BeginImport, Known, Cached, KeysOf, ImportIInv
<1>9. R \cup {N} \in SUBSET DOMAIN loads'
  BY <1>6, <1>7 DEF CacheOK, ReachOK
<1> QED
  BY <1>6, <1>7, <1>8, <1>9, OneTask

LEMMA EndImportKeeps ==
    ASSUME NEW t, Tasks = {t}, ImportIInv, EndImport(t)
    PROVE  ImportIInv'
<1>1. PICK R \in SUBSET DOMAIN loads : CacheOK(modules, loads, imports[t], held[t], R)
  BY DEF ImportIInv, Ids
<1>2. PICK l : l = Current(t)
  OBVIOUS
<1>3. l = CurrentOf(imports[t]) /\ l # None
  BY <1>2 DEF Current, CurrentOf, EndImport
<1>4. imports[t] # <<>>
  BY <1>1, <1>3, CurrentIsNone DEF CacheOK
<1>5. PICK ls : ls = [loads EXCEPT ![l].status = "full"]
  OBVIOUS
<1>6. PICK im2 : im2 = Front(imports[t])
  OBVIOUS
<1>7. CacheOK(modules, ls, im2, held[t], R) /\ l \in R /\ loads[l].loader = CurrentOf(im2)
  <2>1. PICK im : im = imports[t]
    OBVIOUS
  <2>2. CacheOK(modules, loads, im, held[t], R) /\ im # <<>> /\ l = CurrentOf(im)
    BY <1>1, <1>3, <1>4, <2>1
  <2>3. /\ CacheOK(modules, [loads EXCEPT ![l].status = "full"], Front(im), held[t], R)
        /\ l \in R /\ loads[l].loader = CurrentOf(Front(im))
    BY <2>2, EndKeeps
  <2> QED
    BY <1>5, <1>6, <2>1, <2>3
<1>8. Given(ls, CurrentOf(im2), t, l)
  BY <1>2, <1>5, <1>7 DEF EndImport, Filled
<1>9. held \in [Tasks -> SUBSET Nat] /\ R \in SUBSET DOMAIN ls
  BY <1>7 DEF ImportIInv, CacheOK, ReachOK
<1>10. /\ held' \in [Tasks -> SUBSET Nat]
       /\ R \in SUBSET DOMAIN loads' /\ CacheOK(modules, loads', im2, held'[t], R)
  BY <1>7, <1>8, <1>9, GivenKeeps
<1>11. modules' = modules /\ imports' = [imports EXCEPT ![t] = im2]
  BY <1>6 DEF EndImport, ImportIInv
<1> QED
  BY <1>10, <1>11, OneTask

(* A failed import leaves the cache with what is older than its own        *)
(* namespace.                                                              *)
LEMMA FailureKept ==
    ASSUME NEW t, Tasks = {t}, ImportIInv, FailImport(t)
    PROVE  /\ ImportIInv'
           /\ modules' = {e \in modules : e.load < Current(t)}
           /\ imports[t] # <<>> /\ Current(t) = CurrentOf(imports[t])
<1>1. PICK R \in SUBSET DOMAIN loads : CacheOK(modules, loads, imports[t], held[t], R)
  BY DEF ImportIInv, Ids
<1>2. PICK l : l = Current(t)
  OBVIOUS
<1>3. l = CurrentOf(imports[t]) /\ l # None
  BY <1>2 DEF Current, CurrentOf, FailImport
<1>4. imports[t] # <<>>
  BY <1>1, <1>3, CurrentIsNone DEF CacheOK
<1>5. PICK kept : kept = KnownEntries(modules, imports[t])
  OBVIOUS
<1>6. loads' = FailedLoads(loads, l)
  BY <1>2 DEF FailImport, FailedLoads
<1>7. /\ kept = {e \in modules : e.load < l}
      /\ \E R2 \in SUBSET DOMAIN loads' :
             CacheOK(kept, loads', Front(imports[t]), held[t], R2)
  <2>1. PICK im : im = imports[t]
    OBVIOUS
  <2>2. CacheOK(modules, loads, im, held[t], R) /\ im # <<>> /\ l = CurrentOf(im)
    BY <1>1, <1>3, <1>4, <2>1
  <2>3. PICK m, ls2 : m = modules /\ ls2 = loads'
    OBVIOUS
  <2>4. CacheOK(m, loads, im, held[t], R) /\ kept = KnownEntries(m, im)
    BY <1>5, <2>1, <2>2, <2>3
  <2>5. ls2 = FailedLoads(loads, l)
    BY <1>6, <2>3
  <2>6. /\ kept = {e \in m : e.load < l}
        /\ \E R2 \in SUBSET DOMAIN ls2 : CacheOK(kept, ls2, Front(im), held[t], R2)
    BY <2>2, <2>4, <2>5, FailKeeps
  <2> QED
    BY <2>1, <2>3, <2>6
<1>8. PICK R2 \in SUBSET DOMAIN loads' :
          CacheOK(kept, loads', Front(imports[t]), held[t], R2)
  BY <1>7
<1>9. /\ modules' = kept /\ held' = held /\ held \in [Tasks -> SUBSET Nat]
      /\ imports' = [imports EXCEPT ![t] = Front(imports[t])]
  BY <1>2, <1>5 DEF FailImport, Kept, KnownEntries, ImportIInv
<1>10. ImportIInv'
  BY <1>8, <1>9, OneTask
<1> QED
  BY <1>2, <1>3, <1>4, <1>7, <1>9, <1>10

LEMMA ImportStep ==
    ASSUME NEW t, Tasks = {t}, ImportIInv, [ImportNext]_importVars
    PROVE  ImportIInv'
<1>1. ASSUME NEW k \in Keys,
             ImportCached(t, k) \/ ImportExtension(t, k) \/ BeginImport(t, k)
      PROVE  ImportIInv'
  BY <1>1, CachedKeeps, ExtensionKeeps, BeginKeeps
<1>2. CASE EndImport(t)
  BY <1>2, EndImportKeeps
<1>3. CASE FailImport(t)
  BY <1>3, FailureKept
<1>4. CASE UNCHANGED importVars
  BY <1>4 DEF importVars, ImportIInv, Ids
<1> QED
  BY <1>1, <1>2, <1>3, <1>4 DEF ImportNext

LEMMA ImportBegins == ImportInit => ImportIInv
<1> SUFFICES ASSUME ImportInit, NEW t \in Tasks
             PROVE  CacheOK({}, <<>>, <<>>, {}, {})
  BY DEF ImportInit, ImportIInv, Ids
<1>1. DOMAIN <<>> = {} /\ <<>> \in Seq(LoadType) /\ <<>> \in Seq(FrameType)
  OBVIOUS
<1> QED
  BY <1>1 DEF CacheOK, CacheTypes, StackOK, EdgesOK, ReachOK

(***************************************************************************)
(* While the imports of one program nest, the cache is what they have made *)
(* of it: an import in progress has loaded all that is younger than it,    *)
(* only that knows of what it has loaded, and there is a set of namespaces *)
(* that has the cache, the program's and all they need, none of it failed  *)
(* and all of it in the cache (import and source_import).                  *)
(***************************************************************************)
THEOREM ImportInvariant ==
    ASSUME NEW t, Tasks = {t}
    PROVE  ImportSpec => []ImportIInv
<1>1. ImportInit => ImportIInv
  BY ImportBegins
<1>2. ImportIInv /\ [ImportNext]_importVars => ImportIInv'
  BY ImportStep
<1> QED
  BY <1>1, <1>2, PTL DEF ImportSpec
LEMMA ImportTypesHold ==
    ASSUME NEW t, Tasks = {t}, ImportIInv
    PROVE  ImportTypeOK
<1>1. PICK R \in SUBSET DOMAIN loads : CacheOK(modules, loads, imports[t], held[t], R)
  BY DEF ImportIInv, Ids
<1>2. CacheTypes(modules, loads, imports[t], held[t]) /\ StackOK(modules, loads, imports[t])
  BY <1>1 DEF CacheOK
<1> DEFINE L == [key : Keys, status : {"loading", "full", "failed"},
                 loader : Ids \cup {None}, uses : SUBSET Ids]
<1>3. loads \in Seq(L)
  <2>1. loads \in Seq(LoadType)
    BY <1>2 DEF CacheTypes
  <2>2. PICK n \in Nat : n = Len(loads) /\ DOMAIN loads = 1 .. n /\ loads \in [1 .. n -> LoadType]
    BY <2>1, SeqDef, LenProperties
  <2>3. ASSUME NEW a \in 1 .. n PROVE loads[a] \in L
    <3>1. loads[a] \in LoadType
      BY <2>2
    <3>2. loads[a].uses \subseteq DOMAIN loads /\ loads[a].loader \in DOMAIN loads \cup {None}
      BY <2>2, <1>2 DEF CacheTypes
    <3> QED
      BY <3>1, <3>2 DEF LoadType, Ids
  <2> HIDE DEF L
  <2>4. loads \in [1 .. n -> L]
    BY <2>2, <2>3
  <2> QED
    BY <2>4, SeqDef
<1>4. imports \in [Tasks -> Seq(Frames)]
  <2>1. imports[t] \in Seq(FrameType)
    BY <1>2 DEF CacheTypes
  <2>2. PICK n \in Nat : /\ n = Len(imports[t]) /\ DOMAIN imports[t] = 1 .. n
                         /\ imports[t] \in [1 .. n -> FrameType]
    BY <2>1, SeqDef, LenProperties
  <2>3. ASSUME NEW i \in 1 .. n PROVE imports[t][i] \in Frames
    <3>1. imports[t][i] \in FrameType /\ imports[t][i].load \in Ids
      BY <2>2, <1>2 DEF StackOK, Ids
    <3> QED
      BY <3>1 DEF FrameType, Frames
  <2>4. imports[t] \in [1 .. n -> Frames]
    BY <2>2, <2>3
  <2>5. imports[t] \in Seq(Frames)
    BY <2>4, SeqDef
  <2> QED
    BY <2>5 DEF ImportIInv
<1>5. modules \subseteq [key : Keys, load : Ids] /\ \A m, n \in modules : m.key = n.key => m = n
  BY <1>2 DEF CacheTypes, Ids
<1>6. held \in [Tasks -> SUBSET Ids]
  BY <1>2 DEF CacheTypes, ImportIInv, Ids
<1>7. \A l \in Ids : loads[l].status = "loading" <=> l \in InProgress
  <2>1. \A l : l \in InProgress <=> \E i \in DOMAIN imports[t] : imports[t][i].load = l
    BY DEF InProgress
  <2> QED
    BY <2>1, <1>2 DEF StackOK, Ids
<1> QED
  BY <1>3, <1>4, <1>5, <1>6, <1>7 DEF ImportTypeOK

(* The set R has all that can be got at.                                   *)
LEMMA ReachableIsSound ==
    ASSUME NEW t, Tasks = {t}, NEW R \in SUBSET Ids,
           CacheOK(modules, loads, imports[t], held[t], R)
    PROVE  Closure(Roots, Needs) \subseteq R
<1>1. ReachOK(modules, loads, imports[t], held[t], R)
  BY DEF CacheOK
<1>2. Roots \subseteq R
  <2>1. \A l \in Roots : (\E m \in modules : l = m.load) \/ l \in held[t]
                         \/ \E i \in DOMAIN imports[t] : l = imports[t][i].load
    <3>1. UNION {held[s] : s \in Tasks} = held[t]
      OBVIOUS
    <3>2. InProgress = {imports[t][i].load : i \in DOMAIN imports[t]}
      BY DEF InProgress
    <3>3. Roots = {m.load : m \in modules} \cup held[t]
                      \cup {imports[t][i].load : i \in DOMAIN imports[t]}
      BY <3>1, <3>2 DEF Roots
    <3> QED
      BY <3>3
  <2> QED
    BY <1>1, <2>1 DEF ReachOK
<1>3. \A k \in R : Needs(k) \subseteq R
  BY <1>1 DEF ReachOK, Needs, Owner
<1> QED
  BY <1>2, <1>3 DEF Closure

(***************************************************************************)
(* Nothing a program or a later import can get at is the namespace of an   *)
(* import that failed, there is one copy of each module, and no import     *)
(* enters a module that is being loaded: for any number of modules, any    *)
(* circles, failures and exceptions caught on the way, as long as one task *)
(* imports (import and source_import).                                     *)
(***************************************************************************)
THEOREM ImportsCorrect ==
    ASSUME NEW t, Tasks = {t}
    PROVE  ImportSpec => []ImportInv
<1>1. ImportIInv => ImportInv
  <2> SUFFICES ASSUME ImportIInv PROVE ImportInv
    OBVIOUS
  <2>1. PICK R \in SUBSET Ids : CacheOK(modules, loads, imports[t], held[t], R)
    BY DEF ImportIInv
  <2>2. Closure(Roots, Needs) \subseteq R
    BY <2>1, ReachableIsSound
  <2>3. /\ CacheTypes(modules, loads, imports[t], held[t]) /\ StackOK(modules, loads, imports[t])
        /\ ReachOK(modules, loads, imports[t], held[t], R)
    BY <2>1 DEF CacheOK
  <2>4. NothingFailedIsReachable
    BY <2>2, <2>3 DEF NothingFailedIsReachable, ReachOK
  <2>5. ASSUME NEW a \in R, NEW b \in R, loads[a].key = loads[b].key
        PROVE  a = b
    <3>1. /\ [key |-> loads[a].key, load |-> a] \in modules
          /\ [key |-> loads[b].key, load |-> b] \in modules
      BY <2>3 DEF ReachOK
    <3>2. [key |-> loads[a].key, load |-> a] = [key |-> loads[b].key, load |-> b]
      BY <2>3, <2>5, <3>1 DEF CacheTypes
    <3> QED
      BY <3>2
  <2>6. OneCopyOfEachModule
    BY <2>2, <2>5 DEF OneCopyOfEachModule
  <2>7. NoImportReentered
    <3> SUFFICES ASSUME NEW i \in DOMAIN imports[t], NEW j \in DOMAIN imports[t],
                        loads[imports[t][i].load].key = loads[imports[t][j].load].key
                 PROVE  i = j
      BY DEF NoImportReentered
    <3>1. imports[t][i].load = imports[t][j].load
      BY <2>3, <2>5 DEF ReachOK
    <3>2. imports[t] \in Seq(FrameType)
      BY <2>3 DEF CacheTypes
    <3>3. i \in Nat /\ j \in Nat /\ imports[t][i].load \in Nat
      <4>1. imports[t][i] \in FrameType
        BY <3>2
      <4> QED
        BY <3>2, <4>1 DEF FrameType
    <3>4. ~ (i < j) /\ ~ (j < i)
      BY <3>1, <3>3, <2>3 DEF StackOK
    <3> QED
      BY <3>3, <3>4
  <2> QED
    BY <2>4, <2>6, <2>7, ImportTypesHold DEF ImportInv
<1>2. ImportSpec => []ImportIInv
  BY ImportInvariant
<1> QED
  BY <1>1, <1>2, PTL

(***************************************************************************)
(* Every entry that a failing import erases was loaded by that import, or  *)
(* from it (the catch block of source_import).                             *)
(***************************************************************************)
THEOREM ErasesOwn ==
    ASSUME NEW u, Tasks = {u}
    PROVE  ImportSpec => ErasesOnlyItsOwn
<1>1. ImportIInv /\ [ImportNext]_importVars
        => [\A t \in Tasks : \A m \in modules \ modules' :
                FailImport(t) => Current(t) \in Closure({m.load}, Owner)]_importVars
  <2> SUFFICES ASSUME ImportIInv, NEW m \in modules \ modules', FailImport(u)
               PROVE  Current(u) \in Closure({m.load}, Owner)
    OBVIOUS
  <2>1. /\ modules' = {e \in modules : e.load < Current(u)}
        /\ imports[u] # <<>> /\ Current(u) = CurrentOf(imports[u])
    BY FailureKept
  <2>2. PICK R \in SUBSET DOMAIN loads : CacheOK(modules, loads, imports[u], held[u], R)
    BY DEF ImportIInv, Ids
  <2>3. /\ CacheTypes(modules, loads, imports[u], held[u]) /\ StackOK(modules, loads, imports[u])
        /\ EdgesOK(loads, imports[u], held[u])
    BY <2>2 DEF CacheOK
  <2>4. PICK n \in Nat : n = Len(imports[u])
    BY <2>3 DEF CacheTypes
  <2>5. n \in DOMAIN imports[u] /\ Current(u) = imports[u][n].load
    BY <2>1, <2>3, <2>4, TopOfStack DEF CacheTypes
  <2>6. m.load \in DOMAIN loads /\ ~ (m.load < Current(u))
    BY <2>1, <2>3 DEF CacheTypes
  <2>7. Current(u) \in DOMAIN loads /\ \A a \in DOMAIN loads : a \in Nat
    BY <2>3, <2>5 DEF StackOK, CacheTypes
  <2>8. m.load >= Current(u)
    BY <2>6, <2>7
  <2>9. LoadedFrom(loads, m.load, Current(u))
    BY <2>3, <2>5, <2>6, <2>8 DEF EdgesOK
  <2>10. ASSUME NEW T \in SUBSET Ids, {m.load} \subseteq T, \A k \in T : Owner(k) \subseteq T
         PROVE  Current(u) \in T
    <3>1. m.load \in T /\ T \in SUBSET DOMAIN loads
      BY <2>10 DEF Ids
    <3>2. \A k \in T : loads[k].loader = None \/ loads[k].loader \in T
      BY <2>10 DEF Owner
    <3> QED
      BY <3>1, <3>2, <2>9 DEF LoadedFrom
  <2> QED
    BY <2>7, <2>10 DEF Closure, Ids
<1>2. ImportSpec => []ImportIInv
  BY ImportInvariant
<1> QED
  BY <1>1, <1>2, PTL DEF ImportSpec, ErasesOnlyItsOwn

-----------------------------------------------------------------------------
(***************************************************************************)
(* The interactive interpreter.                                            *)
(*                                                                         *)
(* While a statement is compiled, what the storage and the function store  *)
(* were at its beginning is a part of what they are: it is in the global   *)
(* domain and in the first slots, the snapshot holds the one and the open  *)
(* transaction has exactly the slots after the other.                      *)
(***************************************************************************)
Lambdas == Nat \ {0}
RunType == [fns : SUBSET Lambdas, unit : Nat]
SnapType == [live : BOOLEAN, data : Seq(SUBSET Lambdas)]
LoopsIn(s) == {i \in DOMAIN s : s[i] = "loop"}

ReplTypes ==
    /\ methods \in Seq(BlockKinds)
    /\ entries \in Seq(Lambdas) /\ Len(entries) <= MaxFns
    /\ domains \in Seq(SUBSET Lambdas)
    /\ units \in Seq(Lambdas) /\ savedUnits \in Seq(Nat) /\ currentUnit \in Nat
    /\ built \in BOOLEAN
    /\ running \in Seq(RunType)
    /\ tx \in Seq(SnapType)
    /\ \A i \in DOMAIN tx : tx[i] = Void \/ (Compiling /\ i = Len(tx))

(* Lambdas that are bound or may be are in the function store.             *)
AliveOK ==
    /\ \A i \in DOMAIN domains : domains[i] \subseteq ToSet(entries)
    /\ \A i \in DOMAIN running : running[i].fns \subseteq ToSet(entries)

StacksOK ==
    /\ Len(domains) = 1 + Len(methods)
    /\ loopDepth = Cardinality(LoopsIn(methods))
    /\ Len(units) = Len(running) + IF Compiling THEN 1 ELSE 0
    /\ Len(savedUnits) = Len(units) /\ importScopes = Len(units)
    /\ Len(tx) >= Len(units)
    /\ ~ Compiling => fnTx = <<>>
    /\ methods # <<>> => running = <<>>
    /\ savedUnits # <<>> => savedUnits[1] = 0

ArenaOK ==
    /\ currentUnit = IF units = <<>> THEN 0 ELSE Last(units)
    /\ \A i \in DOMAIN running : running[i].unit = units[i]

Recoverable ==
    Compiling =>
        /\ before.entries \in Seq(Lambdas)
        /\ Len(before.entries) <= Len(entries)
        /\ \A i \in DOMAIN before.entries : entries[i] = before.entries[i]
        /\ fnTx = <<(Len(before.entries) + 1) .. Len(entries)>>
        /\ before.domains = <<domains[1]>>
        /\ Last(tx) = Snapshot(before.domains)
        /\ domains[1] \subseteq ToSet(before.entries)
        /\ \A i \in DOMAIN running : running[i].fns \subseteq ToSet(before.entries)

ReplIInv == ReplTypes /\ AliveOK /\ StacksOK /\ ArenaOK /\ Recoverable

(* The smallest number that is not in use.                                 *)
LEMMA SmallestUnused ==
    ASSUME NEW S, IsFiniteSet(S)
    PROVE  Smallest((1 .. (Cardinality(S) + 1)) \ S) \in Lambdas
<1> DEFINE n == Cardinality(S) + 1
           T == (1 .. n) \ S
<1>1. n \in Nat /\ n - 1 = Cardinality(S)
  BY FS_CardinalityType
<1>2. T # {}
  <2> SUFFICES ASSUME T = {} PROVE FALSE
    OBVIOUS
  <2>1. 1 .. n \in SUBSET S
    OBVIOUS
  <2>2. Cardinality(1 .. n) = n
    BY <1>1, FS_Interval
  <2>3. Cardinality(1 .. n) <= Cardinality(S)
    BY <2>1, FS_Subset
  <2> HIDE DEF n
  <2> QED
    BY <1>1, <2>2, <2>3
<1>3. T \subseteq Nat /\ \A x \in T : x # 0
  BY <1>1
<1>4. PICK x \in T : \A y \in T : ~ (<<y, x>> \in OpToRel(<, Nat))
  BY <1>2, <1>3, NatLessThanWellFounded, WFMin
<1>5. \A y \in T : x <= y
  <2> SUFFICES ASSUME NEW y \in T PROVE x <= y
    OBVIOUS
  <2>1. <<y, x>> \in Nat \X Nat /\ <<y, x>>[1] = y /\ <<y, x>>[2] = x
    BY <1>3
  <2>2. y < x => <<y, x>> \in OpToRel(<, Nat)
    BY <2>1 DEF OpToRel
  <2>3. ~ (y < x) /\ x \in Nat /\ y \in Nat
    BY <1>3, <1>4, <2>2
  <2> QED
    BY <2>3
<1>6. Smallest(T) \in T
  BY <1>5 DEF Smallest
<1> QED
  BY <1>3, <1>6 DEF Lambdas

LEMMA FinitelyMany ==
    ASSUME NEW S, NEW s \in Seq(S)
    PROVE  IsFiniteSet(ToSet(s))
<1>1. PICK n \in Nat : n = Len(s) /\ s \in [1 .. n -> S] /\ DOMAIN s = 1 .. n
  BY LenProperties
<1>2. s \in [1 .. n -> ToSet(s)] /\ \A y \in ToSet(s) : \E i \in 1 .. n : s[i] = y
  BY <1>1 DEF ToSet
<1>3. s \in Surjection(1 .. n, ToSet(s))
  BY <1>2 DEF Surjection
<1> QED
  BY <1>3, FS_Interval, FS_Surjection

(* Opening a block and closing it counts the loops among them.             *)
LEMMA LoopsAppended ==
    ASSUME NEW s \in Seq(BlockKinds), NEW k \in BlockKinds
    PROVE  /\ IsFiniteSet(LoopsIn(s)) /\ Cardinality(LoopsIn(s)) \in Nat
           /\ Cardinality(LoopsIn(Append(s, k)))
                  = Cardinality(LoopsIn(s)) + (IF k = "loop" THEN 1 ELSE 0)
<1>1. PICK n \in Nat : n = Len(s) /\ DOMAIN s = 1 .. n
  OBVIOUS
<1>2. IsFiniteSet(LoopsIn(s)) /\ Cardinality(LoopsIn(s)) \in Nat
  <2>1. LoopsIn(s) \in SUBSET (1 .. n)
    BY <1>1 DEF LoopsIn
  <2> QED
    <3>1. IsFiniteSet(1 .. n)
      BY FS_Interval
    <3>2. IsFiniteSet(LoopsIn(s))
      BY <2>1, <3>1, FS_Subset
    <3> QED
      BY <3>2, FS_CardinalityType
<1>3. /\ DOMAIN Append(s, k) = 1 .. n + 1 /\ Append(s, k)[n + 1] = k
      /\ \A i \in 1 .. n : Append(s, k)[i] = s[i]
  BY <1>1, AppendedSeq
<1>4. \A i : i \in 1 .. n + 1 <=> i \in 1 .. n \/ i = n + 1
  BY <1>1
<1>5. n + 1 \notin LoopsIn(s)
  BY <1>1 DEF LoopsIn
<1>6. CASE k = "loop"
  <2>1. LoopsIn(Append(s, k)) = LoopsIn(s) \cup {n + 1}
    BY <1>1, <1>3, <1>4, <1>6 DEF LoopsIn
  <2> QED
    BY <1>2, <1>5, <1>6, <2>1, FS_AddElement
<1>7. CASE k # "loop"
  <2>1. LoopsIn(Append(s, k)) = LoopsIn(s)
    BY <1>1, <1>3, <1>4, <1>7 DEF LoopsIn
  <2> QED
    BY <1>2, <1>7, <2>1
<1> QED
  BY <1>6, <1>7

LEMMA LoopsOfFront ==
    ASSUME NEW s \in Seq(BlockKinds), s # <<>>
    PROVE  /\ Cardinality(LoopsIn(Front(s))) \in Nat
           /\ Cardinality(LoopsIn(s))
                  = Cardinality(LoopsIn(Front(s))) + (IF Last(s) = "loop" THEN 1 ELSE 0)
<1>1. PICK n \in Nat : n = Len(s)
  OBVIOUS
<1>2. /\ n >= 1 /\ n - 1 \in Nat /\ Last(s) = s[n] /\ Last(s) \in BlockKinds
      /\ Front(s) \in Seq(BlockKinds) /\ Len(Front(s)) = n - 1
      /\ \A i \in 1 .. n - 1 : Front(s)[i] = s[i]
  BY <1>1, FrontSeq
<1>3. /\ Append(Front(s), Last(s)) \in Seq(BlockKinds)
      /\ Len(Append(Front(s), Last(s))) = n /\ Append(Front(s), Last(s))[n] = Last(s)
      /\ \A i \in 1 .. n - 1 : Append(Front(s), Last(s))[i] = s[i]
  BY <1>2, AppendedSeq
<1>4. \A i \in 1 .. n : i = n \/ i \in 1 .. n - 1
  BY <1>2
<1>5. s = Append(Front(s), Last(s))
  BY <1>1, <1>2, <1>3, <1>4, SeqEqual
<1> QED
  BY <1>2, <1>5, LoopsAppended

LEMMA NoLoops == LoopsIn(<<>>) = {} /\ Cardinality(LoopsIn(<<>>)) = 0
<1>1. LoopsIn(<<>>) = {}
  BY DEF LoopsIn
<1> QED
  BY <1>1, FS_EmptySet
-----------------------------------------------------------------------------
(* The lambda a line registers and the arena it gets are numbered.         *)
LEMMA FreshNumbers ==
    ASSUME ReplIInv
    PROVE  FreshFn \in Lambdas /\ FreshUnit \in Lambdas
<1>1. FreshFn \in Lambdas
  <2>1. KnownFunctions \subseteq ToSet(entries)
    <3>1. Bound \subseteq ToSet(entries)
      BY DEF Bound, ToSet, ReplIInv, AliveOK
    <3>2. Waiting \subseteq ToSet(entries)
      BY DEF Waiting, ToSet, ReplIInv, AliveOK
    <3>3. ASSUME NEW i \in DOMAIN tx
          PROVE  UNION ToSet(tx[i].data) \subseteq ToSet(entries)
      <4>1. CASE tx[i] = Void
        <5>1. ToSet(tx[i].data) = {}
          BY <4>1 DEF Void, ToSet
        <5> QED
          BY <5>1
      <4>2. CASE Compiling /\ i = Len(tx)
        <5>1. Last(tx) = tx[i] /\ before.domains = <<domains[1]>> /\ tx[i].data = before.domains
          BY <4>2 DEF Last, ReplIInv, Recoverable, Snapshot
        <5>2. ToSet(<<domains[1]>>) = {domains[1]}
          BY DEF ToSet
        <5>3. domains[1] \subseteq ToSet(entries)
          <6>1. 1 \in DOMAIN domains
            BY DEF ReplIInv, ReplTypes, StacksOK
          <6> QED
            BY <6>1 DEF ReplIInv, AliveOK
        <5> QED
          BY <5>1, <5>2, <5>3
      <4> QED
        BY <4>1, <4>2 DEF ReplIInv, ReplTypes
    <3>4. UNION {UNION ToSet(r.data) : r \in ToSet(tx)} \subseteq ToSet(entries)
      <4>1. \A r \in ToSet(tx) : UNION ToSet(r.data) \subseteq ToSet(entries)
        <5> SUFFICES ASSUME NEW i \in DOMAIN tx
                     PROVE  UNION ToSet(tx[i].data) \subseteq ToSet(entries)
          BY DEF ToSet
        <5> QED
          BY <3>3
      <4> QED
        BY <4>1
    <3> QED
      BY <3>1, <3>2, <3>4 DEF KnownFunctions
  <2>2. IsFiniteSet(KnownFunctions)
    BY <2>1, FinitelyMany, FS_Subset DEF ReplIInv, ReplTypes
  <2> QED
    BY <2>2, SmallestUnused DEF FreshFn
<1>2. FreshUnit \in Lambdas
  <2>1. IsFiniteSet(ToSet(units)) /\ IsFiniteSet(ToSet(savedUnits))
    BY FinitelyMany DEF ReplIInv, ReplTypes
  <2>2. IsFiniteSet(ToSet(units) \cup ToSet(savedUnits) \cup {currentUnit})
    BY <2>1, FS_Union, FS_AddElement
  <2> QED
    BY <2>2, SmallestUnused DEF FreshUnit
<1> QED
  BY <1>1, <1>2

(* Rolling the function store back restores it.                            *)
LEMMA StoreRolledBack ==
    ASSUME ReplIInv
    PROVE  /\ Compiling => RolledBack = before.entries /\ PopTx(fnTx) = <<>>
           /\ ~ Compiling => RolledBack = entries /\ PopTx(fnTx) = <<>>
<1>1. CASE ~ Compiling
  BY <1>1 DEF ReplIInv, StacksOK, RolledBack, PopTx
<1>2. CASE Compiling
  <2>1. PICK n \in Nat : n = Len(entries) /\ DOMAIN entries = 1 .. n
    BY DEF ReplIInv, ReplTypes
  <2>2. PICK b : b = before.entries
    OBVIOUS
  <2>3. b \in Seq(Lambdas) /\ fnTx = <<(Len(b) + 1) .. n>>
    BY <1>2, <2>1, <2>2 DEF ReplIInv, Recoverable
  <2>4. PICK k \in Nat : k = Len(b) /\ DOMAIN b = 1 .. k
    BY <2>3
  <2>5. k <= n /\ (\A i \in 1 .. k : entries[i] = b[i]) /\ fnTx = <<(k + 1) .. n>>
    BY <1>2, <2>1, <2>2, <2>3, <2>4 DEF ReplIInv, Recoverable
  <2>6. fnTx # <<>> /\ Last(fnTx) = (k + 1) .. n /\ PopTx(fnTx) = <<>>
    BY <2>5 DEF Last, PopTx, Front
  <2> DEFINE es == [i \in DOMAIN entries |-> IF i \in Last(fnTx) THEN 0 ELSE entries[i]]
             used == {i \in DOMAIN es : es[i] # 0}
  <2>7. DOMAIN es = 1 .. n
    BY <2>1
  <2>8. \A i \in 1 .. n : i \in 1 .. k \/ i \in (k + 1) .. n
    BY <2>5
  <2>9. \A i \in 1 .. k : i \in 1 .. n /\ i \notin (k + 1) .. n
    BY <2>5
  <2>10. \A i \in 1 .. k : es[i] = b[i] /\ b[i] # 0
    BY <2>1, <2>3, <2>4, <2>5, <2>6, <2>9 DEF Lambdas
  <2>11. \A i \in (k + 1) .. n : i \in 1 .. n => es[i] = 0
    BY <2>1, <2>6
  <2> HIDE DEF es
  <2>12. used = 1 .. k
    BY <2>7, <2>8, <2>9, <2>10, <2>11
  <2>13. (IF used = {} THEN 0 ELSE Max(used)) = k
    <3>1. CASE k = 0
      BY <2>12, <3>1
    <3>2. CASE k # 0
      <4>1. k \in 1 .. k /\ \A y \in 1 .. k : k >= y
        BY <3>2
      <4>2. \A x \in 1 .. k : (\A y \in 1 .. k : x >= y) => x = k
        BY <4>1
      <4>3. Max(1 .. k) = k
        BY <4>1, <4>2 DEF Max
      <4> QED
        BY <2>12, <4>1, <4>3
    <3> QED
      BY <3>1, <3>2
  <2>14. Trimmed(es) = SubSeq(es, 1, k)
    BY <2>13 DEF Trimmed
  <2>15. SubSeq(es, 1, k) = b
    <3>1. \A i \in 1 .. k : es[i] \in Lambdas
      BY <2>3, <2>4, <2>10
    <3>2. /\ SubSeq(es, 1, k) \in Seq(Lambdas) /\ Len(SubSeq(es, 1, k)) = k
          /\ \A i \in 1 .. k - 1 + 1 : SubSeq(es, 1, k)[i] = es[1 + i - 1]
      BY <3>1, SubSeqProperties
    <3>3. \A i \in 1 .. k : i \in 1 .. k - 1 + 1 /\ 1 + i - 1 = i
      OBVIOUS
    <3>4. \A i \in 1 .. k : SubSeq(es, 1, k)[i] = b[i]
      BY <2>10, <3>2, <3>3
    <3> QED
      BY <2>3, <2>4, <3>2, <3>4, SeqEqual
  <2>16. RolledBack = Trimmed(es)
    BY <2>6 DEF RolledBack, es
  <2> QED
    BY <1>2, <2>2, <2>6, <2>14, <2>15, <2>16
<1> QED
  BY <1>1, <1>2

(* Without the open blocks' domains, the storage is the global domain.     *)
LEMMA OneDomainLeft ==
    ASSUME NEW ds, NEW n \in Nat, ds \in Seq(SUBSET Lambdas), Len(ds) = n + 1
    PROVE  SubSeq(ds, 1, Len(ds) - n) = <<ds[1]>> /\ <<ds[1]>> \in Seq(SUBSET Lambdas)
<1>1. Len(ds) - n = 1 /\ 1 \in DOMAIN ds /\ ds[1] \in SUBSET Lambdas
  OBVIOUS
<1>2. /\ SubSeq(ds, 1, 1) \in Seq(SUBSET Lambdas) /\ Len(SubSeq(ds, 1, 1)) = 1
      /\ SubSeq(ds, 1, 1)[1] = ds[1]
  <2>1. \A i \in 1 .. 1 : ds[i] \in SUBSET Lambdas
    BY <1>1
  <2>2. /\ SubSeq(ds, 1, 1) \in Seq(SUBSET Lambdas) /\ Len(SubSeq(ds, 1, 1)) = 1
        /\ \A i \in 1 .. 1 - 1 + 1 : SubSeq(ds, 1, 1)[i] = ds[1 + i - 1]
    BY <2>1, SubSeqProperties
  <2> QED
    BY <2>2
<1>3. <<ds[1]>> \in Seq(SUBSET Lambdas) /\ Len(<<ds[1]>>) = 1 /\ <<ds[1]>>[1] = ds[1]
  BY <1>1
<1>4. SubSeq(ds, 1, 1) = <<ds[1]>>
  <2>1. PICK a, b : a = SubSeq(ds, 1, 1) /\ b = <<ds[1]>>
    OBVIOUS
  <2>2. \A i \in 1 .. Len(a) : a[i] = b[i]
    BY <1>2, <1>3, <2>1
  <2> QED
    BY <1>2, <1>3, <2>1, <2>2, SeqEqual
<1> QED
  BY <1>1, <1>3, <1>4

(* pop_unit() goes back to the arena of the statement around.              *)
LEMMA UnitPopped ==
    ASSUME ReplIInv, units # <<>>, PopUnit
    PROVE  /\ units' = Front(units) /\ savedUnits' = Front(savedUnits)
           /\ units' \in Seq(Lambdas) /\ savedUnits' \in Seq(Nat) /\ currentUnit' \in Nat
           /\ Len(units') = Len(units) - 1 /\ Len(savedUnits') = Len(units')
           /\ \A i \in 1 .. Len(units) - 1 : units'[i] = units[i]
           /\ savedUnits' # <<>> => savedUnits'[1] = 0
           /\ currentUnit' = IF units' = <<>> THEN 0 ELSE Last(units')
<1>1. PICK n \in Nat : n = Len(units) /\ n = Len(savedUnits)
  BY DEF ReplIInv, ReplTypes, StacksOK
<1>2. units \in Seq(Lambdas) /\ savedUnits \in Seq(Nat) /\ savedUnits # <<>>
  <2>1. units \in Seq(Lambdas) /\ savedUnits \in Seq(Nat)
    BY DEF ReplIInv, ReplTypes
  <2>2. n # 0
    BY <1>1, <2>1, EmptySeq
  <2> QED
    BY <1>1, <2>1, <2>2
<1>3. /\ units' = Front(units) /\ savedUnits' = Front(savedUnits)
      /\ currentUnit' = IF Front(units) = <<>> THEN Last(savedUnits) ELSE Last(Front(units))
  BY DEF PopUnit
<1>4. /\ n >= 1 /\ n - 1 \in Nat /\ Front(units) \in Seq(Lambdas) /\ Len(Front(units)) = n - 1
      /\ \A i \in 1 .. n - 1 : Front(units)[i] = units[i]
  BY <1>1, <1>2, FrontSeq
<1>5. /\ Front(savedUnits) \in Seq(Nat) /\ Len(Front(savedUnits)) = n - 1
      /\ Last(savedUnits) = savedUnits[n]
      /\ \A i \in 1 .. n - 1 : Front(savedUnits)[i] = savedUnits[i]
  <2>1. n = Len(savedUnits) /\ n \in Nat /\ savedUnits \in Seq(Nat) /\ savedUnits # <<>>
    BY <1>1, <1>2
  <2>2. Front(savedUnits) \in Seq(Nat) /\ Len(Front(savedUnits)) = n - 1
    BY <2>1, FrontSeq
  <2>3. Last(savedUnits) = savedUnits[n]
    BY <2>1, FrontSeq
  <2>4. \A i \in 1 .. n - 1 : Front(savedUnits)[i] = savedUnits[i]
    BY <2>1, FrontSeq
  <2> QED
    BY <2>2, <2>3, <2>4
<1>6. savedUnits[1] = 0
  BY <1>2 DEF ReplIInv, StacksOK
<1>7. CASE n = 1
  <2>1. Front(units) = <<>> /\ Front(savedUnits) = <<>>
    BY <1>4, <1>5, <1>7
  <2> QED
    BY <1>1, <1>3, <1>4, <1>5, <1>6, <1>7, <2>1
<1>8. CASE n # 1
  <2>1. n - 1 >= 1 /\ Front(units) # <<>> /\ 1 \in 1 .. n - 1
    BY <1>4, <1>8
  <2>2. Last(Front(units)) \in Lambdas
    BY <1>4, <2>1, FrontSeq
  <2> QED
    BY <1>1, <1>3, <1>4, <1>5, <1>6, <2>1, <2>2 DEF Lambdas
<1> QED
  BY <1>7, <1>8

(* What leaving a statement makes of the snapshots.                        *)
LEMMA SnapshotsLeft ==
    ASSUME ReplTypes, tx # <<>>, NEW ts, ts = Front(tx) \/ ts = Append(Front(tx), Void)
    PROVE  /\ ts \in Seq(SnapType) /\ \A i \in DOMAIN ts : ts[i] = Void
           /\ Len(ts) >= Len(tx) - 1 /\ (ts = Append(Front(tx), Void) => Len(ts) = Len(tx))
<1>1. PICK n \in Nat : n = Len(tx)
  BY DEF ReplTypes
<1>2. /\ n >= 1 /\ n - 1 \in Nat /\ DOMAIN tx = 1 .. n /\ Front(tx) \in Seq(SnapType)
      /\ Len(Front(tx)) = n - 1 /\ DOMAIN Front(tx) = 1 .. n - 1
      /\ \A i \in 1 .. n - 1 : Front(tx)[i] = tx[i]
  <2>1. tx \in Seq(SnapType)
    BY DEF ReplTypes
  <2> QED
    BY <1>1, <2>1, FrontSeq
<1>3. \A i \in 1 .. n - 1 : i \in 1 .. n /\ i # n
  BY <1>2
<1>4. \A i \in 1 .. n - 1 : Front(tx)[i] = Void
  BY <1>1, <1>2, <1>3 DEF ReplTypes
<1>5. Void \in SnapType
  BY DEF Void, SnapType
<1>6. /\ Append(Front(tx), Void) \in Seq(SnapType) /\ Len(Append(Front(tx), Void)) = n
      /\ DOMAIN Append(Front(tx), Void) = 1 .. n /\ Append(Front(tx), Void)[n] = Void
      /\ \A i \in 1 .. n - 1 : Append(Front(tx), Void)[i] = Front(tx)[i]
  BY <1>2, <1>5, AppendedSeq
<1>7. \A i \in 1 .. n : i = n \/ i \in 1 .. n - 1
  BY <1>2
<1>8. CASE ts = Front(tx)
  BY <1>1, <1>2, <1>4, <1>8
<1>9. CASE ts = Append(Front(tx), Void)
  BY <1>1, <1>2, <1>4, <1>6, <1>7, <1>9
<1> QED
  BY <1>8, <1>9
-----------------------------------------------------------------------------
(* A statement is in flight while it is compiled or run.                   *)
LEMMA InFlight ==
    ASSUME ReplIInv, Compiling \/ Reentrant
    PROVE  /\ units # <<>> /\ tx # <<>> /\ Len(units) \in Nat /\ Len(units) >= 1
           /\ EndImportScope => importScopes' = Len(units) - 1
           /\ Compiling => Len(units) = Len(running) + 1
           /\ ~ Compiling => Len(units) = Len(running) /\ built = FALSE /\ methods = <<>>
<1>1. /\ units \in Seq(Lambdas) /\ running \in Seq(RunType) /\ tx \in Seq(SnapType)
      /\ Len(units) \in Nat /\ Len(running) \in Nat /\ Len(tx) \in Nat
  BY DEF ReplIInv, ReplTypes
<1>2. Reentrant => Len(running) >= 1
  BY <1>1 DEF Reentrant
<1>3. /\ Compiling => Len(units) = Len(running) + 1
      /\ ~ Compiling => Len(units) = Len(running)
      /\ importScopes = Len(units) /\ Len(tx) >= Len(units)
  BY DEF ReplIInv, StacksOK
<1>4. Len(units) >= 1 /\ Len(tx) >= 1
  BY <1>1, <1>2, <1>3
<1>5. units # <<>> /\ tx # <<>>
  BY <1>1, <1>4
<1> QED
  BY <1>1, <1>3, <1>4, <1>5 DEF EndImportScope, Compiling, ReplIInv, ReplTypes

(* What was registered before the statement is there still.               *)
LEMMA EntriesBefore ==
    ASSUME ReplIInv, Compiling
    PROVE  /\ before.entries \in Seq(Lambdas) /\ Len(before.entries) <= MaxFns
           /\ ToSet(before.entries) \subseteq ToSet(entries)
<1>1. PICK b \in Seq(Lambdas) : b = before.entries
  BY DEF ReplIInv, Recoverable
<1>2. /\ entries \in Seq(Lambdas) /\ Len(entries) \in Nat /\ Len(b) \in Nat
      /\ Len(entries) <= MaxFns /\ Len(b) <= Len(entries) /\ MaxFns \in Nat
  BY <1>1, ReplAssumption DEF ReplIInv, ReplTypes, Recoverable
<1>3. \A i \in DOMAIN b : i \in DOMAIN entries /\ entries[i] = b[i]
  BY <1>1, <1>2 DEF ReplIInv, Recoverable
<1>4. ToSet(b) \subseteq ToSet(entries)
  BY <1>3 DEF ToSet
<1> QED
  BY <1>1, <1>2, <1>4

(* A statement fails or turns out to be empty: before it runs, all is as   *)
(* it was at its beginning, but for the lambdas that an empty one keeps.   *)
LEMMA CompileLeft ==
    ASSUME ReplIInv, Compiling, methods' = <<>>, built' = FALSE, loopDepth' = 0,
           EndImportScope, PopUnit, fnTx' = <<>>, domains' = before.domains,
           entries' = before.entries \/ entries' = entries, running' = running,
           tx' = Front(tx) \/ tx' = Append(Front(tx), Void)
    PROVE  ReplIInv'
<1>1. /\ units # <<>> /\ tx # <<>> /\ importScopes' = Len(units) - 1
      /\ Len(units) = Len(running) + 1
  BY InFlight
<1>2. /\ units' \in Seq(Lambdas) /\ savedUnits' \in Seq(Nat) /\ currentUnit' \in Nat
      /\ Len(units') = Len(units) - 1 /\ Len(savedUnits') = Len(units')
      /\ \A i \in 1 .. Len(units) - 1 : units'[i] = units[i]
      /\ savedUnits' # <<>> => savedUnits'[1] = 0
      /\ currentUnit' = IF units' = <<>> THEN 0 ELSE Last(units')
  BY <1>1, UnitPopped
<1>3. ~ Compiling'
  BY DEF Compiling
<1>4. tx' \in Seq(SnapType) /\ (\A i \in DOMAIN tx' : tx'[i] = Void) /\ Len(tx') >= Len(tx) - 1
  BY <1>1, SnapshotsLeft DEF ReplIInv
<1>5. running \in Seq(RunType) /\ Len(running) \in Nat /\ DOMAIN running = 1 .. Len(running)
  BY DEF ReplIInv, ReplTypes
<1>6. Len(units) - 1 = Len(running) /\ Len(tx) \in Nat /\ Len(tx) >= Len(units)
  BY <1>1, <1>5 DEF ReplIInv, ReplTypes, StacksOK
<1>7. /\ domains' = <<domains[1]>> /\ domains' \in Seq(SUBSET Lambdas)
      /\ DOMAIN domains' = {1} /\ domains'[1] = domains[1] /\ Len(domains') = 1
  <2>1. domains' = <<domains[1]>>
    BY DEF ReplIInv, Recoverable
  <2>2. domains[1] \in SUBSET Lambdas
    BY DEF ReplIInv, ReplTypes, StacksOK
  <2> QED
    BY <2>1, <2>2
<1>8. /\ entries' \in Seq(Lambdas) /\ Len(entries') <= MaxFns
      /\ ToSet(before.entries) \subseteq ToSet(entries')
  BY EntriesBefore DEF ReplIInv, ReplTypes
<1>9. ReplTypes'
  <2>1. methods' \in Seq(BlockKinds)
    BY EmptySeq
  <2>3. built' \in BOOLEAN
    OBVIOUS
  <2>2. running' \in Seq(RunType) /\ entries' \in Seq(Lambdas) /\ Len(entries') <= MaxFns
    BY <1>5, <1>8
  <2> QED
    BY <1>2, <1>4, <1>7, <2>1, <2>2, <2>3 DEF ReplTypes
<1>10. AliveOK'
  BY <1>7, <1>8 DEF AliveOK, ReplIInv, Recoverable
<1>11. StacksOK'
  <2>1. Len(methods') = 0 /\ LoopsIn(methods') = {} /\ Cardinality(LoopsIn(methods')) = 0
    BY NoLoops
  <2> QED
    BY <1>1, <1>2, <1>3, <1>4, <1>5, <1>6, <1>7, <2>1 DEF StacksOK
<1>12. ArenaOK'
  BY <1>2, <1>5, <1>6 DEF ArenaOK, ReplIInv
<1> QED
  BY <1>3, <1>9, <1>10, <1>11, <1>12 DEF ReplIInv, Recoverable

(* The statement that was running has ended, one way or the other.         *)
LEMMA RunLeft ==
    ASSUME ReplIInv, ~ Compiling, Reentrant, methods' = <<>>, built' = FALSE,
           loopDepth' = 0, EndImportScope, PopUnit, fnTx' = <<>>, domains' = domains,
           entries' = entries, running' = Front(running),
           tx' = Front(tx) \/ tx' = Append(Front(tx), Void)
    PROVE  ReplIInv'
<1>1. /\ units # <<>> /\ tx # <<>> /\ importScopes' = Len(units) - 1
      /\ Len(units) = Len(running) /\ methods = <<>>
  BY InFlight
<1>2. /\ units' \in Seq(Lambdas) /\ savedUnits' \in Seq(Nat) /\ currentUnit' \in Nat
      /\ Len(units') = Len(units) - 1 /\ Len(savedUnits') = Len(units')
      /\ \A i \in 1 .. Len(units) - 1 : units'[i] = units[i]
      /\ savedUnits' # <<>> => savedUnits'[1] = 0
      /\ currentUnit' = IF units' = <<>> THEN 0 ELSE Last(units')
  BY <1>1, UnitPopped
<1>3. ~ Compiling'
  BY DEF Compiling
<1>4. tx' \in Seq(SnapType) /\ (\A i \in DOMAIN tx' : tx'[i] = Void) /\ Len(tx') >= Len(tx) - 1
  BY <1>1, SnapshotsLeft DEF ReplIInv
<1>5. PICK n \in Nat : n = Len(running)
  BY DEF ReplIInv, ReplTypes
<1>6. running \in Seq(RunType) /\ running # <<>> /\ DOMAIN running = 1 .. n
  BY <1>5 DEF ReplIInv, ReplTypes, Reentrant
<1>7. /\ n >= 1 /\ running' \in Seq(RunType) /\ Len(running') = n - 1
      /\ DOMAIN running' = 1 .. n - 1 /\ \A i \in 1 .. n - 1 : running'[i] = running[i]
  BY <1>5, <1>6, FrontSeq
<1>8. \A i \in 1 .. n - 1 : i \in 1 .. n
  OBVIOUS
<1>9. ReplTypes'
  <2>1. methods' \in Seq(BlockKinds)
    BY EmptySeq
  <2>3. built' \in BOOLEAN
    OBVIOUS
  <2>2. /\ entries' \in Seq(Lambdas) /\ Len(entries') <= MaxFns
        /\ domains' \in Seq(SUBSET Lambdas)
    BY DEF ReplIInv, ReplTypes
  <2> QED
    BY <1>2, <1>4, <1>7, <2>1, <2>2, <2>3 DEF ReplTypes
<1>10. AliveOK'
  BY <1>6, <1>7, <1>8 DEF AliveOK, ReplIInv
<1>11. StacksOK'
  <2>1. Len(methods') = 0 /\ LoopsIn(methods') = {} /\ Cardinality(LoopsIn(methods')) = 0
    BY NoLoops
  <2>2. Len(tx) \in Nat /\ Len(tx) >= n /\ Len(domains) = 1
    BY <1>1, <1>5 DEF ReplIInv, ReplTypes, StacksOK
  <2> QED
    BY <1>1, <1>2, <1>3, <1>4, <1>5, <1>7, <2>1, <2>2 DEF StacksOK
<1>12. ArenaOK'
  BY <1>1, <1>2, <1>5, <1>6, <1>7, <1>8 DEF ArenaOK, ReplIInv
<1> QED
  BY <1>3, <1>9, <1>10, <1>11, <1>12 DEF ReplIInv, Recoverable

LEMMA LiveSnapshot ==
    ASSUME ReplIInv, Compiling
    PROVE  /\ tx # <<>> /\ Last(tx).live /\ Last(tx).data = before.domains
           /\ WithoutBlocks(domains) = before.domains
<1>1. tx # <<>>
  BY InFlight
<1>2. Last(tx).live /\ Last(tx).data = before.domains
  BY DEF ReplIInv, Recoverable, Snapshot
<1>3. WithoutBlocks(domains) = <<domains[1]>>
  <2>1. PICK n \in Nat : n = Len(methods)
    BY DEF ReplIInv, ReplTypes
  <2>2. domains \in Seq(SUBSET Lambdas) /\ Len(domains) = n + 1
    BY <2>1 DEF ReplIInv, ReplTypes, StacksOK
  <2>3. SubSeq(domains, 1, Len(domains) - n) = <<domains[1]>>
    BY <2>2, OneDomainLeft
  <2> QED
    BY <2>1, <2>3 DEF WithoutBlocks
<1> QED
  BY <1>1, <1>2, <1>3 DEF ReplIInv, Recoverable

LEMMA VoidSnapshot ==
    ASSUME ReplIInv, ~ Compiling, Reentrant
    PROVE  tx # <<>> /\ ~ Last(tx).live /\ methods = <<>> /\ WithoutBlocks(domains) = domains
           /\ loopDepth = 0 /\ fnTx = <<>>
<1>1. tx # <<>> /\ methods = <<>>
  BY InFlight
<1>2. PICK n \in Nat : n = Len(tx)
  BY DEF ReplIInv, ReplTypes
<1>3. tx \in Seq(SnapType)
  BY DEF ReplIInv, ReplTypes
<1>4. Last(tx) = tx[n] /\ n \in DOMAIN tx
  <2>1. n >= 1 /\ DOMAIN tx = 1 .. n /\ Last(tx) = tx[n]
    BY <1>1, <1>2, <1>3, FrontSeq
  <2> QED
    BY <2>1
<1>5. Last(tx) = Void
  BY <1>4 DEF ReplIInv, ReplTypes
<1>6. ~ Last(tx).live
  BY <1>5 DEF Void
<1>7. Len(methods) = 0 /\ Cardinality(LoopsIn(methods)) = 0
  BY <1>1, NoLoops
<1>8. WithoutBlocks(domains) = domains
  <2>1. domains \in Seq(SUBSET Lambdas) /\ Len(domains) - Len(methods) = Len(domains)
    BY <1>7 DEF ReplIInv, ReplTypes
  <2> QED
    BY <2>1, SubSeqFull DEF WithoutBlocks
<1> QED
  BY <1>1, <1>6, <1>7, <1>8 DEF ReplIInv, StacksOK

(* The three ways for a line to fail before it runs.                       *)
LEMMA RejectKeeps ==
    ASSUME ReplIInv, RejectLine
    PROVE  ReplIInv' /\ domains' = before.domains /\ entries' = before.entries
<1>1. Compiling
  BY DEF RejectLine, Compiling
<1>2. domains' = before.domains /\ entries' = before.entries /\ fnTx' = <<>> /\ tx' = Front(tx)
  BY <1>1, LiveSnapshot, StoreRolledBack DEF RejectLine, ResetStatus, PopTx
<1>3. /\ methods' = <<>> /\ built' = FALSE /\ loopDepth' = 0 /\ EndImportScope /\ PopUnit
      /\ running' = running
  BY DEF RejectLine, ResetStatus
<1> QED
  BY <1>1, <1>2, <1>3, CompileLeft

LEMMA RestoredKeeps ==
    ASSUME ReplIInv, built, ResetStatus, NEW ds, RestoreTop(ds), built' = FALSE,
           running' = running
    PROVE  ReplIInv' /\ domains' = before.domains /\ entries' = before.entries
<1>1. Compiling
  BY DEF Compiling
<1>2. /\ domains' = before.domains /\ entries' = before.entries /\ fnTx' = <<>>
      /\ tx' = Append(Front(tx), Void)
  BY <1>1, LiveSnapshot, StoreRolledBack DEF ResetStatus, RestoreTop, RollbackTop
<1>3. methods' = <<>> /\ loopDepth' = 0 /\ EndImportScope /\ PopUnit
  BY DEF ResetStatus
<1> QED
  BY <1>1, <1>2, <1>3, CompileLeft

LEMMA FailuresKeep ==
    ASSUME ReplIInv, RejectLine \/ FailClose \/ \E fns \in {{}, OwnFns} : FailCompile(fns)
    PROVE  ReplIInv' /\ domains' = before.domains /\ entries' = before.entries
<1>1. CASE RejectLine
  BY <1>1, RejectKeeps
<1>2. CASE FailClose
  BY <1>2, RestoredKeeps DEF FailClose
<1>3. ASSUME NEW fns \in {{}, OwnFns}, FailCompile(fns)
      PROVE  ReplIInv' /\ domains' = before.domains /\ entries' = before.entries
  BY <1>3, RestoredKeeps DEF FailCompile
<1> QED
  BY <1>1, <1>2, <1>3
-----------------------------------------------------------------------------
(* The lambdas of the statement being compiled are in the function store.  *)
LEMMA OwnAreKnown ==
    ASSUME ReplIInv
    PROVE  OwnFns \subseteq ToSet(entries) /\ OwnFns \subseteq Lambdas
<1>1. ToSet(entries) \subseteq Lambdas
  BY DEF ReplIInv, ReplTypes, ToSet
<1>2. CASE fnTx = <<>>
  BY <1>2 DEF OwnFns
<1>3. CASE fnTx # <<>>
  <2>1. Compiling
    BY <1>3 DEF ReplIInv, StacksOK
  <2>2. PICK b, n : b = Len(before.entries) /\ n = Len(entries)
    OBVIOUS
  <2>3. b \in Nat /\ n \in Nat /\ DOMAIN entries = 1 .. n /\ fnTx = <<(b + 1) .. n>>
    BY <2>1, <2>2 DEF ReplIInv, ReplTypes, Recoverable
  <2>4. Last(fnTx) = (b + 1) .. n
    BY <2>3 DEF Last
  <2>5. \A i \in (b + 1) .. n : i \in 1 .. n
    BY <2>3
  <2> QED
    BY <1>1, <1>3, <2>3, <2>4, <2>5 DEF OwnFns, ToSet
<1> QED
  BY <1>2, <1>3

LEMMA Rebound ==
    ASSUME NEW ds \in Seq(SUBSET Lambdas), NEW n \in Nat, n = Len(ds), n >= 1,
           NEW fns \in SUBSET Lambdas
    PROVE  /\ Bind(ds, fns) \in Seq(SUBSET Lambdas) /\ Len(Bind(ds, fns)) = n
           /\ DOMAIN Bind(ds, fns) = 1 .. n /\ DOMAIN ds = 1 .. n
           /\ Bind(ds, fns)[n] = ds[n] \cup fns
           /\ \A i \in 1 .. n : i # n => Bind(ds, fns)[i] = ds[i]
<1>1. n \in 1 .. Len(ds) /\ DOMAIN ds = 1 .. n /\ ds[n] \in SUBSET Lambdas
  OBVIOUS
<1>2. PICK e : e = ds[n] \cup fns
  OBVIOUS
<1>3. e \in SUBSET Lambdas /\ Bind(ds, fns) = [ds EXCEPT ![n] = e]
  BY <1>1, <1>2 DEF Bind
<1>4. /\ [ds EXCEPT ![n] = e] \in Seq(SUBSET Lambdas) /\ Len([ds EXCEPT ![n] = e]) = Len(ds)
      /\ \A j \in 1 .. Len(ds) : [ds EXCEPT ![n] = e][j] = IF j = n THEN e ELSE ds[j]
  BY <1>1, <1>3, ExceptSeq
<1> QED
  BY <1>1, <1>2, <1>3, <1>4

(* Nothing that runs, or may run, is lost when a domain changes.           *)
LEMMA DomainsChanged ==
    ASSUME ReplIInv, methods' \in Seq(BlockKinds), domains' \in Seq(SUBSET Lambdas),
           Len(domains') = 1 + Len(methods'),
           \A i \in DOMAIN domains' : domains'[i] \subseteq ToSet(entries),
           loopDepth' = Cardinality(LoopsIn(methods')),
           methods' # <<>> => running = <<>>,
           built' = FALSE, Compiling' <=> Compiling,
           Compiling => domains'[1] = domains[1],
           UNCHANGED <<importScopes, entries, fnTx, tx, units, savedUnits, currentUnit,
                       running, before>>
    PROVE  ReplIInv'
<1>1. ReplTypes'
  BY DEF ReplIInv, ReplTypes
<1>2. AliveOK'
  BY DEF ReplIInv, AliveOK
<1>3. StacksOK'
  BY DEF ReplIInv, StacksOK
<1>4. ArenaOK'
  BY DEF ReplIInv, ArenaOK
<1>5. Recoverable'
  BY DEF ReplIInv, Recoverable
<1> QED
  BY <1>1, <1>2, <1>3, <1>4, <1>5 DEF ReplIInv

LEMMA OpenKeeps ==
    ASSUME ReplIInv, NEW kind \in BlockKinds, OpenBlock(kind)
    PROVE  ReplIInv'
<1>1. PICK n \in Nat : n = Len(methods) /\ n + 1 = Len(domains)
  BY DEF ReplIInv, ReplTypes, StacksOK
<1>2. methods \in Seq(BlockKinds) /\ domains \in Seq(SUBSET Lambdas)
  BY DEF ReplIInv, ReplTypes
<1>3. /\ methods' = Append(methods, kind) /\ domains' = Append(domains, {})
      /\ loopDepth' = loopDepth + (IF kind = "loop" THEN 1 ELSE 0)
      /\ built /\ built' = FALSE /\ running = <<>>
      /\ UNCHANGED <<importScopes, entries, fnTx, tx, units, savedUnits, currentUnit,
                     running, before>>
  BY DEF OpenBlock, Reentrant
<1>4. methods' \in Seq(BlockKinds) /\ Len(methods') = n + 1 /\ methods' # <<>>
  BY <1>1, <1>2, <1>3, AppendedSeq
<1>5. /\ domains' \in Seq(SUBSET Lambdas) /\ Len(domains') = n + 2
      /\ DOMAIN domains' = 1 .. n + 2 /\ domains'[n + 2] = {}
      /\ \A i \in 1 .. n + 1 : domains'[i] = domains[i]
  <2>1. n + 1 \in Nat /\ (n + 1) + 1 = n + 2
    OBVIOUS
  <2>2. PICK m \in Nat : m = n + 1
    BY <2>1
  <2>3. /\ Append(domains, {}) \in Seq(SUBSET Lambdas) /\ Len(Append(domains, {})) = m + 1
        /\ DOMAIN Append(domains, {}) = 1 .. m + 1 /\ Append(domains, {})[m + 1] = {}
        /\ \A i \in 1 .. m : Append(domains, {})[i] = domains[i]
    BY <1>1, <1>2, <2>2, AppendedSeq
  <2> QED
    BY <1>3, <2>1, <2>2, <2>3
<1>6. \A i \in 1 .. n + 2 : i = n + 2 \/ i \in 1 .. n + 1
  OBVIOUS
<1>7. DOMAIN domains = 1 .. n + 1 /\ 1 \in 1 .. n + 1
  BY <1>1, <1>2
<1>8. \A i \in DOMAIN domains' : domains'[i] \subseteq ToSet(entries)
  BY <1>5, <1>6, <1>7 DEF ReplIInv, AliveOK
<1>9. loopDepth' = Cardinality(LoopsIn(methods'))
  BY <1>2, <1>3, LoopsAppended DEF ReplIInv, StacksOK
<1>10. Compiling /\ Compiling'
  BY <1>3, <1>4 DEF Compiling
<1>11. domains'[1] = domains[1] /\ Len(domains') = 1 + Len(methods')
  BY <1>3, <1>4, <1>5, <1>7
<1> QED
  BY <1>3, <1>4, <1>5, <1>8, <1>9, <1>10, <1>11, DomainsChanged

LEMMA DeferKeeps ==
    ASSUME ReplIInv, NEW fns \in {{}, OwnFns}, DeferLine(fns)
    PROVE  ReplIInv'
<1>1. PICK n \in Nat : n = Len(domains) /\ n = 1 + Len(methods)
  BY DEF ReplIInv, ReplTypes, StacksOK
<1>2. methods \in Seq(BlockKinds) /\ domains \in Seq(SUBSET Lambdas)
  BY DEF ReplIInv, ReplTypes
<1>3. /\ methods # <<>> /\ methods' = methods /\ domains' = Bind(domains, fns)
      /\ loopDepth' = loopDepth /\ built' = FALSE
      /\ UNCHANGED <<importScopes, entries, fnTx, tx, units, savedUnits, currentUnit,
                     running, before>>
  BY DEF DeferLine
<1>4. n > 1 /\ n >= 1
  <2>1. Len(methods) # 0 /\ Len(methods) \in Nat
    BY <1>2, <1>3, EmptySeq
  <2> QED
    BY <1>1, <2>1
<1>5. fns \subseteq ToSet(entries) /\ fns \in SUBSET Lambdas
  BY OwnAreKnown
<1>6. /\ domains' \in Seq(SUBSET Lambdas) /\ Len(domains') = n
      /\ DOMAIN domains' = 1 .. n /\ DOMAIN domains = 1 .. n
      /\ domains'[n] = domains[n] \cup fns
      /\ \A i \in 1 .. n : i # n => domains'[i] = domains[i]
  <2>1. PICK ds \in Seq(SUBSET Lambdas) : ds = domains
    BY <1>2
  <2>2. n = Len(ds)
    BY <1>1, <2>1
  <2>3. /\ Bind(ds, fns) \in Seq(SUBSET Lambdas) /\ Len(Bind(ds, fns)) = n
        /\ DOMAIN Bind(ds, fns) = 1 .. n /\ DOMAIN ds = 1 .. n
        /\ Bind(ds, fns)[n] = ds[n] \cup fns
        /\ \A i \in 1 .. n : i # n => Bind(ds, fns)[i] = ds[i]
    BY <1>4, <1>5, <2>2, Rebound
  <2> QED
    BY <1>3, <2>1, <2>3
<1>7. \A i \in DOMAIN domains' : domains'[i] \subseteq ToSet(entries)
  BY <1>5, <1>6 DEF ReplIInv, AliveOK
<1>8. Compiling /\ Compiling'
  BY <1>3 DEF Compiling
<1>9. domains'[1] = domains[1] /\ Len(domains') = 1 + Len(methods')
  BY <1>1, <1>3, <1>4, <1>6
<1>10. /\ methods' \in Seq(BlockKinds) /\ loopDepth' = Cardinality(LoopsIn(methods'))
       /\ methods' # <<>> => running = <<>>
  BY <1>2, <1>3 DEF ReplIInv, StacksOK
<1> QED
  BY <1>3, <1>6, <1>7, <1>8, <1>9, <1>10, DomainsChanged

(* A block is closed: it is taken off, and what a namespace binds is bound *)
(* around it.                                                              *)
LEMMA BlockClosed ==
    ASSUME ReplIInv, methods # <<>>, NEW fns \in {{}, Last(domains)}, CloseBlock(fns)
    PROVE  /\ methods' \in Seq(BlockKinds) /\ Len(methods') = Len(methods) - 1
           /\ loopDepth' = Cardinality(LoopsIn(methods'))
           /\ domains' \in Seq(SUBSET Lambdas) /\ Len(domains') = Len(methods)
           /\ \A i \in DOMAIN domains' : domains'[i] \subseteq ToSet(entries)
           /\ Len(methods) > 1 => domains'[1] = domains[1]
<1>1. PICK n \in Nat : n = Len(methods) /\ Len(domains) = n + 1
  BY DEF ReplIInv, ReplTypes, StacksOK
<1>2. methods \in Seq(BlockKinds) /\ domains \in Seq(SUBSET Lambdas) /\ domains # <<>>
  BY <1>1 DEF ReplIInv, ReplTypes
<1>3. /\ methods' = Front(methods) /\ loopDepth' = ClosedBlock
      /\ domains' = Bind(Front(domains), fns)
  BY DEF CloseBlock
<1>4. n >= 1 /\ Front(methods) \in Seq(BlockKinds) /\ Len(Front(methods)) = n - 1
  BY <1>1, <1>2, FrontSeq
<1>5. loopDepth' = Cardinality(LoopsIn(methods'))
  <2>1. /\ Cardinality(LoopsIn(Front(methods))) \in Nat
        /\ loopDepth = Cardinality(LoopsIn(Front(methods)))
                           + (IF Last(methods) = "loop" THEN 1 ELSE 0)
    BY <1>2, LoopsOfFront DEF ReplIInv, StacksOK
  <2> QED
    BY <1>3, <2>1 DEF ClosedBlock
<1>6. /\ Front(domains) \in Seq(SUBSET Lambdas) /\ Len(Front(domains)) = n
      /\ Last(domains) = domains[n + 1] /\ DOMAIN domains = 1 .. n + 1
      /\ \A i \in 1 .. n : Front(domains)[i] = domains[i]
  <2>1. PICK m \in Nat : m = n + 1
    BY <1>1
  <2>2. m = Len(domains) /\ m - 1 = n
    BY <1>1, <2>1
  <2>3. /\ Front(domains) \in Seq(SUBSET Lambdas) /\ Len(Front(domains)) = m - 1
        /\ DOMAIN domains = 1 .. m
    BY <1>2, <2>2, FrontSeq
  <2>4. Last(domains) = domains[m]
    BY <2>2 DEF Last
  <2>5. \A i \in 1 .. m - 1 : Front(domains)[i] = domains[i]
    BY <1>2, <2>2, FrontSeq
  <2> QED
    BY <2>1, <2>2, <2>3, <2>4, <2>5
<1>7. n + 1 \in 1 .. n + 1 /\ \A i \in 1 .. n : i \in 1 .. n + 1
  BY <1>4
<1>8. fns \subseteq ToSet(entries) /\ fns \in SUBSET Lambdas
  <2>1. domains[n + 1] \subseteq ToSet(entries) /\ domains[n + 1] \in SUBSET Lambdas
    BY <1>2, <1>6, <1>7 DEF ReplIInv, AliveOK
  <2> QED
    BY <1>6, <2>1
<1>9. PICK ds : ds = Front(domains)
  OBVIOUS
<1>10. /\ domains' \in Seq(SUBSET Lambdas) /\ Len(domains') = n /\ DOMAIN domains' = 1 .. n
       /\ domains'[n] = ds[n] \cup fns
       /\ \A i \in 1 .. n : i # n => domains'[i] = ds[i]
  BY <1>3, <1>4, <1>6, <1>8, <1>9, Rebound
<1>11. \A i \in 1 .. n : ds[i] \subseteq ToSet(entries)
  BY <1>6, <1>7, <1>9 DEF ReplIInv, AliveOK
<1>12. n > 1 => domains'[1] = domains[1]
  BY <1>6, <1>9, <1>10
<1> QED
  BY <1>1, <1>3, <1>4, <1>5, <1>8, <1>10, <1>11, <1>12

LEMMA CloseKeeps ==
    ASSUME ReplIInv, NEW fns \in {{}, Last(domains)}, CloseInner(fns)
    PROVE  ReplIInv'
<1>1. /\ built /\ Len(methods) > 1 /\ CloseBlock(fns) /\ built' = FALSE
      /\ UNCHANGED <<importScopes, entries, fnTx, tx, units, savedUnits, currentUnit,
                     running, before>>
  BY DEF CloseInner
<1>2. methods # <<>> /\ Len(methods) \in Nat
  BY <1>1 DEF ReplIInv, ReplTypes
<1>3. /\ methods' \in Seq(BlockKinds) /\ Len(methods') = Len(methods) - 1
      /\ loopDepth' = Cardinality(LoopsIn(methods'))
      /\ domains' \in Seq(SUBSET Lambdas) /\ Len(domains') = Len(methods)
      /\ \A i \in DOMAIN domains' : domains'[i] \subseteq ToSet(entries)
      /\ domains'[1] = domains[1]
  BY <1>1, <1>2, BlockClosed
<1>4. methods' # <<>> /\ Len(domains') = 1 + Len(methods') /\ running = <<>>
  BY <1>1, <1>2, <1>3 DEF ReplIInv, StacksOK
<1>5. Compiling /\ Compiling'
  BY <1>1, <1>4 DEF Compiling
<1> QED
  BY <1>1, <1>3, <1>4, <1>5, DomainsChanged
-----------------------------------------------------------------------------
(* A statement starts to run, and cannot be rolled back any more.          *)
LEMMA StartKeeps ==
    ASSUME ReplIInv, built, StartRun, methods' = <<>>, loopDepth' = 0,
           domains' \in Seq(SUBSET Lambdas), Len(domains') = 1,
           domains'[1] \subseteq ToSet(entries)
    PROVE  ReplIInv'
<1>1. Compiling
  BY DEF Compiling
<1>2. /\ running' = Append(running, [fns |-> OwnFns, unit |-> currentUnit])
      /\ tx' = Append(Front(tx), Void) /\ built' = FALSE
      /\ UNCHANGED <<importScopes, entries, units, savedUnits, currentUnit, before>>
  BY DEF StartRun, Commit
<1>3. ~ Compiling'
  BY <1>2 DEF Compiling
<1>4. units # <<>> /\ tx # <<>> /\ Len(units) = Len(running) + 1
  BY <1>1, InFlight
<1>5. /\ tx' \in Seq(SnapType) /\ (\A i \in DOMAIN tx' : tx'[i] = Void)
      /\ Len(tx') = Len(tx)
  BY <1>2, <1>4, SnapshotsLeft DEF ReplIInv
<1>6. PICK r : r = [fns |-> OwnFns, unit |-> currentUnit]
  OBVIOUS
<1>7. r.fns = OwnFns /\ r.unit = currentUnit /\ r \in RunType
  <2>1. currentUnit \in Nat /\ OwnFns \in SUBSET Lambdas
    BY OwnAreKnown DEF ReplIInv, ReplTypes
  <2> QED
    BY <1>6, <2>1 DEF RunType
<1>8. PICK n \in Nat : n = Len(running)
  BY DEF ReplIInv, ReplTypes
<1>9. running \in Seq(RunType) /\ DOMAIN running = 1 .. n
  BY <1>8 DEF ReplIInv, ReplTypes
<1>10. /\ running' \in Seq(RunType) /\ Len(running') = n + 1 /\ DOMAIN running' = 1 .. n + 1
       /\ running'[n + 1] = r /\ \A i \in 1 .. n : running'[i] = running[i]
  BY <1>2, <1>6, <1>7, <1>8, <1>9, AppendedSeq
<1>11. \A i \in 1 .. n + 1 : i = n + 1 \/ i \in 1 .. n
  BY <1>8
<1>12. fnTx' = <<>>
  <2>1. fnTx' = PopTx(fnTx)
    BY DEF StartRun, Commit
  <2> QED
    BY <1>1, <2>1, StoreRolledBack
<1>13. currentUnit = units[n + 1] /\ Len(units) = n + 1
  <2>1. units \in Seq(Lambdas) /\ Last(units) = units[Len(units)]
    BY DEF ReplIInv, ReplTypes, Last
  <2> QED
    BY <1>4, <1>8, <2>1 DEF ReplIInv, ArenaOK
<1>14. ReplTypes'
  <2>1. methods' \in Seq(BlockKinds)
    BY EmptySeq
  <2>2. built' \in BOOLEAN
    BY <1>2
  <2>3. /\ entries' \in Seq(Lambdas) /\ Len(entries') <= MaxFns /\ units' \in Seq(Lambdas)
        /\ savedUnits' \in Seq(Nat) /\ currentUnit' \in Nat
    BY <1>2 DEF ReplIInv, ReplTypes
  <2> QED
    BY <1>5, <1>10, <2>1, <2>2, <2>3 DEF ReplTypes
<1>15. AliveOK'
  <2>1. \A i \in DOMAIN domains' : domains'[i] \subseteq ToSet(entries)
    OBVIOUS
  <2>2. \A i \in 1 .. n + 1 : running'[i].fns \subseteq ToSet(entries)
    BY <1>7, <1>9, <1>10, <1>11, OwnAreKnown DEF ReplIInv, AliveOK
  <2> QED
    BY <1>2, <1>10, <2>1, <2>2 DEF AliveOK
<1>16. StacksOK'
  <2>1. Len(methods') = 0 /\ Cardinality(LoopsIn(methods')) = 0
    BY NoLoops
  <2>2. /\ Len(units') = n + 1 /\ Len(savedUnits') = Len(units') /\ importScopes' = Len(units')
        /\ Len(tx') >= Len(units') /\ (savedUnits' # <<>> => savedUnits'[1] = 0)
    BY <1>2, <1>5, <1>13 DEF ReplIInv, StacksOK
  <2> QED
    BY <1>3, <1>10, <1>12, <2>1, <2>2 DEF StacksOK
<1>17. ArenaOK'
  <2>1. \A i \in 1 .. n + 1 : running'[i].unit = units[i]
    BY <1>7, <1>9, <1>10, <1>11, <1>13 DEF ReplIInv, ArenaOK
  <2> QED
    BY <1>2, <1>10, <2>1 DEF ReplIInv, ArenaOK
<1> QED
  BY <1>3, <1>14, <1>15, <1>16, <1>17 DEF ReplIInv, Recoverable

LEMMA RunSingleKeeps ==
    ASSUME ReplIInv, NEW fns \in {{}, OwnFns}, RunSingle(fns)
    PROVE  ReplIInv'
<1>1. /\ built /\ methods = <<>> /\ domains' = Bind(domains, fns) /\ StartRun
      /\ methods' = <<>> /\ loopDepth' = loopDepth
  BY DEF RunSingle
<1>2. domains \in Seq(SUBSET Lambdas) /\ Len(domains) = 1 /\ loopDepth = 0
  BY <1>1, NoLoops DEF ReplIInv, ReplTypes, StacksOK
<1>3. fns \subseteq ToSet(entries) /\ fns \in SUBSET Lambdas
  BY OwnAreKnown
<1>4. /\ domains' \in Seq(SUBSET Lambdas) /\ Len(domains') = 1
      /\ domains'[1] = domains[1] \cup fns
  BY <1>1, <1>2, <1>3, Rebound
<1>5. domains[1] \subseteq ToSet(entries)
  BY <1>2 DEF ReplIInv, AliveOK
<1> QED
  BY <1>1, <1>2, <1>3, <1>4, <1>5, StartKeeps

LEMMA RunBlockKeeps ==
    ASSUME ReplIInv, NEW fns \in {{}, Last(domains)}, RunBlock(fns)
    PROVE  ReplIInv'
<1>1. built /\ Len(methods) = 1 /\ CloseBlock(fns) /\ StartRun
  BY DEF RunBlock
<1>2. methods # <<>>
  BY <1>1
<1>3. /\ methods' \in Seq(BlockKinds) /\ Len(methods') = 0
      /\ loopDepth' = Cardinality(LoopsIn(methods'))
      /\ domains' \in Seq(SUBSET Lambdas) /\ Len(domains') = 1
      /\ \A i \in DOMAIN domains' : domains'[i] \subseteq ToSet(entries)
  <2>1. /\ methods' \in Seq(BlockKinds) /\ Len(methods') = Len(methods) - 1
        /\ loopDepth' = Cardinality(LoopsIn(methods'))
        /\ domains' \in Seq(SUBSET Lambdas) /\ Len(domains') = Len(methods)
        /\ \A i \in DOMAIN domains' : domains'[i] \subseteq ToSet(entries)
    BY <1>1, <1>2, BlockClosed
  <2> QED
    BY <1>1, <2>1
<1>4. methods' = <<>> /\ loopDepth' = 0
  BY <1>3, NoLoops, EmptySeq
<1>5. domains'[1] \subseteq ToSet(entries)
  BY <1>3
<1> QED
  BY <1>1, <1>3, <1>4, <1>5, StartKeeps

LEMMA RunNothingKeeps ==
    ASSUME ReplIInv, RunNothing
    PROVE  ReplIInv'
<1>1. Compiling
  BY DEF RunNothing, Compiling
<1>2. /\ methods' = <<>> /\ built' = FALSE /\ EndImportScope /\ PopUnit
      /\ entries' = entries /\ running' = running
  BY DEF RunNothing, Complete
<1>3. domains' = before.domains /\ tx' = Front(tx) /\ fnTx' = <<>>
  BY <1>1, LiveSnapshot, StoreRolledBack DEF RunNothing, Complete
<1>4. loopDepth' = 0
  <2>1. loopDepth' = IF methods = <<>> THEN loopDepth ELSE ClosedBlock
    BY DEF RunNothing
  <2>2. methods \in Seq(BlockKinds) /\ loopDepth = Cardinality(LoopsIn(methods))
    BY DEF ReplIInv, ReplTypes, StacksOK
  <2>3. CASE methods = <<>>
    BY <2>1, <2>2, <2>3, NoLoops
  <2>4. CASE methods # <<>>
    <3>1. Len(methods) \in Nat /\ Len(methods) <= 1 /\ Len(methods) # 0
      BY <2>2, <2>4, EmptySeq DEF RunNothing
    <3>2. PICK n \in Nat : n = Len(methods)
      BY <3>1
    <3>3. Len(Front(methods)) = n - 1 /\ Front(methods) \in Seq(BlockKinds)
      BY <2>2, <2>4, <3>2, FrontSeq
    <3>4. Front(methods) = <<>>
      BY <3>1, <3>2, <3>3
    <3>5. loopDepth = IF Last(methods) = "loop" THEN 1 ELSE 0
      BY <2>2, <2>4, <3>4, LoopsOfFront, NoLoops
    <3> QED
      BY <2>1, <2>4, <3>5 DEF ClosedBlock
  <2> QED
    BY <2>3, <2>4
<1> QED
  BY <1>1, <1>2, <1>3, <1>4, CompileLeft

LEMMA EndsKeep ==
    ASSUME ReplIInv, FinishRun \/ FailRun
    PROVE  ReplIInv'
<1>1. ~ built /\ Reentrant /\ running' = Front(running) /\ EndImportScope /\ PopUnit
  BY DEF FinishRun, FailRun, Complete, ResetStatus
<1>2. ~ Compiling
  BY <1>1 DEF ReplIInv, StacksOK, Compiling, Reentrant
<1>3. built' = FALSE
  BY <1>1 DEF FinishRun, FailRun, ReplIInv, ReplTypes
<1>4. /\ ~ Last(tx).live /\ methods = <<>> /\ WithoutBlocks(domains) = domains
      /\ loopDepth = 0 /\ fnTx = <<>> /\ RolledBack = entries
  BY <1>1, <1>2, VoidSnapshot, StoreRolledBack
<1>5. /\ methods' = <<>> /\ loopDepth' = 0 /\ fnTx' = <<>> /\ domains' = domains
      /\ entries' = entries /\ (tx' = Front(tx) \/ tx' = Append(Front(tx), Void))
  <2>1. CASE FinishRun
    BY <1>4, <2>1 DEF FinishRun, Complete, PopTx
  <2>2. CASE FailRun
    <3>1. tx # <<>>
      BY <1>1, <1>2, InFlight
    <3> QED
      BY <1>4, <2>2, <3>1 DEF FailRun, ResetStatus, RestoreTop, RollbackTop, PopTx
  <2> QED
    BY <2>1, <2>2
<1> QED
  BY <1>1, <1>2, <1>3, <1>5, RunLeft

LEMMA BindRunningKeeps ==
    ASSUME ReplIInv, BindRunning
    PROVE  ReplIInv'
<1>1. /\ ~ built /\ Reentrant /\ domains' = Bind(domains, Last(running).fns)
      /\ methods' = methods /\ loopDepth' = loopDepth /\ built' = built
      /\ UNCHANGED <<importScopes, entries, fnTx, tx, units, savedUnits, currentUnit,
                     running, before>>
  BY DEF BindRunning
<1>2. methods = <<>> /\ ~ Compiling /\ ~ Compiling'
  BY <1>1 DEF ReplIInv, StacksOK, Compiling, Reentrant
<1>3. running \in Seq(RunType) /\ running # <<>>
  BY <1>1 DEF ReplIInv, ReplTypes, Reentrant
<1>4. Last(running).fns \subseteq ToSet(entries) /\ Last(running).fns \in SUBSET Lambdas
  <2>1. PICK n \in Nat : n = Len(running)
    BY <1>3
  <2>2. n >= 1 /\ DOMAIN running = 1 .. n /\ Last(running) = running[n]
    BY <1>3, <2>1, FrontSeq
  <2>3. n \in DOMAIN running /\ running[n] \in RunType
    BY <1>3, <2>2
  <2> QED
    BY <2>2, <2>3 DEF RunType, ReplIInv, AliveOK
<1>5. PICK fns : fns = Last(running).fns
  OBVIOUS
<1>6. domains \in Seq(SUBSET Lambdas) /\ Len(domains) = 1 /\ DOMAIN domains = {1}
  BY <1>2 DEF ReplIInv, ReplTypes, StacksOK
<1>7. /\ domains' \in Seq(SUBSET Lambdas) /\ Len(domains') = 1
      /\ domains'[1] = domains[1] \cup fns
  BY <1>1, <1>4, <1>5, <1>6, Rebound
<1>8. \A i \in DOMAIN domains' : domains'[i] \subseteq ToSet(entries)
  BY <1>4, <1>5, <1>6, <1>7 DEF ReplIInv, AliveOK
<1>9. /\ methods' \in Seq(BlockKinds) /\ loopDepth' = Cardinality(LoopsIn(methods'))
      /\ Len(domains') = 1 + Len(methods')
  BY <1>1, <1>2, <1>7 DEF ReplIInv, ReplTypes, StacksOK
<1>10. built' = FALSE
  BY <1>1 DEF ReplIInv, ReplTypes
<1> QED
  BY <1>1, <1>2, <1>7, <1>8, <1>9, <1>10, DomainsChanged

LEMMA UnbindKeeps ==
    ASSUME ReplIInv, NEW fn, Unbind(fn)
    PROVE  ReplIInv'
<1>1. /\ ~ Compiling /\ domains' = [domains EXCEPT ![1] = domains[1] \ {fn}]
      /\ methods' = methods /\ loopDepth' = loopDepth /\ built' = built
      /\ UNCHANGED <<importScopes, entries, fnTx, tx, units, savedUnits, currentUnit,
                     running, before>>
  BY DEF Unbind
<1>2. methods = <<>> /\ ~ Compiling' /\ ~ built
  BY <1>1 DEF Compiling
<1>3. /\ domains \in Seq(SUBSET Lambdas) /\ Len(domains) = 1 /\ DOMAIN domains = {1}
      /\ domains[1] \in SUBSET Lambdas
  <2>1. domains \in Seq(SUBSET Lambdas) /\ Len(domains) = 1
    BY <1>2 DEF ReplIInv, ReplTypes, StacksOK
  <2>2. 1 \in 1 .. Len(domains) /\ DOMAIN domains = 1 .. Len(domains) /\ 1 .. 1 = {1}
    BY <2>1
  <2> QED
    BY <2>1, <2>2, ElementOfSeq
<1>4. PICK e : e = domains[1] \ {fn}
  OBVIOUS
<1>5. /\ domains' \in Seq(SUBSET Lambdas) /\ Len(domains') = 1 /\ DOMAIN domains' = {1}
      /\ domains'[1] = e
  <2>1. PICK ds \in Seq(SUBSET Lambdas) : ds = domains
    BY <1>3
  <2>2. 1 \in 1 .. Len(ds) /\ e \in SUBSET Lambdas
    BY <1>3, <1>4, <2>1
  <2>3. /\ [ds EXCEPT ![1] = e] \in Seq(SUBSET Lambdas)
        /\ Len([ds EXCEPT ![1] = e]) = Len(ds)
    BY <2>2, ExceptSeq
  <2>4. domains' = [ds EXCEPT ![1] = e]
    BY <1>1, <1>4, <2>1
  <2> QED
    BY <1>3, <2>1, <2>3, <2>4
<1>6. \A i \in DOMAIN domains' : domains'[i] \subseteq ToSet(entries)
  BY <1>3, <1>4, <1>5 DEF ReplIInv, AliveOK
<1>7. /\ methods' \in Seq(BlockKinds) /\ loopDepth' = Cardinality(LoopsIn(methods'))
      /\ Len(domains') = 1 + Len(methods')
  BY <1>1, <1>2, <1>5 DEF ReplIInv, ReplTypes, StacksOK
<1>8. built' = FALSE
  BY <1>1, <1>2 DEF ReplIInv, ReplTypes
<1> QED
  BY <1>1, <1>2, <1>5, <1>6, <1>7, <1>8, DomainsChanged
(* Nothing is in flight and nothing is bound.                              *)
NothingUnderWay ==
    /\ methods = <<>> /\ built = FALSE /\ running = <<>> /\ loopDepth = 0
    /\ units = <<>> /\ savedUnits = <<>> /\ importScopes = 0 /\ currentUnit = 0
    /\ tx = <<>> /\ fnTx = <<>> /\ domains = <<{}>>
    /\ entries \in Seq(Lambdas) /\ Len(entries) <= MaxFns

LEMMA NothingUnderWayIsSound == NothingUnderWay => ReplIInv
<1> SUFFICES ASSUME NothingUnderWay PROVE ReplIInv
  OBVIOUS
<1>1. ~ Compiling
  BY DEF NothingUnderWay, Compiling
<1>2. /\ domains \in Seq(SUBSET Lambdas) /\ Len(domains) = 1 /\ DOMAIN domains = {1}
      /\ domains[1] = {}
  <2>1. {} \in SUBSET Lambdas
    OBVIOUS
  <2> QED
    BY <2>1 DEF NothingUnderWay
<1>3. /\ DOMAIN tx = {} /\ DOMAIN running = {} /\ Len(tx) = 0 /\ Len(running) = 0
      /\ Len(units) = 0 /\ Len(savedUnits) = 0 /\ Len(methods) = 0
  BY DEF NothingUnderWay
<1>4. ReplTypes
  <2>1. methods \in Seq(BlockKinds) /\ units \in Seq(Lambdas) /\ savedUnits \in Seq(Nat)
    BY EmptySeq DEF NothingUnderWay
  <2>2. running \in Seq(RunType) /\ tx \in Seq(SnapType)
    BY EmptySeq DEF NothingUnderWay
  <2>3. built \in BOOLEAN
    BY DEF NothingUnderWay
  <2>4. currentUnit \in Nat /\ entries \in Seq(Lambdas) /\ Len(entries) <= MaxFns
    BY DEF NothingUnderWay
  <2> QED
    BY <1>2, <1>3, <2>1, <2>2, <2>3, <2>4 DEF ReplTypes
<1>5. AliveOK
  BY <1>2, <1>3 DEF AliveOK
<1>6. StacksOK
  <2>1. loopDepth = Cardinality(LoopsIn(methods))
    BY NoLoops DEF NothingUnderWay
  <2> QED
    BY <1>1, <1>2, <1>3, <2>1 DEF StacksOK, NothingUnderWay
<1>7. ArenaOK
  BY <1>3 DEF ArenaOK, NothingUnderWay
<1> QED
  BY <1>1, <1>4, <1>5, <1>6, <1>7 DEF ReplIInv, Recoverable

LEMMA ReopenKeeps ==
    ASSUME ReplIInv, Reopen
    PROVE  ReplIInv'
<1>1. ~ built /\ running = <<>> /\ tx' = <<>> /\ built' = built /\ running' = running
      /\ domains' = [WithoutBlocks(domains) EXCEPT ![1] = {}]
  BY DEF Reopen, Reentrant
<1>2. built = FALSE
  BY <1>1 DEF ReplIInv, ReplTypes
<1>3. domains' = <<{}>>
  <2>1. WithoutBlocks(domains) = <<domains[1]>>
    <3>1. PICK n \in Nat : n = Len(methods)
      BY DEF ReplIInv, ReplTypes
    <3>2. domains \in Seq(SUBSET Lambdas) /\ Len(domains) = n + 1
      BY <3>1 DEF ReplIInv, ReplTypes, StacksOK
    <3>3. SubSeq(domains, 1, Len(domains) - n) = <<domains[1]>>
      BY <3>2, OneDomainLeft
    <3> QED
      BY <3>1, <3>3 DEF WithoutBlocks
  <2> QED
    BY <1>1, <2>1
<1>4. CASE methods # <<>>
  <2>1. Compiling /\ ResetStatus
    BY <1>4 DEF Reopen, Compiling
  <2>2. methods' = <<>> /\ loopDepth' = 0 /\ EndImportScope /\ PopUnit
    BY <2>1 DEF ResetStatus
  <2>3. entries' = before.entries /\ fnTx' = <<>>
    BY <2>1, StoreRolledBack DEF ResetStatus
  <2>4. Len(units) = 1 /\ units # <<>> /\ importScopes' = 0
    <3>1. Len(running) = 0
      BY <1>1
    <3> QED
      BY <2>1, <2>2, <3>1, InFlight
  <2>5. /\ units' \in Seq(Lambdas) /\ savedUnits' \in Seq(Nat) /\ Len(units') = 0
        /\ Len(savedUnits') = 0
        /\ currentUnit' = IF units' = <<>> THEN 0 ELSE Last(units')
    <3>1. /\ units' \in Seq(Lambdas) /\ savedUnits' \in Seq(Nat)
          /\ Len(units') = Len(units) - 1 /\ Len(savedUnits') = Len(units')
          /\ currentUnit' = IF units' = <<>> THEN 0 ELSE Last(units')
      BY <2>2, <2>4, UnitPopped
    <3> QED
      BY <2>4, <3>1
  <2>6. units' = <<>> /\ savedUnits' = <<>> /\ currentUnit' = 0
    BY <2>5, EmptySeq
  <2>7. NothingUnderWay'
    BY <1>1, <1>2, <1>3, <2>1, <2>2, <2>3, <2>4, <2>6, EntriesBefore DEF NothingUnderWay
  <2> QED
    BY <2>7, NothingUnderWayIsSound, PTL
<1>5. CASE methods = <<>>
  <2>1. ~ Compiling
    BY <1>1, <1>5 DEF Compiling
  <2>2. Len(units) = 0 /\ Len(savedUnits) = 0 /\ importScopes = 0 /\ fnTx = <<>> /\ loopDepth = 0
    <3>1. Len(running) = 0 /\ Cardinality(LoopsIn(methods)) = 0
      BY <1>1, <1>5, NoLoops
    <3> QED
      BY <2>1, <3>1 DEF ReplIInv, StacksOK
  <2>3. units = <<>> /\ savedUnits = <<>>
    <3>1. units \in Seq(Lambdas) /\ savedUnits \in Seq(Nat)
      BY DEF ReplIInv, ReplTypes
    <3> QED
      BY <2>2, <3>1, EmptySeq
  <2>4. currentUnit = 0
    BY <2>3 DEF ReplIInv, ArenaOK
  <2>5. UNCHANGED <<methods, loopDepth, importScopes, entries, fnTx, units, savedUnits, currentUnit>>
    BY <1>5, <2>3 DEF Reopen
  <2>6. entries \in Seq(Lambdas) /\ Len(entries) <= MaxFns
    BY DEF ReplIInv, ReplTypes
  <2>7. NothingUnderWay'
    BY <1>1, <1>2, <1>3, <1>5, <2>2, <2>3, <2>4, <2>5, <2>6 DEF NothingUnderWay
  <2> QED
    BY <2>7, NothingUnderWayIsSound, PTL
<1> QED
  BY <1>4, <1>5

(* One open transaction with the slots after the k-th.                       *)
SlotsAfter(k, n) == <<(k + 1) .. n>>

(* The slot of a lambda joins those of the open transaction.                *)
WithSlot(ts, slot) == [ts EXCEPT ![Len(ts)] = @ \cup {slot}]

(* The slot of a lambda is in the open transaction.                        *)
LEMMA SlotTaken ==
    ASSUME NEW n \in Nat, NEW k \in Nat, k <= n
    PROVE  WithSlot(SlotsAfter(k, n), n + 1) = SlotsAfter(k, n + 1)
<1>1. ((k + 1) .. n) \cup {n + 1} = (k + 1) .. (n + 1)
  OBVIOUS
<1>2. PICK ts : ts = SlotsAfter(k, n)
  OBVIOUS
<1>3. Len(ts) = 1 /\ ts[1] = (k + 1) .. n
  BY <1>2 DEF SlotsAfter
<1>4. WithSlot(ts, n + 1) = [ts EXCEPT ![1] = (k + 1) .. (n + 1)]
  BY <1>1, <1>3 DEF WithSlot
<1>5. PICK a, b : a = (k + 1) .. n /\ b = (k + 1) .. (n + 1)
  OBVIOUS
<1>6. a \in SUBSET Int /\ b \in SUBSET Int /\ ts = <<a>>
  BY <1>2, <1>5 DEF SlotsAfter
<1>7. <<a>> \in Seq(SUBSET Int) /\ <<b>> \in Seq(SUBSET Int) /\ Len(<<a>>) = 1
      /\ Len(<<b>>) = 1 /\ <<b>>[1] = b /\ 1 \in 1 .. 1
  BY <1>6
<1>8. PICK t1 : t1 = <<a>>
  OBVIOUS
<1>9. /\ [t1 EXCEPT ![1] = b] \in Seq(SUBSET Int) /\ Len([t1 EXCEPT ![1] = b]) = 1
      /\ [t1 EXCEPT ![1] = b][1] = b
  BY <1>6, <1>7, <1>8, ExceptSeq
<1>10. PICK t2, t3 : t2 = [t1 EXCEPT ![1] = b] /\ t3 = <<b>>
  OBVIOUS
<1>11. /\ t2 \in Seq(SUBSET Int) /\ t3 \in Seq(SUBSET Int)
       /\ Len(t2) = 1 /\ Len(t3) = 1 /\ t2[1] = b /\ t3[1] = b
  BY <1>7, <1>9, <1>10
<1>12. \A i \in 1 .. Len(t2) : i = 1
  BY <1>11
<1>13. t2 = t3
  BY <1>11, <1>12, SeqEqual
<1> QED
  BY <1>2, <1>4, <1>5, <1>6, <1>8, <1>10, <1>13 DEF SlotsAfter

(* The store keeps its lambdas when one is appended.                       *)
LEMMA StoreGrows ==
    ASSUME NEW es \in Seq(Lambdas), NEW f \in Lambdas
    PROVE  ToSet(es) \subseteq ToSet(Append(es, f))
<1>1. PICK n \in Nat : n = Len(es)
  OBVIOUS
<1>2. PICK es2 : es2 = Append(es, f)
  OBVIOUS
<1>3. DOMAIN es = 1 .. n
  BY <1>1
<1>4. DOMAIN es2 = 1 .. n + 1 /\ \A i \in 1 .. n : es2[i] = es[i]
  BY <1>1, <1>2, AppendedSeq
<1>5. \A i \in 1 .. n : i \in 1 .. n + 1
  OBVIOUS
<1>6. ToSet(es) \subseteq ToSet(es2)
  BY <1>3, <1>4, <1>5 DEF ToSet
<1> QED
  BY <1>2, <1>6

(* A line of a statement that has been begun already.                      *)
LEMMA NextLineKeeps ==
    ASSUME ReplIInv, NEW lambda \in BOOLEAN, BuildLine(lambda), methods # <<>>
    PROVE  ReplIInv'
<1>1. Compiling
  BY DEF Compiling
<1>2. /\ built' = TRUE /\ methods' = methods
      /\ UNCHANGED <<importScopes, tx, savedUnits, units, currentUnit, before,
                     loopDepth, domains, running>>
  BY DEF BuildLine, BeginStatement
<1>3. Compiling'
  BY <1>2 DEF Compiling
<1>4. PICK n \in Nat : n = Len(entries)
  BY DEF ReplIInv, ReplTypes
<1>5. PICK b \in Seq(Lambdas) : b = before.entries
  BY <1>1 DEF ReplIInv, Recoverable
<1>6. PICK k \in Nat : k = Len(b)
  OBVIOUS
<1>7. /\ k <= n /\ fnTx = <<(k + 1) .. n>> /\ DOMAIN b = 1 .. k /\ DOMAIN entries = 1 .. n
      /\ \A i \in 1 .. k : entries[i] = b[i]
  BY <1>1, <1>4, <1>5, <1>6 DEF ReplIInv, ReplTypes, Recoverable
<1>8. /\ entries' = IF lambda THEN Append(entries, FreshFn) ELSE entries
      /\ fnTx' = IF lambda THEN [fnTx EXCEPT ![Len(fnTx)] = @ \cup {n + 1}] ELSE fnTx
      /\ lambda => n < MaxFns
  BY <1>4 DEF BuildLine
<1>9. FreshFn \in Lambdas /\ entries \in Seq(Lambdas)
  BY FreshNumbers DEF ReplIInv, ReplTypes
<1>10. /\ entries' \in Seq(Lambdas) /\ Len(entries') = IF lambda THEN n + 1 ELSE n
       /\ \A i \in 1 .. n : entries'[i] = entries[i]
       /\ fnTx' = <<(k + 1) .. Len(entries')>>
       /\ ToSet(entries) \subseteq ToSet(entries')
  <2>1. PICK es, f, es2, ts1, ts2 :
          es = entries /\ f = FreshFn /\ es2 = entries' /\ ts1 = fnTx /\ ts2 = fnTx'
    OBVIOUS
  <2>2. es \in Seq(Lambdas) /\ f \in Lambdas /\ n = Len(es)
    BY <1>4, <1>9, <2>1
  <2>3. ts1 = SlotsAfter(k, n) /\ k <= n
    BY <1>7, <2>1 DEF SlotsAfter
  <2>4. CASE lambda
    <3>1. es2 = Append(es, f) /\ ts2 = WithSlot(ts1, n + 1)
      BY <1>8, <2>1, <2>4 DEF WithSlot
    <3>2. /\ es2 \in Seq(Lambdas) /\ Len(es2) = n + 1
          /\ \A i \in 1 .. n : es2[i] = es[i]
      BY <2>2, <3>1, AppendedSeq
    <3>3. ts2 = SlotsAfter(k, n + 1)
      BY <2>3, <3>1, SlotTaken
    <3>4. ToSet(es) \subseteq ToSet(es2)
      BY <2>2, <3>1, StoreGrows
    <3> QED
      BY <2>1, <2>4, <3>2, <3>3, <3>4 DEF SlotsAfter
  <2>5. CASE ~ lambda
    BY <1>8, <2>1, <2>2, <2>3, <2>5 DEF SlotsAfter
  <2> QED
    BY <2>4, <2>5
<1>11. Len(entries') <= MaxFns /\ k <= Len(entries') /\ \A i \in 1 .. k : i \in 1 .. n
  <2>1. n <= MaxFns /\ MaxFns \in Nat
    BY <1>4, ReplAssumption DEF ReplIInv, ReplTypes
  <2> QED
    BY <1>7, <1>8, <1>10, <2>1
<1>12. ReplTypes'
  <2>1. built' \in BOOLEAN
    BY <1>2
  <2>2. \A i \in DOMAIN tx' : tx'[i] = Void \/ (Compiling' /\ i = Len(tx'))
    BY <1>1, <1>2, <1>3 DEF ReplIInv, ReplTypes
  <2>3. /\ methods' \in Seq(BlockKinds) /\ domains' \in Seq(SUBSET Lambdas)
        /\ units' \in Seq(Lambdas) /\ savedUnits' \in Seq(Nat) /\ currentUnit' \in Nat
        /\ running' \in Seq(RunType) /\ tx' \in Seq(SnapType)
    BY <1>2 DEF ReplIInv, ReplTypes
  <2> QED
    BY <1>10, <1>11, <2>1, <2>2, <2>3 DEF ReplTypes
<1>13. AliveOK'
  BY <1>2, <1>10 DEF ReplIInv, AliveOK
<1>14. StacksOK'
  BY <1>1, <1>2, <1>3 DEF ReplIInv, StacksOK
<1>15. ArenaOK'
  BY <1>2 DEF ReplIInv, ArenaOK
<1>16. Recoverable'
  <2>1. \A i \in DOMAIN b : entries'[i] = b[i]
    BY <1>7, <1>10, <1>11
  <2> QED
    BY <1>1, <1>2, <1>5, <1>6, <1>10, <1>11, <2>1 DEF ReplIInv, Recoverable
<1> QED
  BY <1>12, <1>13, <1>14, <1>15, <1>16 DEF ReplIInv

(* The first line of a statement.                                          *)
LEMMA FirstLineKeeps ==
    ASSUME ReplIInv, NEW lambda \in BOOLEAN, BuildLine(lambda), methods = <<>>
    PROVE  ReplIInv'
<1>1. ~ Compiling /\ ~ built
  BY DEF BuildLine, Compiling
<1>2. /\ built' = TRUE /\ methods' = methods /\ importScopes' = importScopes + 1
      /\ tx' = Append(tx, Snapshot(domains))
      /\ savedUnits' = Append(savedUnits, currentUnit)
      /\ units' = Append(units, FreshUnit) /\ currentUnit' = FreshUnit
      /\ before' = [domains |-> domains, entries |-> entries]
      /\ UNCHANGED <<loopDepth, domains, running>>
  BY DEF BuildLine, BeginStatement
<1>3. Compiling'
  BY <1>2 DEF Compiling
<1>4. PICK n \in Nat : n = Len(entries)
  BY DEF ReplIInv, ReplTypes
<1>5. fnTx = <<>> /\ Len(domains) = 1 /\ domains \in Seq(SUBSET Lambdas)
  BY <1>1 DEF ReplIInv, ReplTypes, StacksOK
<1>6. PICK ts : ts = <<{}>>
  OBVIOUS
<1>7. Append(fnTx, {}) = ts /\ ts = <<(n + 1) .. n>>
  <2>1. (n + 1) .. n = {}
    OBVIOUS
  <2> QED
    BY <1>5, <1>6, <2>1
<1>8. /\ entries' = IF lambda THEN Append(entries, FreshFn) ELSE entries
      /\ fnTx' = IF lambda THEN [ts EXCEPT ![Len(ts)] = @ \cup {n + 1}] ELSE ts
      /\ lambda => n < MaxFns
  BY <1>4, <1>7 DEF BuildLine
<1>9. FreshFn \in Lambdas /\ FreshUnit \in Lambdas /\ entries \in Seq(Lambdas)
  BY FreshNumbers DEF ReplIInv, ReplTypes
<1>10. /\ entries' \in Seq(Lambdas) /\ Len(entries') = IF lambda THEN n + 1 ELSE n
       /\ \A i \in 1 .. n : entries'[i] = entries[i]
       /\ fnTx' = <<(n + 1) .. Len(entries')>>
       /\ ToSet(entries) \subseteq ToSet(entries')
  <2>1. PICK es, f, es2, ts1, ts2 :
          es = entries /\ f = FreshFn /\ es2 = entries' /\ ts1 = ts /\ ts2 = fnTx'
    OBVIOUS
  <2>2. es \in Seq(Lambdas) /\ f \in Lambdas /\ n = Len(es)
    BY <1>4, <1>9, <2>1
  <2>3. ts1 = SlotsAfter(n, n) /\ n <= n
    BY <1>7, <2>1 DEF SlotsAfter
  <2>4. CASE lambda
    <3>1. es2 = Append(es, f) /\ ts2 = WithSlot(ts1, n + 1)
      BY <1>8, <2>1, <2>4 DEF WithSlot
    <3>2. /\ es2 \in Seq(Lambdas) /\ Len(es2) = n + 1
          /\ \A i \in 1 .. n : es2[i] = es[i]
      BY <2>2, <3>1, AppendedSeq
    <3>3. ts2 = SlotsAfter(n, n + 1)
      BY <2>3, <3>1, SlotTaken
    <3>4. ToSet(es) \subseteq ToSet(es2)
      BY <2>2, <3>1, StoreGrows
    <3> QED
      BY <2>1, <2>4, <3>2, <3>3, <3>4 DEF SlotsAfter
  <2>5. CASE ~ lambda
    BY <1>8, <2>1, <2>2, <2>3, <2>5 DEF SlotsAfter
  <2> QED
    BY <2>4, <2>5
<1>11. Len(entries') <= MaxFns /\ n <= Len(entries')
  <2>1. n <= MaxFns /\ MaxFns \in Nat
    BY <1>4, ReplAssumption DEF ReplIInv, ReplTypes
  <2> QED
    BY <1>8, <1>10, <2>1
<1>12. Snapshot(domains) \in SnapType
  BY <1>5 DEF Snapshot, SnapType
<1>13. PICK x \in Nat : x = Len(tx)
  BY DEF ReplIInv, ReplTypes
<1>14. /\ tx' \in Seq(SnapType) /\ Len(tx') = x + 1 /\ DOMAIN tx' = 1 .. x + 1
       /\ Last(tx') = Snapshot(domains) /\ \A i \in 1 .. x : tx'[i] = tx[i]
  <2>1. tx \in Seq(SnapType)
    BY DEF ReplIInv, ReplTypes
  <2> QED
    BY <1>2, <1>12, <1>13, <2>1, AppendedSeq
<1>15. PICK u \in Nat : u = Len(units)
  BY DEF ReplIInv, ReplTypes
<1>16. /\ units' \in Seq(Lambdas) /\ Len(units') = u + 1 /\ Last(units') = FreshUnit
       /\ units' # <<>> /\ \A i \in 1 .. u : units'[i] = units[i]
  <2>1. PICK us, w : us = units /\ w = FreshUnit
    OBVIOUS
  <2>2. us \in Seq(Lambdas) /\ w \in Lambdas /\ u = Len(us)
    BY <1>9, <1>15, <2>1 DEF ReplIInv, ReplTypes
  <2>3. /\ Append(us, w) \in Seq(Lambdas) /\ Len(Append(us, w)) = u + 1
        /\ Last(Append(us, w)) = w /\ Append(us, w) # <<>>
        /\ \A i \in 1 .. u : Append(us, w)[i] = us[i]
    BY <2>2, AppendedSeq
  <2>4. units' = Append(us, w)
    BY <1>2, <2>1
  <2> QED
    BY <2>1, <2>3, <2>4
<1>17. /\ Len(savedUnits) = u /\ importScopes = u /\ Len(running) = u /\ x >= u
       /\ DOMAIN running = 1 .. u
  BY <1>1, <1>13, <1>15 DEF ReplIInv, ReplTypes, StacksOK
<1>18. savedUnits' \in Seq(Nat) /\ Len(savedUnits') = u + 1 /\ savedUnits'[1] = 0
  <2>1. savedUnits \in Seq(Nat) /\ currentUnit \in Nat
    BY DEF ReplIInv, ReplTypes
  <2>2. /\ Append(savedUnits, currentUnit) \in Seq(Nat)
        /\ Len(Append(savedUnits, currentUnit)) = Len(savedUnits) + 1
        /\ \A i \in 1 .. Len(savedUnits) : Append(savedUnits, currentUnit)[i] = savedUnits[i]
        /\ Append(savedUnits, currentUnit)[Len(savedUnits) + 1] = currentUnit
    BY <2>1, AppendProperties
  <2>3. CASE u = 0
    <3>1. units = <<>>
      BY <1>15, <2>3, EmptySeq DEF ReplIInv, ReplTypes
    <3>2. currentUnit = 0
      BY <3>1 DEF ReplIInv, ArenaOK
    <3> QED
      BY <1>2, <1>17, <2>2, <2>3, <3>2
  <2>4. CASE u # 0
    <3>1. 1 \in 1 .. Len(savedUnits) /\ savedUnits # <<>>
      BY <1>17, <2>1, <2>4
    <3>2. savedUnits[1] = 0
      BY <3>1 DEF ReplIInv, StacksOK
    <3> QED
      BY <1>2, <1>17, <2>2, <3>1, <3>2
  <2> QED
    BY <2>3, <2>4
<1>19. ReplTypes'
  <2>1. built' \in BOOLEAN
    BY <1>2
  <2>2. \A i \in 1 .. x + 1 : i = x + 1 \/ i \in 1 .. x
    OBVIOUS
  <2>3. \A i \in DOMAIN tx' : tx'[i] = Void \/ (Compiling' /\ i = Len(tx'))
    <3>1. tx \in Seq(SnapType) /\ \A i \in DOMAIN tx : tx[i] = Void
      BY <1>1 DEF ReplIInv, ReplTypes
    <3>2. DOMAIN tx = 1 .. x
      BY <1>13, <3>1
    <3>3. \A i \in 1 .. x : tx'[i] = Void
      BY <1>14, <3>1, <3>2
    <3> QED
      BY <1>3, <1>14, <2>2, <3>3
  <2>4. /\ methods' \in Seq(BlockKinds) /\ domains' \in Seq(SUBSET Lambdas)
        /\ running' \in Seq(RunType)
    BY <1>2 DEF ReplIInv, ReplTypes
  <2>5. currentUnit' \in Nat
    BY <1>2, <1>9 DEF Lambdas
  <2> QED
    BY <1>10, <1>11, <1>14, <1>16, <1>18, <2>1, <2>3, <2>4, <2>5 DEF ReplTypes
<1>20. AliveOK'
  BY <1>2, <1>10 DEF ReplIInv, AliveOK
<1>21. StacksOK'
  <2>1. Len(domains') = 1 + Len(methods') /\ loopDepth' = Cardinality(LoopsIn(methods'))
        /\ (methods' # <<>> => running' = <<>>)
    BY <1>2 DEF ReplIInv, StacksOK
  <2>2. /\ Len(units') = Len(running') + 1 /\ Len(savedUnits') = Len(units')
        /\ importScopes' = Len(units') /\ Len(tx') >= Len(units')
    BY <1>2, <1>14, <1>16, <1>17, <1>18
  <2> QED
    BY <1>3, <1>18, <2>1, <2>2 DEF StacksOK
<1>22. ArenaOK'
  BY <1>2, <1>16, <1>17 DEF ReplIInv, ArenaOK
<1>23. Recoverable'
  <2>1. before'.entries = entries /\ before'.domains = domains
    BY <1>2
  <2>2. domains = <<domains[1]>>
    <3>1. PICK z \in Nat : z = 0
      OBVIOUS
    <3>2. PICK ds : ds = domains
      OBVIOUS
    <3>3. ds \in Seq(SUBSET Lambdas) /\ Len(ds) = z + 1
      BY <1>5, <3>1, <3>2
    <3>4. SubSeq(ds, 1, Len(ds) - z) = <<ds[1]>>
      BY <3>3, OneDomainLeft
    <3>5. Len(ds) - z = Len(ds)
      BY <3>1, <3>3
    <3>6. SubSeq(ds, 1, Len(ds)) = ds
      BY <3>3, SubSeqFull
    <3> QED
      BY <3>2, <3>4, <3>5, <3>6
  <2>3. domains[1] \subseteq ToSet(entries)
    BY <1>5 DEF ReplIInv, AliveOK
  <2>4. \A i \in DOMAIN running : running[i].fns \subseteq ToSet(entries)
    BY DEF ReplIInv, AliveOK
  <2>5. DOMAIN entries = 1 .. n
    BY <1>4, <1>9
  <2> QED
    BY <1>2, <1>4, <1>9, <1>10, <1>11, <1>14, <2>1, <2>2, <2>3, <2>4, <2>5 DEF Recoverable
<1> QED
  BY <1>19, <1>20, <1>21, <1>22, <1>23 DEF ReplIInv

LEMMA ReplBegins == ReplInit => ReplIInv
<1>1. ReplInit => NothingUnderWay
  <2>1. <<>> \in Seq(Lambdas) /\ Len(<<>>) = 0 /\ MaxFns \in Nat
    BY EmptySeq, ReplAssumption
  <2> QED
    BY <2>1 DEF ReplInit, NothingUnderWay
<1> QED
  BY <1>1, NothingUnderWayIsSound

LEMMA ReplStep ==
    ASSUME ReplIInv, [ReplNext]_replVars
    PROVE  ReplIInv'
<1>1. ASSUME NEW lambda \in BOOLEAN, BuildLine(lambda) PROVE ReplIInv'
  BY <1>1, FirstLineKeeps, NextLineKeeps
<1>2. ASSUME RejectLine \/ FailClose \/ \E fns \in {{}, OwnFns} : FailCompile(fns)
      PROVE  ReplIInv'
  BY <1>2, FailuresKeep
<1>3. ASSUME NEW fns \in {{}, OwnFns}, DeferLine(fns) \/ RunSingle(fns) PROVE ReplIInv'
  BY <1>3, DeferKeeps, RunSingleKeeps
<1>4. ASSUME NEW kind \in BlockKinds, OpenBlock(kind) PROVE ReplIInv'
  BY <1>4, OpenKeeps
<1>5. ASSUME NEW fns \in {{}, Last(domains)}, CloseInner(fns) \/ RunBlock(fns) PROVE ReplIInv'
  BY <1>5, CloseKeeps, RunBlockKeeps
<1>6. CASE RunNothing \/ BindRunning \/ FinishRun \/ FailRun
  BY <1>6, RunNothingKeeps, BindRunningKeeps, EndsKeep
<1>7. ASSUME NEW fn \in Bound, Unbind(fn) PROVE ReplIInv'
  BY <1>7, UnbindKeeps
<1>8. CASE Reopen
  BY <1>8, ReopenKeeps
<1>9. CASE UNCHANGED replVars
  <2>1. Compiling' <=> Compiling
    BY <1>9 DEF replVars, Compiling
  <2> QED
    BY <1>9, <2>1 DEF replVars, ReplIInv, ReplTypes, AliveOK, StacksOK, ArenaOK, Recoverable
<1> QED
  BY <1>1, <1>2, <1>3, <1>4, <1>5, <1>6, <1>7, <1>8, <1>9 DEF ReplNext

(***************************************************************************)
(* Of a statement that is being compiled, however deep in others that run, *)
(* the REPL has all it needs to undo it; of one that runs, nothing is left *)
(* to be undone (repl::exec, repl::interpret and reset_status).            *)
(***************************************************************************)
THEOREM ReplInvariant == ReplSpec => []ReplIInv
BY ReplBegins, ReplStep, PTL DEF ReplSpec

(***************************************************************************)
(* No lambda that a variable or a running statement refers to is           *)
(* destroyed; the storage has one domain for each open block and the       *)
(* compiler counts its loops; each statement in flight has its import      *)
(* scope, its transaction and its arena, and its code is in that arena:    *)
(* for blocks, nesting and lambdas without bound, and whatever fails.      *)
(***************************************************************************)
THEOREM ReplCorrect == ReplSpec => []ReplInv
<1>1. ReplIInv => ReplInv
  <2> SUFFICES ASSUME ReplIInv PROVE ReplInv
    OBVIOUS
  <2>1. ReplTypes /\ AliveOK /\ StacksOK /\ ArenaOK /\ Recoverable
    BY DEF ReplIInv
  <2>2. ReplTypeOK
    <3>1. loopDepth \in Nat /\ importScopes \in Nat
      <4>1. Cardinality(LoopsIn(methods)) \in Nat
        BY <2>1, LoopsAppended DEF ReplTypes, BlockKinds
      <4>2. Len(units) \in Nat
        BY <2>1 DEF ReplTypes
      <4> QED
        BY <2>1, <4>1, <4>2 DEF StacksOK
    <3>2. entries \in Seq(Nat) /\ Len(entries) <= MaxFns
      <4>1. Lambdas \subseteq Nat
        BY DEF Lambdas
      <4> QED
        BY <2>1, <4>1, SeqMonotonic DEF ReplTypes
    <3>3. fnTx \in Seq(SUBSET DOMAIN entries)
      <4>1. CASE ~ Compiling
        BY <2>1, <4>1, EmptySeq DEF StacksOK
      <4>2. CASE Compiling
        <5>1. PICK n \in Nat : n = Len(entries) /\ DOMAIN entries = 1 .. n
          BY <2>1 DEF ReplTypes
        <5>2. PICK k : k = Len(before.entries)
          OBVIOUS
        <5>3. k \in Nat /\ fnTx = <<(k + 1) .. n>>
          BY <2>1, <4>2, <5>1, <5>2 DEF Recoverable
        <5>4. (k + 1) .. n \in SUBSET DOMAIN entries
          <6>1. \A i \in (k + 1) .. n : i \in 1 .. n
            BY <5>1, <5>3
          <6> QED
            BY <5>1, <6>1
        <5> QED
          BY <5>3, <5>4
      <4> QED
        BY <4>1, <4>2
    <3>4. domains \in Seq(SUBSET (Nat \ {0})) /\ domains # <<>>
      <4>1. domains \in Seq(SUBSET (Nat \ {0}))
        BY <2>1 DEF ReplTypes, Lambdas
      <4>2. Len(domains) >= 1
        BY <2>1 DEF ReplTypes, StacksOK
      <4> QED
        BY <4>1, <4>2
    <3>5. \A s \in ToSet(tx) : s = Void \/ s = Snapshot(s.data)
      <4> SUFFICES ASSUME NEW i \in DOMAIN tx, tx[i] # Void
                   PROVE  tx[i] = Snapshot(tx[i].data)
        BY DEF ToSet
      <4>1. Compiling /\ i = Len(tx)
        BY <2>1 DEF ReplTypes
      <4>2. tx[i] = Snapshot(before.domains)
        BY <2>1, <4>1 DEF Recoverable, Last
      <4> QED
        BY <4>2 DEF Snapshot
    <3>6. running \in Seq([fns : SUBSET (Nat \ {0}), unit : Nat])
      BY <2>1 DEF ReplTypes, RunType, Lambdas
    <3>7. units \in Seq(Nat \ {0}) /\ savedUnits \in Seq(Nat) /\ currentUnit \in Nat
      BY <2>1 DEF ReplTypes, Lambdas
    <3>8. built \in BOOLEAN /\ methods \in Seq(BlockKinds)
      BY <2>1 DEF ReplTypes
    <3> QED
      BY <3>1, <3>2, <3>3, <3>4, <3>5, <3>6, <3>7, <3>8 DEF ReplTypeOK
  <2>3. BoundLambdasAreAlive
    BY <2>1 DEF BoundLambdasAreAlive, Bound, Waiting, ToSet, AliveOK
  <2>4. DomainsMatchBlocks
    BY <2>1 DEF DomainsMatchBlocks, StacksOK, LoopsIn
  <2>5. StatementsAreBalanced
    <3>1. Len(fnTx) = IF Compiling THEN 1 ELSE 0
      <4>1. Len(<<>>) = 0 /\ \A x : Len(<<x>>) = 1
        OBVIOUS
      <4> QED
        BY <2>1, <4>1 DEF StacksOK, Recoverable
    <3> QED
      BY <2>1, <3>1 DEF StatementsAreBalanced, StacksOK
  <2>6. ArenaFollowsStatement
    <3>1. CASE Compiling
      <4>1. units # <<>>
        BY <3>1, InFlight
      <4> QED
        BY <2>1, <3>1, <4>1 DEF ArenaOK, ArenaFollowsStatement
    <3>2. CASE ~ Compiling /\ Reentrant
      <4>1. units # <<>> /\ Len(units) = Len(running)
        BY <3>2, InFlight
      <4>2. running \in Seq(RunType) /\ running # <<>>
        BY <2>1, <3>2 DEF ReplTypes, Reentrant
      <4>3. PICK n \in Nat : n = Len(running)
        BY <4>2
      <4>4. n \in DOMAIN running /\ Last(running) = running[n]
        <5>1. n >= 1 /\ DOMAIN running = 1 .. n /\ Last(running) = running[n]
          BY <4>2, <4>3, FrontSeq
        <5> QED
          BY <5>1
      <4>5. Last(units) = units[n]
        BY <4>1, <4>3 DEF Last
      <4>6. currentUnit = Last(running).unit
        BY <2>1, <4>1, <4>4, <4>5 DEF ArenaOK
      <4> QED
        BY <2>1, <3>2, <4>6 DEF ArenaOK, ArenaFollowsStatement
    <3>3. CASE ~ Compiling /\ ~ Reentrant
      <4>1. units = <<>>
        <5>1. Len(running) = 0 /\ units \in Seq(Lambdas)
          BY <2>1, <3>3 DEF Reentrant, ReplTypes
        <5>2. Len(units) = 0
          BY <2>1, <3>3, <5>1 DEF StacksOK
        <5> QED
          BY <5>1, <5>2, EmptySeq
      <4> QED
        BY <2>1, <3>3, <4>1 DEF ArenaOK, ArenaFollowsStatement
    <3> QED
      BY <3>1, <3>2, <3>3
  <2> QED
    BY <2>2, <2>3, <2>4, <2>5, <2>6 DEF ReplInv
<1> QED
  BY <1>1, ReplInvariant, PTL

(***************************************************************************)
(* A statement that is refused or fails before it runs leaves the storage  *)
(* and the function store as they were before its first line.              *)
(***************************************************************************)
THEOREM FailuresLeaveNoTrace == ReplSpec => FailureLeavesNoTrace
<1>1. ReplIInv /\ [ReplNext]_replVars
        => [(RejectLine \/ FailClose \/ \E fns \in {{}, OwnFns} : FailCompile(fns))
            => domains' = before.domains /\ entries' = before.entries]_replVars
  BY FailuresKeep
<1> QED
  BY <1>1, ReplInvariant, PTL DEF ReplSpec, FailureLeavesNoTrace
=============================================================================
