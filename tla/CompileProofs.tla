---------------------------- MODULE CompileProofs ----------------------------
(***************************************************************************)
(* Machine-checked proofs about compile(): for any contexts, fibers and    *)
(* amount of work, whatever is imported, evaluated and thrown while the    *)
(* shared compiler is in use, each activity finds what it needs and puts   *)
(* back what it found.                                                     *)
(***************************************************************************)
EXTENDS Compile, FiniteSetTheorems, SequenceTheorems, TLAPS

(***************************************************************************)
(* What is put aside.  The members of K, numbers in the order in which     *)
(* they came, each put a value `new` in force and remember the one that it *)
(* replaces, `old`; `base` is in force before them all, `cur` is now.      *)
(***************************************************************************)
IsTop(K, j) == j \in K /\ \A k \in K : k <= j
Under(K, i) == {k \in K : k < i}
Below(K, m) == \A k \in K : k < m
With(K, m) == K \cup {m}
InForce(K, new, base, v) ==
    /\ K = {} => v = base
    /\ \A j \in K : IsTop(K, j) => v = new[j]
Chain(K, old, new, base, cur) ==
    /\ InForce(K, new, base, cur)
    /\ \A i \in K : InForce(Under(K, i), new, base, old[i])

(***************************************************************************)
(* The stack s of the runner in control, the compiler cm, the contexts p.  *)
(***************************************************************************)
Compilers(s) == {i \in DOMAIN s : s[i].at = "compile"}
Binders(s) == {i \in DOMAIN s : s[i].at \in {"compile", "eval"}}
BindersOf(s, c) == {i \in Binders(s) : s[i].cxt = c}
Arena(a) == Unit(a.cxt, IF a.at = "compile" THEN "program" ELSE "expression")

Bounds(s) == [i \in DOMAIN s |-> s[i].bound]
CxtsOf(s) == [i \in DOMAIN s |-> s[i].cxt]
OldLoops(s) == [i \in DOMAIN s |-> s[i].loops]
NewLoops(s) == [i \in DOMAIN s |-> OpenLoops(s[i].blocks)]
OldUnits(s) == [i \in DOMAIN s |-> s[i].unit]
NewUnits(s) == [i \in DOMAIN s |-> Arena(s[i])]

BindingOK(cm, s) == Chain(Binders(s), Bounds(s), CxtsOf(s), 1, cm.cxt)
LoopsOK(cm, s) == Chain(Compilers(s), OldLoops(s), NewLoops(s), 0, cm.loops)
UnitOK(p, s, c) ==
    Chain(BindersOf(s, c), OldUnits(s), NewUnits(s), Unit(c, "context"), p[c].unit)

(* The scopes are those of the compile()s, in their order: one that is not *)
(* innermost waits for the result of its last line, the innermost one has  *)
(* all (mode "full"), waits for one ("short"), or is given up ("any").     *)
ResultsOf(f, m) == [i \in 1 .. m |-> [cxt |-> f.cxt, line |-> f.waiting[i].line]]
AllOf(f, scope) == scope = ResultsOf(f, Len(f.waiting))
AllButOne(f, scope) == Len(f.waiting) >= 1 /\ scope = ResultsOf(f, Len(f.waiting) - 1)
ScopeOK(s, i, mode, scope) ==
    /\ i < Len(s) \/ mode = "short" => AllButOne(s[i], scope)
    /\ i = Len(s) /\ mode = "full" => AllOf(s[i], scope)
Fits(g, scopes, s, mode) ==
    /\ g \in [1 .. Len(scopes) -> Compilers(s)]
    /\ \A j, k \in 1 .. Len(scopes) : j < k => g[j] < g[k]
    /\ \A i \in Compilers(s) : \E k \in 1 .. Len(scopes) : g[k] = i
    /\ \A k \in 1 .. Len(scopes) : ScopeOK(s, g[k], mode, scopes[k])
ScopesOK(cm, s, mode) ==
    \E g \in [1 .. Len(cm.scopes) -> Compilers(s)] : Fits(g, cm.scopes, s, mode)

(* What a compile() has found in the pool is that of expressions, and what *)
(* it imports stays there until it is done.                                *)
PoolOK(cm, p, s) ==
    /\ \A i \in Compilers(s) : s[i].base \in 0 .. Len(cm.pool)
    /\ \A i, j \in Compilers(s) : i < j => s[i].base <= s[j].base
    /\ \A k \in 1 .. Len(cm.pool) :
           (\A i \in Compilers(s) : k <= s[i].base) =>
               cm.pool[k].line = 0 /\ cm.pool[k].cxt # 0
    /\ \A i \in Compilers(s) : \A l \in p[s[i].cxt].constants :
           \E k \in 1 .. Len(cm.pool) :
               /\ cm.pool[k] = [cxt |-> s[i].cxt, line |-> l]
               /\ \A j \in Compilers(s) : i < j => k <= s[j].base

(* A module is compiled, then run, above its importer, and is younger.     *)
NestOK(s) ==
    \A i \in Compilers(s) : \A j \in DOMAIN s : i < j =>
        /\ s[i].cxt < s[j].cxt
        /\ j = i + 1 => s[j].at \in {"compile", "run"}

(* A context is compiled and run once; only the runner in control compiles.*)
Owns(a) == a.at \in {"compile", "run"}
OwnersOK(acts, run, n) ==
    /\ \A r \in Runners : \A i \in DOMAIN acts[r] :
           /\ acts[r][i].cxt \in 1 .. n /\ acts[r][i].bound \in 1 .. n
           /\ acts[r][i].at = "fiber" <=> i = 1 /\ r # MainRunner
           /\ r # run => acts[r][i].at \in {"run", "fiber"}
           /\ Owns(acts[r][i]) /\ acts[r][i].cxt = 1 => r = MainRunner /\ i = 1
    /\ \A r, u \in Runners : \A i \in DOMAIN acts[r] : \A j \in DOMAIN acts[u] :
           /\ Owns(acts[r][i]) /\ Owns(acts[u][j]) /\ acts[r][i].cxt = acts[u][j].cxt
           => r = u /\ i = j

(* The contexts, and what their compile() or their run relies on.          *)
StatementsOK(x, c) ==
    /\ \A k \in DOMAIN x.statements :
           /\ x.statements[k].result = [cxt |-> c, line |-> x.statements[k].line]
           /\ x.statements[k].unit = Unit(c, "program")
    /\ x.marked \subseteq x.constants
OpenOK(x, s, c) ==
    x.transactions = IF \E i \in Compilers(s) : s[i].cxt = c THEN 1 ELSE 0
ContextsOK(p, s) ==
    \A c \in 1 .. Len(p) : StatementsOK(p[c], c) /\ OpenOK(p[c], s, c) /\ UnitOK(p, s, c)

RunOK(x, a) ==
    a.at = "run" =>
        /\ x.constants = x.marked
        /\ a.line \in 1 .. Len(x.statements) + 1
        /\ x.names = {x.statements[k].line : k \in 1 .. (a.line - 1)}
CompileOK(a, w) ==
    a.at = "compile" =>
        /\ a.names = {}
        /\ a.line \in 1 .. w + 1
        /\ \A k \in DOMAIN a.waiting : a.waiting[k].unit = Unit(a.cxt, "program")
ActivitiesOK(p, acts, w) ==
    \A r \in Runners : \A i \in DOMAIN acts[r] :
        RunOK(p[acts[r][i].cxt], acts[r][i]) /\ CompileOK(acts[r][i], w)

LineNumbers == 1 .. MaxWork
StatementType == [line : LineNumbers, unit : Units, result : Results]
ProgramType ==
    [unit : Units, transactions : 0 .. 1, names : SUBSET LineNumbers,
     statements : Seq(StatementType),
     constants : SUBSET LineNumbers, marked : SUBSET LineNumbers]
ScopeType == Seq(Results)
CompilerType == [cxt : Cxts, scopes : Seq(ScopeType), pool : Seq(Results), loops : Int]
ActivityType ==
    [at : {"compile", "run", "eval", "fiber"}, cxt : Cxts, bound : Cxts, unit : Units,
     names : SUBSET LineNumbers, base : Nat, loops : Int, line : Nat, blocks : Seq(BOOLEAN),
     waiting : Seq([line : LineNumbers, unit : Units])]
TypesOK(cm, p, acts, w) ==
    /\ cm \in CompilerType /\ cm.cxt <= Len(p)
    /\ p \in Seq(ProgramType) /\ Len(p) \in Cxts
    /\ acts \in [Runners -> Seq(ActivityType)]
    /\ w \in 0 .. MaxWork

Good(cm, p, acts, run, mode, w) ==
    /\ TypesOK(cm, p, acts, w)
    /\ OwnersOK(acts, run, Len(p))
    /\ NestOK(acts[run])
    /\ BindingOK(cm, acts[run])
    /\ LoopsOK(cm, acts[run])
    /\ ScopesOK(cm, acts[run], mode)
    /\ PoolOK(cm, p, acts[run])
    /\ ContextsOK(p, acts[run])
    /\ ActivitiesOK(p, acts, w)

StateOK(cm, p, acts, un, run, bu, w) ==
    /\ Good(cm, p, acts, run, IF un[run] THEN "any" ELSE "full", w)
    /\ run \in Runners
    /\ un \in [Runners -> BOOLEAN]
    /\ bu \subseteq [arena : Units, tokens : Units]
    /\ \A r \in Runners : un[r] => r = run /\ acts[r] # <<>>

CompileIInv ==
    StateOK(compiler, programs, activities, unwinding, runner, built, work)
-----------------------------------------------------------------------------
(***************************************************************************)
(* Values put aside and back.                                              *)
(***************************************************************************)
LEMMA ChainPush ==
    ASSUME NEW K \in SUBSET Nat, NEW old, NEW new, NEW base, NEW cur,
           Chain(K, old, new, base, cur), NEW m \in Nat, Below(K, m),
           NEW old2, NEW new2, \A k \in K : old2[k] = old[k] /\ new2[k] = new[k],
           old2[m] = cur, NEW L, L = With(K, m), NEW v, v = new2[m]
    PROVE  Chain(L, old2, new2, base, v)
<1>1. \A k \in K : k < m
  BY DEF Below
<1>2. L = K \cup {m}
  BY DEF With
<1>3. InForce(L, new2, base, v)
  BY <1>1, <1>2 DEF InForce, IsTop
<1>4. Under(L, m) = K
  <2>1. ~ m < m /\ \A k \in L : k < m <=> k \in K
    BY <1>1, <1>2
  <2> QED
    BY <1>2, <2>1 DEF Under
<1>5. InForce(K, new2, base, old2[m])
  BY DEF Chain, InForce, IsTop
<1>6. ASSUME NEW i \in K PROVE InForce(Under(L, i), new2, base, old2[i])
  <2>1. Under(L, i) = Under(K, i)
    BY <1>1, <1>2 DEF Under
  <2>2. InForce(Under(K, i), new, base, old[i])
    BY DEF Chain
  <2> QED
    BY <2>1, <2>2 DEF InForce, IsTop, Under
<1> QED
  BY <1>2, <1>3, <1>4, <1>5, <1>6 DEF Chain

LEMMA ChainPop ==
    ASSUME NEW K \in SUBSET Nat, NEW old, NEW new, NEW base, NEW cur,
           Chain(K, old, new, base, cur), NEW m, IsTop(K, m),
           NEW old2, NEW new2, \A k \in K \ {m} : old2[k] = old[k] /\ new2[k] = new[k]
    PROVE  Chain(K \ {m}, old2, new2, base, old[m])
<1> DEFINE L == K \ {m}
<1>1. m \in Nat /\ m \in K /\ \A k \in K : k \in Nat /\ k <= m
  BY DEF IsTop
<1>2. Under(K, m) = L
  <2>1. \A k \in K : k < m <=> k # m
    BY <1>1
  <2> QED
    BY <2>1 DEF Under
<1>3. InForce(L, new, base, old[m])
  BY <1>1, <1>2 DEF Chain
<1>4. InForce(L, new2, base, old[m])
  BY <1>3 DEF InForce, IsTop
<1>5. ASSUME NEW i \in L PROVE InForce(Under(L, i), new2, base, old2[i])
  <2>1. Under(L, i) = Under(K, i)
    BY <1>1 DEF Under
  <2>2. InForce(Under(K, i), new, base, old[i])
    BY DEF Chain
  <2>3. \A k \in Under(K, i) : new2[k] = new[k]
    BY <1>1 DEF Under
  <2> QED
    BY <2>1, <2>2, <2>3 DEF InForce, IsTop
<1> QED
  BY <1>4, <1>5 DEF Chain

LEMMA ChainTop ==
    ASSUME NEW K \in SUBSET Nat, NEW old, NEW new, NEW base, NEW cur,
           Chain(K, old, new, base, cur), NEW m, IsTop(K, m),
           NEW old2, NEW new2, \A k \in K : old2[k] = old[k],
           \A k \in K \ {m} : new2[k] = new[k]
    PROVE  Chain(K, old2, new2, base, new2[m])
<1>1. m \in Nat /\ m \in K /\ \A k \in K : k \in Nat /\ k <= m
  BY DEF IsTop
<1>2. InForce(K, new2, base, new2[m])
  BY <1>1 DEF InForce, IsTop
<1>3. ASSUME NEW i \in K PROVE InForce(Under(K, i), new2, base, old2[i])
  <2>1. InForce(Under(K, i), new, base, old[i])
    BY DEF Chain
  <2>2. \A k \in Under(K, i) : k \in K \ {m}
    BY <1>1 DEF Under
  <2> QED
    BY <2>1, <2>2 DEF InForce, IsTop
<1> QED
  BY <1>2, <1>3 DEF Chain

LEMMA ChainSame ==
    ASSUME NEW K \in SUBSET Nat, NEW old, NEW new, NEW base, NEW cur,
           Chain(K, old, new, base, cur),
           NEW old2, NEW new2, \A k \in K : old2[k] = old[k] /\ new2[k] = new[k]
    PROVE  Chain(K, old2, new2, base, cur)
<1>1. InForce(K, new2, base, cur)
  BY DEF Chain, InForce, IsTop
<1>2. ASSUME NEW i \in K PROVE InForce(Under(K, i), new2, base, old2[i])
  <2>1. InForce(Under(K, i), new, base, old[i])
    BY DEF Chain
  <2> QED
    BY <2>1 DEF InForce, IsTop, Under
<1> QED
  BY <1>1, <1>2 DEF Chain

LEMMA ChainNow ==
    ASSUME NEW K, NEW old, NEW new, NEW base, NEW cur, Chain(K, old, new, base, cur)
    PROVE  /\ K = {} => cur = base
           /\ \A m : IsTop(K, m) => cur = new[m]
BY DEF Chain, InForce, IsTop

LEMMA ChainEmpty ==
    ASSUME NEW old, NEW new, NEW base
    PROVE  Chain({}, old, new, base, base)
BY DEF Chain, InForce, IsTop

(* A stack without its last activity, and with one more.                   *)
LEMMA AppendedSeq ==
    ASSUME NEW S, NEW s \in Seq(S), NEW x \in S, NEW n \in Nat, n = Len(s)
    PROVE  /\ Append(s, x) \in Seq(S)
           /\ Len(Append(s, x)) = n + 1
           /\ DOMAIN Append(s, x) = 1 .. n + 1
           /\ Append(s, x)[n + 1] = x
           /\ \A i \in 1 .. n : Append(s, x)[i] = s[i]
           /\ Append(s, x) # <<>> /\ Last(Append(s, x)) = x
<1>1. /\ Append(s, x) \in Seq(S) /\ Len(Append(s, x)) = n + 1
      /\ Append(s, x)[n + 1] = x /\ \A i \in 1 .. n : Append(s, x)[i] = s[i]
  OBVIOUS
<1>2. DOMAIN Append(s, x) = 1 .. n + 1 /\ Append(s, x) # <<>>
  BY <1>1
<1> QED
  BY <1>1, <1>2 DEF Last

LEMMA FrontSeq ==
    ASSUME NEW S, NEW s \in Seq(S), s # <<>>, NEW n \in Nat, n = Len(s)
    PROVE  /\ n >= 1 /\ n - 1 \in Nat /\ DOMAIN s = 1 .. n
           /\ Last(s) = s[n] /\ Last(s) \in S
           /\ Front(s) \in Seq(S)
           /\ Len(Front(s)) = n - 1
           /\ DOMAIN Front(s) = 1 .. n - 1
           /\ \A i \in 1 .. n - 1 : Front(s)[i] = s[i]
<1>1. n >= 1 /\ n - 1 \in Nat /\ DOMAIN s = 1 .. n /\ s[n] \in S
  OBVIOUS
<1>2. /\ Front(s) \in Seq(S) /\ Len(Front(s)) = n - 1
      /\ \A i \in 1 .. n - 1 : Front(s)[i] = s[i]
  BY <1>1 DEF Front
<1>3. DOMAIN Front(s) = 1 .. n - 1
  BY <1>1, <1>2
<1> QED
  BY <1>1, <1>2, <1>3 DEF Last

(* The loops among the open blocks.                                        *)
LEMMA OpenLoopsAre ==
    ASSUME NEW b \in Seq(BOOLEAN)
    PROVE  /\ OpenLoops(b) \in Nat
           /\ b = <<>> => OpenLoops(b) = 0
           /\ \A x \in BOOLEAN : OpenLoops(Append(b, x)) = OpenLoops(b) + Opens(x)
<1> DEFINE K == {i \in DOMAIN b : b[i] = TRUE}
<1>1. PICK n \in Nat : n = Len(b) /\ DOMAIN b = 1 .. n
  OBVIOUS
<1>2. IsFiniteSet(K) /\ Cardinality(K) \in Nat
  <2>1. IsFiniteSet(1 .. n)
    BY FS_Interval
  <2>2. IsFiniteSet(K)
    BY <1>1, <2>1, FS_Subset
  <2> QED
    BY <2>2, FS_CardinalityType
<1>3. OpenLoops(b) = Cardinality(K)
  <2>1. K = {i \in DOMAIN b : b[i]}
    OBVIOUS
  <2> QED
    BY <2>1 DEF OpenLoops
<1>4. b = <<>> => OpenLoops(b) = 0
  <2>1. b = <<>> => K = {}
    OBVIOUS
  <2> QED
    BY <1>3, <2>1, FS_EmptySet
<1>5. ASSUME NEW x \in BOOLEAN PROVE OpenLoops(Append(b, x)) = OpenLoops(b) + Opens(x)
  <2> DEFINE d == Append(b, x)
             L == {i \in DOMAIN d : d[i]}
  <2>1. /\ DOMAIN d = 1 .. n + 1 /\ d[n + 1] = x /\ \A i \in 1 .. n : d[i] = b[i]
    BY <1>1, AppendedSeq
  <2>2. L = {i \in 1 .. n + 1 : d[i] = TRUE}
    <3>1. \A i \in 1 .. n + 1 : d[i] \in BOOLEAN
      BY <1>1
    <3> HIDE DEF d
    <3> QED
      BY <2>1, <3>1
  <2> HIDE DEF d
  <2>3. L = IF x = TRUE THEN K \cup {n + 1} ELSE K
    <3>1. \A i \in 1 .. n + 1 : i = n + 1 \/ i \in 1 .. n
      BY <1>1
    <3>2. n + 1 \in 1 .. n + 1 /\ \A i \in 1 .. n : i \in 1 .. n + 1
      BY <1>1
    <3> QED
      BY <1>1, <2>1, <2>2, <3>1, <3>2
  <2>4. n + 1 \notin K
    BY <1>1
  <2> HIDE DEF K, L
  <2>5. Cardinality(K \cup {n + 1}) = Cardinality(K) + 1
    BY <1>2, <2>4, FS_AddElement
  <2>6. Cardinality(L) = Cardinality(K) + Opens(x)
    BY <1>2, <2>3, <2>5 DEF Opens
  <2>7. OpenLoops(d) = Cardinality(L)
    BY DEF OpenLoops, L
  <2> QED
    BY <1>3, <2>6, <2>7 DEF d
<1> QED
  BY <1>2, <1>3, <1>4, <1>5

LEMMA OpenLoopsOfFront ==
    ASSUME NEW b \in Seq(BOOLEAN), b # <<>>
    PROVE  OpenLoops(Front(b)) = OpenLoops(b) - Opens(Last(b))
<1>1. PICK n \in Nat : n = Len(b) /\ DOMAIN b = 1 .. n
  OBVIOUS
<1>2. PICK f, x : f = Front(b) /\ x = Last(b)
  OBVIOUS
<1>3. /\ f \in Seq(BOOLEAN) /\ x \in BOOLEAN /\ Len(f) = n - 1 /\ x = b[n] /\ n >= 1
      /\ \A i \in 1 .. n - 1 : f[i] = b[i]
  BY <1>1, <1>2, FrontSeq
<1>4. b = Append(f, x)
  <2>1. PICK d : d = Append(f, x)
    OBVIOUS
  <2>2. /\ d \in Seq(BOOLEAN) /\ Len(d) = n /\ d[n] = b[n]
        /\ \A i \in 1 .. n - 1 : d[i] = b[i]
    BY <1>3, <2>1
  <2>3. \A i \in 1 .. n : d[i] = b[i]
    <3>1. \A i \in 1 .. n : i = n \/ i \in 1 .. n - 1
      BY <1>3
    <3> QED
      BY <2>2, <3>1
  <2> QED
    BY <1>1, <2>1, <2>2, <2>3, SeqEqual
<1>5. OpenLoops(b) = OpenLoops(f) + Opens(x) /\ OpenLoops(f) \in Nat
  BY <1>3, <1>4, OpenLoopsAre
<1>6. Opens(x) \in Nat
  BY DEF Opens
<1> QED
  BY <1>2, <1>5, <1>6

(***************************************************************************)
(* The last activity goes on to another line, opens a block or waits.      *)
(***************************************************************************)
Alike(a, b) ==
    /\ a.at = b.at /\ a.cxt = b.cxt /\ a.bound = b.bound /\ a.unit = b.unit
    /\ a.names = b.names /\ a.base = b.base /\ a.loops = b.loops
Turned(acts, run, t) == [acts EXCEPT ![run] = t]

LEMMA CompilersAreNat ==
    ASSUME NEW s \in Seq(ActivityType)
    PROVE  /\ Compilers(s) \in SUBSET Nat /\ Binders(s) \in SUBSET Nat
           /\ \A c : BindersOf(s, c) \in SUBSET Nat
<1>1. PICK n \in Nat : n = Len(s) /\ DOMAIN s = 1 .. n
  OBVIOUS
<1>2. DOMAIN s \in SUBSET Nat
  BY <1>1
<1> QED
  BY <1>2 DEF Compilers, Binders, BindersOf

LEMMA AlikeSets ==
    ASSUME NEW s, NEW t, DOMAIN t = DOMAIN s, \A i \in DOMAIN s : Alike(t[i], s[i])
    PROVE  /\ Compilers(t) = Compilers(s) /\ Binders(t) = Binders(s)
           /\ \A c : BindersOf(t, c) = BindersOf(s, c)
           /\ Bounds(t) = Bounds(s) /\ CxtsOf(t) = CxtsOf(s) /\ OldLoops(t) = OldLoops(s)
           /\ OldUnits(t) = OldUnits(s) /\ NewUnits(t) = NewUnits(s)
<1>1. Compilers(t) = Compilers(s) /\ Binders(t) = Binders(s)
  BY DEF Alike, Compilers, Binders
<1>2. \A c : BindersOf(t, c) = BindersOf(s, c)
  BY <1>1 DEF Alike, BindersOf, Binders
<1>3. Bounds(t) = Bounds(s) /\ CxtsOf(t) = CxtsOf(s) /\ OldLoops(t) = OldLoops(s)
  BY DEF Alike, Bounds, CxtsOf, OldLoops
<1>4. OldUnits(t) = OldUnits(s) /\ NewUnits(t) = NewUnits(s)
  BY DEF Alike, OldUnits, NewUnits, Arena
<1> QED
  BY <1>1, <1>2, <1>3, <1>4

LEMMA AlikeKeeps ==
    ASSUME NEW s \in Seq(ActivityType), NEW t \in Seq(ActivityType), Len(t) = Len(s),
           \A i \in DOMAIN s : Alike(t[i], s[i]), NEW cm, NEW p
    PROVE  /\ DOMAIN t = DOMAIN s
           /\ NestOK(s) => NestOK(t)
           /\ BindingOK(cm, s) => BindingOK(cm, t)
           /\ PoolOK(cm, p, s) => PoolOK(cm, p, t)
           /\ ContextsOK(p, s) => ContextsOK(p, t)
<1>1. DOMAIN t = DOMAIN s
  OBVIOUS
<1>2. Compilers(t) = Compilers(s) /\ Binders(t) = Binders(s)
  BY <1>1, AlikeSets
<1>3. \A i \in Compilers(s) : i \in DOMAIN s
  BY DEF Compilers
<1>4. \A i \in DOMAIN s : t[i].cxt = s[i].cxt /\ t[i].at = s[i].at /\ t[i].base = s[i].base
  BY DEF Alike
<1>5. NestOK(s) => NestOK(t)
  BY <1>1, <1>2, <1>3, <1>4 DEF NestOK
<1>6. BindingOK(cm, s) => BindingOK(cm, t)
  <2>1. Bounds(t) = Bounds(s) /\ CxtsOf(t) = CxtsOf(s)
    BY <1>1, AlikeSets
  <2> QED
    BY <1>2, <2>1 DEF BindingOK
<1>7. PoolOK(cm, p, s) => PoolOK(cm, p, t)
  <2> SUFFICES ASSUME PoolOK(cm, p, s) PROVE PoolOK(cm, p, t)
    OBVIOUS
  <2>0. \A i \in Compilers(s) : t[i].cxt = s[i].cxt /\ t[i].base = s[i].base
    BY <1>3, <1>4
  <2>1. /\ \A i \in Compilers(t) : t[i].base \in 0 .. Len(cm.pool)
        /\ \A i, j \in Compilers(t) : i < j => t[i].base <= t[j].base
    BY <1>2, <2>0 DEF PoolOK
  <2>2. \A k \in 1 .. Len(cm.pool) :
           (\A i \in Compilers(t) : k <= t[i].base) =>
               cm.pool[k].line = 0 /\ cm.pool[k].cxt # 0
    BY <1>2, <2>0 DEF PoolOK
  <2>3. \A i \in Compilers(t) : \A l \in p[t[i].cxt].constants :
           \E k \in 1 .. Len(cm.pool) :
               /\ cm.pool[k] = [cxt |-> t[i].cxt, line |-> l]
               /\ \A j \in Compilers(t) : i < j => k <= t[j].base
    <3> SUFFICES ASSUME NEW i \in Compilers(s), NEW l \in p[s[i].cxt].constants
                 PROVE  \E k \in 1 .. Len(cm.pool) :
                            /\ cm.pool[k] = [cxt |-> s[i].cxt, line |-> l]
                            /\ \A j \in Compilers(s) : i < j => k <= t[j].base
      BY <1>2, <2>0, SMTT(60)
    <3>1. PICK k \in 1 .. Len(cm.pool) :
              /\ cm.pool[k] = [cxt |-> s[i].cxt, line |-> l]
              /\ \A j \in Compilers(s) : i < j => k <= s[j].base
      BY DEF PoolOK
    <3> QED
      BY <2>0, <3>1
  <2> QED
    BY <2>1, <2>2, <2>3 DEF PoolOK
<1>8. ContextsOK(p, s) => ContextsOK(p, t)
  <2>1. OldUnits(t) = OldUnits(s) /\ NewUnits(t) = NewUnits(s)
        /\ \A c : BindersOf(t, c) = BindersOf(s, c)
    BY <1>1, AlikeSets
  <2>2. \A c : UnitOK(p, t, c) <=> UnitOK(p, s, c)
    BY <2>1 DEF UnitOK
  <2>3. \A x, c : OpenOK(x, t, c) <=> OpenOK(x, s, c)
    BY <1>2, <1>3, <1>4 DEF OpenOK
  <2> QED
    BY <2>2, <2>3 DEF ContextsOK
<1> QED
  BY <1>1, <1>5, <1>6, <1>7, <1>8

LEMMA AlikeOwners ==
    ASSUME NEW acts \in [Runners -> Seq(ActivityType)], NEW run \in Runners,
           NEW n, OwnersOK(acts, run, n),
           NEW t \in Seq(ActivityType), Len(t) = Len(acts[run]),
           \A i \in DOMAIN t : Alike(t[i], acts[run][i])
    PROVE  /\ OwnersOK(Turned(acts, run, t), run, n)
           /\ Turned(acts, run, t) \in [Runners -> Seq(ActivityType)]
           /\ Turned(acts, run, t)[run] = t
           /\ \A r \in Runners \ {run} : Turned(acts, run, t)[r] = acts[r]
<1>1. PICK b : b = Turned(acts, run, t)
  OBVIOUS
<1>2. /\ b \in [Runners -> Seq(ActivityType)] /\ b[run] = t
      /\ \A r \in Runners \ {run} : b[r] = acts[r]
  BY <1>1 DEF Turned
<1>3. DOMAIN t = DOMAIN acts[run]
  <2>1. acts[run] \in Seq(ActivityType)
    OBVIOUS
  <2> QED
    BY <2>1
<1>4. \A r \in Runners : /\ DOMAIN b[r] = DOMAIN acts[r]
                         /\ \A i \in DOMAIN acts[r] : /\ b[r][i].at = acts[r][i].at
                                                      /\ b[r][i].cxt = acts[r][i].cxt
                                                      /\ b[r][i].bound = acts[r][i].bound
  BY <1>2, <1>3, ZenonT(60) DEF Alike
<1>5. \A r \in Runners : \A i \in DOMAIN b[r] : /\ Owns(b[r][i]) <=> Owns(acts[r][i])
                                                /\ i \in DOMAIN acts[r]
  BY <1>4 DEF Owns
<1>6. \A r \in Runners : \A i \in DOMAIN b[r] :
           /\ b[r][i].cxt \in 1 .. n /\ b[r][i].bound \in 1 .. n
           /\ b[r][i].at = "fiber" <=> i = 1 /\ r # MainRunner
           /\ r # run => b[r][i].at \in {"run", "fiber"}
           /\ Owns(b[r][i]) /\ b[r][i].cxt = 1 => r = MainRunner /\ i = 1
  <2> SUFFICES ASSUME NEW r \in Runners, NEW i \in DOMAIN b[r]
               PROVE  /\ b[r][i].cxt \in 1 .. n /\ b[r][i].bound \in 1 .. n
                      /\ b[r][i].at = "fiber" <=> i = 1 /\ r # MainRunner
                      /\ r # run => b[r][i].at \in {"run", "fiber"}
                      /\ Owns(b[r][i]) /\ b[r][i].cxt = 1 => r = MainRunner /\ i = 1
    OBVIOUS
  <2>1. i \in DOMAIN acts[r] /\ (Owns(b[r][i]) <=> Owns(acts[r][i]))
    BY <1>5
  <2>2. PICK x, y : x = b[r][i] /\ y = acts[r][i]
    OBVIOUS
  <2>3. x.at = y.at /\ x.cxt = y.cxt /\ x.bound = y.bound
    BY <1>4, <2>1, <2>2
  <2>4. /\ y.cxt \in 1 .. n /\ y.bound \in 1 .. n
        /\ y.at = "fiber" <=> i = 1 /\ r # MainRunner
        /\ r # run => y.at \in {"run", "fiber"}
        /\ Owns(y) /\ y.cxt = 1 => r = MainRunner /\ i = 1
    BY <2>1, <2>2 DEF OwnersOK
  <2> QED
    BY <2>1, <2>2, <2>3, <2>4
<1>7. \A r, u \in Runners : \A i \in DOMAIN b[r] : \A j \in DOMAIN b[u] :
           /\ Owns(b[r][i]) /\ Owns(b[u][j]) /\ b[r][i].cxt = b[u][j].cxt
           => r = u /\ i = j
  BY <1>4, <1>5 DEF OwnersOK
<1>8. OwnersOK(b, run, n)
  BY <1>6, <1>7 DEF OwnersOK
<1> QED
  BY <1>1, <1>2, <1>8

(* Depths, and a stack above and beneath another one.                      *)
IsStack(s, n) == s \in Seq(ActivityType) /\ n \in Nat /\ n = Len(s)
Above(t, s, a) == t = Append(s, a)
Beneath(t, s) == t = Front(s)

(* What a runner's last activity turns into.                               *)
LEMMA Retopped ==
    ASSUME NEW cm, NEW p, NEW acts, NEW run \in Runners, NEW mode, NEW w,
           Good(cm, p, acts, run, mode, w), NEW s, s = acts[run], s # <<>>,
           NEW a \in ActivityType, Alike(a, Last(s)), NEW t, t = Append(Front(s), a),
           NEW n, n = Len(s)
    PROVE  /\ s \in Seq(ActivityType) /\ t \in Seq(ActivityType) /\ n \in Nat \ {0}
           /\ Len(t) = n /\ DOMAIN t = 1 .. n /\ DOMAIN s = 1 .. n
           /\ t[n] = a /\ Last(s) = s[n] /\ s[n] \in ActivityType
           /\ \A i \in 1 .. n - 1 : t[i] = s[i]
           /\ \A i \in 1 .. n : Alike(t[i], s[i])
           /\ Compilers(t) = Compilers(s)
           /\ NestOK(t) /\ BindingOK(cm, t) /\ PoolOK(cm, p, t) /\ ContextsOK(p, t)
           /\ Turned(acts, run, t) \in [Runners -> Seq(ActivityType)]
           /\ OwnersOK(Turned(acts, run, t), run, Len(p))
           /\ Turned(acts, run, t)[run] = t
           /\ \A r \in Runners \ {run} : Turned(acts, run, t)[r] = acts[r]
<1>1. s \in Seq(ActivityType) /\ acts \in [Runners -> Seq(ActivityType)]
  BY DEF Good, TypesOK
<1>2. n \in Nat
  BY <1>1
<1>3. n \in Nat /\ n >= 1 /\ DOMAIN s = 1 .. n /\ s[n] \in ActivityType /\ Last(s) = s[n]
  <2>1. n >= 1 /\ DOMAIN s = 1 .. n
    BY <1>2, <1>1, FrontSeq
  <2>2. Last(s) = s[n] /\ Last(s) \in ActivityType
    BY <1>2, <1>1, FrontSeq
  <2> QED
    BY <1>2, <2>1, <2>2
<1>4. /\ Front(s) \in Seq(ActivityType) /\ Len(Front(s)) = n - 1 /\ n - 1 \in Nat
      /\ \A i \in 1 .. n - 1 : Front(s)[i] = s[i]
  BY <1>1, <1>3, FrontSeq
<1>5. /\ t \in Seq(ActivityType) /\ Len(t) = (n - 1) + 1 /\ DOMAIN t = 1 .. (n - 1) + 1
      /\ t[(n - 1) + 1] = a
      /\ \A i \in 1 .. n - 1 : t[i] = Front(s)[i]
  BY <1>4, AppendedSeq
<1>6. /\ Len(t) = n /\ DOMAIN t = 1 .. n /\ t[n] = a
      /\ \A i \in 1 .. n - 1 : t[i] = s[i]
  BY <1>3, <1>4, <1>5
<1>7. \A i \in 1 .. n : Alike(t[i], s[i])
  <2>1. \A i \in 1 .. n : i = n \/ i \in 1 .. n - 1
    BY <1>3
  <2> QED
    BY <1>3, <1>6, <2>1 DEF Alike
<1>8. Compilers(t) = Compilers(s)
  BY <1>3, <1>6, <1>7, AlikeSets
<1>9. NestOK(t) /\ BindingOK(cm, t) /\ PoolOK(cm, p, t) /\ ContextsOK(p, t)
  BY <1>1, <1>3, <1>5, <1>6, <1>7, AlikeKeeps DEF Good
<1>10. OwnersOK(acts, run, Len(p)) /\ Len(t) = Len(acts[run])
      /\ \A i \in DOMAIN t : Alike(t[i], acts[run][i])
  BY <1>3, <1>6, <1>7 DEF Good
<1>11. /\ Turned(acts, run, t) \in [Runners -> Seq(ActivityType)]
       /\ OwnersOK(Turned(acts, run, t), run, Len(p))
       /\ Turned(acts, run, t)[run] = t
       /\ \A r \in Runners \ {run} : Turned(acts, run, t)[r] = acts[r]
  BY <1>1, <1>5, <1>10, AlikeOwners, ZenonT(60)
<1> QED
  BY <1>1, <1>3, <1>5, <1>6, <1>7, <1>8, <1>9, <1>11

(***************************************************************************)
(* The scopes under each of these changes.                                 *)
(***************************************************************************)
LEMMA TopScope ==
    ASSUME NEW s, NEW n, IsStack(s, n), s # <<>>, s[n].at = "compile",
           NEW m \in Nat, NEW scopes, m = Len(scopes), NEW g, NEW mode,
           Fits(g, scopes, s, mode)
    PROVE  /\ m >= 1 /\ g[m] = n /\ \A k \in 1 .. m - 1 : g[k] < n
           /\ ScopeOK(s, n, mode, scopes[m])
           /\ n \in Nat \ {0}
<1> USE DEF IsStack, Above, Beneath
<1>1. n \in Nat /\ n >= 1 /\ DOMAIN s = 1 .. n
  OBVIOUS
<1>2. n \in Compilers(s) /\ \A i \in Compilers(s) : i \in 1 .. n
  BY <1>1 DEF Compilers
<1>3. PICK k \in 1 .. m : g[k] = n
  BY <1>2 DEF Fits
<1>4. \A j \in 1 .. m : g[j] \in 1 .. n
  BY <1>2 DEF Fits
<1>5. k = m
  <2>1. k < m => g[k] < g[m] /\ m \in 1 .. m
    BY DEF Fits
  <2>2. ~ k < m
    BY <1>1, <1>3, <1>4, <2>1
  <2> QED
    BY <2>2
<1>6. \A j \in 1 .. m - 1 : g[j] < n
  <2>1. \A j \in 1 .. m - 1 : j \in 1 .. m /\ j < m /\ m \in 1 .. m
    BY <1>3
  <2> QED
    BY <1>3, <1>5, <2>1 DEF Fits
<1>7. ScopeOK(s, n, mode, scopes[m])
  BY <1>3, <1>5 DEF Fits
<1> QED
  BY <1>1, <1>3, <1>5, <1>6, <1>7

(* The innermost compile() and its scope change.                           *)
LEMMA ScopesTop ==
    ASSUME NEW s, NEW n, IsStack(s, n), s # <<>>, s[n].at = "compile",
           NEW cm, cm.scopes \in Seq(ScopeType), NEW mode, ScopesOK(cm, s, mode),
           NEW t \in Seq(ActivityType), Len(t) = n, Compilers(t) = Compilers(s),
           \A i \in 1 .. n - 1 : t[i] = s[i],
           NEW cm2, Len(cm2.scopes) = Len(cm.scopes),
           \A k \in 1 .. Len(cm.scopes) - 1 : cm2.scopes[k] = cm.scopes[k],
           NEW mode2, ScopeOK(t, n, mode2, cm2.scopes[Len(cm.scopes)])
    PROVE  ScopesOK(cm2, t, mode2)
<1> USE DEF IsStack, Above, Beneath
<1>1. PICK g \in [1 .. Len(cm.scopes) -> Compilers(s)] : Fits(g, cm.scopes, s, mode)
  BY DEF ScopesOK
<1>2. PICK m \in Nat : m = Len(cm.scopes)
  OBVIOUS
<1>3. m >= 1 /\ g[m] = n /\ n \in Nat /\ \A k \in 1 .. m - 1 : g[k] < n
  <2>1. PICK sc : sc = cm.scopes
    OBVIOUS
  <2>2. Fits(g, sc, s, mode) /\ m = Len(sc)
    BY <1>1, <1>2, <2>1
  <2>3. m >= 1 /\ g[m] = n /\ n \in Nat \ {0}
    BY <2>2, TopScope
  <2>4. \A k \in 1 .. m - 1 : g[k] < n
    BY <2>2, TopScope
  <2> QED
    BY <2>3, <2>4
<1>4. ASSUME NEW k \in 1 .. m - 1 PROVE ScopeOK(t, g[k], mode2, cm2.scopes[k])
  <2>0. k \in 1 .. m
    BY <1>2
  <2>1. g[k] \in Compilers(s) /\ g[k] < n
    BY <1>2, <1>3, <2>0
  <2>2. g[k] \in 1 .. n - 1
    <3>1. g[k] \in DOMAIN s
      BY <2>1 DEF Compilers
    <3> QED
      BY <1>3, <2>1, <3>1
  <2>3. ScopeOK(s, g[k], mode, cm.scopes[k])
    BY <1>1, <1>2, <2>0 DEF Fits
  <2>4. t[g[k]] = s[g[k]]
    BY <2>2
  <2>5. cm2.scopes[k] = cm.scopes[k]
    BY <1>2
  <2>6. g[k] # n
    BY <1>3, <2>2
  <2> QED
    BY <1>3, <2>1, <2>3, <2>4, <2>5, <2>6 DEF ScopeOK
<1>5. \A k \in 1 .. m : ScopeOK(t, g[k], mode2, cm2.scopes[k])
  <2>1. \A k \in 1 .. m : k = m \/ k \in 1 .. m - 1
    BY <1>3
  <2> QED
    BY <1>2, <1>3, <1>4, <2>1
<1>6. Fits(g, cm2.scopes, t, mode2)
  BY <1>1, <1>2, <1>5 DEF Fits
<1> QED
  BY <1>1, <1>2, <1>6 DEF ScopesOK

(* The last activity is no compile(), and any other that is none.          *)
LEMMA ScopesOther ==
    ASSUME NEW s, NEW n, IsStack(s, n),
           s = <<>> \/ s[n].at # "compile",
           NEW cm, NEW mode, ScopesOK(cm, s, mode),
           NEW t \in Seq(ActivityType), Len(t) = n, Compilers(t) = Compilers(s),
           \A i \in 1 .. n - 1 : t[i] = s[i],
           NEW cm2, cm2.scopes = cm.scopes, NEW mode2
    PROVE  ScopesOK(cm2, t, mode2)
<1> USE DEF IsStack, Above, Beneath
<1>1. PICK g \in [1 .. Len(cm.scopes) -> Compilers(s)] : Fits(g, cm.scopes, s, mode)
  BY DEF ScopesOK
<1>2. n \in Nat /\ DOMAIN s = 1 .. n
  OBVIOUS
<1>3. ASSUME NEW k \in 1 .. Len(cm.scopes) PROVE ScopeOK(t, g[k], mode2, cm.scopes[k])
  <2>1. g[k] \in 1 .. n /\ s[g[k]].at = "compile"
    BY <1>2 DEF Compilers
  <2>2. g[k] # n /\ g[k] < n
    BY <1>2, <2>1
  <2>3. t[g[k]] = s[g[k]]
    BY <1>2, <2>1, <2>2
  <2>4. ScopeOK(s, g[k], mode, cm.scopes[k])
    BY <1>1 DEF Fits
  <2> QED
    BY <2>2, <2>3, <2>4 DEF ScopeOK
<1>4. Fits(g, cm.scopes, t, mode2)
  BY <1>1, <1>3 DEF Fits
<1> QED
  BY <1>1, <1>4 DEF ScopesOK

(* One activity more.                                                      *)
LEMMA ScopesPush ==
    ASSUME NEW s, NEW n, IsStack(s, n),
           NEW cm, cm.scopes \in Seq(ScopeType), NEW mode, ScopesOK(cm, s, mode),
           mode = "short" \/ s = <<>> \/ s[n].at # "compile",
           NEW a \in ActivityType, NEW t, Above(t, s, a), NEW cm2, NEW mode2,
           \/ /\ a.at = "compile" /\ cm2.scopes = Append(cm.scopes, <<>>)
              /\ a.waiting = <<>> /\ mode2 = "full"
           \/ a.at # "compile" /\ cm2.scopes = cm.scopes
    PROVE  ScopesOK(cm2, t, mode2)
<1> USE DEF IsStack, Above, Beneath
<1>1. PICK g \in [1 .. Len(cm.scopes) -> Compilers(s)] : Fits(g, cm.scopes, s, mode)
  BY DEF ScopesOK
<1>2. n \in Nat /\ DOMAIN s = 1 .. n
  OBVIOUS
<1>3. /\ t \in Seq(ActivityType) /\ Len(t) = n + 1 /\ DOMAIN t = 1 .. n + 1 /\ t[n + 1] = a
      /\ \A i \in 1 .. n : t[i] = s[i]
  BY <1>2, AppendedSeq
<1>4. PICK m \in Nat : m = Len(cm.scopes)
  OBVIOUS
<1>5. \A i \in 1 .. n + 1 : i = n + 1 \/ i \in 1 .. n
  BY <1>2
<1>6. Compilers(t) = IF a.at = "compile" THEN Compilers(s) \cup {n + 1} ELSE Compilers(s)
  <2>1. \A i \in 1 .. n : i \in 1 .. n + 1 /\ i # n + 1
    BY <1>2
  <2>2. n + 1 \in 1 .. n + 1 /\ n + 1 \notin 1 .. n
    BY <1>2
  <2> QED
    BY <1>2, <1>3, <1>5, <2>1, <2>2 DEF Compilers
<1>7. ASSUME NEW k \in 1 .. m PROVE ScopeOK(t, g[k], mode2, cm.scopes[k]) /\ g[k] < n + 1
  <2>1. g[k] \in 1 .. n /\ s[g[k]].at = "compile"
    BY <1>2, <1>4 DEF Compilers
  <2>2. g[k] < n + 1 /\ (g[k] < n \/ g[k] = n)
    BY <1>2, <2>1
  <2>3. ScopeOK(s, g[k], mode, cm.scopes[k])
    BY <1>1, <1>4 DEF Fits
  <2>4. AllButOne(s[g[k]], cm.scopes[k])
    <3>1. CASE g[k] < n
      BY <2>3, <3>1 DEF ScopeOK
    <3>2. CASE g[k] = n
      <4>1. mode = "short"
        BY <1>2, <2>1, <3>2
      <4> QED
        BY <2>3, <4>1 DEF ScopeOK
    <3> QED
      BY <2>2, <3>1, <3>2
  <2>5. t[g[k]] = s[g[k]] /\ g[k] # n + 1
    BY <1>2, <1>3, <2>1
  <2> QED
    BY <1>3, <2>2, <2>4, <2>5 DEF ScopeOK
<1>8. CASE a.at # "compile"
  <2>1. cm2.scopes = cm.scopes /\ Compilers(t) = Compilers(s)
    BY <1>6, <1>8
  <2>2. Fits(g, cm.scopes, t, mode2)
    BY <1>1, <1>4, <1>7, <2>1 DEF Fits
  <2> QED
    BY <2>1, <2>2 DEF ScopesOK
<1>9. CASE a.at = "compile"
  <2>1. cm2.scopes = Append(cm.scopes, <<>>) /\ a.waiting = <<>> /\ mode2 = "full"
    BY <1>9
  <2>2. PICK sc : sc = cm2.scopes
    OBVIOUS
  <2>3. /\ Len(sc) = m + 1 /\ sc[m + 1] = <<>> /\ \A k \in 1 .. m : sc[k] = cm.scopes[k]
    <3>1. <<>> \in ScopeType
      BY DEF ScopeType
    <3> QED
      BY <1>4, <2>1, <2>2, <3>1, AppendedSeq
  <2>4. PICK h : h = [k \in 1 .. m + 1 |-> IF k = m + 1 THEN n + 1 ELSE g[k]]
    OBVIOUS
  <2>5. \A k \in 1 .. m + 1 : k = m + 1 \/ k \in 1 .. m
    BY <1>4
  <2>6. m + 1 \in 1 .. m + 1 /\ \A k \in 1 .. m : k \in 1 .. m + 1 /\ k # m + 1
    BY <1>4
  <2>7. h[m + 1] = n + 1 /\ \A k \in 1 .. m : h[k] = g[k]
    BY <2>4, <2>6
  <2>8. h \in [1 .. m + 1 -> Compilers(t)]
    <3>1. \A k \in 1 .. m + 1 : h[k] \in Compilers(t)
      BY <1>4, <1>6, <1>9, <2>5, <2>7
    <3> QED
      BY <2>4, <3>1
  <2>9. \A j, k \in 1 .. m + 1 : j < k => h[j] < h[k]
    <3>1. SUFFICES ASSUME NEW j \in 1 .. m + 1, NEW k \in 1 .. m + 1, j < k
                   PROVE  h[j] < h[k]
      OBVIOUS
    <3>2. j \in 1 .. m
      BY <1>4, <3>1
    <3>3. CASE k = m + 1
      BY <1>7, <2>7, <3>2, <3>3
    <3>4. CASE k \in 1 .. m
      BY <1>1, <1>4, <2>7, <3>1, <3>2, <3>4 DEF Fits
    <3> QED
      BY <2>5, <3>3, <3>4
  <2>10. \A i \in Compilers(t) : \E k \in 1 .. m + 1 : h[k] = i
    <3>1. SUFFICES ASSUME NEW i \in Compilers(t) PROVE \E k \in 1 .. m + 1 : h[k] = i
      OBVIOUS
    <3>2. CASE i = n + 1
      BY <2>6, <2>7, <3>2
    <3>3. CASE i \in Compilers(s)
      <4>1. PICK k \in 1 .. m : g[k] = i
        BY <1>1, <1>4, <3>3 DEF Fits
      <4> QED
        BY <2>6, <2>7, <4>1
    <3> QED
      BY <1>6, <1>9, <3>2, <3>3
  <2>11. ScopeOK(t, n + 1, mode2, <<>>)
    <3>1. ResultsOf(a, Len(a.waiting)) = <<>>
      BY <2>1 DEF ResultsOf
    <3>2. Len(t) = n + 1 /\ t[n + 1] = a
      BY <1>3
    <3>3. ~ (n + 1 < n + 1)
      BY <1>2
    <3> QED
      BY <2>1, <3>1, <3>2, <3>3 DEF ScopeOK, AllOf
  <2>12. \A k \in 1 .. m + 1 : ScopeOK(t, h[k], mode2, sc[k])
    BY <1>7, <2>3, <2>5, <2>7, <2>11
  <2>13. Fits(h, sc, t, mode2)
    BY <2>3, <2>8, <2>9, <2>10, <2>12 DEF Fits
  <2> QED
    BY <2>2, <2>3, <2>8, <2>13 DEF ScopesOK
<1> QED
  BY <1>8, <1>9

(* One activity fewer.                                                     *)
LEMMA ScopesPop ==
    ASSUME NEW s, NEW n, IsStack(s, n), s # <<>>,
           NEW cm, cm.scopes \in Seq(ScopeType), NEW mode, ScopesOK(cm, s, mode),
           NEW t, Beneath(t, s), NEW cm2,
           \/ s[n].at = "compile" /\ cm2.scopes = EndedScope(cm.scopes)
           \/ s[n].at # "compile" /\ cm2.scopes = cm.scopes
    PROVE  ScopesOK(cm2, t, "short")
<1> USE DEF IsStack, Above, Beneath
<1>1. PICK g \in [1 .. Len(cm.scopes) -> Compilers(s)] : Fits(g, cm.scopes, s, mode)
  BY DEF ScopesOK
<1>2. n \in Nat /\ s \in Seq(ActivityType)
  OBVIOUS
<1>3. /\ n >= 1 /\ t \in Seq(ActivityType) /\ Len(t) = n - 1 /\ DOMAIN t = 1 .. n - 1
      /\ DOMAIN s = 1 .. n /\ \A i \in 1 .. n - 1 : t[i] = s[i]
  <2>0. PICK S : S = ActivityType
    OBVIOUS
  <2>1. n >= 1 /\ DOMAIN s = 1 .. n /\ t \in Seq(S)
    BY <1>2, <2>0, FrontSeq
  <2>2. Len(t) = n - 1 /\ DOMAIN t = 1 .. n - 1 /\ \A i \in 1 .. n - 1 : t[i] = s[i]
    BY <1>2, <2>0, FrontSeq, SMTT(60)
  <2> QED
    BY <2>0, <2>1, <2>2
<1>4. PICK m \in Nat : m = Len(cm.scopes)
  OBVIOUS
<1>5. Compilers(t) = Compilers(s) \ {n}
  <2>1. \A i : i \in 1 .. n - 1 <=> i \in 1 .. n /\ i # n
    BY <1>2, <1>3
  <2> QED
    BY <1>3, <2>1 DEF Compilers
<1>6. ASSUME NEW k \in 1 .. m, g[k] # n PROVE ScopeOK(t, g[k], "short", cm.scopes[k])
  <2>1. g[k] \in 1 .. n
    BY <1>3, <1>4 DEF Compilers
  <2>2. g[k] < n /\ g[k] \in 1 .. n - 1
    BY <1>2, <1>6, <2>1
  <2>3. ScopeOK(s, g[k], mode, cm.scopes[k])
    BY <1>1, <1>4 DEF Fits
  <2>4. AllButOne(t[g[k]], cm.scopes[k])
    BY <1>3, <2>2, <2>3 DEF ScopeOK
  <2> QED
    BY <2>4 DEF ScopeOK
<1>7. CASE s[n].at # "compile"
  <2>1. cm2.scopes = cm.scopes /\ Compilers(t) = Compilers(s)
    BY <1>5, <1>7 DEF Compilers
  <2>2. \A k \in 1 .. m : g[k] # n
    BY <1>4, <1>7 DEF Compilers
  <2>3. Fits(g, cm.scopes, t, "short")
    BY <1>1, <1>4, <1>6, <2>1, <2>2 DEF Fits
  <2> QED
    BY <2>1, <2>3 DEF ScopesOK
<1>8. CASE s[n].at = "compile"
  <2>0. PICK su : su = cm.scopes
    OBVIOUS
  <2>1. m >= 1 /\ g[m] = n /\ \A k \in 1 .. m - 1 : g[k] < n
    <3>1. Fits(g, su, s, mode) /\ m = Len(su)
      BY <1>1, <1>4, <2>0
    <3>2. m >= 1 /\ g[m] = n
      BY <1>8, <3>1, TopScope
    <3>3. \A k \in 1 .. m - 1 : g[k] < n
      BY <1>8, <3>1, TopScope
    <3> QED
      BY <3>2, <3>3
  <2>2. PICK sc : sc = cm2.scopes
    OBVIOUS
  <2>3. Len(sc) = m - 1 /\ \A k \in 1 .. m - 1 : sc[k] = cm.scopes[k]
    <3>1. cm.scopes # <<>>
      BY <1>4, <2>1
    <3>2. sc = Front(cm.scopes)
      BY <1>8, <2>2, <3>1 DEF EndedScope
    <3>3. su \in Seq(ScopeType) /\ su # <<>> /\ m = Len(su)
      BY <1>4, <2>0, <3>1
    <3>4. Len(Front(su)) = m - 1
      BY <3>3, FrontSeq
    <3>5. \A k \in 1 .. m - 1 : Front(su)[k] = su[k]
      BY <3>3, FrontSeq
    <3> QED
      BY <2>0, <3>2, <3>4, <3>5
  <2>4. PICK h : h = [k \in 1 .. m - 1 |-> g[k]]
    OBVIOUS
  <2>5. \A k \in 1 .. m - 1 : k \in 1 .. m /\ h[k] = g[k] /\ g[k] # n
    BY <1>2, <1>4, <2>1, <2>4
  <2>6. h \in [1 .. m - 1 -> Compilers(t)]
    <3>1. \A k \in 1 .. m - 1 : h[k] \in Compilers(t)
      BY <1>4, <1>5, <2>5
    <3> QED
      BY <2>4, <3>1
  <2>7. \A j, k \in 1 .. m - 1 : j < k => h[j] < h[k]
    BY <1>1, <1>4, <2>5 DEF Fits
  <2>8. \A i \in Compilers(t) : \E k \in 1 .. m - 1 : h[k] = i
    <3>1. SUFFICES ASSUME NEW i \in Compilers(t) PROVE \E k \in 1 .. m - 1 : h[k] = i
      OBVIOUS
    <3>2. PICK k \in 1 .. m : g[k] = i
      BY <1>1, <1>4, <1>5, <3>1 DEF Fits
    <3>3. k # m
      BY <1>5, <2>1, <3>1, <3>2
    <3>4. k \in 1 .. m - 1
      BY <1>4, <3>2, <3>3
    <3> QED
      BY <2>5, <3>2, <3>4
  <2>9. \A k \in 1 .. m - 1 : ScopeOK(t, h[k], "short", sc[k])
    BY <1>6, <2>3, <2>5
  <2>10. Fits(h, sc, t, "short")
    BY <2>3, <2>6, <2>7, <2>8, <2>9 DEF Fits
  <2> QED
    BY <2>2, <2>3, <2>6, <2>10 DEF ScopesOK
<1> QED
  BY <1>7, <1>8

(***************************************************************************)
(* One activity more, one fewer.                                           *)
(***************************************************************************)
LEMMA PushSets ==
    ASSUME NEW s, NEW n, IsStack(s, n), NEW a \in ActivityType,
           NEW t, Above(t, s, a)
    PROVE  /\ n \in Nat /\ DOMAIN s = 1 .. n
           /\ t \in Seq(ActivityType) /\ Len(t) = n + 1 /\ DOMAIN t = 1 .. n + 1
           /\ t[n + 1] = a /\ t # <<>> /\ \A i \in 1 .. n : t[i] = s[i]
           /\ Compilers(s) \subseteq 1 .. n /\ Binders(s) \subseteq 1 .. n
<1> USE DEF IsStack, Above, Beneath
<1>1. n \in Nat /\ DOMAIN s = 1 .. n
  OBVIOUS
<1>2. /\ t \in Seq(ActivityType) /\ Len(t) = n + 1 /\ DOMAIN t = 1 .. n + 1 /\ t[n + 1] = a
      /\ t # <<>> /\ \A i \in 1 .. n : t[i] = s[i]
  BY <1>1, AppendedSeq
<1>3. Compilers(s) \subseteq 1 .. n /\ Binders(s) \subseteq 1 .. n
  BY <1>1 DEF Compilers, Binders
<1> QED
  BY <1>1, <1>2, <1>3

LEMMA PushedCompilers ==
    ASSUME NEW s, NEW n, IsStack(s, n), NEW a \in ActivityType,
           NEW t, Above(t, s, a), NEW m, m = n + 1
    PROVE  /\ a.at = "compile" => Compilers(t) = With(Compilers(s), m)
           /\ a.at # "compile" => Compilers(t) = Compilers(s)
<1>1. n \in Nat /\ DOMAIN s = 1 .. n /\ DOMAIN t = 1 .. n + 1 /\ t[n + 1] = a
  BY PushSets
<1>2. \A i \in 1 .. n : t[i] = s[i]
  BY PushSets
<1>3. \A i : i \in 1 .. n + 1 <=> i = n + 1 \/ i \in 1 .. n
  BY <1>1
<1>4. n + 1 \notin 1 .. n
  BY <1>1
<1> QED
  BY <1>1, <1>2, <1>3, <1>4 DEF Compilers, With

LEMMA PushedBinders ==
    ASSUME NEW s, NEW n, IsStack(s, n), NEW a \in ActivityType,
           NEW t, Above(t, s, a), NEW m, m = n + 1, NEW c
    PROVE  /\ a.at \in {"compile", "eval"} => Binders(t) = With(Binders(s), m)
           /\ a.at \notin {"compile", "eval"} => Binders(t) = Binders(s)
           /\ a.at \in {"compile", "eval"} /\ a.cxt = c =>
                  BindersOf(t, c) = With(BindersOf(s, c), m)
           /\ a.at \notin {"compile", "eval"} \/ a.cxt # c =>
                  BindersOf(t, c) = BindersOf(s, c)
<1>1. n \in Nat /\ DOMAIN s = 1 .. n /\ DOMAIN t = 1 .. n + 1 /\ t[n + 1] = a
  BY PushSets
<1>2. \A i \in 1 .. n : t[i] = s[i]
  BY PushSets
<1>3. \A i : i \in 1 .. n + 1 <=> i = n + 1 \/ i \in 1 .. n
  BY <1>1
<1>4. n + 1 \notin 1 .. n
  BY <1>1
<1>5. /\ a.at \in {"compile", "eval"} => Binders(t) = With(Binders(s), m)
      /\ a.at \notin {"compile", "eval"} => Binders(t) = Binders(s)
  BY <1>1, <1>2, <1>3, <1>4 DEF Binders, With
<1>6. \A i \in Binders(s) : t[i] = s[i]
  BY <1>1, <1>2 DEF Binders
<1>7. ASSUME a.at \in {"compile", "eval"}, a.cxt = c
      PROVE  BindersOf(t, c) = With(BindersOf(s, c), m)
  BY <1>1, <1>5, <1>6, <1>7 DEF BindersOf, With
<1>8. ASSUME a.at \notin {"compile", "eval"} \/ a.cxt # c
      PROVE  BindersOf(t, c) = BindersOf(s, c)
  BY <1>1, <1>5, <1>6, <1>8 DEF BindersOf, With
<1> QED
  BY <1>5, <1>7, <1>8

LEMMA PopSets ==
    ASSUME NEW s, NEW n, IsStack(s, n), s # <<>>, NEW t, Beneath(t, s)
    PROVE  /\ n \in Nat /\ n >= 1 /\ n - 1 \in Nat /\ DOMAIN s = 1 .. n
           /\ Last(s) = s[n] /\ s[n] \in ActivityType
           /\ t \in Seq(ActivityType) /\ Len(t) = n - 1 /\ DOMAIN t = 1 .. n - 1
           /\ \A i \in 1 .. n - 1 : t[i] = s[i]
           /\ Compilers(t) = Compilers(s) \ {n} /\ Binders(t) = Binders(s) \ {n}
           /\ \A c : BindersOf(t, c) = BindersOf(s, c) \ {n}
           /\ Compilers(s) \subseteq 1 .. n /\ Binders(s) \subseteq 1 .. n
<1> USE DEF IsStack, Above, Beneath
<1>1. n \in Nat /\ DOMAIN s = 1 .. n
  OBVIOUS
<1>2. n >= 1 /\ Last(s) = s[n] /\ s[n] \in ActivityType /\ n - 1 \in Nat
  BY <1>1, FrontSeq
<1>3. /\ t \in Seq(ActivityType) /\ Len(t) = n - 1 /\ DOMAIN t = 1 .. n - 1
      /\ \A i \in 1 .. n - 1 : t[i] = s[i]
  BY <1>1, FrontSeq
<1>4. \A i : i \in 1 .. n - 1 <=> i \in 1 .. n /\ i # n
  BY <1>1, <1>2
<1>5. Compilers(t) = Compilers(s) \ {n}
  BY <1>1, <1>3, <1>4 DEF Compilers
<1>6. Binders(t) = Binders(s) \ {n}
  BY <1>1, <1>3, <1>4 DEF Binders
<1>7. Compilers(s) \subseteq 1 .. n /\ Binders(s) \subseteq 1 .. n
  BY <1>1 DEF Compilers, Binders
<1>8. ASSUME NEW c PROVE BindersOf(t, c) = BindersOf(s, c) \ {n}
  <2>1. \A i \in Binders(s) \ {n} : t[i] = s[i]
    BY <1>3, <1>4, <1>7
  <2> QED
    BY <1>6, <2>1 DEF BindersOf
<1> QED
  BY <1>1, <1>2, <1>3, <1>5, <1>6, <1>7, <1>8

(* What the last activity has replaced.                                    *)
LEMMA PushedChains ==
    ASSUME NEW s, NEW n, IsStack(s, n), NEW a \in ActivityType,
           NEW t, Above(t, s, a), NEW cm, NEW cm2
    PROVE  /\ BindingOK(cm, s) /\ a.at \in {"compile", "eval"} /\ a.bound = cm.cxt
              /\ cm2.cxt = a.cxt => BindingOK(cm2, t)
           /\ BindingOK(cm, s) /\ a.at \notin {"compile", "eval"} /\ cm2.cxt = cm.cxt
              => BindingOK(cm2, t)
           /\ LoopsOK(cm, s) /\ a.at = "compile" /\ a.loops = cm.loops
              /\ cm2.loops = OpenLoops(a.blocks) => LoopsOK(cm2, t)
           /\ LoopsOK(cm, s) /\ a.at # "compile" /\ cm2.loops = cm.loops => LoopsOK(cm2, t)
<1>1. PICK m : m = n + 1
  OBVIOUS
<1>a. /\ n \in Nat /\ DOMAIN s = 1 .. n /\ DOMAIN t = 1 .. n + 1 /\ t[m] = a
      /\ \A i \in 1 .. n : t[i] = s[i]
  BY <1>1, PushSets
<1>b. /\ a.at = "compile" => Compilers(t) = With(Compilers(s), m)
      /\ a.at # "compile" => Compilers(t) = Compilers(s)
  BY <1>1, PushedCompilers
<1>c. /\ a.at \in {"compile", "eval"} => Binders(t) = With(Binders(s), m)
      /\ a.at \notin {"compile", "eval"} => Binders(t) = Binders(s)
  BY <1>1, PushedBinders
<1>d. Compilers(s) \subseteq 1 .. n /\ Binders(s) \subseteq 1 .. n
  BY PushSets
<1>2. /\ n \in Nat /\ DOMAIN s = 1 .. n /\ DOMAIN t = 1 .. n + 1 /\ t[m] = a
      /\ \A i \in 1 .. n : t[i] = s[i]
      /\ a.at = "compile" => Compilers(t) = With(Compilers(s), m)
      /\ a.at # "compile" => Compilers(t) = Compilers(s)
      /\ a.at \in {"compile", "eval"} => Binders(t) = With(Binders(s), m)
      /\ a.at \notin {"compile", "eval"} => Binders(t) = Binders(s)
      /\ Compilers(s) \subseteq 1 .. n /\ Binders(s) \subseteq 1 .. n
  BY <1>a, <1>b, <1>c, <1>d
<1>3. \A i \in 1 .. n : i \in 1 .. n + 1 /\ i < m
  BY <1>1, <1>2
<1>4. m \in 1 .. n + 1 /\ m \in Nat
  BY <1>1, <1>2
<1>5. /\ Bounds(t)[m] = a.bound /\ CxtsOf(t)[m] = a.cxt
      /\ OldLoops(t)[m] = a.loops /\ NewLoops(t)[m] = OpenLoops(a.blocks)
  BY <1>2, <1>4 DEF Bounds, CxtsOf, OldLoops, NewLoops
<1>6. \A i \in 1 .. n : /\ Bounds(t)[i] = Bounds(s)[i] /\ CxtsOf(t)[i] = CxtsOf(s)[i]
                        /\ OldLoops(t)[i] = OldLoops(s)[i] /\ NewLoops(t)[i] = NewLoops(s)[i]
  BY <1>2, <1>3 DEF Bounds, CxtsOf, OldLoops, NewLoops
<1>7. Compilers(s) \in SUBSET Nat /\ Binders(s) \in SUBSET Nat
  BY CompilersAreNat DEF IsStack
<1>8. ASSUME BindingOK(cm, s), a.at \in {"compile", "eval"}, a.bound = cm.cxt, cm2.cxt = a.cxt
      PROVE  BindingOK(cm2, t)
  <2>1. Chain(Binders(s), Bounds(s), CxtsOf(s), 1, cm.cxt)
    BY <1>8 DEF BindingOK
  <2>2. /\ \A k \in Binders(s) : k < m /\ Bounds(t)[k] = Bounds(s)[k]
                                 /\ CxtsOf(t)[k] = CxtsOf(s)[k]
        /\ Bounds(t)[m] = cm.cxt
    BY <1>2, <1>3, <1>5, <1>6, <1>8
  <2>3. Chain(With(Binders(s), m), Bounds(t), CxtsOf(t), 1, CxtsOf(t)[m])
    <3>1. PICK K, L, old, new, old2, new2, base, cur, v :
              /\ K = Binders(s) /\ L = With(Binders(s), m) /\ base = 1 /\ cur = cm.cxt
              /\ old = Bounds(s) /\ new = CxtsOf(s) /\ old2 = Bounds(t) /\ new2 = CxtsOf(t)
              /\ v = CxtsOf(t)[m]
      OBVIOUS
    <3>2. Below(K, m) /\ K \in SUBSET Nat /\ m \in Nat
      BY <1>4, <1>7, <2>2, <3>1 DEF Below
    <3>3. \A k \in K : old2[k] = old[k] /\ new2[k] = new[k]
      BY <2>2, <3>1
    <3>4. Chain(K, old, new, base, cur) /\ old2[m] = cur /\ v = new2[m] /\ L = With(K, m)
      BY <2>1, <2>2, <3>1
    <3>5. Chain(L, old2, new2, base, v)
      BY <3>2, <3>3, <3>4, ChainPush, ZenonT(60)
    <3> QED
      BY <3>1, <3>5
  <2> QED
    BY <1>2, <1>5, <1>8, <2>3 DEF BindingOK
<1>9. ASSUME BindingOK(cm, s), a.at \notin {"compile", "eval"}, cm2.cxt = cm.cxt
      PROVE  BindingOK(cm2, t)
  <2>1. Chain(Binders(s), Bounds(s), CxtsOf(s), 1, cm.cxt)
    BY <1>9 DEF BindingOK
  <2>2. \A k \in Binders(s) : Bounds(t)[k] = Bounds(s)[k] /\ CxtsOf(t)[k] = CxtsOf(s)[k]
    BY <1>2, <1>6
  <2>3. Chain(Binders(s), Bounds(t), CxtsOf(t), 1, cm.cxt)
    BY <1>7, <2>1, <2>2, ChainSame
  <2> QED
    BY <1>2, <1>9, <2>3 DEF BindingOK
<1>10. ASSUME LoopsOK(cm, s), a.at = "compile", a.loops = cm.loops,
             cm2.loops = OpenLoops(a.blocks)
      PROVE  LoopsOK(cm2, t)
  <2>1. Chain(Compilers(s), OldLoops(s), NewLoops(s), 0, cm.loops)
    BY <1>10 DEF LoopsOK
  <2>2. /\ \A k \in Compilers(s) : k < m /\ OldLoops(t)[k] = OldLoops(s)[k]
                                   /\ NewLoops(t)[k] = NewLoops(s)[k]
        /\ OldLoops(t)[m] = cm.loops
    BY <1>2, <1>3, <1>5, <1>6, <1>10
  <2>3. Chain(With(Compilers(s), m), OldLoops(t), NewLoops(t), 0, NewLoops(t)[m])
    <3>1. PICK K, L, old, new, old2, new2, base, cur, v :
              /\ K = Compilers(s) /\ L = With(Compilers(s), m) /\ base = 0 /\ cur = cm.loops
              /\ old = OldLoops(s) /\ new = NewLoops(s) /\ old2 = OldLoops(t) /\ new2 = NewLoops(t)
              /\ v = NewLoops(t)[m]
      OBVIOUS
    <3>2. Below(K, m) /\ K \in SUBSET Nat /\ m \in Nat
      BY <1>4, <1>7, <2>2, <3>1 DEF Below
    <3>3. \A k \in K : old2[k] = old[k] /\ new2[k] = new[k]
      BY <2>2, <3>1
    <3>4. Chain(K, old, new, base, cur) /\ old2[m] = cur /\ v = new2[m] /\ L = With(K, m)
      BY <2>1, <2>2, <3>1
    <3>5. Chain(L, old2, new2, base, v)
      BY <3>2, <3>3, <3>4, ChainPush, ZenonT(60)
    <3> QED
      BY <3>1, <3>5
  <2> QED
    BY <1>2, <1>5, <1>10, <2>3 DEF LoopsOK
<1>11. ASSUME LoopsOK(cm, s), a.at # "compile", cm2.loops = cm.loops
       PROVE  LoopsOK(cm2, t)
  <2>1. Chain(Compilers(s), OldLoops(s), NewLoops(s), 0, cm.loops)
    BY <1>11 DEF LoopsOK
  <2>2. \A k \in Compilers(s) : OldLoops(t)[k] = OldLoops(s)[k] /\ NewLoops(t)[k] = NewLoops(s)[k]
    BY <1>2, <1>6
  <2>3. Chain(Compilers(s), OldLoops(t), NewLoops(t), 0, cm.loops)
    BY <1>7, <2>1, <2>2, ChainSame
  <2> QED
    BY <1>2, <1>11, <2>3 DEF LoopsOK
<1> QED
  BY <1>8, <1>9, <1>10, <1>11

LEMMA PushedUnits ==
    ASSUME NEW s, NEW n, IsStack(s, n), NEW a \in ActivityType,
           NEW t, Above(t, s, a), NEW p, NEW p2, NEW c, UnitOK(p, s, c),
           \/ /\ a.at \in {"compile", "eval"} /\ a.cxt = c
              /\ a.unit = p[c].unit /\ p2[c].unit = Arena(a)
           \/ /\ a.at \notin {"compile", "eval"} \/ a.cxt # c
              /\ p2[c].unit = p[c].unit
    PROVE  UnitOK(p2, t, c)
<1>1. PICK m : m = n + 1
  OBVIOUS
<1>a. /\ n \in Nat /\ DOMAIN s = 1 .. n /\ DOMAIN t = 1 .. n + 1 /\ t[m] = a
      /\ \A i \in 1 .. n : t[i] = s[i]
  BY <1>1, PushSets
<1>b. /\ a.at \in {"compile", "eval"} /\ a.cxt = c =>
            BindersOf(t, c) = With(BindersOf(s, c), m)
      /\ a.at \notin {"compile", "eval"} \/ a.cxt # c => BindersOf(t, c) = BindersOf(s, c)
  BY <1>1, PushedBinders
<1>c. Binders(s) \subseteq 1 .. n
  BY PushSets
<1>2. /\ n \in Nat /\ DOMAIN s = 1 .. n /\ DOMAIN t = 1 .. n + 1 /\ t[m] = a
      /\ \A i \in 1 .. n : t[i] = s[i]
      /\ a.at \in {"compile", "eval"} /\ a.cxt = c =>
            BindersOf(t, c) = With(BindersOf(s, c), m)
      /\ a.at \notin {"compile", "eval"} \/ a.cxt # c => BindersOf(t, c) = BindersOf(s, c)
      /\ Binders(s) \subseteq 1 .. n
  BY <1>a, <1>b, <1>c
<1>3. \A i \in 1 .. n : i \in 1 .. n + 1 /\ i < m
  BY <1>1, <1>2
<1>4. m \in 1 .. n + 1 /\ m \in Nat
  BY <1>1, <1>2
<1>5. OldUnits(t)[m] = a.unit /\ NewUnits(t)[m] = Arena(a)
  BY <1>2, <1>4 DEF OldUnits, NewUnits
<1>6. \A k \in BindersOf(s, c) : /\ OldUnits(t)[k] = OldUnits(s)[k] /\ k < m
                                 /\ NewUnits(t)[k] = NewUnits(s)[k]
  <2>1. BindersOf(s, c) \subseteq 1 .. n
    BY <1>2 DEF BindersOf
  <2> QED
    BY <1>2, <1>3, <2>1 DEF OldUnits, NewUnits
<1>7. BindersOf(s, c) \in SUBSET Nat
  BY CompilersAreNat DEF IsStack
<1>8. Chain(BindersOf(s, c), OldUnits(s), NewUnits(s), Unit(c, "context"), p[c].unit)
  BY DEF UnitOK
<1>9. CASE a.at \in {"compile", "eval"} /\ a.cxt = c
  <2>1. a.unit = p[c].unit /\ p2[c].unit = Arena(a)
    BY <1>9
  <2>2. Chain(With(BindersOf(s, c), m), OldUnits(t), NewUnits(t), Unit(c, "context"),
              NewUnits(t)[m])
    <3>1. PICK K, L, old, new, old2, new2, base, cur, v :
              /\ K = BindersOf(s, c) /\ L = With(BindersOf(s, c), m) /\ base = Unit(c, "context") /\ cur = p[c].unit
              /\ old = OldUnits(s) /\ new = NewUnits(s) /\ old2 = OldUnits(t) /\ new2 = NewUnits(t)
              /\ v = NewUnits(t)[m]
      OBVIOUS
    <3>2. Below(K, m) /\ K \in SUBSET Nat /\ m \in Nat
      BY <1>4, <1>7, <1>6, <3>1 DEF Below
    <3>3. \A k \in K : old2[k] = old[k] /\ new2[k] = new[k]
      BY <1>6, <3>1
    <3>4. Chain(K, old, new, base, cur) /\ old2[m] = cur /\ v = new2[m] /\ L = With(K, m)
      BY <1>5, <1>8, <2>1, <3>1
    <3>5. Chain(L, old2, new2, base, v)
      BY <3>2, <3>3, <3>4, ChainPush
    <3> QED
      BY <3>1, <3>5
  <2> QED
    BY <1>2, <1>5, <1>9, <2>1, <2>2 DEF UnitOK
<1>10. CASE a.at \notin {"compile", "eval"} \/ a.cxt # c
  <2>1. p2[c].unit = p[c].unit
    BY <1>10
  <2>2. Chain(BindersOf(s, c), OldUnits(t), NewUnits(t), Unit(c, "context"), p[c].unit)
    BY <1>6, <1>7, <1>8, ChainSame
  <2> QED
    BY <1>2, <1>10, <2>1, <2>2 DEF UnitOK
<1> QED
  BY <1>9, <1>10

LEMMA PoppedChains ==
    ASSUME NEW s, NEW n, IsStack(s, n), s # <<>>,
           NEW t, Beneath(t, s), NEW cm, NEW cm2
    PROVE  /\ BindingOK(cm, s) /\ s[n].at \in {"compile", "eval"} /\ cm2.cxt = s[n].bound
              => BindingOK(cm2, t)
           /\ BindingOK(cm, s) /\ s[n].at \notin {"compile", "eval"} /\ cm2.cxt = cm.cxt
              => BindingOK(cm2, t)
           /\ LoopsOK(cm, s) /\ s[n].at = "compile" /\ cm2.loops = s[n].loops
              => LoopsOK(cm2, t)
           /\ LoopsOK(cm, s) /\ s[n].at # "compile" /\ cm2.loops = cm.loops
              => LoopsOK(cm2, t)
<1>1. /\ n \in Nat /\ n >= 1 /\ DOMAIN s = 1 .. n /\ DOMAIN t = 1 .. n - 1
      /\ \A i \in 1 .. n - 1 : t[i] = s[i]
      /\ Compilers(t) = Compilers(s) \ {n} /\ Binders(t) = Binders(s) \ {n}
      /\ Compilers(s) \subseteq 1 .. n /\ Binders(s) \subseteq 1 .. n
  BY PopSets
<1>2. \A i : i \in 1 .. n - 1 <=> i \in 1 .. n /\ i # n
  BY <1>1
<1>3. n \in 1 .. n /\ \A i \in 1 .. n : i <= n
  BY <1>1
<1>4. Bounds(s)[n] = s[n].bound /\ OldLoops(s)[n] = s[n].loops
  BY <1>1, <1>3 DEF Bounds, OldLoops
<1>5. \A i \in 1 .. n : i # n =>
          /\ Bounds(t)[i] = Bounds(s)[i] /\ CxtsOf(t)[i] = CxtsOf(s)[i]
          /\ OldLoops(t)[i] = OldLoops(s)[i] /\ NewLoops(t)[i] = NewLoops(s)[i]
  BY <1>1, <1>2 DEF Bounds, CxtsOf, OldLoops, NewLoops
<1>6. Compilers(s) \in SUBSET Nat /\ Binders(s) \in SUBSET Nat
  BY CompilersAreNat DEF IsStack
<1>7. ASSUME BindingOK(cm, s), s[n].at \in {"compile", "eval"}, cm2.cxt = s[n].bound
      PROVE  BindingOK(cm2, t)
  <2>1. Chain(Binders(s), Bounds(s), CxtsOf(s), 1, cm.cxt)
    BY <1>7 DEF BindingOK
  <2>2. IsTop(Binders(s), n)
    BY <1>1, <1>3, <1>7 DEF IsTop, Binders
  <2>3. \A k \in Binders(s) \ {n} : Bounds(t)[k] = Bounds(s)[k] /\ CxtsOf(t)[k] = CxtsOf(s)[k]
    BY <1>1, <1>5
  <2>4. Chain(Binders(s) \ {n}, Bounds(t), CxtsOf(t), 1, Bounds(s)[n])
    BY <1>6, <2>1, <2>2, <2>3, ChainPop
  <2> QED
    BY <1>1, <1>4, <1>7, <2>4 DEF BindingOK
<1>8. ASSUME BindingOK(cm, s), s[n].at \notin {"compile", "eval"}, cm2.cxt = cm.cxt
      PROVE  BindingOK(cm2, t)
  <2>1. Chain(Binders(s), Bounds(s), CxtsOf(s), 1, cm.cxt)
    BY <1>8 DEF BindingOK
  <2>2. n \notin Binders(s) /\ Binders(t) = Binders(s)
    BY <1>1, <1>8 DEF Binders
  <2>3. \A k \in Binders(s) : Bounds(t)[k] = Bounds(s)[k] /\ CxtsOf(t)[k] = CxtsOf(s)[k]
    BY <1>1, <1>5, <2>2
  <2>4. Chain(Binders(s), Bounds(t), CxtsOf(t), 1, cm.cxt)
    BY <1>6, <2>1, <2>3, ChainSame
  <2> QED
    BY <1>8, <2>2, <2>4 DEF BindingOK
<1>9. ASSUME LoopsOK(cm, s), s[n].at = "compile", cm2.loops = s[n].loops
      PROVE  LoopsOK(cm2, t)
  <2>1. Chain(Compilers(s), OldLoops(s), NewLoops(s), 0, cm.loops)
    BY <1>9 DEF LoopsOK
  <2>2. IsTop(Compilers(s), n)
    BY <1>1, <1>3, <1>9 DEF IsTop, Compilers
  <2>3. \A k \in Compilers(s) \ {n} : /\ OldLoops(t)[k] = OldLoops(s)[k]
                                      /\ NewLoops(t)[k] = NewLoops(s)[k]
    BY <1>1, <1>5
  <2>4. Chain(Compilers(s) \ {n}, OldLoops(t), NewLoops(t), 0, OldLoops(s)[n])
    BY <1>6, <2>1, <2>2, <2>3, ChainPop
  <2> QED
    BY <1>1, <1>4, <1>9, <2>4 DEF LoopsOK
<1>10. ASSUME LoopsOK(cm, s), s[n].at # "compile", cm2.loops = cm.loops
       PROVE  LoopsOK(cm2, t)
  <2>1. Chain(Compilers(s), OldLoops(s), NewLoops(s), 0, cm.loops)
    BY <1>10 DEF LoopsOK
  <2>2. n \notin Compilers(s) /\ Compilers(t) = Compilers(s)
    BY <1>1, <1>10 DEF Compilers
  <2>3. \A k \in Compilers(s) : OldLoops(t)[k] = OldLoops(s)[k] /\ NewLoops(t)[k] = NewLoops(s)[k]
    BY <1>1, <1>5, <2>2
  <2>4. Chain(Compilers(s), OldLoops(t), NewLoops(t), 0, cm.loops)
    BY <1>6, <2>1, <2>3, ChainSame
  <2> QED
    BY <1>10, <2>2, <2>4 DEF LoopsOK
<1> QED
  BY <1>7, <1>8, <1>9, <1>10

LEMMA PoppedUnits ==
    ASSUME NEW s, NEW n, IsStack(s, n), s # <<>>,
           NEW t, Beneath(t, s), NEW p, NEW p2, NEW c, UnitOK(p, s, c),
           \/ /\ s[n].at \in {"compile", "eval"} /\ s[n].cxt = c /\ p2[c].unit = s[n].unit
           \/ /\ s[n].at \notin {"compile", "eval"} \/ s[n].cxt # c
              /\ p2[c].unit = p[c].unit
    PROVE  UnitOK(p2, t, c)
<1>1. /\ n \in Nat /\ n >= 1 /\ DOMAIN s = 1 .. n /\ DOMAIN t = 1 .. n - 1
      /\ \A i \in 1 .. n - 1 : t[i] = s[i]
      /\ BindersOf(t, c) = BindersOf(s, c) \ {n} /\ Binders(s) \subseteq 1 .. n
  BY PopSets
<1>2. \A i : i \in 1 .. n - 1 <=> i \in 1 .. n /\ i # n
  BY <1>1
<1>3. n \in 1 .. n /\ \A i \in 1 .. n : i <= n
  BY <1>1
<1>4. OldUnits(s)[n] = s[n].unit
  BY <1>1, <1>3 DEF OldUnits
<1>5. BindersOf(s, c) \subseteq 1 .. n
  BY <1>1 DEF BindersOf
<1>6. \A k \in BindersOf(s, c) \ {n} : /\ OldUnits(t)[k] = OldUnits(s)[k]
                                       /\ NewUnits(t)[k] = NewUnits(s)[k]
  BY <1>1, <1>2, <1>5 DEF OldUnits, NewUnits
<1>7. BindersOf(s, c) \in SUBSET Nat
  BY CompilersAreNat DEF IsStack
<1>8. Chain(BindersOf(s, c), OldUnits(s), NewUnits(s), Unit(c, "context"), p[c].unit)
  BY DEF UnitOK
<1>9. CASE s[n].at \in {"compile", "eval"} /\ s[n].cxt = c
  <2>1. IsTop(BindersOf(s, c), n)
    BY <1>1, <1>3, <1>5, <1>9 DEF IsTop, BindersOf, Binders
  <2>2. Chain(BindersOf(s, c) \ {n}, OldUnits(t), NewUnits(t), Unit(c, "context"),
              OldUnits(s)[n])
    <3>1. PICK K, old, new, old2, new2, cur, base :
              /\ K = BindersOf(s, c) /\ old = OldUnits(s) /\ new = NewUnits(s)
              /\ old2 = OldUnits(t) /\ new2 = NewUnits(t) /\ cur = p[c].unit
              /\ base = Unit(c, "context")
      OBVIOUS
    <3>2. \A k \in K \ {n} : old2[k] = old[k] /\ new2[k] = new[k]
      BY <1>6, <3>1
    <3>3. K \in SUBSET Nat /\ IsTop(K, n) /\ Chain(K, old, new, base, cur)
      BY <1>7, <1>8, <2>1, <3>1
    <3>4. Chain(K \ {n}, old2, new2, base, old[n])
      BY <3>2, <3>3, ChainPop
    <3> QED
      BY <3>1, <3>4
  <2> QED
    BY <1>1, <1>4, <1>9, <2>2 DEF UnitOK
<1>10. CASE s[n].at \notin {"compile", "eval"} \/ s[n].cxt # c
  <2>1. n \notin BindersOf(s, c) /\ BindersOf(t, c) = BindersOf(s, c)
    BY <1>1, <1>10 DEF BindersOf, Binders
  <2>2. Chain(BindersOf(s, c), OldUnits(t), NewUnits(t), Unit(c, "context"), p[c].unit)
    BY <1>6, <1>7, <1>8, <2>1, ChainSame
  <2> QED
    BY <1>10, <2>1, <2>2 DEF UnitOK
<1> QED
  BY <1>9, <1>10

(***************************************************************************)
(* Who owns which context, one activity more and one fewer.                *)
(***************************************************************************)
HasStack(acts, run, s, n) ==
    /\ acts \in [Runners -> Seq(ActivityType)] /\ run \in Runners
    /\ s = acts[run] /\ IsStack(s, n)

(* No compile() or run has context c.                                      *)
Free(acts, c) ==
    \A r \in Runners : \A i \in DOMAIN acts[r] : Owns(acts[r][i]) => acts[r][i].cxt # c

LEMMA StackIs ==
    ASSUME NEW acts, NEW run, NEW s, NEW n, HasStack(acts, run, s, n)
    PROVE  /\ IsStack(s, n) /\ s \in Seq(ActivityType) /\ n \in Nat /\ DOMAIN s = 1 .. n
           /\ run \in Runners /\ acts[run] = s
           /\ acts \in [Runners -> Seq(ActivityType)]
BY DEF HasStack, IsStack

LEMMA TurnedIs ==
    ASSUME NEW acts, NEW run, NEW s, NEW n, HasStack(acts, run, s, n),
           NEW t, NEW m, IsStack(t, m), NEW acts2, acts2 = Turned(acts, run, t)
    PROVE  /\ HasStack(acts2, run, t, m)
           /\ acts2 \in [Runners -> Seq(ActivityType)]
           /\ acts2[run] = t
           /\ \A r \in Runners : r # run => acts2[r] = acts[r]
BY DEF HasStack, IsStack, Turned

LEMMA PushStack ==
    ASSUME NEW s, NEW n, IsStack(s, n), NEW a \in ActivityType, NEW t, Above(t, s, a),
           NEW m, m = n + 1
    PROVE  IsStack(t, m)
<1>1. t \in Seq(ActivityType) /\ Len(t) = n + 1 /\ n \in Nat
  BY PushSets
<1> QED
  BY <1>1 DEF IsStack

LEMMA PopStack ==
    ASSUME NEW s, NEW n, IsStack(s, n), s # <<>>, NEW t, Beneath(t, s), NEW m, m = n - 1
    PROVE  IsStack(t, m)
<1>1. t \in Seq(ActivityType) /\ Len(t) = n - 1 /\ n - 1 \in Nat
  BY PopSets
<1> QED
  BY <1>1 DEF IsStack

LEMMA OwnersPush ==
    ASSUME NEW acts, NEW run, NEW s, NEW n, HasStack(acts, run, s, n),
           NEW a \in ActivityType, NEW t, Above(t, s, a),
           NEW acts2, acts2 = Turned(acts, run, t), NEW len, OwnersOK(acts, run, len),
           a.cxt \in 1 .. len, a.bound \in 1 .. len, a.at # "fiber", n = 0 => run = MainRunner,
           Owns(a) => Free(acts, a.cxt), Owns(a) /\ a.cxt = 1 => n = 0
    PROVE  OwnersOK(acts2, run, len)
<1>1. IsStack(s, n) /\ n \in Nat /\ DOMAIN s = 1 .. n /\ run \in Runners /\ acts[run] = s
  BY StackIs
<1>2. PICK m : m = n + 1
  OBVIOUS
<1>3. IsStack(t, m)
  BY <1>1, <1>2, PushStack
<1>4. DOMAIN t = 1 .. n + 1 /\ t[m] = a /\ \A i \in 1 .. n : t[i] = s[i]
  BY <1>1, <1>2, PushSets
<1>5. acts2[run] = t /\ \A r \in Runners : r # run => acts2[r] = acts[r]
  BY <1>3, TurnedIs
<1>6. ASSUME NEW r \in Runners, NEW i \in DOMAIN acts2[r]
      PROVE  \/ i \in DOMAIN acts[r] /\ acts2[r][i] = acts[r][i]
             \/ r = run /\ i = m /\ acts2[r][i] = a
  <2>1. CASE r # run
    BY <1>5, <2>1
  <2>2. CASE r = run
    <3>1. i \in 1 .. n + 1
      BY <1>4, <1>5, <2>2
    <3>2. i = m \/ i \in 1 .. n
      BY <1>1, <1>2, <3>1
    <3> QED
      BY <1>1, <1>4, <1>5, <2>2, <3>2
  <2> QED
    BY <2>1, <2>2
<1>7. m # 1 \/ run = MainRunner
  BY <1>1, <1>2
<1>8. ASSUME NEW r \in Runners, NEW i \in DOMAIN acts2[r]
      PROVE  /\ acts2[r][i].cxt \in 1 .. len /\ acts2[r][i].bound \in 1 .. len
             /\ acts2[r][i].at = "fiber" <=> i = 1 /\ r # MainRunner
             /\ r # run => acts2[r][i].at \in {"run", "fiber"}
             /\ Owns(acts2[r][i]) /\ acts2[r][i].cxt = 1 => r = MainRunner /\ i = 1
  <2>1. CASE i \in DOMAIN acts[r] /\ acts2[r][i] = acts[r][i]
    BY <2>1 DEF OwnersOK
  <2>2. CASE r = run /\ i = m /\ acts2[r][i] = a
    <3>1. n = 0 => m = 1
      BY <1>2
    <3> QED
      BY <1>7, <2>2, <3>1
  <2> QED
    BY <1>6, <2>1, <2>2
<1>9. ASSUME NEW r \in Runners, NEW u \in Runners, NEW i \in DOMAIN acts2[r],
             NEW j \in DOMAIN acts2[u], Owns(acts2[r][i]), Owns(acts2[u][j]),
             acts2[r][i].cxt = acts2[u][j].cxt
      PROVE  r = u /\ i = j
  <2>1. CASE i \in DOMAIN acts[r] /\ acts2[r][i] = acts[r][i]
    <3>1. CASE j \in DOMAIN acts[u] /\ acts2[u][j] = acts[u][j]
      BY <1>9, <2>1, <3>1 DEF OwnersOK
    <3>2. CASE u = run /\ j = m /\ acts2[u][j] = a
      BY <1>9, <2>1, <3>2 DEF Free
    <3> QED
      BY <1>6, <3>1, <3>2
  <2>2. CASE r = run /\ i = m /\ acts2[r][i] = a
    <3>1. CASE j \in DOMAIN acts[u] /\ acts2[u][j] = acts[u][j]
      BY <1>9, <2>2, <3>1 DEF Free
    <3>2. CASE u = run /\ j = m /\ acts2[u][j] = a
      BY <2>2, <3>2
    <3> QED
      BY <1>6, <3>1, <3>2
  <2> QED
    BY <1>6, <2>1, <2>2
<1> QED
  BY <1>8, <1>9 DEF OwnersOK

LEMMA OwnersPop ==
    ASSUME NEW acts, NEW run, NEW s, NEW n, HasStack(acts, run, s, n), s # <<>>,
           NEW t, Beneath(t, s), NEW acts2, acts2 = Turned(acts, run, t),
           NEW len, OwnersOK(acts, run, len)
    PROVE  OwnersOK(acts2, run, len) /\ (Owns(s[n]) => Free(acts2, s[n].cxt))
<1>1. IsStack(s, n) /\ n \in Nat /\ DOMAIN s = 1 .. n /\ run \in Runners /\ acts[run] = s
  BY StackIs
<1>2. PICK m : m = n - 1
  OBVIOUS
<1>3. IsStack(t, m)
  BY <1>1, <1>2, PopStack
<1>4. n >= 1 /\ DOMAIN t = 1 .. n - 1 /\ \A i \in 1 .. n - 1 : t[i] = s[i]
  BY <1>1, <1>2, PopSets
<1>5. acts2[run] = t /\ \A r \in Runners : r # run => acts2[r] = acts[r]
  BY <1>3, TurnedIs
<1>6. ASSUME NEW r \in Runners, NEW i \in DOMAIN acts2[r]
      PROVE  /\ i \in DOMAIN acts[r] /\ acts2[r][i] = acts[r][i]
             /\ ~ (r = run /\ i = n)
  <2>1. CASE r # run
    BY <1>5, <2>1
  <2>2. CASE r = run
    <3>1. i \in 1 .. n - 1
      BY <1>4, <1>5, <2>2
    <3>2. i \in 1 .. n /\ i # n
      BY <1>1, <3>1
    <3> QED
      BY <1>1, <1>4, <1>5, <2>2, <3>1, <3>2
  <2> QED
    BY <2>1, <2>2
<1>7. ASSUME NEW r \in Runners, NEW i \in DOMAIN acts2[r]
      PROVE  /\ acts2[r][i].cxt \in 1 .. len /\ acts2[r][i].bound \in 1 .. len
             /\ acts2[r][i].at = "fiber" <=> i = 1 /\ r # MainRunner
             /\ r # run => acts2[r][i].at \in {"run", "fiber"}
             /\ Owns(acts2[r][i]) /\ acts2[r][i].cxt = 1 => r = MainRunner /\ i = 1
  BY <1>6 DEF OwnersOK
<1>8. ASSUME NEW r \in Runners, NEW u \in Runners, NEW i \in DOMAIN acts2[r],
             NEW j \in DOMAIN acts2[u], Owns(acts2[r][i]), Owns(acts2[u][j]),
             acts2[r][i].cxt = acts2[u][j].cxt
      PROVE  r = u /\ i = j
  <2>1. i \in DOMAIN acts[r] /\ acts2[r][i] = acts[r][i]
    BY <1>6
  <2>2. j \in DOMAIN acts[u] /\ acts2[u][j] = acts[u][j]
    BY <1>6
  <2> QED
    BY <1>8, <2>1, <2>2 DEF OwnersOK
<1>9. ASSUME Owns(s[n]), NEW r \in Runners, NEW i \in DOMAIN acts2[r], Owns(acts2[r][i])
      PROVE  acts2[r][i].cxt # s[n].cxt
  <2>1. i \in DOMAIN acts[r] /\ acts2[r][i] = acts[r][i] /\ ~ (r = run /\ i = n)
    BY <1>6
  <2>2. n \in DOMAIN acts[run] /\ acts[run][n] = s[n]
    BY <1>1, <1>4
  <2> QED
    BY <1>1, <1>9, <2>1, <2>2 DEF OwnersOK
<1> QED
  BY <1>7, <1>8, <1>9 DEF OwnersOK, Free

LEMMA NestPush ==
    ASSUME NEW s, NEW n, IsStack(s, n), NEW a \in ActivityType, NEW t, Above(t, s, a),
           NestOK(s), \A i \in Compilers(s) : s[i].cxt < a.cxt,
           n \in Compilers(s) => a.at \in {"compile", "run"}
    PROVE  NestOK(t)
<1>1. n \in Nat /\ DOMAIN s = 1 .. n /\ DOMAIN t = 1 .. n + 1
  BY PushSets
<1>2. PICK m : m = n + 1
  OBVIOUS
<1>3. t[m] = a /\ \A i \in 1 .. n : t[i] = s[i]
  BY <1>2, PushSets
<1>4. \A i \in 1 .. n + 1 : i = m \/ i \in 1 .. n
  BY <1>1, <1>2
<1> SUFFICES ASSUME NEW i \in Compilers(t), NEW j \in DOMAIN t, i < j
             PROVE  t[i].cxt < t[j].cxt /\ (j = i + 1 => t[j].at \in {"compile", "run"})
  BY DEF NestOK
<1>5. i \in 1 .. n /\ i \in Compilers(s)
  <2>1. i \in 1 .. n + 1 /\ j \in 1 .. n + 1 /\ i < j /\ t[i].at = "compile"
    BY <1>1 DEF Compilers
  <2>2. i \in 1 .. n
    BY <1>1, <2>1
  <2> QED
    BY <1>1, <1>3, <2>1, <2>2 DEF Compilers
<1>6. CASE j \in 1 .. n
  BY <1>1, <1>3, <1>5, <1>6 DEF NestOK
<1>7. CASE j = m
  <2>1. j = i + 1 => i = n
    BY <1>1, <1>2, <1>5, <1>7
  <2> QED
    BY <1>3, <1>5, <1>7, <2>1
<1> QED
  BY <1>1, <1>4, <1>6, <1>7

LEMMA NestPop ==
    ASSUME NEW s, NEW n, IsStack(s, n), s # <<>>, NEW t, Beneath(t, s), NestOK(s)
    PROVE  NestOK(t)
<1>1. n \in Nat /\ DOMAIN s = 1 .. n /\ DOMAIN t = 1 .. n - 1
  BY PopSets
<1>2. \A i \in 1 .. n - 1 : t[i] = s[i]
  BY PopSets
<1>3. \A i \in 1 .. n - 1 : i \in 1 .. n
  BY <1>1
<1>4. \A i \in Compilers(t) : i \in Compilers(s) /\ i \in 1 .. n - 1
  BY <1>1, <1>2, <1>3 DEF Compilers
<1> QED
  BY <1>1, <1>2, <1>3, <1>4 DEF NestOK

(***************************************************************************)
(* The pool of constants.                                                  *)
(***************************************************************************)
SameConstants(p2, p, s) == \A i \in Compilers(s) : p2[s[i].cxt].constants = p[s[i].cxt].constants
PoolIs(cm, len) == len \in Nat /\ len = Len(cm.pool)
SamePool(cm2, cm) == cm2.pool = cm.pool
GrownPool(cm2, cm, k) == cm.pool \in Seq(Results) /\ k \in Results /\ cm2.pool = Append(cm.pool, k)
CutPool(cm2, cm, len) == cm.pool \in Seq(Results) /\ cm2.pool = Resized(cm.pool, len)

LEMMA PoolGrown ==
    ASSUME NEW cm, NEW cm2, NEW x, GrownPool(cm2, cm, x), NEW len, PoolIs(cm, len),
           NEW m, m = len + 1
    PROVE  /\ len \in Nat /\ m \in Nat /\ PoolIs(cm2, m) /\ cm2.pool[m] = x
           /\ \A k \in 1 .. len : cm2.pool[k] = cm.pool[k]
           /\ cm2.pool \in Seq(Results)
           /\ \A k \in 1 .. m : k = m \/ k \in 1 .. len
           /\ \A k \in 1 .. len : k \in 1 .. m
           /\ m \in 1 .. m
<1>1. PICK pool, pool2 : pool = cm.pool /\ pool2 = cm2.pool
  OBVIOUS
<1>2. pool \in Seq(Results) /\ x \in Results /\ pool2 = Append(pool, x) /\ len = Len(pool)
      /\ len \in Nat
  BY <1>1 DEF GrownPool, PoolIs
<1>3. /\ pool2 \in Seq(Results) /\ Len(pool2) = len + 1 /\ pool2[len + 1] = x
      /\ \A k \in 1 .. len : pool2[k] = pool[k]
  BY <1>2, AppendedSeq
<1>4. m \in Nat /\ m \in 1 .. m /\ \A k \in 1 .. len : k \in 1 .. m
  BY <1>2
<1>5. \A k \in 1 .. m : k = m \/ k \in 1 .. len
  BY <1>2
<1>6. PoolIs(cm2, m)
  BY <1>1, <1>2, <1>3 DEF PoolIs
<1> QED
  BY <1>1, <1>2, <1>3, <1>4, <1>5, <1>6

(* The constant of an expression is added.                                 *)
LEMMA PoolGrows ==
    ASSUME NEW cm, NEW cm2, NEW x, GrownPool(cm2, cm, x), x.line = 0, x.cxt # 0,
           NEW p, NEW s, NEW n, IsStack(s, n), PoolOK(cm, p, s)
    PROVE  PoolOK(cm2, p, s)
<1>1. PICK len : PoolIs(cm, len)
  BY DEF GrownPool, PoolIs
<1>2. PICK m : m = len + 1
  OBVIOUS
<1>3. /\ len \in Nat /\ m \in Nat /\ PoolIs(cm2, m) /\ cm2.pool[m] = x
      /\ \A k \in 1 .. len : cm2.pool[k] = cm.pool[k]
  BY <1>1, <1>2, PoolGrown
<1>4. /\ \A k \in 1 .. m : k = m \/ k \in 1 .. len
      /\ \A k \in 1 .. len : k \in 1 .. m
  BY <1>1, <1>2, PoolGrown
<1>5. len = Len(cm.pool) /\ m = Len(cm2.pool)
  BY <1>1, <1>3 DEF PoolIs
<1>6. \A i \in Compilers(s) : s[i].base \in 0 .. m
  <2>1. \A i \in Compilers(s) : s[i].base \in 0 .. len
    BY <1>5 DEF PoolOK
  <2> QED
    BY <1>2, <1>3, <2>1
<1>7. \A k \in 1 .. m :
         (\A i \in Compilers(s) : k <= s[i].base) => cm2.pool[k].line = 0 /\ cm2.pool[k].cxt # 0
  BY <1>3, <1>4, <1>5 DEF PoolOK
<1>8. \A i \in Compilers(s) : \A l \in p[s[i].cxt].constants :
         \E k \in 1 .. m : /\ cm2.pool[k] = [cxt |-> s[i].cxt, line |-> l]
                           /\ \A j \in Compilers(s) : i < j => k <= s[j].base
  <2>1. SUFFICES ASSUME NEW i \in Compilers(s), NEW l \in p[s[i].cxt].constants
                 PROVE  \E k \in 1 .. m : /\ cm2.pool[k] = [cxt |-> s[i].cxt, line |-> l]
                                          /\ \A j \in Compilers(s) : i < j => k <= s[j].base
    OBVIOUS
  <2>2. PICK k \in 1 .. len : /\ cm.pool[k] = [cxt |-> s[i].cxt, line |-> l]
                              /\ \A j \in Compilers(s) : i < j => k <= s[j].base
    BY <1>5 DEF PoolOK
  <2> QED
    BY <1>3, <1>4, <2>2
<1>9. \A i, j \in Compilers(s) : i < j => s[i].base <= s[j].base
  BY DEF PoolOK
<1> QED
  BY <1>5, <1>6, <1>7, <1>8, <1>9 DEF PoolOK

(* One activity more: a compile() of a context without constants, or none. *)
LEMMA PoolPush ==
    ASSUME NEW cm, NEW cm2, SamePool(cm2, cm), NEW len, PoolIs(cm, len),
           NEW p, NEW p2, NEW s, NEW n, IsStack(s, n), PoolOK(cm, p, s),
           SameConstants(p2, p, s),
           NEW a \in ActivityType, NEW t, Above(t, s, a),
           a.at = "compile" => a.base = len /\ p2[a.cxt].constants = {}
    PROVE  PoolOK(cm2, p2, t)
<1>1. n \in Nat /\ DOMAIN s = 1 .. n
  BY PushSets
<1>2. PICK m : m = n + 1
  OBVIOUS
<1>3. t[m] = a /\ \A i \in 1 .. n : t[i] = s[i]
  BY <1>2, PushSets
<1>4. cm2.pool = cm.pool /\ len = Len(cm.pool) /\ len \in Nat
  BY DEF SamePool, PoolIs
<1>5. \A i \in Compilers(s) : t[i] = s[i] /\ i < m /\ i \in Nat
  BY <1>1, <1>2, <1>3 DEF Compilers
<1>6. \A i \in Compilers(t) : i \in Compilers(s) \/ (i = m /\ a.at = "compile")
  <2>1. a.at = "compile" => Compilers(t) = With(Compilers(s), m)
    BY <1>1, <1>2, PushedCompilers
  <2>2. a.at # "compile" => Compilers(t) = Compilers(s)
    BY <1>1, <1>2, PushedCompilers
  <2> QED
    BY <2>1, <2>2 DEF With
<1>7. \A i \in Compilers(s) : s[i].base \in 0 .. len
  BY <1>4 DEF PoolOK
<1>8. \A i \in Compilers(t) : t[i].base \in 0 .. len
  BY <1>3, <1>4, <1>5, <1>6, <1>7
<1>9. \A i, j \in Compilers(t) : i < j => t[i].base <= t[j].base
  <2>1. SUFFICES ASSUME NEW i \in Compilers(t), NEW j \in Compilers(t), i < j
                 PROVE  t[i].base <= t[j].base
    OBVIOUS
  <2>2. i \in Compilers(s)
    BY <1>1, <1>2, <1>5, <1>6, <2>1
  <2>3. CASE j \in Compilers(s)
    BY <1>5, <2>1, <2>2, <2>3 DEF PoolOK
  <2>4. CASE j = m /\ a.at = "compile"
    BY <1>3, <1>4, <1>5, <1>7, <2>2, <2>4
  <2> QED
    BY <1>6, <2>3, <2>4
<1>10. ASSUME NEW k \in 1 .. len, \A i \in Compilers(t) : k <= t[i].base
       PROVE  cm.pool[k].line = 0 /\ cm.pool[k].cxt # 0
  <2>1. \A i \in Compilers(s) : i \in Compilers(t)
    <3>1. a.at = "compile" => Compilers(t) = With(Compilers(s), m)
      BY <1>1, <1>2, PushedCompilers
    <3>2. a.at # "compile" => Compilers(t) = Compilers(s)
      BY <1>1, <1>2, PushedCompilers
    <3> QED
      BY <3>1, <3>2 DEF With
  <2>2. \A i \in Compilers(s) : k <= s[i].base
    BY <1>5, <1>10, <2>1
  <2> QED
    BY <1>4, <2>2 DEF PoolOK
<1>11. ASSUME NEW i \in Compilers(t), NEW l \in p2[t[i].cxt].constants
       PROVE  \E k \in 1 .. len : /\ cm.pool[k] = [cxt |-> t[i].cxt, line |-> l]
                                  /\ \A j \in Compilers(t) : i < j => k <= t[j].base
  <2>1. i \in Compilers(s)
    BY <1>3, <1>6, <1>11
  <2>2. l \in p[s[i].cxt].constants
    BY <1>5, <1>11, <2>1 DEF SameConstants
  <2>3. PICK k \in 1 .. len : /\ cm.pool[k] = [cxt |-> s[i].cxt, line |-> l]
                              /\ \A j \in Compilers(s) : i < j => k <= s[j].base
    BY <1>4, <2>1, <2>2 DEF PoolOK
  <2>4. ASSUME NEW j \in Compilers(t), i < j PROVE k <= t[j].base
    <3>1. CASE j \in Compilers(s)
      BY <1>5, <2>3, <2>4, <3>1
    <3>2. CASE j = m /\ a.at = "compile"
      BY <1>3, <1>4, <2>3, <3>2
    <3> QED
      BY <1>6, <3>1, <3>2
  <2> QED
    BY <1>5, <2>1, <2>3, <2>4
<1> QED
  BY <1>4, <1>8, <1>9, <1>10, <1>11 DEF PoolOK

LEMMA PoolPop ==
    ASSUME NEW cm, NEW cm2, NEW p, NEW p2, NEW s, NEW n, IsStack(s, n), s # <<>>,
           PoolOK(cm, p, s), NEW t, Beneath(t, s), SameConstants(p2, p, t),
           \/ s[n].at = "compile" /\ CutPool(cm2, cm, s[n].base)
           \/ s[n].at # "compile" /\ SamePool(cm2, cm)
    PROVE  PoolOK(cm2, p2, t)
<1>1. n \in Nat /\ n >= 1 /\ DOMAIN s = 1 .. n /\ DOMAIN t = 1 .. n - 1
  BY PopSets
<1>2. \A i \in 1 .. n - 1 : t[i] = s[i]
  BY PopSets
<1>3. Compilers(t) = Compilers(s) \ {n}
  BY PopSets
<1>4. \A i \in Compilers(t) : i \in Compilers(s) /\ t[i] = s[i] /\ i < n
  BY <1>1, <1>2, <1>3 DEF Compilers
<1>5. CASE s[n].at # "compile" /\ SamePool(cm2, cm)
  <2>1. cm2.pool = cm.pool
    BY <1>5 DEF SamePool
  <2>2. Compilers(t) = Compilers(s)
    BY <1>3, <1>5 DEF Compilers
  <2>3. \A i \in Compilers(s) : s[i].base \in 0 .. Len(cm.pool)
    BY DEF PoolOK
  <2>4. \A k \in 1 .. Len(cm.pool) : (\A i \in Compilers(t) : k <= t[i].base) =>
            cm.pool[k].line = 0 /\ cm.pool[k].cxt # 0
    BY <1>4, <2>2 DEF PoolOK
  <2>5. ASSUME NEW i \in Compilers(t), NEW l \in p2[t[i].cxt].constants
        PROVE  \E k \in 1 .. Len(cm.pool) :
                   /\ cm.pool[k] = [cxt |-> t[i].cxt, line |-> l]
                   /\ \A j \in Compilers(t) : i < j => k <= t[j].base
    <3>1. l \in p[s[i].cxt].constants
      BY <1>4, <2>5 DEF SameConstants
    <3>2. PICK k \in 1 .. Len(cm.pool) :
              /\ cm.pool[k] = [cxt |-> s[i].cxt, line |-> l]
              /\ \A j \in Compilers(s) : i < j => k <= s[j].base
      BY <1>4, <3>1 DEF PoolOK
    <3> QED
      BY <1>4, <3>2
  <2>6. \A i, j \in Compilers(t) : i < j => t[i].base <= t[j].base
    BY <1>4 DEF PoolOK
  <2> QED
    BY <1>4, <2>1, <2>3, <2>4, <2>5, <2>6 DEF PoolOK
<1>6. CASE s[n].at = "compile" /\ CutPool(cm2, cm, s[n].base)
  <2>1. n \in Compilers(s)
    BY <1>1, <1>6 DEF Compilers
  <2>2. PICK b : b = s[n].base
    OBVIOUS
  <2>3. PICK len : len = Len(cm.pool)
    OBVIOUS
  <2>4. b \in 0 .. len
    BY <2>1, <2>2, <2>3 DEF PoolOK
  <2>5. len \in Nat
    <3>1. PICK pool : pool = cm.pool
      OBVIOUS
    <3>2. pool \in Seq(Results)
      BY <1>6, <3>1 DEF CutPool
    <3> QED
      BY <2>3, <3>1, <3>2
  <2>6. b \in Nat /\ b <= len
    BY <2>4, <2>5
  <2>7. PICK pool2 : pool2 = cm2.pool
    OBVIOUS
  <2>8. pool2 = [i \in 1 .. b |-> IF i <= len THEN cm.pool[i] ELSE NoConstant]
    BY <1>6, <2>2, <2>3, <2>7 DEF CutPool, Resized
  <2>9. \A k \in 1 .. b : k \in 1 .. len /\ pool2[k] = cm.pool[k]
    BY <2>5, <2>6, <2>8
  <2>10. Len(pool2) = b
    BY <2>6, <2>8
  <2>11. \A i \in Compilers(t) : s[i].base \in 0 .. b
    <3>1. \A i \in Compilers(t) : s[i].base <= s[n].base
      BY <1>4, <2>1 DEF PoolOK
    <3>2. \A i \in Compilers(t) : s[i].base \in 0 .. len
      BY <1>4, <2>3 DEF PoolOK
    <3> QED
      BY <2>2, <2>5, <2>6, <3>1, <3>2
  <2>12. ASSUME NEW k \in 1 .. b, \A i \in Compilers(t) : k <= t[i].base
         PROVE  pool2[k].line = 0 /\ pool2[k].cxt # 0
    <3>1. \A i \in Compilers(s) : k <= s[i].base
      <4>1. \A i \in Compilers(s) : i = n \/ i \in Compilers(t)
        BY <1>3
      <4>2. k <= s[n].base
        BY <2>2, <2>6
      <4> QED
        BY <1>4, <2>12, <4>1, <4>2
    <3> QED
      BY <2>3, <2>9, <3>1 DEF PoolOK
  <2>13. ASSUME NEW i \in Compilers(t), NEW l \in p2[t[i].cxt].constants
         PROVE  \E k \in 1 .. b : /\ pool2[k] = [cxt |-> t[i].cxt, line |-> l]
                                  /\ \A j \in Compilers(t) : i < j => k <= t[j].base
    <3>1. l \in p[s[i].cxt].constants
      BY <1>4, <2>13 DEF SameConstants
    <3>2. PICK k \in 1 .. len :
              /\ cm.pool[k] = [cxt |-> s[i].cxt, line |-> l]
              /\ \A j \in Compilers(s) : i < j => k <= s[j].base
      BY <1>4, <2>3, <3>1 DEF PoolOK
    <3>3. k <= b
      BY <1>4, <2>1, <2>2, <3>2
    <3>4. k \in 1 .. b
      BY <2>5, <2>6, <3>3
    <3> QED
      BY <1>4, <2>9, <3>2, <3>4
  <2>14. \A i, j \in Compilers(t) : i < j => t[i].base <= t[j].base
    BY <1>4 DEF PoolOK
  <2> QED
    BY <1>4, <2>7, <2>10, <2>11, <2>12, <2>13, <2>14 DEF PoolOK
<1> QED
  BY <1>5, <1>6

(* The result of an import is added, for the innermost compile().          *)
OneConstantMore(p2, p, s, n, x) ==
    \A i \in Compilers(s) : \A l \in p2[s[i].cxt].constants :
        l \in p[s[i].cxt].constants \/ (i = n /\ x = [cxt |-> s[i].cxt, line |-> l])

LEMMA PoolDelivered ==
    ASSUME NEW cm, NEW cm2, NEW x, GrownPool(cm2, cm, x), NEW p, NEW p2,
           NEW s, NEW n, IsStack(s, n), n \in Compilers(s), PoolOK(cm, p, s),
           OneConstantMore(p2, p, s, n, x)
    PROVE  PoolOK(cm2, p2, s)
<1>1. PICK len : PoolIs(cm, len)
  BY DEF GrownPool, PoolIs
<1>2. PICK m : m = len + 1
  OBVIOUS
<1>3. /\ len \in Nat /\ m \in Nat /\ PoolIs(cm2, m) /\ cm2.pool[m] = x
      /\ \A k \in 1 .. len : cm2.pool[k] = cm.pool[k]
  BY <1>1, <1>2, PoolGrown
<1>4. /\ \A k \in 1 .. m : k = m \/ k \in 1 .. len
      /\ \A k \in 1 .. len : k \in 1 .. m
      /\ m \in 1 .. m
  BY <1>1, <1>2, PoolGrown
<1>5. len = Len(cm.pool) /\ m = Len(cm2.pool)
  BY <1>1, <1>3 DEF PoolIs
<1>6. \A i \in Compilers(s) : s[i].base \in 0 .. len
  BY <1>5 DEF PoolOK
<1>7. \A i \in Compilers(s) : s[i].base \in 0 .. m
  BY <1>2, <1>3, <1>6
<1>8. \A i \in Compilers(s) : i \in Nat /\ i <= n
  BY DEF IsStack, Compilers
<1>9. ASSUME NEW k \in 1 .. m, \A i \in Compilers(s) : k <= s[i].base
      PROVE  cm2.pool[k].line = 0 /\ cm2.pool[k].cxt # 0
  <2>1. k # m
    BY <1>2, <1>3, <1>6, <1>9
  <2>2. k \in 1 .. len
    BY <1>4, <2>1
  <2> QED
    BY <1>3, <1>5, <1>9, <2>2 DEF PoolOK
<1>10. ASSUME NEW i \in Compilers(s), NEW l \in p2[s[i].cxt].constants
       PROVE  \E k \in 1 .. m : /\ cm2.pool[k] = [cxt |-> s[i].cxt, line |-> l]
                                /\ \A j \in Compilers(s) : i < j => k <= s[j].base
  <2>1. CASE l \in p[s[i].cxt].constants
    <3>1. PICK k \in 1 .. len : /\ cm.pool[k] = [cxt |-> s[i].cxt, line |-> l]
                                /\ \A j \in Compilers(s) : i < j => k <= s[j].base
      BY <1>5, <2>1 DEF PoolOK
    <3> QED
      BY <1>3, <1>4, <3>1
  <2>2. CASE i = n /\ x = [cxt |-> s[i].cxt, line |-> l]
    <3>1. \A j \in Compilers(s) : ~ i < j
      BY <1>8, <2>2
    <3> QED
      BY <1>3, <1>4, <2>2, <3>1
  <2>3. l \in p[s[i].cxt].constants \/ (i = n /\ x = [cxt |-> s[i].cxt, line |-> l])
    BY <1>10 DEF OneConstantMore
  <2> QED
    BY <2>1, <2>2, <2>3
<1>11. \A i, j \in Compilers(s) : i < j => s[i].base <= s[j].base
  BY DEF PoolOK
<1> QED
  BY <1>5, <1>7, <1>9, <1>10, <1>11 DEF PoolOK

(***************************************************************************)
(* The contexts: only that of the last activity changes.                   *)
(***************************************************************************)
SizeIs(p, len) == len \in Nat /\ len = Len(p)
Others(p2, p, x, len) == \A c \in 1 .. len : c # x => p2[c] = p[c]
Opened(s, c) == \E i \in Compilers(s) : s[i].cxt = c

LEMMA OpenedPush ==
    ASSUME NEW s, NEW n, IsStack(s, n), NEW a \in ActivityType, NEW t, Above(t, s, a), NEW c
    PROVE  Opened(t, c) <=> Opened(s, c) \/ (a.at = "compile" /\ a.cxt = c)
<1>1. n \in Nat /\ DOMAIN s = 1 .. n
  BY PushSets
<1>2. PICK m : m = n + 1
  OBVIOUS
<1>3. t[m] = a /\ \A i \in 1 .. n : t[i] = s[i]
  BY <1>2, PushSets
<1>4. \A i \in Compilers(s) : t[i] = s[i]
  BY <1>1, <1>3 DEF Compilers
<1>5. a.at = "compile" => Compilers(t) = With(Compilers(s), m)
  BY <1>1, <1>2, PushedCompilers
<1>6. a.at # "compile" => Compilers(t) = Compilers(s)
  BY <1>1, <1>2, PushedCompilers
<1>7. CASE a.at = "compile"
  <2>1. \A i : i \in Compilers(t) <=> i \in Compilers(s) \/ i = m
    BY <1>5, <1>7 DEF With
  <2> QED
    BY <1>3, <1>4, <1>7, <2>1 DEF Opened
<1>8. CASE a.at # "compile"
  BY <1>4, <1>6, <1>8 DEF Opened
<1> QED
  BY <1>7, <1>8

LEMMA OpenedPop ==
    ASSUME NEW s, NEW n, IsStack(s, n), s # <<>>, NestOK(s), NEW t, Beneath(t, s), NEW c
    PROVE  Opened(t, c) <=> Opened(s, c) /\ ~ (s[n].at = "compile" /\ s[n].cxt = c)
<1>1. n \in Nat /\ n >= 1 /\ DOMAIN s = 1 .. n
  BY PopSets
<1>2. \A i \in 1 .. n - 1 : t[i] = s[i]
  BY PopSets
<1>3. Compilers(t) = Compilers(s) \ {n}
  BY PopSets
<1>4. \A i \in Compilers(t) : i \in Compilers(s) /\ t[i] = s[i] /\ i < n
  BY <1>1, <1>2, <1>3 DEF Compilers
<1>5. \A i \in Compilers(s) : i = n \/ i \in Compilers(t)
  BY <1>3
<1>6. n \in DOMAIN s /\ s[n].cxt \in Nat
  <2>1. s[n] \in ActivityType
    BY PopSets
  <2>2. MaxPrograms \in Nat
    BY CompileAssumption
  <2> QED
    BY <1>1, <2>1, <2>2 DEF ActivityType, Cxts
<1>7. \A i \in Compilers(t) : s[i].cxt < s[n].cxt
  BY <1>4, <1>6 DEF NestOK
<1>8. \A i \in Compilers(t) : s[i].cxt \in Nat
  <2>1. \A i \in Compilers(t) : s[i] \in ActivityType
    BY <1>4 DEF IsStack, Compilers
  <2>2. MaxPrograms \in Nat
    BY CompileAssumption
  <2> QED
    BY <2>1, <2>2 DEF ActivityType, Cxts
<1>9. \A i \in Compilers(t) : s[i].cxt # s[n].cxt
  BY <1>6, <1>7, <1>8
<1>10. CASE s[n].at = "compile" /\ s[n].cxt = c
  BY <1>4, <1>9, <1>10 DEF Opened
<1>11. CASE ~ (s[n].at = "compile" /\ s[n].cxt = c)
  <2>1. \A i \in Compilers(s) : s[i].cxt = c => i # n
    BY <1>11 DEF Compilers
  <2> QED
    BY <1>4, <1>5, <1>11, <2>1 DEF Opened
<1> QED
  BY <1>10, <1>11

LEMMA OpenIs ==
    ASSUME NEW x, NEW s, NEW c
    PROVE  OpenOK(x, s, c) <=> x.transactions = IF Opened(s, c) THEN 1 ELSE 0
BY DEF OpenOK, Opened

LEMMA ContextsPush ==
    ASSUME NEW s, NEW n, IsStack(s, n), NEW a \in ActivityType, NEW t, Above(t, s, a),
           NEW p, NEW p2, NEW len, SizeIs(p, len), SizeIs(p2, len), ContextsOK(p, s),
           Others(p2, p, a.cxt, len), StatementsOK(p2[a.cxt], a.cxt), a.cxt \in 1 .. len,
           a.at \in {"compile", "eval"} =>
               a.unit = p[a.cxt].unit /\ p2[a.cxt].unit = Arena(a),
           a.at \notin {"compile", "eval"} => p2[a.cxt].unit = p[a.cxt].unit,
           a.at = "compile" => p2[a.cxt].transactions = 1,
           a.at # "compile" => p2[a.cxt].transactions = p[a.cxt].transactions
    PROVE  ContextsOK(p2, t)
<1>1. \A c \in 1 .. len : StatementsOK(p[c], c) /\ OpenOK(p[c], s, c) /\ UnitOK(p, s, c)
  BY DEF ContextsOK, SizeIs
<1>2. \A c \in 1 .. len : c # a.cxt => p2[c] = p[c]
  BY DEF Others
<1>3. n \in Nat
  BY DEF IsStack
<1>4. ASSUME NEW c \in 1 .. len PROVE StatementsOK(p2[c], c)
  BY <1>1, <1>2
<1>5. ASSUME NEW c \in 1 .. len PROVE OpenOK(p2[c], t, c)
  <2>1. Opened(t, c) <=> Opened(s, c) \/ (a.at = "compile" /\ a.cxt = c)
    BY OpenedPush
  <2>2. p[c].transactions = IF Opened(s, c) THEN 1 ELSE 0
    BY <1>1, OpenIs
  <2>3. p2[c].transactions = IF Opened(t, c) THEN 1 ELSE 0
    <3>1. CASE c # a.cxt
      BY <1>2, <2>1, <2>2, <3>1
    <3>2. CASE c = a.cxt /\ a.at = "compile"
      BY <2>1, <3>2
    <3>3. CASE c = a.cxt /\ a.at # "compile"
      BY <2>1, <2>2, <3>3
    <3> QED
      BY <3>1, <3>2, <3>3
  <2> QED
    BY <2>3, OpenIs
<1>6. ASSUME NEW c \in 1 .. len PROVE UnitOK(p2, t, c)
  <2>1. UnitOK(p, s, c)
    BY <1>1
  <2>2. CASE c # a.cxt
    <3>1. p2[c].unit = p[c].unit
      BY <1>2, <2>2
    <3> QED
      BY <2>1, <2>2, <3>1, PushedUnits
  <2>3. CASE c = a.cxt /\ a.at \in {"compile", "eval"}
    BY <2>1, <2>3, PushedUnits
  <2>4. CASE c = a.cxt /\ a.at \notin {"compile", "eval"}
    BY <2>1, <2>4, PushedUnits
  <2> QED
    BY <2>2, <2>3, <2>4
<1> QED
  BY <1>4, <1>5, <1>6 DEF ContextsOK, SizeIs

LEMMA ContextsPop ==
    ASSUME NEW s, NEW n, IsStack(s, n), s # <<>>, NestOK(s), NEW t, Beneath(t, s),
           NEW p, NEW p2, NEW len, SizeIs(p, len), SizeIs(p2, len), ContextsOK(p, s),
           NEW x, x = s[n].cxt, Others(p2, p, x, len), StatementsOK(p2[x], x), x \in 1 .. len,
           s[n].at \in {"compile", "eval"} => p2[x].unit = s[n].unit,
           s[n].at \notin {"compile", "eval"} => p2[x].unit = p[x].unit,
           s[n].at = "compile" => p2[x].transactions = p[x].transactions - 1,
           s[n].at # "compile" => p2[x].transactions = p[x].transactions
    PROVE  ContextsOK(p2, t)
<1>1. \A c \in 1 .. len : StatementsOK(p[c], c) /\ OpenOK(p[c], s, c) /\ UnitOK(p, s, c)
  BY DEF ContextsOK, SizeIs
<1>2. \A c \in 1 .. len : c # x => p2[c] = p[c]
  BY DEF Others
<1>3. n \in DOMAIN s
  <2>1. n \in Nat /\ n >= 1 /\ DOMAIN s = 1 .. n
    BY PopSets
  <2> QED
    BY <2>1
<1>4. ASSUME NEW c \in 1 .. len PROVE StatementsOK(p2[c], c)
  BY <1>1, <1>2
<1>5. ASSUME NEW c \in 1 .. len PROVE OpenOK(p2[c], t, c)
  <2>1. Opened(t, c) <=> Opened(s, c) /\ ~ (s[n].at = "compile" /\ s[n].cxt = c)
    BY OpenedPop
  <2>2. p[c].transactions = IF Opened(s, c) THEN 1 ELSE 0
    BY <1>1, OpenIs
  <2>3. p2[c].transactions = IF Opened(t, c) THEN 1 ELSE 0
    <3>1. CASE c # x
      BY <1>2, <2>1, <2>2, <3>1
    <3>2. CASE c = x /\ s[n].at = "compile"
      <4>1. Opened(s, c)
        BY <1>3, <3>2 DEF Opened, Compilers
      <4>2. p[c].transactions = 1
        BY <2>2, <4>1
      <4>3. p2[c].transactions = 0
        BY <3>2, <4>2
      <4> QED
        BY <2>1, <3>2, <4>3
    <3>3. CASE c = x /\ s[n].at # "compile"
      BY <2>1, <2>2, <3>3
    <3> QED
      BY <3>1, <3>2, <3>3
  <2> QED
    BY <2>3, OpenIs
<1>6. ASSUME NEW c \in 1 .. len PROVE UnitOK(p2, t, c)
  <2>1. UnitOK(p, s, c)
    BY <1>1
  <2>2. CASE c # x
    <3>1. p2[c].unit = p[c].unit
      BY <1>2, <2>2
    <3>2. s[n].cxt # c
      BY <2>2
    <3> QED
      BY <2>1, <3>1, <3>2, PoppedUnits
  <2>3. CASE c = x /\ s[n].at \in {"compile", "eval"}
    <3>1. s[n].cxt = c /\ p2[c].unit = s[n].unit
      BY <2>3
    <3> QED
      BY <2>1, <2>3, <3>1, PoppedUnits
  <2>4. CASE c = x /\ s[n].at \notin {"compile", "eval"}
    <3>1. p2[c].unit = p[c].unit
      BY <2>4
    <3> QED
      BY <2>1, <2>4, <3>1, PoppedUnits
  <2> QED
    BY <2>2, <2>3, <2>4
<1> QED
  BY <1>4, <1>5, <1>6 DEF ContextsOK, SizeIs

(***************************************************************************)
(* What runs and compiles relies on its context.                           *)
(***************************************************************************)
SameRun(y, x) ==
    /\ y.statements = x.statements /\ y.names = x.names
    /\ y.constants = x.constants /\ y.marked = x.marked
KeepsRuns(p2, p, acts) ==
    \A r \in Runners : \A i \in DOMAIN acts[r] :
        acts[r][i].at = "run" => SameRun(p2[acts[r][i].cxt], p[acts[r][i].cxt])
Later(w2, w) == w \in Nat /\ w2 \in Nat /\ w <= w2

LEMMA KeptRun ==
    ASSUME NEW x, NEW y, NEW a, RunOK(x, a), a.at = "run" => SameRun(y, x)
    PROVE  RunOK(y, a)
<1> SUFFICES ASSUME a.at = "run"
             PROVE  /\ y.constants = y.marked
                    /\ a.line \in 1 .. Len(y.statements) + 1
                    /\ y.names = {y.statements[k].line : k \in 1 .. (a.line - 1)}
  BY DEF RunOK
<1>1. /\ y.statements = x.statements /\ y.names = x.names
      /\ y.constants = x.constants /\ y.marked = x.marked
  BY DEF SameRun
<1>2. PICK st, nm : st = x.statements /\ nm = x.names
  OBVIOUS
<1>3. y.statements = st /\ y.names = nm
  BY <1>1, <1>2
<1>4. /\ x.constants = x.marked
      /\ a.line \in 1 .. Len(st) + 1
      /\ nm = {st[k].line : k \in 1 .. (a.line - 1)}
  BY <1>2 DEF RunOK
<1> QED
  BY <1>1, <1>3, <1>4

LEMMA KeptCompile ==
    ASSUME NEW a, NEW w, NEW w2, CompileOK(a, w), Later(w2, w)
    PROVE  CompileOK(a, w2)
BY DEF CompileOK, Later

LEMMA ActivitiesPush ==
    ASSUME NEW acts, NEW run, NEW s, NEW n, HasStack(acts, run, s, n),
           NEW a \in ActivityType, NEW t, Above(t, s, a),
           NEW acts2, acts2 = Turned(acts, run, t), NEW p, NEW p2, NEW w, NEW w2,
           ActivitiesOK(p, acts, w), KeepsRuns(p2, p, acts), Later(w2, w),
           RunOK(p2[a.cxt], a), CompileOK(a, w2)
    PROVE  ActivitiesOK(p2, acts2, w2)
<1>1. IsStack(s, n) /\ n \in Nat /\ DOMAIN s = 1 .. n /\ run \in Runners /\ acts[run] = s
  BY StackIs
<1>2. PICK m : m = n + 1
  OBVIOUS
<1>3. IsStack(t, m)
  BY <1>1, <1>2, PushStack
<1>4. DOMAIN t = 1 .. n + 1 /\ t[m] = a /\ \A i \in 1 .. n : t[i] = s[i]
  <2>1. DOMAIN t = 1 .. n + 1 /\ t[m] = a
    BY <1>1, <1>2, PushSets
  <2>2. \A i \in 1 .. n : t[i] = s[i]
    BY <1>1, <1>2, PushSets, SMTT(60)
  <2> QED
    BY <2>1, <2>2
<1>5. acts2[run] = t /\ \A r \in Runners : r # run => acts2[r] = acts[r]
  BY <1>3, TurnedIs
<1> SUFFICES ASSUME NEW r \in Runners, NEW i \in DOMAIN acts2[r]
             PROVE  RunOK(p2[acts2[r][i].cxt], acts2[r][i]) /\ CompileOK(acts2[r][i], w2)
  BY DEF ActivitiesOK
<1>6. CASE i \in DOMAIN acts[r] /\ acts2[r][i] = acts[r][i]
  <2>1. PICK b : b = acts[r][i]
    OBVIOUS
  <2>2. RunOK(p[b.cxt], b) /\ CompileOK(b, w)
    BY <1>6, <2>1 DEF ActivitiesOK
  <2>3. b.at = "run" => SameRun(p2[b.cxt], p[b.cxt])
    BY <1>6, <2>1 DEF KeepsRuns
  <2>4. RunOK(p2[b.cxt], b)
    BY <2>2, <2>3, KeptRun
  <2> QED
    BY <1>6, <2>1, <2>2, <2>4, KeptCompile
<1>7. CASE acts2[r][i] = a
  BY <1>7
<1>8. \A j \in 1 .. n + 1 : j = m \/ j \in 1 .. n
  BY <1>1, <1>2
<1> QED
  BY <1>1, <1>4, <1>5, <1>6, <1>7, <1>8

LEMMA ActivitiesPop ==
    ASSUME NEW acts, NEW run, NEW s, NEW n, HasStack(acts, run, s, n), s # <<>>,
           NEW t, Beneath(t, s), NEW acts2, acts2 = Turned(acts, run, t),
           NEW p, NEW p2, NEW w, NEW w2,
           ActivitiesOK(p, acts, w), KeepsRuns(p2, p, acts2), Later(w2, w)
    PROVE  ActivitiesOK(p2, acts2, w2)
<1>1. IsStack(s, n)
  BY StackIs
<1>2. IsStack(s, n) /\ n \in Nat /\ DOMAIN s = 1 .. n /\ run \in Runners /\ acts[run] = s
  BY StackIs
<1>3. PICK m : m = n - 1
  OBVIOUS
<1>4. IsStack(t, m)
  BY <1>2, <1>3, PopStack
<1>5. DOMAIN t = 1 .. n - 1 /\ \A i \in 1 .. n - 1 : t[i] = s[i] /\ i \in 1 .. n
  <2>1. DOMAIN t = 1 .. n - 1
    BY <1>1, PopSets
  <2>2. \A i \in 1 .. n - 1 : t[i] = s[i]
    BY <1>1, PopSets
  <2> QED
    BY <1>2, <2>1, <2>2
<1>6. acts2[run] = t /\ \A r \in Runners : r # run => acts2[r] = acts[r]
  BY <1>4, TurnedIs
<1> SUFFICES ASSUME NEW r \in Runners, NEW i \in DOMAIN acts2[r]
             PROVE  RunOK(p2[acts2[r][i].cxt], acts2[r][i]) /\ CompileOK(acts2[r][i], w2)
  BY DEF ActivitiesOK
<1>7. i \in DOMAIN acts[r] /\ acts2[r][i] = acts[r][i]
  BY <1>2, <1>5, <1>6
<1>8. PICK b : b = acts[r][i]
  OBVIOUS
<1>9. RunOK(p[b.cxt], b) /\ CompileOK(b, w)
  BY <1>7, <1>8 DEF ActivitiesOK
<1>10. b.at = "run" => SameRun(p2[b.cxt], p[b.cxt])
  BY <1>7, <1>8 DEF KeepsRuns
<1>11. RunOK(p2[b.cxt], b)
  BY <1>9, <1>10, KeptRun
<1> QED
  BY <1>7, <1>8, <1>9, <1>11, KeptCompile

(* The last activity turns into t's.                                       *)
Retop(t, s, n, a) ==
    t \in Seq(ActivityType) /\ n >= 1 /\ Len(t) = n /\ t[n] = a /\ \A i \in 1 .. n - 1 : t[i] = s[i]
KeepsOtherRuns(p2, p, acts, run, n) ==
    \A r \in Runners : \A i \in DOMAIN acts[r] :
        acts[r][i].at = "run" /\ ~ (r = run /\ i = n) =>
            SameRun(p2[acts[r][i].cxt], p[acts[r][i].cxt])

LEMMA ActivitiesTop ==
    ASSUME NEW acts, NEW run, NEW s, NEW n, HasStack(acts, run, s, n),
           NEW a, NEW t, Retop(t, s, n, a),
           NEW acts2, acts2 = Turned(acts, run, t), NEW p, NEW p2, NEW w, NEW w2,
           ActivitiesOK(p, acts, w), KeepsOtherRuns(p2, p, acts, run, n), Later(w2, w),
           RunOK(p2[a.cxt], a), CompileOK(a, w2)
    PROVE  ActivitiesOK(p2, acts2, w2)
<1>1. IsStack(s, n) /\ n \in Nat /\ DOMAIN s = 1 .. n /\ run \in Runners /\ acts[run] = s
  BY StackIs
<1>2. IsStack(t, n)
  BY <1>1 DEF Retop, IsStack
<1>3. DOMAIN t = 1 .. n /\ t[n] = a /\ \A i \in 1 .. n - 1 : t[i] = s[i]
  BY <1>1 DEF Retop
<1>4. \A i \in 1 .. n : i = n \/ (i \in 1 .. n - 1 /\ i # n)
  BY <1>1
<1>5. acts2[run] = t /\ \A r \in Runners : r # run => acts2[r] = acts[r]
  BY <1>2, TurnedIs
<1> SUFFICES ASSUME NEW r \in Runners, NEW i \in DOMAIN acts2[r]
             PROVE  RunOK(p2[acts2[r][i].cxt], acts2[r][i]) /\ CompileOK(acts2[r][i], w2)
  BY DEF ActivitiesOK
<1>6. CASE i \in DOMAIN acts[r] /\ acts2[r][i] = acts[r][i] /\ ~ (r = run /\ i = n)
  <2>1. PICK b : b = acts[r][i]
    OBVIOUS
  <2>2. RunOK(p[b.cxt], b) /\ CompileOK(b, w)
    BY <1>6, <2>1 DEF ActivitiesOK
  <2>3. b.at = "run" => SameRun(p2[b.cxt], p[b.cxt])
    BY <1>6, <2>1 DEF KeepsOtherRuns
  <2>4. RunOK(p2[b.cxt], b)
    BY <2>2, <2>3, KeptRun
  <2> QED
    BY <1>6, <2>1, <2>2, <2>4, KeptCompile
<1>7. CASE acts2[r][i] = a
  BY <1>7
<1> QED
  BY <1>1, <1>3, <1>4, <1>5, <1>6, <1>7

(* Only context x changes, and no run relies on it, or not on what changes.*)
LEMMA RunsKept ==
    ASSUME NEW acts, NEW run, NEW len, OwnersOK(acts, run, len), NEW p, NEW p2, NEW x,
           Others(p2, p, x, len), SameRun(p2[x], p[x]) \/ Free(acts, x)
    PROVE  KeepsRuns(p2, p, acts)
<1> SUFFICES ASSUME NEW r \in Runners, NEW i \in DOMAIN acts[r], acts[r][i].at = "run"
             PROVE  SameRun(p2[acts[r][i].cxt], p[acts[r][i].cxt])
  BY DEF KeepsRuns
<1>1. PICK c : c = acts[r][i].cxt
  OBVIOUS
<1>2. c \in 1 .. len
  BY <1>1 DEF OwnersOK
<1>3. CASE c # x
  BY <1>1, <1>2, <1>3 DEF Others, SameRun
<1>4. CASE c = x /\ SameRun(p2[x], p[x])
  BY <1>1, <1>4
<1>5. CASE c = x /\ Free(acts, x)
  BY <1>1, <1>5 DEF Free, Owns
<1> QED
  BY <1>3, <1>4, <1>5

LEMMA OtherRunsKept ==
    ASSUME NEW acts, NEW run, NEW s, NEW n, HasStack(acts, run, s, n), s # <<>>,
           Owns(s[n]), NEW len, OwnersOK(acts, run, len), NEW p, NEW p2,
           NEW x, x = s[n].cxt, Others(p2, p, x, len)
    PROVE  KeepsOtherRuns(p2, p, acts, run, n)
<1>1. IsStack(s, n) /\ n \in Nat /\ DOMAIN s = 1 .. n /\ run \in Runners /\ acts[run] = s
  BY StackIs
<1>2. n \in DOMAIN acts[run]
  <2>1. n >= 1
    BY <1>1, PopSets DEF IsStack
  <2> QED
    BY <1>1, <2>1
<1> SUFFICES ASSUME NEW r \in Runners, NEW i \in DOMAIN acts[r], acts[r][i].at = "run",
                    ~ (r = run /\ i = n)
             PROVE  SameRun(p2[acts[r][i].cxt], p[acts[r][i].cxt])
  BY DEF KeepsOtherRuns
<1>3. PICK c : c = acts[r][i].cxt
  OBVIOUS
<1>4. c \in 1 .. len
  BY <1>3 DEF OwnersOK
<1>5. c # x
  <2>1. Owns(acts[r][i]) /\ Owns(acts[run][n]) /\ acts[run][n].cxt = x
    BY <1>1 DEF Owns
  <2> QED
    BY <1>1, <1>2, <1>3, <2>1 DEF OwnersOK
<1> QED
  BY <1>3, <1>4, <1>5 DEF Others, SameRun

(***************************************************************************)
(* The invariant with its parts at hand, and the changes of the state.     *)
(***************************************************************************)
CompilerTyped(cm, len) == cm \in CompilerType /\ cm.cxt <= len
ContextsTyped(p, len) == p \in Seq(ProgramType) /\ len \in Cxts
IsWork(w) == w \in 0 .. MaxWork
GoodAt(cm, p, acts, run, mode, w, s, n, len) ==
    /\ HasStack(acts, run, s, n) /\ SizeIs(p, len)
    /\ CompilerTyped(cm, len) /\ ContextsTyped(p, len) /\ IsWork(w)
    /\ OwnersOK(acts, run, len) /\ NestOK(s) /\ BindingOK(cm, s) /\ LoopsOK(cm, s)
    /\ ScopesOK(cm, s, mode) /\ PoolOK(cm, p, s) /\ ContextsOK(p, s)
    /\ ActivitiesOK(p, acts, w)

LEMMA GoodParts ==
    ASSUME NEW cm, NEW p, NEW acts, NEW run \in Runners, NEW mode, NEW w,
           Good(cm, p, acts, run, mode, w)
    PROVE  GoodAt(cm, p, acts, run, mode, w, acts[run], Len(acts[run]), Len(p))
<1>1. acts \in [Runners -> Seq(ActivityType)] /\ p \in Seq(ProgramType)
  BY DEF Good, TypesOK
<1>2. PICK s : s = acts[run]
  OBVIOUS
<1>3. s \in Seq(ActivityType)
  BY <1>1, <1>2
<1>4. HasStack(acts, run, s, Len(s))
  BY <1>1, <1>2, <1>3 DEF HasStack, IsStack
<1>5. SizeIs(p, Len(p))
  BY <1>1 DEF SizeIs
<1>6. CompilerTyped(cm, Len(p)) /\ ContextsTyped(p, Len(p)) /\ IsWork(w)
  BY DEF Good, TypesOK, CompilerTyped, ContextsTyped, IsWork
<1> QED
  BY <1>2, <1>4, <1>5, <1>6 DEF Good, GoodAt

LEMMA PartsGood ==
    ASSUME NEW cm, NEW p, NEW acts, NEW run, NEW mode, NEW w, NEW s, NEW n, NEW len,
           GoodAt(cm, p, acts, run, mode, w, s, n, len)
    PROVE  Good(cm, p, acts, run, mode, w)
<1>1. s = acts[run] /\ len = Len(p)
  BY DEF GoodAt, HasStack, SizeIs
<1>2. TypesOK(cm, p, acts, w)
  BY DEF GoodAt, HasStack, SizeIs, CompilerTyped, ContextsTyped, IsWork, TypesOK
<1> QED
  BY <1>1, <1>2 DEF GoodAt, Good

IsEdit(p2, p, c, x) == p2 = [p EXCEPT ![c] = x]

LEMMA Edited ==
    ASSUME NEW p, NEW len, SizeIs(p, len), ContextsTyped(p, len), NEW c \in 1 .. len,
           NEW x \in ProgramType, NEW p2, IsEdit(p2, p, c, x)
    PROVE  /\ SizeIs(p2, len) /\ ContextsTyped(p2, len) /\ Others(p2, p, c, len)
           /\ p2[c] = x
<1>1. p \in Seq(ProgramType) /\ len = Len(p) /\ len \in Nat /\ DOMAIN p = 1 .. len /\ len \in Cxts
  BY DEF SizeIs, ContextsTyped
<1>2. p2 = [p EXCEPT ![c] = x]
  BY DEF IsEdit
<1>3. p2 \in Seq(ProgramType) /\ Len(p2) = len
  BY <1>1, <1>2
<1>4. p2[c] = x /\ \A d \in 1 .. len : d # c => p2[d] = p[d]
  BY <1>1, <1>2
<1> QED
  BY <1>1, <1>3, <1>4 DEF SizeIs, ContextsTyped, Others

LEMMA PoolSame ==
    ASSUME NEW cm, NEW p, NEW p2, NEW s, PoolOK(cm, p, s), SameConstants(p2, p, s)
    PROVE  PoolOK(cm, p2, s)
<1>1. \A i \in Compilers(s) : p2[s[i].cxt].constants = p[s[i].cxt].constants
  BY DEF SameConstants
<1>2. ASSUME NEW i \in Compilers(s), NEW l \in p2[s[i].cxt].constants
      PROVE  \E k \in 1 .. Len(cm.pool) :
                 /\ cm.pool[k] = [cxt |-> s[i].cxt, line |-> l]
                 /\ \A j \in Compilers(s) : i < j => k <= s[j].base
  <2>1. l \in p[s[i].cxt].constants
    BY <1>1, <1>2
  <2> QED
    BY <2>1 DEF PoolOK
<1>3. /\ \A i \in Compilers(s) : s[i].base \in 0 .. Len(cm.pool)
      /\ \A i, j \in Compilers(s) : i < j => s[i].base <= s[j].base
      /\ \A k \in 1 .. Len(cm.pool) :
             (\A i \in Compilers(s) : k <= s[i].base) =>
                 cm.pool[k].line = 0 /\ cm.pool[k].cxt # 0
  BY DEF PoolOK
<1> QED
  BY <1>2, <1>3 DEF PoolOK

LEMMA ActivitiesSame ==
    ASSUME NEW acts, NEW p, NEW p2, NEW w, NEW w2,
           ActivitiesOK(p, acts, w), KeepsRuns(p2, p, acts), Later(w2, w)
    PROVE  ActivitiesOK(p2, acts, w2)
<1> SUFFICES ASSUME NEW r \in Runners, NEW i \in DOMAIN acts[r]
             PROVE  RunOK(p2[acts[r][i].cxt], acts[r][i]) /\ CompileOK(acts[r][i], w2)
  BY DEF ActivitiesOK
<1>1. PICK b : b = acts[r][i]
  OBVIOUS
<1>2. RunOK(p[b.cxt], b) /\ CompileOK(b, w)
  BY <1>1 DEF ActivitiesOK
<1>3. b.at = "run" => SameRun(p2[b.cxt], p[b.cxt])
  BY <1>1 DEF KeepsRuns
<1>4. RunOK(p2[b.cxt], b)
  BY <1>2, <1>3, KeptRun
<1> QED
  BY <1>1, <1>2, <1>4, KeptCompile

LEMMA OwnersMore ==
    ASSUME NEW acts, NEW run, NEW len \in Nat, OwnersOK(acts, run, len),
           NEW len2 \in Nat, len <= len2
    PROVE  OwnersOK(acts, run, len2)
<1>1. \A r \in Runners : \A i \in DOMAIN acts[r] :
           /\ acts[r][i].cxt \in 1 .. len2 /\ acts[r][i].bound \in 1 .. len2
           /\ acts[r][i].at = "fiber" <=> i = 1 /\ r # MainRunner
           /\ r # run => acts[r][i].at \in {"run", "fiber"}
           /\ Owns(acts[r][i]) /\ acts[r][i].cxt = 1 => r = MainRunner /\ i = 1
  <2>1. \A c \in 1 .. len : c \in 1 .. len2
    OBVIOUS
  <2> QED
    BY <2>1 DEF OwnersOK
<1>2. \A r, u \in Runners : \A i \in DOMAIN acts[r] : \A j \in DOMAIN acts[u] :
           /\ Owns(acts[r][i]) /\ Owns(acts[u][j]) /\ acts[r][i].cxt = acts[u][j].cxt
           => r = u /\ i = j
  BY DEF OwnersOK
<1> QED
  BY <1>1, <1>2 DEF OwnersOK

(* create_subcontext().                                                    *)
Extended(p2, p, len2) == p2 = Append(p, NewProgram(len2))

LEMMA NewProgramIs ==
    ASSUME NEW c \in Cxts
    PROVE  /\ NewProgram(c) \in ProgramType
           /\ NewProgram(c).unit = Unit(c, "context") /\ NewProgram(c).transactions = 0
           /\ NewProgram(c).names = {} /\ NewProgram(c).constants = {}
           /\ NewProgram(c).marked = {} /\ StatementsOK(NewProgram(c), c)
<1>1. Unit(c, "context") \in Units
  BY DEF Unit, Units
<1>2. PICK x : x = NewProgram(c)
  OBVIOUS
<1>3. /\ x.unit = Unit(c, "context") /\ x.transactions = 0 /\ x.names = {} /\ x.constants = {}
      /\ x.marked = {} /\ x.statements = <<>>
  BY <1>2 DEF NewProgram
<1>4. x \in ProgramType
  BY <1>1, <1>2 DEF NewProgram, ProgramType
<1>5. StatementsOK(x, c)
  BY <1>3 DEF StatementsOK
<1> QED
  BY <1>2, <1>3, <1>4, <1>5

LEMMA NewContext ==
    ASSUME NEW cm, NEW p, NEW acts, NEW run, NEW mode, NEW w, NEW s, NEW n, NEW len,
           GoodAt(cm, p, acts, run, mode, w, s, n, len),
           NEW len2, len2 = len + 1, len2 <= MaxPrograms, NEW p2, Extended(p2, p, len2)
    PROVE  /\ GoodAt(cm, p2, acts, run, mode, w, s, n, len2)
           /\ p2[len2] = NewProgram(len2) /\ len2 \in 1 .. len2 /\ Free(acts, len2)
           /\ \A i \in DOMAIN s : s[i].cxt < len2
<1>1. p \in Seq(ProgramType) /\ len = Len(p) /\ len \in Nat /\ len \in Cxts
  BY DEF GoodAt, SizeIs, ContextsTyped
<1>2. len2 \in Cxts /\ len2 \in Nat /\ len <= len2 /\ len2 \in 1 .. len2
  <2>1. MaxPrograms \in Nat
    BY CompileAssumption
  <2> QED
    BY <1>1, <2>1 DEF Cxts
<1>3. NewProgram(len2) \in ProgramType
  BY <1>2, NewProgramIs
<1>4. /\ p2 \in Seq(ProgramType) /\ Len(p2) = len2 /\ p2[len2] = NewProgram(len2)
      /\ \A c \in 1 .. len : p2[c] = p[c]
  <2>1. PICK x \in ProgramType : x = NewProgram(len2)
    BY <1>3
  <2>2. PICK q : q = Append(p, x)
    OBVIOUS
  <2>3. /\ q \in Seq(ProgramType) /\ Len(q) = len + 1 /\ q[len + 1] = x
        /\ \A c \in 1 .. len : q[c] = p[c]
    BY <1>1, <2>2, AppendedSeq
  <2>4. q = p2
    BY <2>1, <2>2 DEF Extended
  <2> QED
    BY <2>1, <2>3, <2>4
<1>5. SizeIs(p2, len2) /\ ContextsTyped(p2, len2)
  BY <1>2, <1>4 DEF SizeIs, ContextsTyped
<1>6. \A r \in Runners : \A i \in DOMAIN acts[r] : acts[r][i].cxt \in 1 .. len
  BY DEF GoodAt, OwnersOK
<1>7. OwnersOK(acts, run, len2)
  BY <1>1, <1>2, OwnersMore DEF GoodAt
<1>8. KeepsRuns(p2, p, acts)
  BY <1>4, <1>6 DEF KeepsRuns, SameRun
<1>9. ActivitiesOK(p2, acts, w)
  <2>1. Later(w, w)
    <3>1. MaxWork \in Nat
      BY CompileAssumption
    <3> QED
      BY <3>1 DEF GoodAt, IsWork, Later
  <2> QED
    BY <1>8, <2>1, ActivitiesSame DEF GoodAt
<1>10. /\ \A i \in DOMAIN s : s[i].cxt \in 1 .. len /\ s[i].cxt < len2
  <2>1. s = acts[run] /\ run \in Runners
    BY DEF GoodAt, HasStack
  <2>2. \A i \in DOMAIN s : s[i].cxt \in 1 .. len
    BY <1>6, <2>1
  <2>3. \A c \in 1 .. len : c < len2
    BY <1>1
  <2> QED
    BY <2>2, <2>3
<1>11. PoolOK(cm, p2, s)
  <2>1. SameConstants(p2, p, s)
    BY <1>4, <1>10 DEF SameConstants, Compilers
  <2> QED
    BY <2>1, PoolSame DEF GoodAt
<1>12. ContextsOK(p2, s)
  <2>1. \A c \in 1 .. len : StatementsOK(p[c], c) /\ OpenOK(p[c], s, c) /\ UnitOK(p, s, c)
    BY <1>1 DEF GoodAt, ContextsOK
  <2>2. \A c \in 1 .. len : StatementsOK(p2[c], c) /\ OpenOK(p2[c], s, c) /\ UnitOK(p2, s, c)
    BY <1>4, <2>1 DEF UnitOK
  <2>3. len2 \notin 1 .. len
    BY <1>1
  <2>4. StatementsOK(p2[len2], len2) /\ p2[len2].transactions = 0
        /\ p2[len2].unit = Unit(len2, "context")
    BY <1>2, <1>4, NewProgramIs
  <2>5. OpenOK(p2[len2], s, len2)
    BY <1>10, <2>3, <2>4 DEF OpenOK, Compilers
  <2>6. UnitOK(p2, s, len2)
    <3>1. BindersOf(s, len2) = {}
      BY <1>10, <2>3 DEF BindersOf, Binders
    <3> QED
      BY <2>4, <3>1, ChainEmpty DEF UnitOK
  <2>7. \A c \in 1 .. len2 : c = len2 \/ c \in 1 .. len
    BY <1>1
  <2> QED
    BY <1>4, <2>2, <2>4, <2>5, <2>6, <2>7 DEF ContextsOK
<1>13. CompilerTyped(cm, len2)
  <2>1. MaxPrograms \in Nat
    BY CompileAssumption
  <2>2. cm.cxt \in Cxts /\ cm.cxt <= len
    BY DEF GoodAt, CompilerTyped, CompilerType
  <2>3. cm.cxt <= len2
    BY <1>1, <1>2, <2>1, <2>2 DEF Cxts
  <2> QED
    BY <2>3 DEF GoodAt, CompilerTyped
<1>14. Free(acts, len2)
  <2>1. len2 \notin 1 .. len
    BY <1>1
  <2> QED
    BY <1>6, <2>1 DEF Free
<1> QED
  BY <1>2, <1>4, <1>5, <1>7, <1>9, <1>10, <1>11, <1>12, <1>13, <1>14 DEF GoodAt

(***************************************************************************)
(* compile() begins.                                                       *)
(***************************************************************************)
Begins(a, cm, c) ==
    /\ a \in ActivityType /\ a.at = "compile" /\ a.cxt = c /\ a.bound = cm.cxt
    /\ a.unit = Unit(c, "context") /\ a.names = {} /\ a.base = Len(cm.pool)
    /\ a.loops = cm.loops /\ a.line = 1 /\ a.blocks = <<>> /\ a.waiting = <<>>
Starts(cm2, cm, c) ==
    cm2 = [cm EXCEPT !.scopes = Append(@, <<>>), !.loops = 0, !.cxt = c]
OpensContext(p2, p, c) ==
    IsEdit(p2, p, c, [p[c] EXCEPT !.unit = Unit(c, "program"), !.transactions = @ + 1])

LEMMA CompilerIs ==
    ASSUME NEW cm, NEW len, CompilerTyped(cm, len)
    PROVE  /\ cm.cxt \in Cxts /\ cm.cxt <= len /\ cm.scopes \in Seq(ScopeType)
           /\ cm.pool \in Seq(Results) /\ cm.loops \in Int
           /\ PoolIs(cm, Len(cm.pool))
<1>1. /\ cm.cxt \in Cxts /\ cm.cxt <= len /\ cm.scopes \in Seq(ScopeType)
      /\ cm.pool \in Seq(Results) /\ cm.loops \in Int
  BY DEF CompilerTyped, CompilerType
<1>2. PICK pool : pool = cm.pool
  OBVIOUS
<1>3. Len(pool) \in Nat
  BY <1>1, <1>2
<1> QED
  BY <1>1, <1>2, <1>3 DEF PoolIs

LEMMA Started ==
    ASSUME NEW cm, NEW len \in Cxts, CompilerTyped(cm, len), NEW c \in 1 .. len,
           NEW cm2, Starts(cm2, cm, c)
    PROVE  /\ CompilerTyped(cm2, len) /\ SamePool(cm2, cm)
           /\ cm2.cxt = c /\ cm2.loops = 0 /\ cm2.scopes = Append(cm.scopes, <<>>)
<1>1. cm2.cxt = c /\ cm2.loops = 0 /\ cm2.scopes = Append(cm.scopes, <<>>) /\ cm2.pool = cm.pool
  BY DEF Starts, CompilerTyped, CompilerType
<1>2. Append(cm.scopes, <<>>) \in Seq(ScopeType)
  <2>1. <<>> \in ScopeType
    BY DEF ScopeType
  <2>2. PICK sc : sc = cm.scopes
    OBVIOUS
  <2>3. sc \in Seq(ScopeType)
    BY <2>2, CompilerIs
  <2>4. Append(sc, <<>>) \in Seq(ScopeType)
    BY <2>1, <2>3
  <2> QED
    BY <2>2, <2>4
<1>3. c \in Cxts /\ c <= len
  <2>1. MaxPrograms \in Nat
    BY CompileAssumption
  <2> QED
    BY <2>1 DEF Cxts
<1>4. PICK sc : sc = Append(cm.scopes, <<>>)
  OBVIOUS
<1>5. cm2 = [cm EXCEPT !.scopes = sc, !.loops = 0, !.cxt = c]
  BY <1>4 DEF Starts
<1>6. cm2 \in CompilerType
  <2>1. sc \in Seq(ScopeType) /\ 0 \in Int
    BY <1>2, <1>4
  <2> QED
    BY <1>3, <1>5, <2>1 DEF CompilerTyped, CompilerType
<1> QED
  BY <1>1, <1>3, <1>6 DEF CompilerTyped, SamePool

LEMMA GoodBegin ==
    ASSUME NEW cm, NEW p, NEW acts, NEW run, NEW mode, NEW w, NEW s, NEW n, NEW len,
           GoodAt(cm, p, acts, run, mode, w, s, n, len),
           mode = "short" \/ n = 0 \/ s[n].at # "compile",
           NEW c \in 1 .. len, p[c] = NewProgram(c), Free(acts, c),
           \A i \in DOMAIN s : s[i].cxt < c, c = 1 => n = 0, n = 0 => run = MainRunner,
           NEW a, Begins(a, cm, c), NEW cm2, Starts(cm2, cm, c),
           NEW p2, OpensContext(p2, p, c), NEW t, Above(t, s, a),
           NEW acts2, acts2 = Turned(acts, run, t), NEW m, m = n + 1
    PROVE  GoodAt(cm2, p2, acts2, run, "full", w, t, m, len)
<1>1. /\ HasStack(acts, run, s, n) /\ SizeIs(p, len)
      /\ CompilerTyped(cm, len) /\ ContextsTyped(p, len) /\ IsWork(w)
      /\ OwnersOK(acts, run, len) /\ NestOK(s) /\ BindingOK(cm, s) /\ LoopsOK(cm, s)
      /\ ScopesOK(cm, s, mode) /\ PoolOK(cm, p, s) /\ ContextsOK(p, s)
      /\ ActivitiesOK(p, acts, w)
  BY DEF GoodAt
<1>2. /\ a \in ActivityType /\ a.at = "compile" /\ a.cxt = c /\ a.bound = cm.cxt
      /\ a.unit = Unit(c, "context") /\ a.names = {} /\ a.base = Len(cm.pool)
      /\ a.loops = cm.loops /\ a.line = 1 /\ a.blocks = <<>> /\ a.waiting = <<>>
  BY DEF Begins
<1>3. IsStack(s, n) /\ n \in Nat /\ DOMAIN s = 1 .. n
  BY <1>1, StackIs
<1>4. IsStack(t, m)
  BY <1>2, <1>3, PushStack
<1>5. HasStack(acts2, run, t, m)
  BY <1>1, <1>4, TurnedIs
<1>6. len \in Cxts /\ c \in Cxts
  <2>1. len \in Cxts
    BY <1>1 DEF ContextsTyped
  <2>2. MaxPrograms \in Nat
    BY CompileAssumption
  <2> QED
    BY <2>1, <2>2 DEF Cxts
<1>7. CompilerTyped(cm2, len) /\ SamePool(cm2, cm) /\ cm2.cxt = c /\ cm2.loops = 0
  BY <1>1, <1>6, Started
<1>8. cm2.scopes = Append(cm.scopes, <<>>)
  BY <1>1, <1>6, Started
<1>9. PICK x : x = [p[c] EXCEPT !.unit = Unit(c, "program"), !.transactions = @ + 1]
  OBVIOUS
<1>10. /\ NewProgram(c) \in ProgramType /\ NewProgram(c).transactions = 0
       /\ NewProgram(c).unit = Unit(c, "context")
       /\ NewProgram(c).names = {} /\ NewProgram(c).constants = {}
  BY <1>6, NewProgramIs
<1>11. StatementsOK(NewProgram(c), c)
  BY <1>6, NewProgramIs
<1>12. /\ x \in ProgramType /\ x.unit = Unit(c, "program") /\ x.transactions = 1
       /\ x.constants = {} /\ StatementsOK(x, c)
  <2>1. PICK y : y = NewProgram(c)
    OBVIOUS
  <2>2. y \in ProgramType /\ y.transactions = 0 /\ y.constants = {} /\ StatementsOK(y, c)
    BY <1>10, <1>11, <2>1
  <2>3. x = [y EXCEPT !.unit = Unit(c, "program"), !.transactions = y.transactions + 1]
    BY <1>9, <2>1
  <2>4. /\ x.unit = Unit(c, "program") /\ x.transactions = 1 /\ x.constants = {}
        /\ x.statements = y.statements /\ x.marked = y.marked
    BY <2>2, <2>3 DEF ProgramType
  <2>5. Unit(c, "program") \in Units
    BY <1>6 DEF Unit, Units
  <2>6. x \in ProgramType
    <3>1. PICK u \in Units : u = Unit(c, "program")
      BY <2>5
    <3>2. x = [y EXCEPT !.unit = u, !.transactions = 1]
      BY <2>2, <2>3, <3>1
    <3>3. y.transactions + 1 = 1 /\ 1 \in 0 .. 1
      BY <2>2
    <3> QED
      BY <2>2, <3>2, <3>3 DEF ProgramType
  <2>7. StatementsOK(x, c)
    BY <2>2, <2>4 DEF StatementsOK
  <2> QED
    BY <2>4, <2>6, <2>7
<1>13. IsEdit(p2, p, c, x)
  BY <1>9 DEF OpensContext
<1>14. SizeIs(p2, len) /\ ContextsTyped(p2, len) /\ Others(p2, p, c, len) /\ p2[c] = x
  BY <1>1, <1>12, <1>13, Edited
<1>15. OwnersOK(acts2, run, len)
  <2>1. Owns(a) /\ a.cxt = 1 => n = 0
    BY <1>2
  <2>2. a.cxt \in 1 .. len /\ a.at # "fiber" /\ (Owns(a) => Free(acts, a.cxt))
    BY <1>2
  <2>3. a.bound \in 1 .. len
    <3>1. cm.cxt \in Cxts /\ cm.cxt <= len
      BY <1>1, CompilerIs
    <3> QED
      BY <1>2, <1>6, <3>1 DEF Cxts
  <2> QED
    BY <1>1, <1>2, <2>1, <2>2, <2>3, OwnersPush
<1>16. NestOK(t)
  <2>1. \A i \in Compilers(s) : s[i].cxt < a.cxt
    BY <1>2 DEF Compilers
  <2> QED
    BY <1>1, <1>2, <1>3, <2>1, NestPush
<1>17. BindingOK(cm2, t)
  <2>1. a.at \in {"compile", "eval"} /\ a.bound = cm.cxt /\ cm2.cxt = a.cxt
    BY <1>2, <1>7
  <2> QED
    BY <1>1, <1>2, <1>3, <2>1, PushedChains
<1>18. LoopsOK(cm2, t)
  <2>1. OpenLoops(<<>>) = 0
    <3>1. <<>> \in Seq(BOOLEAN)
      OBVIOUS
    <3> QED
      BY <3>1, OpenLoopsAre
  <2>2. cm2.loops = OpenLoops(a.blocks)
    BY <1>2, <1>7, <2>1
  <2> QED
    BY <1>1, <1>2, <1>3, <2>2, PushedChains
<1>19. ScopesOK(cm2, t, "full")
  <2>1. cm.scopes \in Seq(ScopeType)
    BY <1>1, CompilerIs
  <2>2. mode = "short" \/ s = <<>> \/ s[n].at # "compile"
    <3>1. n = 0 => s = <<>>
      BY <1>3 DEF IsStack
    <3> QED
      BY <3>1
  <2> QED
    BY <1>1, <1>2, <1>3, <1>8, <2>1, <2>2, ScopesPush
<1>20. PoolOK(cm2, p2, t)
  <2>1. PoolIs(cm, a.base)
    BY <1>1, <1>2, CompilerIs
  <2>2. SameConstants(p2, p, s)
    <3>1. \A i \in DOMAIN s : s[i].cxt # c
      <4>1. \A i \in DOMAIN s : s[i].cxt \in 1 .. len
        BY <1>1 DEF OwnersOK, HasStack
      <4>2. \A i \in DOMAIN s : s[i].cxt < c
        OBVIOUS
      <4> QED
        BY <4>1, <4>2
    <3>2. \A i \in DOMAIN s : s[i].cxt \in 1 .. len
      BY <1>1 DEF OwnersOK, HasStack
    <3> QED
      BY <1>14, <3>1, <3>2 DEF SameConstants, Others, Compilers
  <2>3. p2[a.cxt].constants = {}
    BY <1>2, <1>12, <1>14
  <2> QED
    BY <1>1, <1>2, <1>3, <1>7, <2>1, <2>2, <2>3, PoolPush
<1>21. ContextsOK(p2, t)
  <2>1. a.unit = p[a.cxt].unit
    BY <1>2, <1>10
  <2>2. p2[a.cxt].unit = Arena(a)
    BY <1>2, <1>12, <1>14 DEF Arena
  <2>3. /\ Others(p2, p, a.cxt, len) /\ StatementsOK(p2[a.cxt], a.cxt) /\ a.cxt \in 1 .. len
        /\ p2[a.cxt].transactions = 1
    BY <1>2, <1>12, <1>14
  <2> QED
    BY <1>1, <1>2, <1>3, <1>14, <2>1, <2>2, <2>3, ContextsPush
<1>22. ActivitiesOK(p2, acts2, w)
  <2>1. KeepsRuns(p2, p, acts)
    BY <1>1, <1>14, RunsKept
  <2>2. w \in Nat /\ Later(w, w)
    <3>1. MaxWork \in Nat
      BY CompileAssumption
    <3> QED
      BY <1>1, <3>1 DEF IsWork, Later
  <2>3. RunOK(p2[a.cxt], a)
    BY <1>2 DEF RunOK
  <2>4. CompileOK(a, w)
    BY <1>2, <2>2 DEF CompileOK
  <2> QED
    BY <1>1, <1>2, <2>1, <2>2, <2>3, <2>4, ActivitiesPush
<1> QED
  BY <1>1, <1>5, <1>7, <1>14, <1>15, <1>16, <1>17, <1>18, <1>19, <1>20, <1>21, <1>22 DEF GoodAt

(***************************************************************************)
(* compile() ends, in either way.                                          *)
(***************************************************************************)
Marks(p2, p, cm) ==
    p2 = [c \in DOMAIN p |->
             [p[c] EXCEPT !.marked = @ \cup
                 {l \in p[c].constants : [cxt |-> c, line |-> l] \in Range(cm.pool)}]]

LEMMA GoodMarks ==
    ASSUME NEW cm, NEW p, NEW acts, NEW run, NEW mode, NEW w, NEW s, NEW n, NEW len,
           GoodAt(cm, p, acts, run, mode, w, s, n, len), NEW p2, Marks(p2, p, cm)
    PROVE  /\ GoodAt(cm, p2, acts, run, mode, w, s, n, len)
           /\ \A c \in 1 .. len : p2[c].statements = p[c].statements
           /\ \A i \in Compilers(s) : p2[s[i].cxt].marked = p2[s[i].cxt].constants
<1>1. /\ HasStack(acts, run, s, n) /\ SizeIs(p, len)
      /\ CompilerTyped(cm, len) /\ ContextsTyped(p, len) /\ IsWork(w)
      /\ OwnersOK(acts, run, len) /\ NestOK(s) /\ BindingOK(cm, s) /\ LoopsOK(cm, s)
      /\ ScopesOK(cm, s, mode) /\ PoolOK(cm, p, s) /\ ContextsOK(p, s)
      /\ ActivitiesOK(p, acts, w)
  BY DEF GoodAt
<1>2. p \in Seq(ProgramType) /\ len = Len(p) /\ len \in Nat /\ DOMAIN p = 1 .. len
  BY <1>1 DEF SizeIs, ContextsTyped
<1>3. \A c \in 1 .. len : StatementsOK(p[c], c) /\ OpenOK(p[c], s, c) /\ UnitOK(p, s, c)
  BY <1>1, <1>2 DEF ContextsOK
<1>4. ASSUME NEW c \in 1 .. len
      PROVE  /\ p2[c] \in ProgramType /\ StatementsOK(p2[c], c)
             /\ p2[c].statements = p[c].statements /\ p2[c].names = p[c].names
             /\ p2[c].constants = p[c].constants /\ p2[c].unit = p[c].unit
             /\ p2[c].transactions = p[c].transactions
             /\ p2[c].marked = p[c].marked \cup
                    {l \in p[c].constants : [cxt |-> c, line |-> l] \in Range(cm.pool)}
  <2>1. PICK x, y, new : x = p[c] /\ y = p2[c] /\
            new = p[c].marked \cup
                  {l \in p[c].constants : [cxt |-> c, line |-> l] \in Range(cm.pool)}
    OBVIOUS
  <2>2. x \in ProgramType
    BY <1>2, <2>1
  <2>3. x.marked \subseteq x.constants
    BY <1>3, <2>1 DEF StatementsOK
  <2>4. new \subseteq x.constants
    BY <2>1, <2>3
  <2>5. new \in SUBSET LineNumbers
    BY <2>2, <2>4 DEF ProgramType
  <2>6. y = [x EXCEPT !.marked = new]
    BY <1>2, <2>1 DEF Marks
  <2>7. /\ y \in ProgramType /\ y.statements = x.statements /\ y.names = x.names
        /\ y.constants = x.constants /\ y.unit = x.unit /\ y.transactions = x.transactions
        /\ y.marked = new
    BY <2>2, <2>5, <2>6 DEF ProgramType
  <2>8. StatementsOK(x, c)
    BY <1>3, <2>1
  <2>9. StatementsOK(y, c)
    BY <2>4, <2>7, <2>8 DEF StatementsOK
  <2> QED
    BY <2>1, <2>7, <2>9
<1>5. p2 \in Seq(ProgramType) /\ Len(p2) = len
  <2>1. PICK f : f = [c \in 1 .. len |-> p2[c]]
    OBVIOUS
  <2>2. f \in [1 .. len -> ProgramType]
    BY <1>4, <2>1
  <2>3. f \in Seq(ProgramType) /\ Len(f) = len
    BY <1>2, <2>2
  <2>4. p2 = f
    BY <1>2, <2>1 DEF Marks
  <2> QED
    BY <2>3, <2>4
<1>6. SizeIs(p2, len) /\ ContextsTyped(p2, len)
  BY <1>1, <1>2, <1>5 DEF SizeIs, ContextsTyped
<1>7. \A i \in DOMAIN s : s[i].cxt \in 1 .. len
  BY <1>1 DEF OwnersOK, HasStack
<1>8. PoolOK(cm, p2, s)
  <2>1. SameConstants(p2, p, s)
    BY <1>4, <1>7 DEF SameConstants, Compilers
  <2> QED
    BY <1>1, <2>1, PoolSame
<1>9. ContextsOK(p2, s)
  <2>1. ASSUME NEW c \in 1 .. len PROVE OpenOK(p2[c], s, c) /\ UnitOK(p2, s, c)
    BY <1>3, <1>4 DEF OpenOK, UnitOK
  <2> QED
    BY <1>4, <1>5, <2>1 DEF ContextsOK
<1>10. ActivitiesOK(p2, acts, w)
  <2>1. ASSUME NEW r \in Runners, NEW i \in DOMAIN acts[r]
        PROVE  RunOK(p2[acts[r][i].cxt], acts[r][i]) /\ CompileOK(acts[r][i], w)
    <3>1. PICK c, b : c = acts[r][i].cxt /\ b = acts[r][i]
      OBVIOUS
    <3>2. c \in 1 .. len
      BY <1>1, <3>1 DEF OwnersOK
    <3>3. RunOK(p[c], b) /\ CompileOK(b, w)
      BY <1>1, <3>1 DEF ActivitiesOK
    <3>4. b.at = "run" => SameRun(p2[c], p[c])
      <4>1. SUFFICES ASSUME b.at = "run" PROVE SameRun(p2[c], p[c])
        OBVIOUS
      <4>2. p[c].constants = p[c].marked
        BY <3>3, <4>1 DEF RunOK
      <4>3. p2[c].marked = p[c].marked
        BY <1>4, <3>2, <4>2
      <4> QED
        BY <1>4, <3>2, <4>3 DEF SameRun
    <3>5. RunOK(p2[c], b)
      BY <3>3, <3>4, KeptRun
    <3> QED
      BY <3>1, <3>3, <3>5
  <2> QED
    BY <2>1 DEF ActivitiesOK
<1>11. ASSUME NEW i \in Compilers(s) PROVE p2[s[i].cxt].marked = p2[s[i].cxt].constants
  <2>1. PICK c : c = s[i].cxt
    OBVIOUS
  <2>2. c \in 1 .. len
    BY <1>7, <2>1 DEF Compilers
  <2>3. PICK pool : pool = cm.pool
    OBVIOUS
  <2>4. pool \in Seq(Results)
    BY <1>1, <2>3, CompilerIs
  <2>5. \A l \in p[c].constants : [cxt |-> c, line |-> l] \in Range(cm.pool)
    <3>1. SUFFICES ASSUME NEW l \in p[c].constants PROVE [cxt |-> c, line |-> l] \in Range(pool)
      BY <2>3
    <3>2. PICK k \in 1 .. Len(pool) : pool[k] = [cxt |-> c, line |-> l]
      BY <1>1, <2>1, <2>3 DEF PoolOK
    <3>3. k \in DOMAIN pool
      BY <2>4
    <3> QED
      BY <3>2, <3>3 DEF Range
  <2>6. p[c].marked \subseteq p[c].constants
    BY <1>3, <2>2 DEF StatementsOK
  <2>7. p2[c].marked = p[c].constants
    BY <1>4, <2>2, <2>5, <2>6
  <2> QED
    BY <1>4, <2>1, <2>2, <2>7
<1> QED
  BY <1>1, <1>4, <1>6, <1>8, <1>9, <1>10, <1>11 DEF GoodAt

Restores(cm2, cm, f) ==
    cm2 = [cxt |-> f.bound, scopes |-> EndedScope(cm.scopes),
           pool |-> Resized(cm.pool, f.base), loops |-> f.loops]
Closes(p2, p, f, st) ==
    IsEdit(p2, p, f.cxt, [p[f.cxt] EXCEPT !.unit = f.unit, !.names = f.names,
                                          !.transactions = @ - 1, !.statements = st])

(* Everything that is left of a stack whose last activity ends.            *)
LEMMA PopFacts ==
    ASSUME NEW acts, NEW run, NEW s, NEW n, HasStack(acts, run, s, n), s # <<>>,
           NEW len, OwnersOK(acts, run, len), NestOK(s)
    PROVE  /\ n \in Nat /\ n >= 1 /\ n \in DOMAIN s /\ DOMAIN s = 1 .. n
           /\ s[n] \in ActivityType /\ s[n].cxt \in 1 .. len /\ s[n].bound \in 1 .. len
           /\ \A i \in Compilers(s) : i # n => s[i].cxt < s[n].cxt
           /\ \A i \in DOMAIN s : s[i].cxt \in 1 .. len
           /\ s[n].at = "compile" => n \in Compilers(s)
<1>1. IsStack(s, n)
  BY StackIs
<1>2. PICK t : Beneath(t, s)
  BY DEF Beneath
<1>3. n \in Nat /\ n >= 1 /\ DOMAIN s = 1 .. n /\ s[n] \in ActivityType
  <2>1. n \in Nat /\ n >= 1
    BY <1>2, <1>1, PopSets
  <2>2. DOMAIN s = 1 .. n
    BY <1>2, <1>1, PopSets
  <2>3. s[n] \in ActivityType
    BY <1>2, <1>1, PopSets
  <2> QED
    BY <2>1, <2>2, <2>3
<1>4. n \in DOMAIN s
  BY <1>3
<1>5. run \in Runners /\ acts[run] = s
  BY StackIs
<1>6. \A i \in DOMAIN s : s[i].cxt \in 1 .. len /\ s[i].bound \in 1 .. len
  BY <1>5 DEF OwnersOK
<1>7. \A i \in Compilers(s) : i # n => i < n
  BY <1>3 DEF Compilers
<1>8. \A i \in Compilers(s) : i # n => s[i].cxt < s[n].cxt
  BY <1>4, <1>7 DEF NestOK
<1> QED
  BY <1>3, <1>4, <1>6, <1>8 DEF Compilers

LEMMA Restored2 ==
    ASSUME NEW cm, NEW len \in Cxts, CompilerTyped(cm, len), NEW f \in ActivityType,
           f.bound \in 1 .. len, NEW cm2, Restores(cm2, cm, f)
    PROVE  /\ CompilerTyped(cm2, len) /\ CutPool(cm2, cm, f.base)
           /\ cm2.cxt = f.bound /\ cm2.loops = f.loops
           /\ cm2.scopes = EndedScope(cm.scopes)
<1>1. /\ cm2.cxt = f.bound /\ cm2.loops = f.loops /\ cm2.scopes = EndedScope(cm.scopes)
      /\ cm2.pool = Resized(cm.pool, f.base)
  BY DEF Restores
<1>2. cm.pool \in Seq(Results) /\ cm.scopes \in Seq(ScopeType)
  BY CompilerIs
<1>3. PICK pool, sc, pool2, sc2 : /\ pool = cm.pool /\ sc = cm.scopes
                                  /\ pool2 = Resized(cm.pool, f.base)
                                  /\ sc2 = EndedScope(cm.scopes)
  OBVIOUS
<1>4. sc2 \in Seq(ScopeType)
  <2>1. CASE sc = <<>>
    BY <1>3, <2>1 DEF EndedScope
  <2>2. CASE sc # <<>>
    <3>1. sc2 = Front(sc) /\ sc \in Seq(ScopeType)
      BY <1>2, <1>3, <2>2 DEF EndedScope
    <3>2. Len(sc) \in Nat
      BY <3>1
    <3>3. Front(sc) \in Seq(ScopeType)
      BY <2>2, <3>1, <3>2, FrontSeq
    <3> QED
      BY <3>1, <3>3
  <2> QED
    BY <2>1, <2>2
<1>5. pool2 \in Seq(Results)
  <2>1. PICK b \in Nat : b = f.base
    BY DEF ActivityType
  <2>2. NoConstant \in Results
    <3>1. MaxPrograms \in Nat /\ MaxWork \in Nat
      BY CompileAssumption
    <3> QED
      BY <3>1 DEF NoConstant, Results
  <2>3. pool \in Seq(Results)
    BY <1>2, <1>3
  <2>4. pool2 = [i \in 1 .. b |-> IF i <= Len(pool) THEN pool[i] ELSE NoConstant]
    BY <1>3, <2>1 DEF Resized
  <2>5. \A i \in 1 .. b : (IF i <= Len(pool) THEN pool[i] ELSE NoConstant) \in Results
    BY <2>2, <2>3
  <2> QED
    BY <2>1, <2>4, <2>5
<1>6. f.bound \in Cxts /\ f.loops \in Int /\ f.bound <= len
  <2>1. MaxPrograms \in Nat
    BY CompileAssumption
  <2> QED
    BY <2>1 DEF ActivityType, Cxts
<1>7. cm2 \in CompilerType
  <2>1. cm2 = [cxt |-> f.bound, scopes |-> sc2, pool |-> pool2, loops |-> f.loops]
    BY <1>3 DEF Restores
  <2> QED
    BY <1>4, <1>5, <1>6, <2>1 DEF CompilerType
<1> QED
  BY <1>1, <1>2, <1>6, <1>7 DEF CompilerTyped, CutPool

(* A compile() is over: its context f.cxt is free again.                   *)
Left(st, kept) == st = kept \/ st = <<>>
Ended(p2, p, acts2, run, f, t, m, len) ==
    /\ Free(acts2, f.cxt) /\ \A i \in Compilers(t) : t[i].cxt < f.cxt
    /\ f.cxt \in 1 .. len /\ (f.cxt = 1 => m = 0) /\ (m = 0 => run = MainRunner)
    /\ p2[f.cxt].names = {} /\ p2[f.cxt].constants = p[f.cxt].constants
    /\ p2[f.cxt].marked = p[f.cxt].marked

LEMMA GoodEnd ==
    ASSUME NEW cm, NEW p, NEW acts, NEW run, NEW mode, NEW w, NEW s, NEW n, NEW len,
           GoodAt(cm, p, acts, run, mode, w, s, n, len), s # <<>>,
           NEW f, f = s[n], f.at = "compile", NEW cm2, Restores(cm2, cm, f),
           NEW st, Left(st, p[f.cxt].statements), NEW p2, Closes(p2, p, f, st),
           NEW t, Beneath(t, s), NEW acts2, acts2 = Turned(acts, run, t), NEW m, m = n - 1
    PROVE  /\ GoodAt(cm2, p2, acts2, run, "short", w, t, m, len)
           /\ Ended(p2, p, acts2, run, f, t, m, len)
<1>1. /\ HasStack(acts, run, s, n) /\ SizeIs(p, len)
      /\ CompilerTyped(cm, len) /\ ContextsTyped(p, len) /\ IsWork(w)
      /\ OwnersOK(acts, run, len) /\ NestOK(s) /\ BindingOK(cm, s) /\ LoopsOK(cm, s)
      /\ ScopesOK(cm, s, mode) /\ PoolOK(cm, p, s) /\ ContextsOK(p, s)
      /\ ActivitiesOK(p, acts, w)
  BY DEF GoodAt
<1>2. /\ n \in Nat /\ n >= 1 /\ n \in DOMAIN s
      /\ f \in ActivityType /\ f.cxt \in 1 .. len /\ f.bound \in 1 .. len
  BY <1>1, PopFacts
<1>3. /\ \A i \in Compilers(s) : i # n => s[i].cxt < f.cxt
      /\ \A i \in DOMAIN s : s[i].cxt \in 1 .. len
      /\ n \in Compilers(s)
  BY <1>1, PopFacts
<1>4. IsStack(s, n) /\ run \in Runners /\ acts[run] = s
  BY <1>1, StackIs
<1>5. IsStack(t, m)
  BY <1>4, PopStack
<1>6. HasStack(acts2, run, t, m)
  BY <1>1, <1>5, TurnedIs
<1>7. len \in Cxts
  BY <1>1 DEF ContextsTyped
<1>8. CompilerTyped(cm2, len) /\ CutPool(cm2, cm, f.base)
      /\ cm2.cxt = f.bound /\ cm2.loops = f.loops
  BY <1>1, <1>2, <1>7, Restored2
<1>9. cm2.scopes = EndedScope(cm.scopes)
  BY <1>1, <1>2, <1>7, Restored2
<1>10. PICK c : c = f.cxt
  OBVIOUS
<1>11. c \in 1 .. len
  BY <1>2, <1>10
<1>12. PICK x : x = [p[c] EXCEPT !.unit = f.unit, !.names = f.names,
                                 !.transactions = @ - 1, !.statements = st]
  OBVIOUS
<1>13. f.names = {}
  <2>1. CompileOK(f, w)
    BY <1>1, <1>2, <1>4 DEF ActivitiesOK
  <2> QED
    BY <2>1 DEF CompileOK
<1>14. /\ p[c] \in ProgramType /\ p[c].transactions = 1 /\ StatementsOK(p[c], c)
  <2>1. p \in Seq(ProgramType) /\ len = Len(p) /\ DOMAIN p = 1 .. len
    BY <1>1 DEF ContextsTyped, SizeIs
  <2>2. StatementsOK(p[c], c) /\ OpenOK(p[c], s, c)
    BY <1>1, <1>11, <2>1 DEF ContextsOK
  <2>3. p[c].transactions = 1
    BY <1>3, <1>10, <2>2 DEF OpenOK
  <2> QED
    BY <1>11, <2>1, <2>2, <2>3
<1>15. /\ x \in ProgramType /\ x.unit = f.unit /\ x.names = {} /\ x.transactions = 0
       /\ x.constants = p[c].constants /\ x.marked = p[c].marked /\ StatementsOK(x, c)
  <2>1. PICK y : y = p[c]
    OBVIOUS
  <2>2. y \in ProgramType /\ y.transactions = 1 /\ StatementsOK(y, c)
    BY <1>14, <2>1
  <2>3. st = y.statements \/ st = <<>>
    BY <1>10, <2>1 DEF Left
  <2>4. x = [y EXCEPT !.unit = f.unit, !.names = {}, !.transactions = 0, !.statements = st]
    BY <1>12, <1>13, <2>1, <2>2
  <2>5. /\ x.unit = f.unit /\ x.names = {} /\ x.transactions = 0 /\ x.statements = st
        /\ x.constants = y.constants /\ x.marked = y.marked
    BY <2>2, <2>4 DEF ProgramType
  <2>6. st \in Seq(StatementType)
    <3>1. y.statements \in Seq(StatementType)
      BY <2>2 DEF ProgramType
    <3>2. <<>> \in Seq(StatementType)
      OBVIOUS
    <3> QED
      BY <2>3, <3>1, <3>2
  <2>7. f.unit \in Units
    BY <1>2 DEF ActivityType
  <2>8. x \in ProgramType
    <3>1. PICK z \in Seq(StatementType) : z = st
      BY <2>6
    <3>2. PICK u \in Units : u = f.unit
      BY <2>7
    <3>3. x = [y EXCEPT !.unit = u, !.names = {}, !.transactions = 0, !.statements = z]
      BY <2>4, <3>1, <3>2
    <3>4. 0 \in 0 .. 1 /\ {} \in SUBSET LineNumbers
      OBVIOUS
    <3> QED
      BY ONLY <2>2, <3>1, <3>2, <3>3, <3>4 DEF ProgramType
  <2>9. StatementsOK(x, c)
    <3>1. CASE st = y.statements
      BY <2>2, <2>5, <3>1, ZenonT(60) DEF StatementsOK
    <3>2. CASE st = <<>>
      <4>1. x.statements = <<>> /\ x.marked \subseteq x.constants
        BY <2>2, <2>5, <3>2 DEF StatementsOK
      <4> QED
        BY <4>1 DEF StatementsOK
    <3> QED
      BY <2>3, <3>1, <3>2
  <2> QED
    BY <2>1, <2>5, <2>8, <2>9
<1>16. IsEdit(p2, p, c, x)
  BY <1>10, <1>12 DEF Closes
<1>17. SizeIs(p2, len) /\ ContextsTyped(p2, len) /\ Others(p2, p, c, len) /\ p2[c] = x
  BY <1>1, <1>11, <1>15, <1>16, Edited
<1>18. OwnersOK(acts2, run, len) /\ Free(acts2, c)
  <2>1. Owns(s[n])
    BY DEF Owns
  <2> QED
    BY <1>1, <1>10, <2>1, OwnersPop
<1>19. NestOK(t)
  BY <1>1, <1>4, NestPop
<1>20. BindingOK(cm2, t)
  <2>1. s[n].at \in {"compile", "eval"} /\ cm2.cxt = s[n].bound
    BY <1>8
  <2> QED
    BY <1>1, <1>4, <2>1, PoppedChains
<1>21. LoopsOK(cm2, t)
  <2>1. s[n].at = "compile" /\ cm2.loops = s[n].loops
    BY <1>8
  <2> QED
    BY <1>1, <1>4, <2>1, PoppedChains
<1>22. ScopesOK(cm2, t, "short")
  <2>1. cm.scopes \in Seq(ScopeType)
    BY <1>1, CompilerIs
  <2> QED
    BY <1>1, <1>4, <1>9, <2>1, ScopesPop
<1>23. Compilers(t) = Compilers(s) \ {n} /\ \A i \in 1 .. n - 1 : t[i] = s[i]
  <2>1. Compilers(t) = Compilers(s) \ {n}
    BY <1>4, PopSets
  <2>2. \A i \in 1 .. n - 1 : t[i] = s[i]
    BY <1>4, PopSets
  <2> QED
    BY <2>1, <2>2
<1>24. \A i \in Compilers(t) : t[i] = s[i] /\ i \in Compilers(s) /\ i # n
  <2>1. \A i \in Compilers(s) : i # n => i \in 1 .. n - 1
    BY <1>2, <1>4 DEF Compilers, IsStack
  <2> QED
    BY <1>23, <2>1
<1>25. \A i \in Compilers(t) : t[i].cxt < c /\ t[i].cxt \in 1 .. len
  BY <1>3, <1>10, <1>24 DEF Compilers
<1>26. PoolOK(cm2, p2, t)
  <2>1. SameConstants(p2, p, t)
    <3>1. \A i \in Compilers(t) : t[i].cxt # c
      BY <1>11, <1>25
    <3> QED
      BY <1>17, <1>25, <3>1 DEF SameConstants, Others
  <2>2. s[n].at = "compile" /\ CutPool(cm2, cm, s[n].base)
    BY <1>8
  <2> QED
    BY <1>1, <1>4, <2>1, <2>2, PoolPop
<1>27. ContextsOK(p2, t)
  <2>1. /\ p2[c].unit = s[n].unit /\ p2[c].transactions = p[c].transactions - 1
        /\ StatementsOK(p2[c], c) /\ c = s[n].cxt
    BY <1>10, <1>14, <1>15, <1>17
  <2>2. s[n].at = "compile"
    OBVIOUS
  <2> QED
    BY <1>1, <1>4, <1>11, <1>17, <2>1, <2>2, ContextsPop
<1>28. ActivitiesOK(p2, acts2, w)
  <2>1. KeepsRuns(p2, p, acts2)
    BY <1>17, <1>18, RunsKept
  <2>2. Later(w, w)
    <3>1. MaxWork \in Nat
      BY CompileAssumption
    <3> QED
      BY <1>1, <3>1 DEF IsWork, Later
  <2> QED
    BY <1>1, <2>1, <2>2, ActivitiesPop
<1>29. GoodAt(cm2, p2, acts2, run, "short", w, t, m, len)
  BY <1>1, <1>6, <1>8, <1>17, <1>18, <1>19, <1>20, <1>21, <1>22, <1>26, <1>27, <1>28 DEF GoodAt
<1>30. (c = 1 => m = 0) /\ (m = 0 => run = MainRunner)
  <2>1. Owns(acts[run][n]) /\ n \in DOMAIN acts[run] /\ acts[run][n] = f
    BY <1>2, <1>4 DEF Owns
  <2>2. /\ f.at = "fiber" <=> n = 1 /\ run # MainRunner
        /\ Owns(f) /\ f.cxt = 1 => run = MainRunner /\ n = 1
    <3>1. PICK b : b = acts[run][n]
      OBVIOUS
    <3>2. /\ b.at = "fiber" <=> n = 1 /\ run # MainRunner
          /\ Owns(b) /\ b.cxt = 1 => run = MainRunner /\ n = 1
      BY <1>1, <1>4, <2>1, <3>1 DEF OwnersOK
    <3> QED
      BY <2>1, <3>1, <3>2
  <2>3. f.at # "fiber" /\ Owns(f)
    BY DEF Owns
  <2> QED
    BY <1>2, <1>10, <2>2, <2>3
<1> QED
  BY <1>10, <1>11, <1>15, <1>17, <1>18, <1>25, <1>29, <1>30 DEF Ended

(* A context that is edited, its arena and its transactions as before.     *)
LEMMA ContextsEdit ==
    ASSUME NEW p, NEW p2, NEW len, SizeIs(p, len), SizeIs(p2, len), NEW s, ContextsOK(p, s),
           NEW x, Others(p2, p, x, len), StatementsOK(p2[x], x),
           p2[x].unit = p[x].unit, p2[x].transactions = p[x].transactions
    PROVE  ContextsOK(p2, s)
<1> SUFFICES ASSUME NEW c \in 1 .. len
             PROVE  StatementsOK(p2[c], c) /\ OpenOK(p2[c], s, c) /\ UnitOK(p2, s, c)
  BY DEF ContextsOK, SizeIs
<1>1. StatementsOK(p[c], c) /\ OpenOK(p[c], s, c) /\ UnitOK(p, s, c)
  BY DEF ContextsOK, SizeIs
<1>2. p2[c].unit = p[c].unit /\ p2[c].transactions = p[c].transactions
      /\ StatementsOK(p2[c], c)
  <2>1. CASE c = x
    BY <2>1
  <2>2. CASE c # x
    <3>1. p2[c] = p[c]
      BY <2>2 DEF Others
    <3> QED
      BY <1>1, <3>1
  <2> QED
    BY <2>1, <2>2
<1>3. OpenOK(p2[c], s, c)
  BY <1>1, <1>2 DEF OpenOK
<1>4. UnitOK(p2, s, c)
  BY <1>1, <1>2 DEF UnitOK
<1> QED
  BY <1>2, <1>3, <1>4

(* The last activity a as it goes on: what it keeps.                       *)
LEMMA TopIs ==
    ASSUME NEW s, NEW n, IsStack(s, n), s # <<>>, NEW a \in ActivityType, Alike(a, s[n]),
           NEW t, Retop(t, s, n, a)
    PROVE  /\ n \in Nat /\ n >= 1 /\ DOMAIN s = 1 .. n /\ DOMAIN t = 1 .. n /\ t # <<>>
           /\ s \in Seq(ActivityType) /\ t \in Seq(ActivityType)
           /\ Len(t) = n /\ Len(t) = Len(s) /\ IsStack(t, n) /\ t[n] = a
           /\ s[n] \in ActivityType
           /\ \A i \in DOMAIN s : Alike(t[i], s[i])
           /\ \A i \in DOMAIN t : Alike(t[i], s[i])
           /\ \A i \in 1 .. n - 1 : t[i] = s[i]
           /\ Compilers(t) = Compilers(s)
<1>1. /\ n \in Nat /\ n >= 1 /\ DOMAIN s = 1 .. n /\ s \in Seq(ActivityType) /\ n = Len(s)
      /\ t \in Seq(ActivityType) /\ Len(t) = n /\ t[n] = a
      /\ \A i \in 1 .. n - 1 : t[i] = s[i]
  BY DEF IsStack, Retop
<1>2. DOMAIN t = 1 .. n /\ t # <<>> /\ IsStack(t, n) /\ s[n] \in ActivityType
  BY <1>1 DEF IsStack
<1>3. \A i \in 1 .. n : i = n \/ i \in 1 .. n - 1
  <2>1. n \in Nat
    BY <1>1
  <2> QED
    BY ONLY <2>1
<1>4. \A i \in 1 .. n : Alike(t[i], s[i])
  BY <1>1, <1>3 DEF Alike
<1>5. Compilers(t) = Compilers(s)
  BY <1>1, <1>2, <1>4 DEF Compilers, Alike
<1> QED
  BY <1>1, <1>2, <1>4, <1>5

LEMMA LoopsTop ==
    ASSUME NEW s, NEW n, IsStack(s, n), s # <<>>, NEW a \in ActivityType, Alike(a, s[n]),
           NEW t, Retop(t, s, n, a), NEW cm, NEW cm2, LoopsOK(cm, s),
           \/ a.at = "compile" /\ cm2.loops = OpenLoops(a.blocks)
           \/ a.at # "compile" /\ cm2.loops = cm.loops
    PROVE  LoopsOK(cm2, t)
<1>1. /\ n \in Nat /\ n >= 1 /\ DOMAIN s = 1 .. n /\ DOMAIN t = 1 .. n
      /\ s \in Seq(ActivityType)
      /\ t[n] = a /\ \A i \in 1 .. n - 1 : t[i] = s[i]
      /\ Compilers(t) = Compilers(s)
  BY TopIs
<1>2. Compilers(s) \in SUBSET Nat /\ Compilers(s) \subseteq 1 .. n
  BY <1>1, CompilersAreNat DEF Compilers
<1>3. \A i \in 1 .. n : i = n \/ i \in 1 .. n - 1
  BY <1>1
<1>4. \A i \in Compilers(s) : OldLoops(t)[i] = OldLoops(s)[i]
  <2>1. a.loops = s[n].loops
    BY DEF Alike
  <2> QED
    BY <1>1, <1>2, <1>3, <2>1 DEF OldLoops
<1>5. \A i \in Compilers(s) \ {n} : NewLoops(t)[i] = NewLoops(s)[i]
  BY <1>1, <1>2, <1>3 DEF NewLoops
<1>6. Chain(Compilers(s), OldLoops(s), NewLoops(s), 0, cm.loops)
  BY DEF LoopsOK
<1>7. CASE a.at = "compile"
  <2>1. n \in Compilers(s)
    BY <1>1, <1>7 DEF Compilers, Alike
  <2>2. IsTop(Compilers(s), n)
    BY <1>1, <1>2, <2>1 DEF IsTop
  <2>3. NewLoops(t)[n] = cm2.loops
    <3>1. n \in DOMAIN t /\ cm2.loops = OpenLoops(a.blocks)
      BY <1>1, <1>7
    <3> QED
      BY <1>1, <3>1 DEF NewLoops
  <2>4. Chain(Compilers(s), OldLoops(t), NewLoops(t), 0, NewLoops(t)[n])
    BY <1>2, <1>4, <1>5, <1>6, <2>2, ChainTop
  <2> QED
    BY <1>1, <2>3, <2>4 DEF LoopsOK
<1>8. CASE a.at # "compile"
  <2>1. n \notin Compilers(s)
    BY <1>1, <1>8 DEF Compilers, Alike
  <2>2. \A i \in Compilers(s) : NewLoops(t)[i] = NewLoops(s)[i]
    BY <1>5, <2>1
  <2>3. Chain(Compilers(s), OldLoops(t), NewLoops(t), 0, cm.loops)
    BY <1>2, <1>4, <1>6, <2>2, ChainSame
  <2>4. cm2.loops = cm.loops
    BY <1>8
  <2> QED
    BY <1>1, <2>3, <2>4 DEF LoopsOK
<1> QED
  BY <1>7, <1>8

(* The last activity goes on: what has to be shown of that.                *)
LEMMA GoodTop ==
    ASSUME NEW cm, NEW p, NEW acts, NEW run, NEW mode, NEW w, NEW s, NEW n, NEW len,
           GoodAt(cm, p, acts, run, mode, w, s, n, len), s # <<>>,
           NEW a \in ActivityType, Alike(a, s[n]), Owns(a),
           NEW t, Retop(t, s, n, a), NEW acts2, acts2 = Turned(acts, run, t),
           NEW cm2, CompilerTyped(cm2, len), cm2.cxt = cm.cxt,
           NEW x, x = a.cxt, NEW y \in ProgramType, y.unit = p[x].unit,
           y.transactions = p[x].transactions, StatementsOK(y, x),
           NEW p2, IsEdit(p2, p, x, y), NEW w2, IsWork(w2), Later(w2, w),
           NEW mode2, ScopesOK(cm2, t, mode2), LoopsOK(cm2, t), PoolOK(cm2, p2, s),
           RunOK(y, a), CompileOK(a, w2)
    PROVE  GoodAt(cm2, p2, acts2, run, mode2, w2, t, n, len)
<1>1. /\ HasStack(acts, run, s, n) /\ SizeIs(p, len)
      /\ CompilerTyped(cm, len) /\ ContextsTyped(p, len)
      /\ OwnersOK(acts, run, len) /\ NestOK(s) /\ BindingOK(cm, s)
      /\ ContextsOK(p, s) /\ ActivitiesOK(p, acts, w)
  BY DEF GoodAt
<1>2. /\ IsStack(s, n) /\ run \in Runners /\ acts[run] = s
      /\ acts \in [Runners -> Seq(ActivityType)]
  BY <1>1, StackIs
<1>3. /\ s \in Seq(ActivityType) /\ t \in Seq(ActivityType) /\ Len(t) = Len(s)
      /\ \A i \in DOMAIN s : Alike(t[i], s[i])
  BY <1>2, TopIs
<1>4. /\ IsStack(t, n) /\ DOMAIN t = 1 .. n /\ DOMAIN s = 1 .. n /\ n \in Nat /\ n >= 1
      /\ \A i \in DOMAIN t : Alike(t[i], s[i])
  BY <1>2, TopIs
<1>5. NestOK(t) /\ BindingOK(cm, t) /\ ContextsOK(p, t)
  BY <1>1, <1>3, AlikeKeeps
<1>6. PoolOK(cm2, p2, t)
  BY <1>3, AlikeKeeps
<1>7. OwnersOK(acts2, run, len)
  <2>1. Len(t) = Len(acts[run]) /\ \A i \in DOMAIN t : Alike(t[i], acts[run][i])
    BY <1>2, <1>3, <1>4
  <2> QED
    BY <1>1, <1>2, <1>3, <2>1, AlikeOwners
<1>8. HasStack(acts2, run, t, n)
  BY <1>1, <1>4, TurnedIs
<1>9. x \in 1 .. len
  <2>1. s[n].cxt \in 1 .. len
    BY <1>1, PopFacts
  <2> QED
    BY <2>1 DEF Alike
<1>10. SizeIs(p2, len) /\ ContextsTyped(p2, len) /\ Others(p2, p, x, len) /\ p2[x] = y
  BY <1>1, <1>9, Edited
<1>11. ContextsOK(p2, t)
  BY <1>1, <1>5, <1>10, ContextsEdit
<1>12. BindingOK(cm2, t)
  BY <1>5 DEF BindingOK
<1>13. ActivitiesOK(p2, acts2, w2)
  <2>1. Owns(s[n]) /\ x = s[n].cxt
    BY DEF Owns, Alike
  <2>2. KeepsOtherRuns(p2, p, acts, run, n)
    BY <1>1, <1>10, <2>1, OtherRunsKept
  <2>3. RunOK(p2[a.cxt], a)
    BY <1>10
  <2> QED
    BY <1>1, <2>2, <2>3, ActivitiesTop
<1> QED
  BY <1>5, <1>6, <1>7, <1>8, <1>10, <1>11, <1>12, <1>13 DEF GoodAt

(* The same without a change to a context.                                 *)
LEMMA GoodTopOnly ==
    ASSUME NEW cm, NEW p, NEW acts, NEW run, NEW mode, NEW w, NEW s, NEW n, NEW len,
           GoodAt(cm, p, acts, run, mode, w, s, n, len), s # <<>>,
           NEW a \in ActivityType, Alike(a, s[n]), Owns(a),
           NEW t, Retop(t, s, n, a), NEW acts2, acts2 = Turned(acts, run, t),
           NEW cm2, CompilerTyped(cm2, len), cm2.cxt = cm.cxt, SamePool(cm2, cm),
           NEW w2, IsWork(w2), Later(w2, w),
           NEW mode2, ScopesOK(cm2, t, mode2), LoopsOK(cm2, t),
           a.at = "compile", CompileOK(a, w2)
    PROVE  GoodAt(cm2, p, acts2, run, mode2, w2, t, n, len)
<1>1. /\ HasStack(acts, run, s, n) /\ SizeIs(p, len) /\ ContextsTyped(p, len)
      /\ OwnersOK(acts, run, len) /\ NestOK(s) /\ ContextsOK(p, s) /\ PoolOK(cm, p, s)
  BY DEF GoodAt
<1>2. PICK x : x = a.cxt
  OBVIOUS
<1>3. x \in 1 .. len
  <2>1. s[n].cxt \in 1 .. len
    BY <1>1, PopFacts
  <2> QED
    BY <1>2, <2>1 DEF Alike
<1>4. p \in Seq(ProgramType) /\ len = Len(p) /\ DOMAIN p = 1 .. len
  BY <1>1 DEF ContextsTyped, SizeIs
<1>5. PICK y \in ProgramType : y = p[x]
  BY <1>3, <1>4
<1>6. StatementsOK(y, x)
  BY <1>1, <1>3, <1>4, <1>5 DEF ContextsOK
<1>7. IsEdit(p, p, x, y)
  BY <1>3, <1>4, <1>5 DEF IsEdit
<1>8. PoolOK(cm2, p, s)
  <2>1. cm2.pool = cm.pool
    BY DEF SamePool
  <2> QED
    BY <1>1, <2>1 DEF PoolOK
<1>9. RunOK(y, a)
  BY DEF RunOK
<1> QED
  BY <1>2, <1>5, <1>6, <1>7, <1>8, <1>9, GoodTop

(* Nothing is expected of a scope when no compile() is innermost, or when  *)
(* it is given up.                                                         *)
LEMMA GoodMode ==
    ASSUME NEW cm, NEW p, NEW acts, NEW run, NEW mode, NEW w, NEW s, NEW n, NEW len,
           GoodAt(cm, p, acts, run, mode, w, s, n, len), NEW mode2,
           mode2 = "any" \/ s = <<>> \/ s[n].at # "compile"
    PROVE  GoodAt(cm, p, acts, run, mode2, w, s, n, len)
<1>1. HasStack(acts, run, s, n) /\ ScopesOK(cm, s, mode)
  BY DEF GoodAt
<1>2. IsStack(s, n) /\ s \in Seq(ActivityType)
  BY <1>1, StackIs
<1>3. ScopesOK(cm, s, mode2)
  <2>1. CASE s = <<>> \/ s[n].at # "compile"
    BY <1>1, <1>2, <2>1, ScopesOther DEF IsStack
  <2>2. CASE mode2 = "any"
    <3>1. PICK g \in [1 .. Len(cm.scopes) -> Compilers(s)] : Fits(g, cm.scopes, s, mode)
      BY <1>1 DEF ScopesOK
    <3>2. Fits(g, cm.scopes, s, mode2)
      BY <2>2, <3>1 DEF Fits, ScopeOK
    <3> QED
      BY <3>2 DEF ScopesOK
  <2> QED
    BY <2>1, <2>2
<1> QED
  BY <1>3 DEF GoodAt

HasScopes(cm, m) == m = Len(cm.scopes)

(* The compiler serves the innermost compile().                            *)
LEMMA Served ==
    ASSUME NEW cm, NEW p, NEW acts, NEW run, NEW mode, NEW w, NEW s, NEW n, NEW len,
           GoodAt(cm, p, acts, run, mode, w, s, n, len), s # <<>>,
           NEW f, f = s[n], f.at = "compile", NEW m, HasScopes(cm, m)
    PROVE  /\ f \in ActivityType /\ f.cxt \in 1 .. len
           /\ cm.cxt = f.cxt /\ cm.loops = OpenLoops(f.blocks)
           /\ cm.scopes \in Seq(ScopeType) /\ m \in Nat /\ m >= 1
           /\ mode = "full" => AllOf(f, cm.scopes[m])
           /\ mode = "short" => AllButOne(f, cm.scopes[m])
           /\ p[f.cxt] \in ProgramType /\ p[f.cxt].unit = Unit(f.cxt, "program")
           /\ StatementsOK(p[f.cxt], f.cxt)
           /\ CompileOK(f, w)
<1>1. /\ HasStack(acts, run, s, n) /\ SizeIs(p, len) /\ CompilerTyped(cm, len)
      /\ ContextsTyped(p, len) /\ OwnersOK(acts, run, len) /\ NestOK(s)
      /\ BindingOK(cm, s) /\ LoopsOK(cm, s) /\ ScopesOK(cm, s, mode) /\ ContextsOK(p, s)
      /\ ActivitiesOK(p, acts, w)
  BY DEF GoodAt
<1>2. /\ IsStack(s, n) /\ run \in Runners /\ acts[run] = s
      /\ s \in Seq(ActivityType)
  BY <1>1, StackIs
<1>3. /\ n \in Nat /\ n >= 1 /\ n \in DOMAIN s /\ DOMAIN s = 1 .. n
      /\ f \in ActivityType /\ f.cxt \in 1 .. len /\ n \in Compilers(s)
  BY <1>1, PopFacts
<1>4. /\ n \in Binders(s) /\ n \in BindersOf(s, f.cxt)
  BY <1>3 DEF Binders, BindersOf
<1>5. /\ IsTop(Compilers(s), n) /\ IsTop(Binders(s), n) /\ IsTop(BindersOf(s, f.cxt), n)
  BY <1>3, <1>4 DEF IsTop, Compilers, Binders, BindersOf
<1>6. cm.cxt = f.cxt
  <2>1. cm.cxt = CxtsOf(s)[n]
    BY <1>1, <1>5, ChainNow DEF BindingOK
  <2> QED
    BY <1>3, <2>1 DEF CxtsOf
<1>7. cm.loops = OpenLoops(f.blocks)
  <2>1. cm.loops = NewLoops(s)[n]
    BY <1>1, <1>5, ChainNow DEF LoopsOK
  <2> QED
    BY <1>3, <2>1 DEF NewLoops
<1>8. PICK c : c = f.cxt
  OBVIOUS
<1>9. /\ p[c] \in ProgramType /\ StatementsOK(p[c], c) /\ UnitOK(p, s, c)
  <2>1. p \in Seq(ProgramType) /\ len = Len(p) /\ DOMAIN p = 1 .. len
    BY <1>1 DEF ContextsTyped, SizeIs
  <2> QED
    BY <1>1, <1>3, <1>8, <2>1 DEF ContextsOK
<1>10. p[c].unit = Unit(c, "program")
  <2>1. p[c].unit = NewUnits(s)[n]
    BY <1>5, <1>8, <1>9, ChainNow DEF UnitOK
  <2>2. NewUnits(s)[n] = Arena(f)
    BY <1>3 DEF NewUnits
  <2> QED
    BY <1>8, <2>1, <2>2 DEF Arena
<1>11. cm.scopes \in Seq(ScopeType) /\ m \in Nat /\ m = Len(cm.scopes)
  BY <1>1, CompilerIs DEF HasScopes
<1>12. /\ m >= 1 /\ ScopeOK(s, n, mode, cm.scopes[m])
  <2>1. PICK g \in [1 .. Len(cm.scopes) -> Compilers(s)] : Fits(g, cm.scopes, s, mode)
    BY <1>1 DEF ScopesOK
  <2> QED
    BY <1>2, <1>11, <2>1, TopScope
<1>13. /\ mode = "full" => AllOf(f, cm.scopes[m])
       /\ mode = "short" => AllButOne(f, cm.scopes[m])
  BY <1>2, <1>12 DEF ScopeOK, IsStack
<1>14. CompileOK(f, w)
  BY <1>1, <1>2, <1>3 DEF ActivitiesOK
<1> QED
  BY <1>3, <1>6, <1>7, <1>8, <1>9, <1>10, <1>11, <1>12, <1>13, <1>14

(* What a scope has to hold, once its compile() has moved on.              *)
Suits(a, scope, mode) ==
    \/ mode = "full" /\ AllOf(a, scope)
    \/ mode = "short" /\ AllButOne(a, scope)
Stacked(cm2, cm, m, scope) ==
    /\ Len(cm2.scopes) = m /\ cm2.scopes[m] = scope
    /\ \A k \in 1 .. m - 1 : cm2.scopes[k] = cm.scopes[k]

LEMMA ScopesMoved ==
    ASSUME NEW s, NEW n, IsStack(s, n), s # <<>>, NEW a \in ActivityType, Alike(a, s[n]),
           a.at = "compile", NEW t, Retop(t, s, n, a), NEW cm, NEW m, HasScopes(cm, m),
           cm.scopes \in Seq(ScopeType), NEW mode, ScopesOK(cm, s, mode),
           NEW cm2, NEW scope, Stacked(cm2, cm, m, scope), NEW mode2, Suits(a, scope, mode2)
    PROVE  ScopesOK(cm2, t, mode2)
<1>1. /\ n \in Nat /\ t \in Seq(ActivityType) /\ Len(t) = n
      /\ t[n] = a /\ \A i \in 1 .. n - 1 : t[i] = s[i]
      /\ Compilers(t) = Compilers(s)
  BY TopIs
<1>2. s[n].at = "compile"
  BY DEF Alike
<1>3. Len(cm2.scopes) = Len(cm.scopes)
      /\ \A k \in 1 .. Len(cm.scopes) - 1 : cm2.scopes[k] = cm.scopes[k]
  BY DEF Stacked, HasScopes
<1>4. ScopeOK(t, n, mode2, cm2.scopes[Len(cm.scopes)])
  <2>1. ~ n < Len(t) /\ cm2.scopes[Len(cm.scopes)] = scope
    BY <1>1 DEF Stacked, HasScopes
  <2> QED
    BY <1>1, <2>1 DEF ScopeOK, Suits
<1> QED
  BY <1>1, <1>2, <1>3, <1>4, ScopesTop

(* A line is read: it opens a block, or waits for a result.                *)
LineOpens(a, f, isLoop) == a = [f EXCEPT !.line = @ + 1, !.blocks = Append(@, isLoop)]
LineWaits(a, f, unit) ==
    a = [f EXCEPT !.line = @ + 1, !.waiting = Append(@, [line |-> f.line, unit |-> unit])]
BlockCloses(a, f) == a = [f EXCEPT !.blocks = Front(@)]
LoopsMove(cm2, cm, loops) == cm2 = [cm EXCEPT !.loops = loops]

LEMMA LoopsMoved ==
    ASSUME NEW cm, NEW len, CompilerTyped(cm, len), NEW loops \in Int,
           NEW cm2, LoopsMove(cm2, cm, loops)
    PROVE  /\ CompilerTyped(cm2, len) /\ cm2.cxt = cm.cxt /\ SamePool(cm2, cm)
           /\ cm2.scopes = cm.scopes /\ cm2.loops = loops
BY DEF CompilerTyped, LoopsMove, SamePool, CompilerType

LEMMA LineOpened ==
    ASSUME NEW f \in ActivityType, NEW isLoop \in BOOLEAN, NEW a, LineOpens(a, f, isLoop)
    PROVE  /\ a \in ActivityType /\ Alike(a, f) /\ a.waiting = f.waiting
           /\ a.line = f.line + 1 /\ a.blocks = Append(f.blocks, isLoop)
           /\ f.line \in Nat /\ f.blocks \in Seq(BOOLEAN)
<1>1. f.line + 1 \in Nat /\ Append(f.blocks, isLoop) \in Seq(BOOLEAN)
      /\ f.line \in Nat /\ f.blocks \in Seq(BOOLEAN)
  BY DEF ActivityType
<1>2. PICK l \in Nat, b \in Seq(BOOLEAN) : l = f.line + 1 /\ b = Append(f.blocks, isLoop)
  BY <1>1
<1>3. a = [f EXCEPT !.line = l, !.blocks = b]
  BY <1>2 DEF LineOpens
<1>4. a \in ActivityType /\ Alike(a, f) /\ a.waiting = f.waiting /\ a.line = l /\ a.blocks = b
  BY ONLY f \in ActivityType, l \in Nat, b \in Seq(BOOLEAN), <1>3 DEF ActivityType, Alike
<1> QED
  BY <1>1, <1>2, <1>4

LEMMA BlockClosed ==
    ASSUME NEW f \in ActivityType, f.blocks # <<>>, NEW a, BlockCloses(a, f)
    PROVE  /\ a \in ActivityType /\ Alike(a, f) /\ a.waiting = f.waiting
           /\ a.line = f.line /\ a.blocks = Front(f.blocks) /\ f.blocks \in Seq(BOOLEAN)
<1>1. f.blocks \in Seq(BOOLEAN)
  BY DEF ActivityType
<1>2. Front(f.blocks) \in Seq(BOOLEAN)
  BY <1>1, FrontSeq
<1>3. PICK b \in Seq(BOOLEAN) : b = Front(f.blocks)
  BY <1>2
<1>4. a = [f EXCEPT !.blocks = b]
  BY <1>3 DEF BlockCloses
<1>5. a \in ActivityType /\ Alike(a, f) /\ a.waiting = f.waiting /\ a.line = f.line
      /\ a.blocks = b
  BY ONLY f \in ActivityType, b \in Seq(BOOLEAN), <1>4 DEF ActivityType, Alike
<1> QED
  BY <1>1, <1>3, <1>5

LEMMA LineWaited ==
    ASSUME NEW f \in ActivityType, f.line \in LineNumbers, NEW unit \in Units,
           NEW a, LineWaits(a, f, unit)
    PROVE  /\ a \in ActivityType /\ Alike(a, f) /\ a.blocks = f.blocks
           /\ a.line = f.line + 1 /\ f.line \in Nat /\ Len(f.waiting) \in Nat
           /\ Len(a.waiting) = Len(f.waiting) + 1 /\ a.waiting # <<>>
           /\ a.waiting[Len(a.waiting)] = [line |-> f.line, unit |-> unit]
           /\ \A i \in 1 .. Len(f.waiting) : a.waiting[i] = f.waiting[i]
<1> DEFINE W == [line : LineNumbers, unit : Units]
<1>1. f.line \in Nat /\ f.waiting \in Seq(W)
  BY DEF ActivityType
<1>2. PICK x \in W : x = [line |-> f.line, unit |-> unit]
  OBVIOUS
<1>3. PICK k \in Nat : k = Len(f.waiting)
  BY <1>1
<1>4. PICK v : v = Append(f.waiting, x)
  OBVIOUS
<1>5. /\ v \in Seq(W) /\ Len(v) = k + 1 /\ v # <<>> /\ v[k + 1] = x
      /\ \A i \in 1 .. k : v[i] = f.waiting[i]
  BY <1>1, <1>3, <1>4, AppendedSeq
<1>6. PICK l \in Nat : l = f.line + 1
  BY <1>1
<1>7. a = [f EXCEPT !.line = l, !.waiting = v]
  BY <1>2, <1>4, <1>6 DEF LineWaits
<1>8. a \in ActivityType /\ Alike(a, f) /\ a.blocks = f.blocks /\ a.line = l /\ a.waiting = v
  <2>1. v \in Seq([line : LineNumbers, unit : Units])
    BY <1>5
  <2> QED
    BY ONLY f \in ActivityType, l \in Nat, <2>1, <1>7 DEF ActivityType, Alike
<1> QED
  BY <1>1, <1>2, <1>3, <1>5, <1>6, <1>8

Worked(w2, w) == IsWork(w) /\ IsWork(w2) /\ w2 = w + 1

LEMMA WorkedIs ==
    ASSUME NEW w, NEW w2, Worked(w2, w)
    PROVE  /\ Later(w2, w) /\ Later(w, w) /\ IsWork(w2)
           /\ \A l \in 1 .. w + 1 : l \in LineNumbers /\ l + 1 \in 1 .. w2 + 1
                                    /\ l \in 1 .. w2 + 1
<1>1. MaxWork \in Nat
  BY CompileAssumption
<1>2. w \in 0 .. MaxWork /\ w2 \in 0 .. MaxWork /\ w2 = w + 1
  BY DEF Worked, IsWork
<1> QED
  BY <1>1, <1>2 DEF Later, IsWork, LineNumbers

LEMMA GoodOpen ==
    ASSUME NEW cm, NEW p, NEW acts, NEW run, NEW w, NEW s, NEW n, NEW len,
           GoodAt(cm, p, acts, run, "full", w, s, n, len), s # <<>>,
           NEW f, f = s[n], f.at = "compile", NEW isLoop \in BOOLEAN,
           NEW a, LineOpens(a, f, isLoop), NEW t, Retop(t, s, n, a),
           NEW acts2, acts2 = Turned(acts, run, t),
           NEW cm2, LoopsMove(cm2, cm, cm.loops + Opens(isLoop)), NEW w2, Worked(w2, w)
    PROVE  GoodAt(cm2, p, acts2, run, "full", w2, t, n, len)
<1>1. /\ HasStack(acts, run, s, n) /\ CompilerTyped(cm, len)
      /\ LoopsOK(cm, s) /\ ScopesOK(cm, s, "full")
  BY DEF GoodAt
<1>2. IsStack(s, n)
  BY <1>1, StackIs
<1>3. PICK m : HasScopes(cm, m)
  BY DEF HasScopes
<1>4. /\ f \in ActivityType /\ cm.loops = OpenLoops(f.blocks)
      /\ cm.scopes \in Seq(ScopeType) /\ m \in Nat /\ m >= 1
      /\ AllOf(f, cm.scopes[m]) /\ CompileOK(f, w)
  BY <1>3, Served
<1>5. /\ a \in ActivityType /\ Alike(a, f) /\ a.waiting = f.waiting
      /\ a.line = f.line + 1 /\ a.blocks = Append(f.blocks, isLoop)
      /\ f.blocks \in Seq(BOOLEAN)
  BY <1>4, LineOpened
<1>6. a.at = "compile" /\ Owns(a) /\ Alike(a, s[n])
  BY <1>5 DEF Alike, Owns
<1>7. cm.loops + Opens(isLoop) = OpenLoops(a.blocks) /\ cm.loops + Opens(isLoop) \in Int
  <2>1. OpenLoops(f.blocks) \in Nat
        /\ OpenLoops(Append(f.blocks, isLoop)) = OpenLoops(f.blocks) + Opens(isLoop)
    BY <1>5, OpenLoopsAre
  <2>2. Opens(isLoop) \in Nat
    BY DEF Opens
  <2> QED
    BY <1>4, <1>5, <2>1, <2>2
<1>8. /\ CompilerTyped(cm2, len) /\ cm2.cxt = cm.cxt /\ SamePool(cm2, cm)
      /\ cm2.scopes = cm.scopes /\ cm2.loops = OpenLoops(a.blocks)
  BY <1>1, <1>7, LoopsMoved
<1>9. LoopsOK(cm2, t)
  BY <1>1, <1>2, <1>5, <1>6, <1>8, LoopsTop
<1>10. ScopesOK(cm2, t, "full")
  <2>1. Stacked(cm2, cm, m, cm.scopes[m])
    BY <1>3, <1>8 DEF Stacked, HasScopes
  <2>2. Suits(a, cm.scopes[m], "full")
    <3>1. \A k : ResultsOf(a, k) = ResultsOf(f, k)
      BY <1>5 DEF ResultsOf, Alike
    <3> QED
      BY <1>4, <1>5, <3>1 DEF AllOf, Suits
  <2> QED
    BY <1>1, <1>2, <1>3, <1>4, <1>5, <1>6, <2>1, <2>2, ScopesMoved
<1>11. CompileOK(a, w2)
  <2>1. f.line \in 1 .. w + 1 /\ f.names = {}
        /\ \A k \in DOMAIN f.waiting : f.waiting[k].unit = Unit(f.cxt, "program")
    BY <1>4 DEF CompileOK
  <2>2. a.line \in 1 .. w2 + 1
    BY <1>5, <2>1, WorkedIs
  <2> QED
    BY <1>5, <2>1, <2>2 DEF CompileOK, Alike
<1>12. IsWork(w2) /\ Later(w2, w)
  BY WorkedIs
<1> QED
  BY <1>5, <1>6, <1>8, <1>9, <1>10, <1>11, <1>12, GoodTopOnly

LEMMA GoodClose ==
    ASSUME NEW cm, NEW p, NEW acts, NEW run, NEW w, NEW s, NEW n, NEW len,
           GoodAt(cm, p, acts, run, "full", w, s, n, len), s # <<>>,
           NEW f, f = s[n], f.at = "compile", f.blocks # <<>>,
           NEW a, BlockCloses(a, f), NEW t, Retop(t, s, n, a),
           NEW acts2, acts2 = Turned(acts, run, t),
           NEW cm2, LoopsMove(cm2, cm, cm.loops - Opens(Last(f.blocks)))
    PROVE  GoodAt(cm2, p, acts2, run, "full", w, t, n, len)
<1>1. /\ HasStack(acts, run, s, n) /\ CompilerTyped(cm, len) /\ IsWork(w)
      /\ LoopsOK(cm, s) /\ ScopesOK(cm, s, "full")
  BY DEF GoodAt
<1>2. IsStack(s, n)
  BY <1>1, StackIs
<1>3. PICK m : HasScopes(cm, m)
  BY DEF HasScopes
<1>4. /\ f \in ActivityType /\ cm.loops = OpenLoops(f.blocks)
      /\ cm.scopes \in Seq(ScopeType) /\ m \in Nat /\ m >= 1
      /\ AllOf(f, cm.scopes[m]) /\ CompileOK(f, w)
  BY <1>3, Served
<1>5. /\ a \in ActivityType /\ Alike(a, f) /\ a.waiting = f.waiting
      /\ a.line = f.line /\ a.blocks = Front(f.blocks) /\ f.blocks \in Seq(BOOLEAN)
  BY <1>4, BlockClosed
<1>6. a.at = "compile" /\ Owns(a) /\ Alike(a, s[n])
  BY <1>5 DEF Alike, Owns
<1>7. /\ cm.loops - Opens(Last(f.blocks)) = OpenLoops(a.blocks)
      /\ cm.loops - Opens(Last(f.blocks)) \in Int
  <2>1. OpenLoops(f.blocks) \in Nat
        /\ OpenLoops(Front(f.blocks)) = OpenLoops(f.blocks) - Opens(Last(f.blocks))
    BY <1>5, OpenLoopsAre, OpenLoopsOfFront
  <2>2. Opens(Last(f.blocks)) \in Nat
    BY DEF Opens
  <2> QED
    BY <1>4, <1>5, <2>1, <2>2
<1>8. /\ CompilerTyped(cm2, len) /\ cm2.cxt = cm.cxt /\ SamePool(cm2, cm)
      /\ cm2.scopes = cm.scopes /\ cm2.loops = OpenLoops(a.blocks)
  BY <1>1, <1>7, LoopsMoved
<1>9. LoopsOK(cm2, t)
  BY <1>1, <1>2, <1>5, <1>6, <1>8, LoopsTop
<1>10. ScopesOK(cm2, t, "full")
  <2>1. Stacked(cm2, cm, m, cm.scopes[m])
    BY <1>3, <1>8 DEF Stacked, HasScopes
  <2>2. Suits(a, cm.scopes[m], "full")
    <3>1. \A k : ResultsOf(a, k) = ResultsOf(f, k)
      BY <1>5 DEF ResultsOf, Alike
    <3> QED
      BY <1>4, <1>5, <3>1 DEF AllOf, Suits
  <2> QED
    BY <1>1, <1>2, <1>3, <1>4, <1>5, <1>6, <2>1, <2>2, ScopesMoved
<1>11. CompileOK(a, w)
  BY <1>4, <1>5 DEF CompileOK, Alike
<1>12. Later(w, w)
  <2>1. MaxWork \in Nat
    BY CompileAssumption
  <2> QED
    BY <1>1, <2>1 DEF IsWork, Later
<1> QED
  BY <1>1, <1>5, <1>6, <1>8, <1>9, <1>10, <1>11, <1>12, GoodTopOnly

LEMMA GoodWait ==
    ASSUME NEW cm, NEW p, NEW acts, NEW run, NEW w, NEW s, NEW n, NEW len,
           GoodAt(cm, p, acts, run, "full", w, s, n, len), s # <<>>,
           NEW f, f = s[n], f.at = "compile",
           NEW a, LineWaits(a, f, Unit(f.cxt, "program")), NEW t, Retop(t, s, n, a),
           NEW acts2, acts2 = Turned(acts, run, t), NEW w2, Worked(w2, w)
    PROVE  GoodAt(cm, p, acts2, run, "short", w2, t, n, len)
<1>1. /\ HasStack(acts, run, s, n) /\ CompilerTyped(cm, len)
      /\ LoopsOK(cm, s) /\ ScopesOK(cm, s, "full")
  BY DEF GoodAt
<1>2. IsStack(s, n)
  BY <1>1, StackIs
<1>3. PICK m : HasScopes(cm, m)
  BY DEF HasScopes
<1>4. /\ f \in ActivityType /\ cm.loops = OpenLoops(f.blocks)
      /\ cm.scopes \in Seq(ScopeType) /\ m \in Nat /\ m >= 1
      /\ AllOf(f, cm.scopes[m]) /\ CompileOK(f, w)
  BY <1>3, Served
<1>5. f.line \in 1 .. w + 1 /\ f.names = {}
      /\ \A k \in DOMAIN f.waiting : f.waiting[k].unit = Unit(f.cxt, "program")
  BY <1>4 DEF CompileOK
<1>6. f.line \in LineNumbers /\ f.line + 1 \in 1 .. w2 + 1
  BY <1>5, WorkedIs
<1>7. PICK unit : unit = Unit(f.cxt, "program")
  OBVIOUS
<1>8. unit \in Units
  BY <1>4, <1>7 DEF ActivityType, Units, Unit
<1>9. /\ a \in ActivityType /\ Alike(a, f) /\ a.blocks = f.blocks
      /\ a.line = f.line + 1 /\ Len(f.waiting) \in Nat
      /\ Len(a.waiting) = Len(f.waiting) + 1 /\ a.waiting # <<>>
      /\ a.waiting[Len(a.waiting)] = [line |-> f.line, unit |-> unit]
      /\ \A i \in 1 .. Len(f.waiting) : a.waiting[i] = f.waiting[i]
  BY <1>4, <1>6, <1>7, <1>8, LineWaited
<1>10. a.at = "compile" /\ Owns(a) /\ Alike(a, s[n])
  BY <1>9 DEF Alike, Owns
<1>11. LoopsOK(cm, t)
  <2>1. cm.loops = OpenLoops(a.blocks)
    BY <1>4, <1>9
  <2> QED
    BY <1>1, <1>2, <1>9, <1>10, <2>1, LoopsTop
<1>12. ScopesOK(cm, t, "short")
  <2>1. Stacked(cm, cm, m, cm.scopes[m])
    BY <1>3 DEF Stacked, HasScopes
  <2>2. Suits(a, cm.scopes[m], "short")
    <3>1. PICK k \in Nat : k = Len(f.waiting) /\ Len(a.waiting) = k + 1
      BY <1>9
    <3>2. ResultsOf(a, k) = ResultsOf(f, k)
      BY <1>9, <3>1 DEF ResultsOf, Alike
    <3>3. Len(a.waiting) >= 1 /\ Len(a.waiting) - 1 = k
      BY <3>1
    <3>4. cm.scopes[m] = ResultsOf(f, k)
      BY <1>4, <3>1 DEF AllOf
    <3> QED
      BY <3>2, <3>3, <3>4 DEF AllButOne, Suits
  <2> QED
    BY <1>1, <1>2, <1>3, <1>4, <1>9, <1>10, <2>1, <2>2, ScopesMoved
<1>13. CompileOK(a, w2)
  <2>1. PICK k \in Nat : k = Len(f.waiting) /\ Len(a.waiting) = k + 1
    BY <1>9
  <2>2. /\ DOMAIN f.waiting = 1 .. k /\ DOMAIN a.waiting = 1 .. k + 1
    BY <1>4, <1>9, <2>1 DEF ActivityType
  <2>3. \A i \in 1 .. k + 1 : i = k + 1 \/ i \in 1 .. k
    BY <2>1
  <2>4. \A i \in DOMAIN a.waiting : a.waiting[i].unit = Unit(a.cxt, "program")
    BY <1>5, <1>7, <1>9, <2>1, <2>2, <2>3 DEF Alike
  <2> QED
    BY <1>5, <1>6, <1>9, <2>4 DEF CompileOK, Alike
<1>14. IsWork(w2) /\ Later(w2, w) /\ cm.cxt = cm.cxt /\ SamePool(cm, cm)
  BY WorkedIs DEF SamePool
<1> QED
  BY <1>1, <1>9, <1>10, <1>11, <1>12, <1>13, <1>14, GoodTopOnly

(* A result arrives for the line that waits.                               *)
ResultFor(f) == [cxt |-> f.cxt, line |-> WaitsFor(f)]
Delivers(cm2, cm, f, isImport) ==
    cm2 = [cm EXCEPT !.scopes = Pushed(@, ResultFor(f)),
                     !.pool = IF isImport THEN Append(@, ResultFor(f)) ELSE @]
Defines(p2, p, f, isImport) ==
    IsEdit(p2, p, f.cxt, [p[f.cxt] EXCEPT !.names = @ \cup {WaitsFor(f)},
                                 !.constants = @ \cup {l \in {WaitsFor(f)} : isImport}])

LEMMA ResultsAppend ==
    ASSUME NEW f, NEW k \in Nat, NEW r, r = [cxt |-> f.cxt, line |-> f.waiting[k + 1].line]
    PROVE  Append(ResultsOf(f, k), r) = ResultsOf(f, k + 1)
<1>1. PICK a : a = ResultsOf(f, k)
  OBVIOUS
<1>2. PICK b : b = ResultsOf(f, k + 1)
  OBVIOUS
<1> DEFINE S == {[cxt |-> f.cxt, line |-> f.waiting[i].line] : i \in 1 .. k + 1}
<1>3. a \in Seq(S) /\ Len(a) = k /\ b \in Seq(S) /\ Len(b) = k + 1
  <2>1. \A i \in 1 .. k : i \in 1 .. k + 1
    OBVIOUS
  <2>2. a \in [1 .. k -> S] /\ DOMAIN a = 1 .. k
    BY <1>1, <2>1 DEF ResultsOf
  <2>3. b \in [1 .. k + 1 -> S] /\ DOMAIN b = 1 .. k + 1
    BY <1>2, <2>1 DEF ResultsOf
  <2> HIDE DEF S
  <2>4. k + 1 \in Nat
    OBVIOUS
  <2>5. a \in Seq(S) /\ Len(a) = k
    BY ONLY <2>2, k \in Nat
  <2>6. b \in Seq(S) /\ Len(b) = k + 1
    BY ONLY <2>3, <2>4
  <2> QED
    BY <2>5, <2>6
<1>4. \A i \in 1 .. k : a[i] = b[i]
  <2>1. \A i \in 1 .. k : i \in 1 .. k + 1
    OBVIOUS
  <2> QED
    BY <1>1, <1>2, <2>1 DEF ResultsOf
<1>5. b[k + 1] = r /\ r \in S
  <2>1. k + 1 \in 1 .. k + 1
    OBVIOUS
  <2> QED
    BY <1>2, <2>1 DEF ResultsOf
<1>6. PICK d : d = Append(a, r)
  OBVIOUS
<1>7. d \in Seq(S) /\ Len(d) = k + 1 /\ d[k + 1] = r /\ \A i \in 1 .. k : d[i] = a[i]
  <2> HIDE DEF S
  <2> QED
    BY <1>3, <1>5, <1>6, AppendedSeq
<1>8. \A i \in 1 .. k + 1 : d[i] = b[i]
  <2>1. \A i \in 1 .. k + 1 : i = k + 1 \/ i \in 1 .. k
    OBVIOUS
  <2> QED
    BY <1>4, <1>5, <1>7, <2>1
<1> HIDE DEF S
<1>9. d = b
  BY <1>3, <1>7, <1>8, SeqEqual
<1> QED
  BY <1>1, <1>2, <1>6, <1>9

LEMMA ResultIs ==
    ASSUME NEW f \in ActivityType, NEW scope, AllButOne(f, scope)
    PROVE  /\ WaitsFor(f) \in LineNumbers /\ ResultFor(f) \in Results
           /\ AllOf(f, Append(scope, ResultFor(f)))
<1> DEFINE W == [line : LineNumbers, unit : Units]
<1>1. f.waiting \in Seq(W) /\ f.cxt \in Cxts
  BY DEF ActivityType
<1>2. PICK k \in Nat : Len(f.waiting) = k + 1
  <2>1. Len(f.waiting) \in Nat /\ Len(f.waiting) >= 1
    BY <1>1 DEF AllButOne
  <2>2. Len(f.waiting) - 1 \in Nat /\ Len(f.waiting) = Len(f.waiting) - 1 + 1
    BY <2>1
  <2> QED
    BY <2>2
<1>3. Last(f.waiting) = f.waiting[k + 1] /\ f.waiting[k + 1] \in W
  <2>1. k + 1 \in DOMAIN f.waiting
    BY <1>1, <1>2
  <2>2. f.waiting[k + 1] \in W
    <3> HIDE DEF W
    <3> QED
      BY <1>1, <2>1
  <2>3. Last(f.waiting) = f.waiting[Len(f.waiting)]
    BY DEF Last
  <2> QED
    BY <1>2, <2>2, <2>3
<1>4. WaitsFor(f) = f.waiting[k + 1].line /\ WaitsFor(f) \in LineNumbers
  BY <1>3 DEF WaitsFor
<1>5. ResultFor(f) \in Results
  <2>1. MaxPrograms \in Nat /\ MaxWork \in Nat
    BY CompileAssumption
  <2>2. f.cxt \in 0 .. MaxPrograms /\ WaitsFor(f) \in 0 .. MaxWork
    BY <1>1, <1>4, <2>1 DEF Cxts, LineNumbers
  <2> QED
    BY <2>2 DEF ResultFor, Results
<1>6. scope = ResultsOf(f, k)
  <2>1. Len(f.waiting) - 1 = k
    BY <1>2
  <2> QED
    BY <2>1 DEF AllButOne
<1>7. Append(ResultsOf(f, k), ResultFor(f)) = ResultsOf(f, k + 1)
  BY <1>4, ResultsAppend DEF ResultFor
<1> QED
  BY <1>2, <1>4, <1>5, <1>6, <1>7 DEF AllOf

LEMMA Delivered2 ==
    ASSUME NEW cm, NEW len, CompilerTyped(cm, len), NEW m, HasScopes(cm, m), m >= 1,
           NEW f, ResultFor(f) \in Results, NEW isImport \in BOOLEAN,
           NEW cm2, Delivers(cm2, cm, f, isImport)
    PROVE  /\ CompilerTyped(cm2, len) /\ cm2.cxt = cm.cxt /\ cm2.loops = cm.loops
           /\ Stacked(cm2, cm, m, Append(cm.scopes[m], ResultFor(f)))
           /\ isImport => GrownPool(cm2, cm, ResultFor(f))
           /\ ~ isImport => SamePool(cm2, cm)
<1>1. /\ cm.cxt \in Cxts /\ cm.cxt <= len /\ cm.scopes \in Seq(ScopeType)
      /\ cm.pool \in Seq(Results) /\ cm.loops \in Int /\ cm \in CompilerType
  BY CompilerIs DEF CompilerTyped
<1>2. m = Len(cm.scopes) /\ m \in Nat
  BY <1>1 DEF HasScopes
<1>3. PICK r \in Results : r = ResultFor(f)
  OBVIOUS
<1>4. PICK h, z : h = Front(cm.scopes) /\ z = Append(cm.scopes[m], r)
  OBVIOUS
<1>5. cm.scopes # <<>>
  BY <1>1, <1>2
<1>6. /\ h \in Seq(ScopeType) /\ Len(h) = m - 1 /\ m - 1 \in Nat
      /\ \A i \in 1 .. m - 1 : h[i] = cm.scopes[i]
      /\ Last(cm.scopes) = cm.scopes[m] /\ cm.scopes[m] \in ScopeType
  <2>1. /\ Front(cm.scopes) \in Seq(ScopeType) /\ Len(Front(cm.scopes)) = m - 1
        /\ \A i \in 1 .. m - 1 : Front(cm.scopes)[i] = cm.scopes[i]
        /\ Last(cm.scopes) = cm.scopes[m] /\ Last(cm.scopes) \in ScopeType
    <3>1. PICK c \in Seq(ScopeType) : c = cm.scopes
      BY <1>1
    <3>2. c # <<>> /\ m = Len(c) /\ m \in Nat
      BY <1>2, <1>5, <3>1
    <3>3. /\ Front(c) \in Seq(ScopeType) /\ Len(Front(c)) = m - 1
          /\ \A i \in 1 .. m - 1 : Front(c)[i] = c[i]
          /\ Last(c) = c[m] /\ Last(c) \in ScopeType
      BY ONLY <3>2, c \in Seq(ScopeType), FrontSeq
    <3> QED
      BY <3>1, <3>3
  <2>2. m - 1 \in Nat
    BY <1>1, <1>2
  <2> QED
    BY <1>4, <2>1, <2>2
<1>7. z \in ScopeType
  BY <1>4, <1>6 DEF ScopeType
<1>8. PICK k \in Nat : k = m - 1
  BY <1>6
<1>9. PICK v : v = Append(h, z)
  OBVIOUS
<1>10. /\ v \in Seq(ScopeType) /\ Len(v) = k + 1 /\ v[k + 1] = z
       /\ \A i \in 1 .. k : v[i] = h[i]
  BY <1>6, <1>7, <1>8, <1>9, AppendedSeq
<1>11. v = Pushed(cm.scopes, r)
  BY <1>4, <1>5, <1>6, <1>9 DEF Pushed
<1>12. PICK q \in Seq(Results) : q = IF isImport THEN Append(cm.pool, r) ELSE cm.pool
  <2>1. Append(cm.pool, r) \in Seq(Results)
    BY <1>1
  <2> QED
    BY <1>1, <2>1
<1>13. cm2 = [cm EXCEPT !.scopes = v, !.pool = q]
  BY <1>3, <1>11, <1>12 DEF Delivers
<1>14. /\ cm2 \in CompilerType /\ cm2.cxt = cm.cxt /\ cm2.loops = cm.loops
       /\ cm2.scopes = v /\ cm2.pool = q
  BY ONLY <1>1, <1>10, <1>13, q \in Seq(Results) DEF CompilerType
<1>15. CompilerTyped(cm2, len)
  BY <1>1, <1>14 DEF CompilerTyped
<1>16. Stacked(cm2, cm, m, z)
  <2>1. k + 1 = m
    BY <1>2, <1>8
  <2>2. Len(v) = m /\ v[m] = z
    BY <1>10, <2>1
  <2>3. \A i \in 1 .. m - 1 : v[i] = cm.scopes[i]
    BY <1>6, <1>8, <1>10
  <2> QED
    BY <1>14, <2>2, <2>3 DEF Stacked
<1>17. isImport => GrownPool(cm2, cm, r)
  BY <1>1, <1>12, <1>14 DEF GrownPool
<1>18. ~ isImport => SamePool(cm2, cm)
  BY <1>12, <1>14 DEF SamePool
<1> QED
  BY <1>3, <1>4, <1>14, <1>15, <1>16, <1>17, <1>18

DefinedAs(y, z, l, isImport) ==
    y = [z EXCEPT !.names = @ \cup {l}, !.constants = @ \cup {k \in {l} : isImport}]

LEMMA DefinedIs ==
    ASSUME NEW z \in ProgramType, NEW c, StatementsOK(z, c), NEW l \in LineNumbers,
           NEW isImport \in BOOLEAN, NEW y, DefinedAs(y, z, l, isImport)
    PROVE  /\ y \in ProgramType /\ StatementsOK(y, c)
           /\ y.unit = z.unit /\ y.transactions = z.transactions
           /\ y.constants = z.constants \cup (IF isImport THEN {l} ELSE {})
<1>1. z.names \in SUBSET LineNumbers /\ z.constants \in SUBSET LineNumbers
  BY DEF ProgramType
<1>2. PICK nm \in SUBSET LineNumbers : nm = z.names \cup {l}
  BY <1>1
<1>3. PICK ks \in SUBSET LineNumbers : ks = z.constants \cup (IF isImport THEN {l} ELSE {})
  BY <1>1
<1>4. {k \in {l} : isImport} = IF isImport THEN {l} ELSE {}
  OBVIOUS
<1>5. y = [z EXCEPT !.names = nm, !.constants = ks]
  BY <1>2, <1>3, <1>4 DEF DefinedAs
<1>6. /\ y \in ProgramType /\ y.unit = z.unit /\ y.transactions = z.transactions
      /\ y.statements = z.statements /\ y.marked = z.marked /\ y.constants = ks
  BY ONLY z \in ProgramType, <1>5, nm \in SUBSET LineNumbers, ks \in SUBSET LineNumbers
     DEF ProgramType
<1>7. StatementsOK(y, c)
  <2>1. y.marked \subseteq y.constants
    BY <1>3, <1>6 DEF StatementsOK
  <2> QED
    BY <1>6, <2>1 DEF StatementsOK
<1> QED
  BY <1>3, <1>6, <1>7

LEMMA TurnedSame ==
    ASSUME NEW acts, NEW run, NEW s, NEW n, HasStack(acts, run, s, n)
    PROVE  acts = Turned(acts, run, s)
BY DEF HasStack, Turned

LEMMA RetopSame ==
    ASSUME NEW s, NEW n, IsStack(s, n), s # <<>>
    PROVE  Retop(s, s, n, s[n]) /\ Alike(s[n], s[n])
BY DEF IsStack, Retop, Alike

LEMMA GoodDeliver ==
    ASSUME NEW cm, NEW p, NEW acts, NEW run, NEW w, NEW s, NEW n, NEW len,
           GoodAt(cm, p, acts, run, "short", w, s, n, len), s # <<>>,
           NEW f, f = s[n], f.at = "compile", NEW isImport \in BOOLEAN,
           NEW cm2, Delivers(cm2, cm, f, isImport), NEW p2, Defines(p2, p, f, isImport)
    PROVE  GoodAt(cm2, p2, acts, run, "full", w, s, n, len)
<1>1. /\ HasStack(acts, run, s, n) /\ SizeIs(p, len) /\ CompilerTyped(cm, len) /\ IsWork(w)
      /\ OwnersOK(acts, run, len) /\ NestOK(s)
      /\ LoopsOK(cm, s) /\ ScopesOK(cm, s, "short") /\ PoolOK(cm, p, s)
      /\ ContextsTyped(p, len)
  BY DEF GoodAt
<1>2. IsStack(s, n)
  BY <1>1, StackIs
<1>3. PICK m : HasScopes(cm, m)
  BY DEF HasScopes
<1>4. /\ f \in ActivityType /\ f.cxt \in 1 .. len /\ cm.loops = OpenLoops(f.blocks)
      /\ cm.scopes \in Seq(ScopeType) /\ m \in Nat /\ m >= 1
      /\ AllButOne(f, cm.scopes[m]) /\ CompileOK(f, w)
      /\ p[f.cxt] \in ProgramType /\ StatementsOK(p[f.cxt], f.cxt)
  BY <1>3, Served
<1>5. /\ WaitsFor(f) \in LineNumbers /\ ResultFor(f) \in Results
      /\ AllOf(f, Append(cm.scopes[m], ResultFor(f)))
  BY <1>4, ResultIs
<1>6. /\ CompilerTyped(cm2, len) /\ cm2.cxt = cm.cxt /\ cm2.loops = cm.loops
      /\ Stacked(cm2, cm, m, Append(cm.scopes[m], ResultFor(f)))
      /\ isImport => GrownPool(cm2, cm, ResultFor(f))
      /\ ~ isImport => SamePool(cm2, cm)
  BY <1>1, <1>3, <1>4, <1>5, Delivered2
<1>7. PICK x, l : x = f.cxt /\ l = WaitsFor(f)
  OBVIOUS
<1>8. PICK y : y = [p[x] EXCEPT !.names = @ \cup {l},
                                 !.constants = @ \cup {k \in {l} : isImport}]
  OBVIOUS
<1>9. /\ y \in ProgramType /\ StatementsOK(y, x)
      /\ y.unit = p[x].unit /\ y.transactions = p[x].transactions
      /\ y.constants = p[x].constants \cup (IF isImport THEN {l} ELSE {})
  <2>1. p[x] \in ProgramType /\ StatementsOK(p[x], x) /\ l \in LineNumbers
    BY <1>4, <1>5, <1>7
  <2>2. PICK z \in ProgramType : z = p[x]
    BY <2>1
  <2>3. DefinedAs(y, z, l, isImport)
    BY <1>8, <2>2 DEF DefinedAs
  <2>4. StatementsOK(z, x)
    BY <2>1, <2>2
  <2>5. /\ y \in ProgramType /\ StatementsOK(y, x)
        /\ y.unit = z.unit /\ y.transactions = z.transactions
        /\ y.constants = z.constants \cup (IF isImport THEN {l} ELSE {})
    BY ONLY z \in ProgramType, <2>1, <2>3, <2>4, isImport \in BOOLEAN, DefinedIs
  <2> QED
    BY <2>2, <2>5
<1>10. IsEdit(p2, p, x, y)
  BY <1>7, <1>8 DEF Defines
<1>11. Others(p2, p, x, len) /\ p2[x] = y
  <2>1. x \in 1 .. len
    BY <1>4, <1>7
  <2> QED
    BY <1>1, <1>9, <1>10, <2>1, Edited
<1>12. /\ n \in Compilers(s) /\ \A i \in Compilers(s) : i # n => s[i].cxt < x
       /\ \A i \in Compilers(s) : s[i].cxt \in 1 .. len
  BY <1>1, <1>7, PopFacts DEF Compilers
<1>13. \A i \in Compilers(s) : i # n => p2[s[i].cxt] = p[s[i].cxt]
  <2>1. x \in Nat /\ \A i \in Compilers(s) : s[i].cxt \in Nat
    BY <1>4, <1>7, <1>12
  <2>2. \A i \in Compilers(s) : i # n => s[i].cxt # x
    BY <1>12, <2>1
  <2> QED
    BY <1>11, <1>12, <2>2 DEF Others
<1>14. s[n].cxt = x
  BY <1>7
<1>15. PoolOK(cm2, p2, s)
  <2>1. CASE isImport
    <3>1. OneConstantMore(p2, p, s, n, ResultFor(f))
      <4> SUFFICES ASSUME NEW i \in Compilers(s), NEW k \in p2[s[i].cxt].constants,
                          k \notin p[s[i].cxt].constants
                   PROVE  i = n /\ ResultFor(f) = [cxt |-> s[i].cxt, line |-> k]
        BY DEF OneConstantMore
      <4>1. i = n
        BY <1>13
      <4>2. k = l
        BY <1>9, <1>11, <1>14, <2>1, <4>1
      <4> QED
        BY <1>7, <1>14, <4>1, <4>2 DEF ResultFor
    <3> QED
      BY <1>1, <1>2, <1>6, <1>12, <2>1, <3>1, PoolDelivered
  <2>2. CASE ~ isImport
    <3>1. SameConstants(p2, p, s)
      BY <1>9, <1>11, <1>13, <1>14, <2>2 DEF SameConstants
    <3>2. PoolOK(cm, p2, s)
      BY <1>1, <3>1, PoolSame
    <3>3. cm2.pool = cm.pool
      BY <1>6, <2>2 DEF SamePool
    <3> QED
      BY <3>2, <3>3 DEF PoolOK
  <2> QED
    BY <2>1, <2>2
<1>16. Retop(s, s, n, f) /\ Alike(f, s[n]) /\ Owns(f)
  BY <1>2, RetopSame DEF Owns
<1>17. LoopsOK(cm2, s)
  <2>1. cm2.loops = OpenLoops(f.blocks)
    BY <1>4, <1>6
  <2> QED
    BY <1>1, <1>2, <1>4, <1>16, <2>1, LoopsTop
<1>18. ScopesOK(cm2, s, "full")
  <2>1. Suits(f, Append(cm.scopes[m], ResultFor(f)), "full")
    BY <1>5 DEF Suits
  <2> QED
    BY <1>1, <1>2, <1>3, <1>4, <1>6, <1>16, <2>1, ScopesMoved
<1>19. acts = Turned(acts, run, s)
  BY <1>1, TurnedSame
<1>20. RunOK(y, f) /\ Later(w, w)
  <2>1. MaxWork \in Nat
    BY CompileAssumption
  <2> QED
    BY <1>1, <2>1 DEF IsWork, Later, RunOK
<1> QED
  BY <1>1, <1>4, <1>6, <1>7, <1>9, <1>10, <1>15, <1>16, <1>17, <1>18, <1>19, <1>20, GoodTop

(* The lines that wait are translated.                                     *)
LEMMA NoResults ==
    ASSUME NEW f
    PROVE  ResultsOf(f, 0) = <<>>
<1>1. ResultsOf(f, 0) \in Seq({}) /\ Len(ResultsOf(f, 0)) = 0
  <2>1. 1 .. 0 = {}
    OBVIOUS
  <2>2. ResultsOf(f, 0) \in [1 .. 0 -> {}] /\ DOMAIN ResultsOf(f, 0) = 1 .. 0
    BY <2>1 DEF ResultsOf
  <2>3. PICK r : r = ResultsOf(f, 0)
    OBVIOUS
  <2>4. r \in [1 .. 0 -> {}] /\ DOMAIN r = 1 .. 0
    BY <2>2, <2>3
  <2>5. r \in Seq({}) /\ Len(r) = 0
    BY ONLY <2>4
  <2> QED
    BY <2>3, <2>5
<1> QED
  BY <1>1

LEMMA StatementsOfIs ==
    ASSUME NEW f \in ActivityType, NEW w, CompileOK(f, w), f.at = "compile",
           NEW results, AllOf(f, results)
    PROVE  /\ Len(results) = Len(f.waiting)
           /\ StatementsOf(f, results) \in Seq(StatementType)
           /\ \A i \in DOMAIN StatementsOf(f, results) :
                  LET s == StatementsOf(f, results)[i]
                  IN  s.result = [cxt |-> f.cxt, line |-> s.line] /\ s.unit = Unit(f.cxt, "program")
<1> DEFINE W == [line : LineNumbers, unit : Units]
<1>1. f.waiting \in Seq(W) /\ f.cxt \in Cxts
  BY DEF ActivityType
<1>2. PICK k \in Nat : k = Len(f.waiting) /\ DOMAIN f.waiting = 1 .. k
  BY <1>1
<1>3. results = ResultsOf(f, k)
  BY <1>2 DEF AllOf
<1>4. /\ DOMAIN results = 1 .. k
      /\ \A i \in 1 .. k : results[i] = [cxt |-> f.cxt, line |-> f.waiting[i].line]
  BY <1>3 DEF ResultsOf
<1>5. Len(results) = k
  <2>1. results \in [1 .. k -> {[cxt |-> f.cxt, line |-> f.waiting[i].line] : i \in 1 .. k}]
    BY <1>3 DEF ResultsOf
  <2>2. PICK S : results \in [1 .. k -> S]
    BY <2>1
  <2> QED
    BY ONLY <2>2, k \in Nat
<1>6. \A i \in 1 .. k : /\ f.waiting[i].line \in LineNumbers /\ f.waiting[i].unit \in Units
                        /\ f.waiting[i].unit = Unit(f.cxt, "program")
  <2>1. \A i \in 1 .. k : f.waiting[i] \in W
    <3> HIDE DEF W
    <3> QED
      BY <1>1, <1>2
  <2>2. \A i \in 1 .. k : f.waiting[i].unit = Unit(f.cxt, "program")
    BY <1>2 DEF CompileOK
  <2> QED
    BY <2>1, <2>2
<1>7. \A i \in 1 .. k : results[i] \in Results
  <2>1. MaxPrograms \in Nat /\ MaxWork \in Nat
    BY CompileAssumption
  <2>2. f.cxt \in 0 .. MaxPrograms
    BY <1>1, <2>1 DEF Cxts
  <2>3. \A i \in 1 .. k : f.waiting[i].line \in 0 .. MaxWork
    BY <1>6, <2>1 DEF LineNumbers
  <2> QED
    BY <1>4, <2>2, <2>3 DEF Results
<1>8. PICK st : st = StatementsOf(f, results)
  OBVIOUS
<1>9. st = [i \in 1 .. k |-> [line |-> f.waiting[i].line, unit |-> f.waiting[i].unit,
                              result |-> results[i]]]
  BY <1>2, <1>8 DEF StatementsOf
<1>10. \A i \in 1 .. k : /\ st[i] = [line |-> f.waiting[i].line, unit |-> f.waiting[i].unit,
                                     result |-> results[i]]
  BY <1>9
<1>11. \A i \in 1 .. k : st[i] \in StatementType
  <2> SUFFICES ASSUME NEW i \in 1 .. k PROVE st[i] \in StatementType
    OBVIOUS
  <2>1. PICK l \in LineNumbers, u \in Units, r \in Results :
            l = f.waiting[i].line /\ u = f.waiting[i].unit /\ r = results[i]
    BY <1>6, <1>7
  <2>2. st[i] = [line |-> l, unit |-> u, result |-> r]
    BY <1>10, <2>1
  <2> QED
    BY ONLY <2>2, l \in LineNumbers, u \in Units, r \in Results DEF StatementType
<1>12. DOMAIN st = 1 .. k
  BY <1>9
<1>13. st \in Seq(StatementType)
  <2>1. st \in [1 .. k -> StatementType]
    BY <1>9, <1>11, <1>12
  <2> QED
    BY ONLY <2>1, k \in Nat
<1>14. \A i \in 1 .. k : st[i].result = [cxt |-> f.cxt, line |-> st[i].line]
                         /\ st[i].unit = Unit(f.cxt, "program")
  <2> SUFFICES ASSUME NEW i \in 1 .. k
               PROVE  st[i].result = [cxt |-> f.cxt, line |-> st[i].line]
                      /\ st[i].unit = Unit(f.cxt, "program")
    OBVIOUS
  <2>1. PICK l, u, r : l = f.waiting[i].line /\ u = f.waiting[i].unit /\ r = results[i]
    OBVIOUS
  <2>2. st[i] = [line |-> l, unit |-> u, result |-> r]
    BY <1>10, <2>1
  <2>3. st[i].line = l /\ st[i].unit = u /\ st[i].result = r
    BY ONLY <2>2
  <2>4. u = Unit(f.cxt, "program") /\ r = [cxt |-> f.cxt, line |-> l]
    BY <1>4, <1>6, <2>1
  <2> QED
    BY <2>3, <2>4
<1> QED
  BY <1>2, <1>5, <1>8, <1>12, <1>13, <1>14

Translated(y, z, st) == y = [z EXCEPT !.statements = @ \o st]

LEMMA TranslatedIs ==
    ASSUME NEW z \in ProgramType, NEW c, StatementsOK(z, c), NEW st \in Seq(StatementType),
           \A i \in DOMAIN st : st[i].result = [cxt |-> c, line |-> st[i].line]
                                /\ st[i].unit = Unit(c, "program"),
           NEW y, Translated(y, z, st)
    PROVE  /\ y \in ProgramType /\ StatementsOK(y, c)
           /\ y.unit = z.unit /\ y.transactions = z.transactions /\ y.constants = z.constants
<1>1. PICK old \in Seq(StatementType) : old = z.statements
  BY DEF ProgramType
<1>2. PICK new : new = old \o st
  OBVIOUS
<1>3. PICK k, l \in Nat : k = Len(old) /\ l = Len(st)
  OBVIOUS
<1>4. /\ new \in Seq(StatementType) /\ DOMAIN new = 1 .. k + l
      /\ DOMAIN old = 1 .. k /\ DOMAIN st = 1 .. l
      /\ \A i \in 1 .. k + l : new[i] = IF i <= k THEN old[i] ELSE st[i - k]
  BY <1>2, <1>3
<1>5. y = [z EXCEPT !.statements = new]
  BY <1>1, <1>2 DEF Translated
<1>6. /\ y \in ProgramType /\ y.unit = z.unit /\ y.transactions = z.transactions
      /\ y.statements = new /\ y.marked = z.marked /\ y.constants = z.constants
  <2>1. new \in Seq(StatementType)
    BY <1>4
  <2> QED
    BY ONLY z \in ProgramType, <1>5, <2>1 DEF ProgramType
<1>7. ASSUME NEW i \in 1 .. k + l
      PROVE  new[i].result = [cxt |-> c, line |-> new[i].line] /\ new[i].unit = Unit(c, "program")
  <2>1. CASE i <= k
    <3>1. i \in 1 .. k /\ new[i] = old[i]
      BY <1>4, <2>1
    <3> QED
      BY <1>1, <1>4, <3>1 DEF StatementsOK
  <2>2. CASE ~ i <= k
    <3>1. i - k \in 1 .. l /\ new[i] = st[i - k]
      BY <1>4, <2>2
    <3> QED
      BY <1>4, <3>1
  <2> QED
    BY <2>1, <2>2
<1>8. StatementsOK(y, c)
  <2>1. y.marked \subseteq y.constants
    BY <1>6 DEF StatementsOK
  <2> QED
    BY <1>4, <1>6, <1>7, <2>1 DEF StatementsOK
<1> QED
  BY <1>6, <1>8

Empties(a, f) == a = [f EXCEPT !.blocks = <<>>, !.waiting = <<>>]
Translates(cm2, cm, f) ==
    cm2 = [cm EXCEPT !.scopes = Popped(@, Len(f.waiting)), !.loops = @ - OpenLoops(f.blocks)]
Writes(p2, p, f, results) ==
    \E y : IsEdit(p2, p, f.cxt, y) /\ Translated(y, p[f.cxt], StatementsOf(f, results))

LEMMA EmptiedIs ==
    ASSUME NEW f \in ActivityType, NEW a, Empties(a, f)
    PROVE  /\ a \in ActivityType /\ Alike(a, f) /\ a.blocks = <<>> /\ a.waiting = <<>>
           /\ a.line = f.line
<1>1. PICK b \in Seq(BOOLEAN) : b = <<>>
  <2>1. <<>> \in Seq(BOOLEAN)
    OBVIOUS
  <2> QED
    BY <2>1
<1>2. PICK v \in Seq([line : LineNumbers, unit : Units]) : v = <<>>
  <2>1. <<>> \in Seq([line : LineNumbers, unit : Units])
    OBVIOUS
  <2> QED
    BY <2>1
<1>3. a = [f EXCEPT !.blocks = b, !.waiting = v]
  BY <1>1, <1>2 DEF Empties
<1>4. a \in ActivityType /\ Alike(a, f) /\ a.blocks = b /\ a.waiting = v /\ a.line = f.line
  BY ONLY f \in ActivityType, b \in Seq(BOOLEAN), <1>3,
     v \in Seq([line : LineNumbers, unit : Units]) DEF ActivityType, Alike
<1> QED
  BY <1>1, <1>2, <1>4

LEMMA Translated2 ==
    ASSUME NEW cm, NEW len, CompilerTyped(cm, len), NEW m, HasScopes(cm, m), m >= 1,
           NEW f, f.blocks \in Seq(BOOLEAN), Len(cm.scopes[m]) = Len(f.waiting),
           NEW cm2, Translates(cm2, cm, f)
    PROVE  /\ CompilerTyped(cm2, len) /\ cm2.cxt = cm.cxt /\ SamePool(cm2, cm)
           /\ cm2.loops = cm.loops - OpenLoops(f.blocks)
           /\ Stacked(cm2, cm, m, <<>>)
<1>1. /\ cm.cxt \in Cxts /\ cm.cxt <= len /\ cm.scopes \in Seq(ScopeType)
      /\ cm.pool \in Seq(Results) /\ cm.loops \in Int /\ cm \in CompilerType
  BY CompilerIs DEF CompilerTyped
<1>2. m = Len(cm.scopes) /\ m \in Nat
  BY <1>1 DEF HasScopes
<1>3. PICK sc \in Seq(ScopeType) : sc = cm.scopes
  BY <1>1
<1>4. sc # <<>> /\ m = Len(sc)
  BY <1>2, <1>3
<1>5. /\ Front(sc) \in Seq(ScopeType) /\ Len(Front(sc)) = m - 1 /\ m - 1 \in Nat
      /\ \A i \in 1 .. m - 1 : Front(sc)[i] = sc[i]
      /\ Last(sc) = sc[m] /\ Last(sc) \in ScopeType
  BY ONLY <1>2, <1>4, sc \in Seq(ScopeType), FrontSeq
<1>6. PICK h, z : h = Front(sc) /\ z = Last(sc)
  OBVIOUS
<1>7. SubSeq(z, Len(f.waiting) + 1, Len(z)) = <<>>
  <2>1. z \in Seq(Results) /\ Len(z) = Len(f.waiting)
    BY <1>3, <1>5, <1>6 DEF ScopeType
  <2>2. PICK k \in Nat : k = Len(z)
    BY <2>1
  <2>3. SubSeq(z, k + 1, k) = <<>>
    BY <2>1, <2>2
  <2> QED
    BY <2>1, <2>2, <2>3
<1>8. <<>> \in ScopeType
  BY DEF ScopeType
<1>9. PICK e \in ScopeType : e = <<>>
  BY <1>8
<1>10. PICK k \in Nat : k = m - 1
  BY <1>5
<1>11. PICK v : v = Append(h, e)
  OBVIOUS
<1>12. h \in Seq(ScopeType) /\ k = Len(h)
  BY <1>5, <1>6, <1>10
<1>13. /\ v \in Seq(ScopeType) /\ Len(v) = k + 1 /\ v[k + 1] = e
       /\ \A i \in 1 .. k : v[i] = h[i]
  BY <1>11, <1>12, AppendedSeq
<1>14. v = Popped(cm.scopes, Len(f.waiting))
  BY <1>3, <1>4, <1>6, <1>7, <1>9, <1>11 DEF Popped
<1>15. PICK q \in Int : q = cm.loops - OpenLoops(f.blocks)
  <2>1. OpenLoops(f.blocks) \in Nat
    BY OpenLoopsAre
  <2> QED
    BY <1>1, <2>1
<1>16. cm2 = [cm EXCEPT !.scopes = v, !.loops = q]
  BY <1>14, <1>15 DEF Translates
<1>17. /\ cm2 \in CompilerType /\ cm2.cxt = cm.cxt /\ cm2.loops = q
       /\ cm2.scopes = v /\ cm2.pool = cm.pool
  BY ONLY <1>1, <1>13, <1>16, q \in Int DEF CompilerType
<1>18. Stacked(cm2, cm, m, <<>>)
  <2>1. k + 1 = m
    BY <1>2, <1>10
  <2>2. Len(v) = m /\ v[m] = <<>>
    BY <1>9, <1>13, <2>1
  <2>3. \A i \in 1 .. m - 1 : v[i] = cm.scopes[i]
    BY <1>3, <1>5, <1>6, <1>10, <1>13
  <2> QED
    BY <1>17, <2>2, <2>3 DEF Stacked
<1> QED
  BY <1>1, <1>15, <1>17, <1>18 DEF CompilerTyped, SamePool

LEMMA GoodTranslate ==
    ASSUME NEW cm, NEW p, NEW acts, NEW run, NEW w, NEW s, NEW n, NEW len,
           GoodAt(cm, p, acts, run, "full", w, s, n, len), s # <<>>,
           NEW f, f = s[n], f.at = "compile", NEW a, Empties(a, f),
           NEW t, Retop(t, s, n, a), NEW acts2, acts2 = Turned(acts, run, t),
           NEW m, HasScopes(cm, m),
           NEW cm2, Translates(cm2, cm, f), NEW p2, Writes(p2, p, f, cm.scopes[m])
    PROVE  GoodAt(cm2, p2, acts2, run, "full", w, t, n, len)
<1>1. /\ HasStack(acts, run, s, n) /\ SizeIs(p, len) /\ CompilerTyped(cm, len) /\ IsWork(w)
      /\ LoopsOK(cm, s) /\ ScopesOK(cm, s, "full") /\ PoolOK(cm, p, s)
      /\ ContextsTyped(p, len)
  BY DEF GoodAt
<1>2. IsStack(s, n)
  BY <1>1, StackIs
<1>3. /\ f \in ActivityType /\ f.cxt \in 1 .. len /\ cm.loops = OpenLoops(f.blocks)
      /\ cm.scopes \in Seq(ScopeType) /\ m \in Nat /\ m >= 1
      /\ AllOf(f, cm.scopes[m]) /\ CompileOK(f, w)
      /\ p[f.cxt] \in ProgramType /\ StatementsOK(p[f.cxt], f.cxt)
  BY Served
<1>4. /\ a \in ActivityType /\ Alike(a, f) /\ a.blocks = <<>> /\ a.waiting = <<>>
      /\ a.line = f.line
  BY <1>3, EmptiedIs
<1>5. a.at = "compile" /\ Owns(a) /\ Alike(a, s[n])
  BY <1>4 DEF Alike, Owns
<1>6. PICK x, st : x = f.cxt /\ st = StatementsOf(f, cm.scopes[m])
  OBVIOUS
<1>7. Len(cm.scopes[m]) = Len(f.waiting) /\ st \in Seq(StatementType)
      /\ \A i \in DOMAIN st : st[i].result = [cxt |-> x, line |-> st[i].line]
                              /\ st[i].unit = Unit(x, "program")
  BY <1>3, <1>6, StatementsOfIs
<1>8. PICK y : IsEdit(p2, p, x, y) /\ Translated(y, p[x], st)
  BY <1>6 DEF Writes
<1>9. /\ y \in ProgramType /\ StatementsOK(y, x)
      /\ y.unit = p[x].unit /\ y.transactions = p[x].transactions
      /\ y.constants = p[x].constants
  BY <1>3, <1>6, <1>7, <1>8, TranslatedIs, SMTT(60)
<1>10. x \in 1 .. len /\ x = a.cxt
  BY <1>3, <1>4, <1>6 DEF Alike
<1>11. Others(p2, p, x, len) /\ p2[x] = y
  BY <1>1, <1>8, <1>9, <1>10, Edited
<1>12. f.blocks \in Seq(BOOLEAN)
  BY <1>3 DEF ActivityType
<1>13. /\ CompilerTyped(cm2, len) /\ cm2.cxt = cm.cxt /\ SamePool(cm2, cm)
       /\ cm2.loops = cm.loops - OpenLoops(f.blocks) /\ Stacked(cm2, cm, m, <<>>)
  BY <1>1, <1>3, <1>7, <1>12, Translated2, SMTT(60)
<1>14. LoopsOK(cm2, t)
  <2>1. OpenLoops(f.blocks) \in Nat /\ OpenLoops(a.blocks) = 0
    <3>1. PICK b \in Seq(BOOLEAN) : b = a.blocks /\ b = <<>>
      BY <1>4 DEF ActivityType
    <3>2. OpenLoops(b) = 0
      BY <3>1, OpenLoopsAre
    <3>3. OpenLoops(f.blocks) \in Nat
      BY <1>12, OpenLoopsAre
    <3> QED
      BY <3>1, <3>2, <3>3
  <2>2. cm2.loops = OpenLoops(a.blocks)
    BY <1>3, <1>13, <2>1
  <2> QED
    BY <1>1, <1>2, <1>4, <1>5, <2>2, LoopsTop
<1>15. ScopesOK(cm2, t, "full")
  <2>1. Suits(a, <<>>, "full")
    <3>1. Len(a.waiting) = 0
      BY <1>4
    <3> QED
      BY <3>1, NoResults DEF Suits, AllOf
  <2> QED
    BY <1>1, <1>2, <1>3, <1>4, <1>5, <1>13, <2>1, ScopesMoved
<1>16. PoolOK(cm2, p2, s)
  <2>1. SameConstants(p2, p, s)
    <3>1. \A i \in Compilers(s) : s[i].cxt \in 1 .. len
      BY <1>1, PopFacts DEF Compilers, GoodAt
    <3>2. \A c \in 1 .. len : p2[c].constants = p[c].constants
      BY <1>9, <1>11 DEF Others
    <3> QED
      BY <3>1, <3>2 DEF SameConstants
  <2>2. PoolOK(cm, p2, s)
    BY <1>1, <2>1, PoolSame
  <2>3. cm2.pool = cm.pool
    BY <1>13 DEF SamePool
  <2> QED
    BY <2>2, <2>3 DEF PoolOK
<1>17. RunOK(y, a) /\ Later(w, w)
  <2>1. MaxWork \in Nat
    BY CompileAssumption
  <2> QED
    BY <1>1, <1>5, <2>1 DEF IsWork, Later, RunOK
<1>18. CompileOK(a, w)
  <2>1. DOMAIN a.waiting = {}
    BY <1>4
  <2> QED
    BY <1>3, <1>4, <2>1 DEF CompileOK, Alike
<1> QED
  BY <1>1, <1>4, <1>5, <1>8, <1>9, <1>10, <1>13, <1>14, <1>15, <1>16, <1>17, <1>18, GoodTop

(***************************************************************************)
(* Running code.                                                           *)
(***************************************************************************)
LEMMA NoLater ==
    ASSUME NEW w, IsWork(w)
    PROVE  Later(w, w)
<1>1. MaxWork \in Nat
  BY CompileAssumption
<1> QED
  BY <1>1 DEF IsWork, Later

(* A program that is compiled, or a fiber, runs.                           *)
LEMMA GoodPlain ==
    ASSUME NEW cm, NEW p, NEW acts, NEW run, NEW mode, NEW w, NEW s, NEW n, NEW len,
           GoodAt(cm, p, acts, run, mode, w, s, n, len),
           mode = "short" \/ s = <<>> \/ s[n].at # "compile",
           NEW a \in ActivityType, a.at \notin {"compile", "eval"},
           NEW c \in 1 .. len, a.cxt = c, RunOK(p[c], a),
           NEW t, Above(t, s, a), NEW acts2, acts2 = Turned(acts, run, t), NEW m, m = n + 1,
           OwnersOK(acts2, run, len), NestOK(t)
    PROVE  GoodAt(cm, p, acts2, run, "full", w, t, m, len)
<1>1. /\ HasStack(acts, run, s, n) /\ SizeIs(p, len) /\ CompilerTyped(cm, len) /\ IsWork(w)
      /\ ContextsTyped(p, len) /\ BindingOK(cm, s) /\ LoopsOK(cm, s)
      /\ ScopesOK(cm, s, mode) /\ PoolOK(cm, p, s) /\ ContextsOK(p, s)
      /\ ActivitiesOK(p, acts, w)
  BY DEF GoodAt
<1>2. IsStack(s, n)
  BY <1>1, StackIs
<1>3. IsStack(t, m)
  BY <1>2, PushStack
<1>4. HasStack(acts2, run, t, m)
  BY <1>1, <1>3, TurnedIs
<1>5. BindingOK(cm, t)
  BY <1>1, <1>2, PushedChains
<1>6. LoopsOK(cm, t)
  BY <1>1, <1>2, PushedChains
<1>7. ScopesOK(cm, t, "full")
  <2>1. cm.scopes \in Seq(ScopeType)
    BY <1>1, CompilerIs
  <2> QED
    BY <1>1, <1>2, <2>1, ScopesPush
<1>8. SamePool(cm, cm) /\ SameConstants(p, p, s)
  BY DEF SamePool, SameConstants
<1>9. PoolIs(cm, Len(cm.pool))
  BY <1>1, CompilerIs
<1>10. PoolOK(cm, p, t)
  BY <1>1, <1>2, <1>8, <1>9, PoolPush
<1>11. StatementsOK(p[c], c) /\ Others(p, p, c, len)
  BY <1>1 DEF ContextsOK, SizeIs, Others
<1>12. ContextsOK(p, t)
  BY <1>1, <1>2, <1>11, ContextsPush
<1>13. KeepsRuns(p, p, acts) /\ Later(w, w)
  BY <1>1, NoLater DEF KeepsRuns, SameRun
<1>14. CompileOK(a, w) /\ RunOK(p[a.cxt], a)
  BY DEF CompileOK
<1>15. ActivitiesOK(p, acts2, w)
  BY <1>1, <1>13, <1>14, ActivitiesPush
<1> QED
  BY <1>1, <1>4, <1>5, <1>6, <1>7, <1>10, <1>12, <1>15 DEF GoodAt

LEMMA GoodRun ==
    ASSUME NEW cm, NEW p, NEW acts, NEW run, NEW mode, NEW w, NEW s, NEW n, NEW len,
           GoodAt(cm, p, acts, run, mode, w, s, n, len),
           mode = "short" \/ s = <<>> \/ s[n].at # "compile",
           NEW a \in ActivityType, a.at = "run", a.bound \in 1 .. len, a.line = 1,
           NEW c \in 1 .. len, a.cxt = c, Free(acts, c),
           \A i \in Compilers(s) : s[i].cxt < c, c = 1 => n = 0, n = 0 => run = MainRunner,
           p[c].names = {}, p[c].constants = p[c].marked,
           NEW t, Above(t, s, a), NEW acts2, acts2 = Turned(acts, run, t), NEW m, m = n + 1
    PROVE  GoodAt(cm, p, acts2, run, "full", w, t, m, len)
<1>1. /\ HasStack(acts, run, s, n) /\ SizeIs(p, len)
      /\ ContextsTyped(p, len) /\ OwnersOK(acts, run, len) /\ NestOK(s)
  BY DEF GoodAt
<1>2. IsStack(s, n)
  BY <1>1, StackIs
<1>3. a.cxt \in 1 .. len /\ a.at # "fiber"
      /\ (Owns(a) => Free(acts, a.cxt)) /\ (Owns(a) /\ a.cxt = 1 => n = 0)
  OBVIOUS
<1>4. OwnersOK(acts2, run, len)
  BY <1>1, <1>3, OwnersPush
<1>5. NestOK(t)
  BY <1>1, <1>2, NestPush
<1>6. RunOK(p[c], a)
  <2>1. p \in Seq(ProgramType) /\ len = Len(p) /\ DOMAIN p = 1 .. len
    BY <1>1 DEF ContextsTyped, SizeIs
  <2>2. p[c] \in ProgramType
    BY <2>1
  <2>3. Len(p[c].statements) \in Nat
    BY <2>2 DEF ProgramType
  <2>4. 1 \in 1 .. Len(p[c].statements) + 1 /\ 1 .. (1 - 1) = {}
    BY <2>3
  <2>5. {p[c].statements[k].line : k \in 1 .. (1 - 1)} = {}
    BY <2>4
  <2> QED
    BY <2>4, <2>5 DEF RunOK
<1>7. a.at \notin {"compile", "eval"}
  OBVIOUS
<1> QED
  BY <1>4, <1>5, <1>6, <1>7, GoodPlain

(* A program, or a fiber, has run.                                         *)
LEMMA GoodPop ==
    ASSUME NEW cm, NEW p, NEW acts, NEW run, NEW mode, NEW w, NEW s, NEW n, NEW len,
           GoodAt(cm, p, acts, run, mode, w, s, n, len), s # <<>>,
           s[n].at \notin {"compile", "eval"},
           NEW t, Beneath(t, s), NEW acts2, acts2 = Turned(acts, run, t), NEW m, m = n - 1
    PROVE  GoodAt(cm, p, acts2, run, "short", w, t, m, len)
<1>1. /\ HasStack(acts, run, s, n) /\ SizeIs(p, len) /\ CompilerTyped(cm, len) /\ IsWork(w)
      /\ ContextsTyped(p, len)
      /\ OwnersOK(acts, run, len) /\ NestOK(s) /\ BindingOK(cm, s) /\ LoopsOK(cm, s)
      /\ ScopesOK(cm, s, mode) /\ PoolOK(cm, p, s) /\ ContextsOK(p, s)
      /\ ActivitiesOK(p, acts, w)
  BY DEF GoodAt
<1>2. IsStack(s, n)
  BY <1>1, StackIs
<1>3. IsStack(t, m)
  BY <1>2, PopStack
<1>4. HasStack(acts2, run, t, m)
  BY <1>1, <1>3, TurnedIs
<1>5. OwnersOK(acts2, run, len)
  BY <1>1, OwnersPop
<1>6. NestOK(t)
  BY <1>1, <1>2, NestPop
<1>7. BindingOK(cm, t)
  BY <1>1, <1>2, PoppedChains
<1>8. LoopsOK(cm, t)
  BY <1>1, <1>2, PoppedChains
<1>9. ScopesOK(cm, t, "short")
  <2>1. cm.scopes \in Seq(ScopeType)
    BY <1>1, CompilerIs
  <2> QED
    BY <1>1, <1>2, <2>1, ScopesPop
<1>10. SamePool(cm, cm) /\ SameConstants(p, p, t)
  BY DEF SamePool, SameConstants
<1>11. PoolOK(cm, p, t)
  BY <1>1, <1>2, <1>10, PoolPop
<1>12. PICK x : x = s[n].cxt
  OBVIOUS
<1>13. x \in 1 .. len
  BY <1>1, <1>12, PopFacts
<1>14. StatementsOK(p[x], x) /\ Others(p, p, x, len)
  BY <1>1, <1>13 DEF ContextsOK, SizeIs, Others
<1>15. ContextsOK(p, t)
  BY <1>1, <1>2, <1>12, <1>13, <1>14, ContextsPop
<1>16. KeepsRuns(p, p, acts2) /\ Later(w, w)
  BY <1>1, NoLater DEF KeepsRuns, SameRun
<1>17. ActivitiesOK(p, acts2, w)
  BY <1>1, <1>16, ActivitiesPop
<1> QED
  BY <1>1, <1>4, <1>5, <1>6, <1>7, <1>8, <1>9, <1>11, <1>15, <1>17 DEF GoodAt

(* An expression is evaluated, in the context c of the code that runs.     *)
Evaluates(a, cm, p, c) ==
    /\ a \in ActivityType /\ a.at = "eval" /\ a.cxt = c /\ a.bound = cm.cxt
    /\ a.unit = p[c].unit
Constant(c) == [cxt |-> c, line |-> 0]
Rebinds(cm2, cm, c) == cm2 = [cm EXCEPT !.cxt = c, !.pool = Append(@, Constant(c))]
Binds(cm2, cm, c) == cm2 = [cm EXCEPT !.cxt = c]
Adds(cm2, cm, c) == cm2 = [cm EXCEPT !.pool = Append(@, Constant(c))]
SetsUnit(p2, p, c, u) == IsEdit(p2, p, c, [p[c] EXCEPT !.unit = u])

LEMMA ConstantIs ==
    ASSUME NEW c \in Cxts
    PROVE  Constant(c) \in Results /\ Constant(c).line = 0 /\ Constant(c).cxt # 0
<1>1. MaxPrograms \in Nat /\ MaxWork \in Nat
  BY CompileAssumption
<1>2. c \in 0 .. MaxPrograms /\ 0 \in 0 .. MaxWork /\ c # 0
  BY <1>1 DEF Cxts
<1> QED
  BY <1>2 DEF Constant, Results

LEMMA BoundAnew ==
    ASSUME NEW cm, NEW len \in Cxts, CompilerTyped(cm, len), NEW c \in 1 .. len, NEW cm2
    PROVE  /\ Rebinds(cm2, cm, c) =>
                  /\ CompilerTyped(cm2, len) /\ cm2.cxt = c /\ cm2.scopes = cm.scopes
                  /\ cm2.loops = cm.loops /\ GrownPool(cm2, cm, Constant(c))
           /\ Binds(cm2, cm, c) =>
                  /\ CompilerTyped(cm2, len) /\ cm2.cxt = c /\ cm2.scopes = cm.scopes
                  /\ cm2.loops = cm.loops /\ SamePool(cm2, cm)
           /\ Adds(cm2, cm, c) =>
                  /\ CompilerTyped(cm2, len) /\ cm2.cxt = cm.cxt /\ cm2.scopes = cm.scopes
                  /\ cm2.loops = cm.loops /\ GrownPool(cm2, cm, Constant(c))
<1>1. /\ cm \in CompilerType /\ cm.cxt <= len /\ cm.pool \in Seq(Results)
  BY CompilerIs DEF CompilerTyped
<1>2. c \in Cxts /\ c <= len
  BY CompileAssumption DEF Cxts
<1>3. Constant(c) \in Results
  BY <1>2, ConstantIs
<1>4. PICK q \in Seq(Results) : q = Append(cm.pool, Constant(c))
  <2>1. PICK k \in Results : k = Constant(c)
    BY <1>3
  <2>2. PICK o \in Seq(Results) : o = cm.pool
    BY <1>1
  <2>3. Append(o, k) \in Seq(Results)
    OBVIOUS
  <2> QED
    BY <2>1, <2>2, <2>3
<1>5. ASSUME Rebinds(cm2, cm, c)
      PROVE  /\ CompilerTyped(cm2, len) /\ cm2.cxt = c /\ cm2.scopes = cm.scopes
             /\ cm2.loops = cm.loops /\ GrownPool(cm2, cm, Constant(c))
  <2>1. cm2 = [cm EXCEPT !.cxt = c, !.pool = q]
    BY <1>4, <1>5 DEF Rebinds
  <2>2. /\ cm2 \in CompilerType /\ cm2.cxt = c /\ cm2.scopes = cm.scopes
        /\ cm2.loops = cm.loops /\ cm2.pool = q
    BY ONLY <1>1, <1>2, <2>1, q \in Seq(Results) DEF CompilerType
  <2> QED
    BY <1>1, <1>2, <1>3, <1>4, <2>2 DEF CompilerTyped, GrownPool
<1>6. ASSUME Binds(cm2, cm, c)
      PROVE  /\ CompilerTyped(cm2, len) /\ cm2.cxt = c /\ cm2.scopes = cm.scopes
             /\ cm2.loops = cm.loops /\ SamePool(cm2, cm)
  <2>1. cm2 = [cm EXCEPT !.cxt = c]
    BY <1>6 DEF Binds
  <2>2. /\ cm2 \in CompilerType /\ cm2.cxt = c /\ cm2.scopes = cm.scopes
        /\ cm2.loops = cm.loops /\ cm2.pool = cm.pool
    BY ONLY <1>1, <1>2, <2>1 DEF CompilerType
  <2> QED
    BY <1>2, <2>2 DEF CompilerTyped, SamePool
<1>7. ASSUME Adds(cm2, cm, c)
      PROVE  /\ CompilerTyped(cm2, len) /\ cm2.cxt = cm.cxt /\ cm2.scopes = cm.scopes
             /\ cm2.loops = cm.loops /\ GrownPool(cm2, cm, Constant(c))
  <2>1. cm2 = [cm EXCEPT !.pool = q]
    BY <1>4, <1>7 DEF Adds
  <2>2. /\ cm2 \in CompilerType /\ cm2.cxt = cm.cxt /\ cm2.scopes = cm.scopes
        /\ cm2.loops = cm.loops /\ cm2.pool = q
    BY ONLY <1>1, <2>1, q \in Seq(Results) DEF CompilerType
  <2> QED
    BY <1>1, <1>3, <1>4, <2>2 DEF CompilerTyped, GrownPool
<1> QED
  BY <1>5, <1>6, <1>7

LEMMA UnitSet ==
    ASSUME NEW p, NEW len, SizeIs(p, len), ContextsTyped(p, len), NEW c \in 1 .. len,
           NEW u \in Units, NEW p2, SetsUnit(p2, p, c, u), NEW s, ContextsOK(p, s)
    PROVE  /\ SizeIs(p2, len) /\ ContextsTyped(p2, len) /\ Others(p2, p, c, len)
           /\ p2[c].unit = u /\ p2[c].transactions = p[c].transactions
           /\ StatementsOK(p2[c], c) /\ SameRun(p2[c], p[c])
<1>1. p \in Seq(ProgramType) /\ len = Len(p) /\ DOMAIN p = 1 .. len
  BY DEF ContextsTyped, SizeIs
<1>2. PICK z \in ProgramType : z = p[c]
  BY <1>1
<1>3. PICK y : y = [z EXCEPT !.unit = u]
  OBVIOUS
<1>4. /\ y \in ProgramType /\ y.unit = u /\ y.transactions = z.transactions /\ SameRun(y, z)
  BY ONLY z \in ProgramType, u \in Units, <1>3 DEF ProgramType, SameRun
<1>5. IsEdit(p2, p, c, y)
  BY <1>2, <1>3 DEF SetsUnit
<1>6. SizeIs(p2, len) /\ ContextsTyped(p2, len) /\ Others(p2, p, c, len) /\ p2[c] = y
  BY <1>4, <1>5, Edited
<1>7. StatementsOK(z, c)
  BY <1>1, <1>2 DEF ContextsOK
<1>8. StatementsOK(y, c)
  BY <1>4, <1>7 DEF SameRun, StatementsOK
<1> QED
  BY <1>2, <1>4, <1>6, <1>8

LEMMA RunsKeptBy ==
    ASSUME NEW acts, NEW run, NEW len, OwnersOK(acts, run, len), NEW p, NEW p2, NEW x,
           Others(p2, p, x, len), SameRun(p2[x], p[x])
    PROVE  KeepsRuns(p2, p, acts)
BY RunsKept

(* The constants of the contexts being compiled are as before.             *)
LEMMA ConstantsKept ==
    ASSUME NEW s, NEW n, IsStack(s, n), NEW len, \A i \in DOMAIN s : s[i].cxt \in 1 .. len,
           NEW p, NEW p2, NEW x, Others(p2, p, x, len), p2[x].constants = p[x].constants
    PROVE  SameConstants(p2, p, s)
<1>1. \A c \in 1 .. len : p2[c].constants = p[c].constants
  BY DEF Others
<1> QED
  BY <1>1 DEF SameConstants, Compilers

LEMMA PoolAfter ==
    ASSUME NEW cm, NEW cm2, NEW p, NEW s, SamePool(cm2, cm), PoolOK(cm, p, s)
    PROVE  PoolOK(cm2, p, s)
BY DEF SamePool, PoolOK

LEMMA GoodEval ==
    ASSUME NEW cm, NEW p, NEW acts, NEW run, NEW mode, NEW w, NEW s, NEW n, NEW len,
           GoodAt(cm, p, acts, run, mode, w, s, n, len), s # <<>>, s[n].at # "compile",
           NEW c, c = s[n].cxt, NEW a, Evaluates(a, cm, p, c),
           NEW cm2, Rebinds(cm2, cm, c), NEW p2, SetsUnit(p2, p, c, Unit(c, "expression")),
           NEW t, Above(t, s, a), NEW acts2, acts2 = Turned(acts, run, t), NEW m, m = n + 1,
           NEW w2, Later(w2, w), IsWork(w2)
    PROVE  GoodAt(cm2, p2, acts2, run, "full", w2, t, m, len)
<1>1. /\ HasStack(acts, run, s, n) /\ SizeIs(p, len) /\ CompilerTyped(cm, len)
      /\ ContextsTyped(p, len)
      /\ OwnersOK(acts, run, len) /\ NestOK(s) /\ BindingOK(cm, s) /\ LoopsOK(cm, s)
      /\ ScopesOK(cm, s, mode) /\ PoolOK(cm, p, s) /\ ContextsOK(p, s)
      /\ ActivitiesOK(p, acts, w)
  BY DEF GoodAt
<1>2. IsStack(s, n)
  BY <1>1, StackIs
<1>3. /\ n \in Nat /\ n >= 1 /\ n \in DOMAIN s /\ c \in 1 .. len
      /\ \A i \in Compilers(s) : i # n => s[i].cxt < c
      /\ \A i \in DOMAIN s : s[i].cxt \in 1 .. len
  BY <1>1, PopFacts
<1>4. n \notin Compilers(s) /\ \A i \in Compilers(s) : s[i].cxt < c
  BY <1>3 DEF Compilers
<1>5. len \in Cxts
  BY <1>1 DEF ContextsTyped
<1>6. /\ a \in ActivityType /\ a.at = "eval" /\ a.cxt = c /\ a.bound = cm.cxt
      /\ a.unit = p[c].unit
  BY DEF Evaluates
<1>7. a.bound \in 1 .. len
  BY <1>1, <1>5, <1>6, CompilerIs, CompileAssumption DEF Cxts
<1>8. /\ CompilerTyped(cm2, len) /\ cm2.cxt = c /\ cm2.scopes = cm.scopes
      /\ cm2.loops = cm.loops /\ GrownPool(cm2, cm, Constant(c))
  BY <1>1, <1>3, <1>5, BoundAnew
<1>9. c \in Cxts
  BY <1>3, <1>5, CompileAssumption DEF Cxts
<1>10. PICK u \in Units : u = Unit(c, "expression")
  BY <1>9 DEF Unit, Units
<1>11. /\ SizeIs(p2, len) /\ ContextsTyped(p2, len) /\ Others(p2, p, c, len)
       /\ p2[c].unit = u /\ p2[c].transactions = p[c].transactions
       /\ StatementsOK(p2[c], c) /\ SameRun(p2[c], p[c])
  BY <1>1, <1>3, <1>10, UnitSet
<1>12. IsStack(t, m)
  BY <1>2, <1>6, PushStack
<1>13. HasStack(acts2, run, t, m)
  BY <1>1, <1>12, TurnedIs
<1>14. OwnersOK(acts2, run, len)
  <2>1. a.cxt \in 1 .. len /\ a.at # "fiber" /\ ~ Owns(a) /\ (n = 0 => run = MainRunner)
    BY <1>3, <1>6 DEF Owns
  <2> QED
    BY <1>1, <1>6, <1>7, <2>1, OwnersPush
<1>15. NestOK(t)
  BY <1>1, <1>2, <1>4, <1>6, NestPush
<1>16. BindingOK(cm2, t)
  BY <1>1, <1>2, <1>6, <1>8, PushedChains
<1>17. LoopsOK(cm2, t)
  BY <1>1, <1>2, <1>6, <1>8, PushedChains
<1>18. ScopesOK(cm2, t, "full")
  <2>1. cm.scopes \in Seq(ScopeType)
    BY <1>1, CompilerIs
  <2> QED
    BY <1>1, <1>2, <1>6, <1>8, <2>1, ScopesPush
<1>19. PoolOK(cm2, p2, t)
  <2>1. Constant(c).line = 0 /\ Constant(c).cxt # 0
    BY <1>9, ConstantIs
  <2>2. PoolOK(cm2, p, s)
    BY <1>1, <1>2, <1>8, <2>1, PoolGrows
  <2>3. SameConstants(p2, p, s)
    BY <1>2, <1>3, <1>11, ConstantsKept DEF SameRun
  <2>4. SamePool(cm2, cm2)
    BY DEF SamePool
  <2>5. PoolIs(cm2, Len(cm2.pool))
    BY <1>8, CompilerIs
  <2> QED
    BY <1>2, <1>6, <2>2, <2>3, <2>4, <2>5, PoolPush
<1>20. ContextsOK(p2, t)
  <2>1. p2[c].unit = Arena(a)
    BY <1>6, <1>10, <1>11 DEF Arena
  <2> QED
    BY <1>1, <1>2, <1>3, <1>6, <1>11, <2>1, ContextsPush
<1>21. ActivitiesOK(p2, acts2, w2)
  <2>1. KeepsRuns(p2, p, acts)
    BY <1>1, <1>11, RunsKeptBy
  <2>2. RunOK(p2[a.cxt], a) /\ CompileOK(a, w2)
    BY <1>6 DEF RunOK, CompileOK
  <2> QED
    BY <1>1, <1>6, <2>1, <2>2, ActivitiesPush
<1> QED
  BY <1>8, <1>11, <1>13, <1>14, <1>15, <1>16, <1>17, <1>18, <1>19, <1>20, <1>21 DEF GoodAt

LEMMA GoodEvalEnd ==
    ASSUME NEW cm, NEW p, NEW acts, NEW run, NEW mode, NEW w, NEW s, NEW n, NEW len,
           GoodAt(cm, p, acts, run, mode, w, s, n, len), s # <<>>,
           NEW f, f = s[n], f.at = "eval", NEW cm2, Binds(cm2, cm, f.bound),
           NEW p2, SetsUnit(p2, p, f.cxt, f.unit),
           NEW t, Beneath(t, s), NEW acts2, acts2 = Turned(acts, run, t), NEW m, m = n - 1
    PROVE  GoodAt(cm2, p2, acts2, run, "short", w, t, m, len)
<1>1. /\ HasStack(acts, run, s, n) /\ SizeIs(p, len) /\ CompilerTyped(cm, len) /\ IsWork(w)
      /\ ContextsTyped(p, len)
      /\ OwnersOK(acts, run, len) /\ NestOK(s) /\ BindingOK(cm, s) /\ LoopsOK(cm, s)
      /\ ScopesOK(cm, s, mode) /\ PoolOK(cm, p, s) /\ ContextsOK(p, s)
      /\ ActivitiesOK(p, acts, w)
  BY DEF GoodAt
<1>2. IsStack(s, n)
  BY <1>1, StackIs
<1>3. /\ f \in ActivityType /\ f.cxt \in 1 .. len /\ f.bound \in 1 .. len
      /\ \A i \in DOMAIN s : s[i].cxt \in 1 .. len
  BY <1>1, PopFacts
<1>4. len \in Cxts
  BY <1>1 DEF ContextsTyped
<1>5. PICK c, u : c = f.cxt /\ u = f.unit
  OBVIOUS
<1>6. c \in 1 .. len /\ u \in Units
  BY <1>3, <1>5 DEF ActivityType
<1>7. /\ CompilerTyped(cm2, len) /\ cm2.cxt = f.bound /\ cm2.scopes = cm.scopes
      /\ cm2.loops = cm.loops /\ SamePool(cm2, cm)
  BY <1>1, <1>3, <1>4, BoundAnew
<1>8. /\ SizeIs(p2, len) /\ ContextsTyped(p2, len) /\ Others(p2, p, c, len)
      /\ p2[c].unit = u /\ p2[c].transactions = p[c].transactions
      /\ StatementsOK(p2[c], c) /\ SameRun(p2[c], p[c])
  <2>1. SetsUnit(p2, p, c, u)
    BY <1>5
  <2> QED
    BY <1>1, <1>6, <2>1, UnitSet
<1>9. IsStack(t, m)
  BY <1>2, PopStack
<1>10. HasStack(acts2, run, t, m)
  BY <1>1, <1>9, TurnedIs
<1>11. OwnersOK(acts2, run, len)
  BY <1>1, OwnersPop
<1>12. NestOK(t)
  BY <1>1, <1>2, NestPop
<1>13. BindingOK(cm2, t)
  <2>1. s[n].at \in {"compile", "eval"} /\ cm2.cxt = s[n].bound
    BY <1>7
  <2> QED
    BY <1>1, <1>2, <2>1, PoppedChains
<1>14. LoopsOK(cm2, t)
  <2>1. s[n].at # "compile"
    OBVIOUS
  <2> QED
    BY <1>1, <1>2, <1>7, <2>1, PoppedChains
<1>15. ScopesOK(cm2, t, "short")
  <2>1. cm.scopes \in Seq(ScopeType) /\ s[n].at # "compile"
    BY <1>1, CompilerIs
  <2> QED
    BY <1>1, <1>2, <1>7, <2>1, ScopesPop
<1>16. PoolOK(cm2, p2, t)
  <2>1. SameConstants(p2, p, t)
    <3>1. SameConstants(p2, p, s)
      BY <1>2, <1>3, <1>8, ConstantsKept DEF SameRun
    <3>2. Compilers(t) = Compilers(s) \ {n} /\ \A i \in 1 .. n - 1 : t[i] = s[i]
      BY <1>2, PopSets
    <3>3. \A i \in Compilers(t) : t[i] = s[i] /\ i \in Compilers(s)
      <4>1. \A i \in Compilers(s) : i # n => i \in 1 .. n - 1
        BY <1>2 DEF Compilers, IsStack
      <4> QED
        BY <3>2, <4>1
    <3> QED
      BY <3>1, <3>3 DEF SameConstants
  <2>2. s[n].at # "compile"
    OBVIOUS
  <2> QED
    BY <1>1, <1>2, <1>7, <2>1, <2>2, PoolPop
<1>17. ContextsOK(p2, t)
  <2>1. p2[c].unit = s[n].unit /\ c = s[n].cxt /\ s[n].at = "eval"
    BY <1>5, <1>8
  <2> QED
    BY <1>1, <1>2, <1>6, <1>8, <2>1, ContextsPop
<1>18. ActivitiesOK(p2, acts2, w)
  <2>1. KeepsRuns(p2, p, acts2)
    BY <1>8, <1>11, RunsKeptBy
  <2>2. Later(w, w)
    BY <1>1, NoLater
  <2> QED
    BY <1>1, <2>1, <2>2, ActivitiesPop
<1> QED
  BY <1>1, <1>7, <1>8, <1>10, <1>11, <1>12, <1>13, <1>14, <1>15, <1>16, <1>17, <1>18
     DEF GoodAt

LEMMA GoodBuild ==
    ASSUME NEW cm, NEW p, NEW acts, NEW run, NEW mode, NEW w, NEW s, NEW n, NEW len,
           GoodAt(cm, p, acts, run, mode, w, s, n, len), s # <<>>, s[n].at # "compile",
           NEW c, c = s[n].cxt, NEW cm2, Adds(cm2, cm, c), NEW w2, Later(w2, w), IsWork(w2)
    PROVE  GoodAt(cm2, p, acts, run, "full", w2, s, n, len)
<1>1. /\ HasStack(acts, run, s, n) /\ SizeIs(p, len) /\ CompilerTyped(cm, len)
      /\ ContextsTyped(p, len)
      /\ OwnersOK(acts, run, len) /\ NestOK(s) /\ BindingOK(cm, s) /\ LoopsOK(cm, s)
      /\ ScopesOK(cm, s, mode) /\ PoolOK(cm, p, s) /\ ContextsOK(p, s)
      /\ ActivitiesOK(p, acts, w)
  BY DEF GoodAt
<1>2. IsStack(s, n)
  BY <1>1, StackIs
<1>3. c \in 1 .. len /\ len \in Cxts
  BY <1>1, PopFacts DEF ContextsTyped
<1>4. c \in Cxts
  BY <1>3, CompileAssumption DEF Cxts
<1>5. /\ CompilerTyped(cm2, len) /\ cm2.cxt = cm.cxt /\ cm2.scopes = cm.scopes
      /\ cm2.loops = cm.loops /\ GrownPool(cm2, cm, Constant(c))
  BY <1>1, <1>3, BoundAnew
<1>6. PoolOK(cm2, p, s)
  BY <1>1, <1>2, <1>4, <1>5, ConstantIs, PoolGrows
<1>7. BindingOK(cm2, s) /\ LoopsOK(cm2, s)
  BY <1>1, <1>5 DEF BindingOK, LoopsOK
<1>8. ScopesOK(cm2, s, "full")
  <2>1. GoodAt(cm, p, acts, run, "full", w, s, n, len)
    BY GoodMode
  <2>2. ScopesOK(cm, s, "full")
    BY <2>1 DEF GoodAt
  <2> QED
    BY <1>5, <2>2 DEF ScopesOK, Fits
<1>9. ActivitiesOK(p, acts, w2)
  <2>1. KeepsRuns(p, p, acts)
    BY DEF KeepsRuns, SameRun
  <2> QED
    BY <1>1, <2>1, ActivitiesSame
<1> QED
  BY <1>1, <1>5, <1>6, <1>7, <1>8, <1>9 DEF GoodAt

(* A statement runs, and defines what its line has imported.               *)
LineRuns(a, f) == a = [f EXCEPT !.line = @ + 1]
Remembers(p2, p, c, l) == IsEdit(p2, p, c, [p[c] EXCEPT !.names = @ \cup {l}])

LEMMA GoodStatement ==
    ASSUME NEW cm, NEW p, NEW acts, NEW run, NEW mode, NEW w, NEW s, NEW n, NEW len,
           GoodAt(cm, p, acts, run, mode, w, s, n, len), s # <<>>,
           NEW f, f = s[n], f.at = "run", NEW c, c = f.cxt, f.line <= Len(p[c].statements),
           NEW a, LineRuns(a, f), NEW t, Retop(t, s, n, a),
           NEW acts2, acts2 = Turned(acts, run, t),
           NEW p2, Remembers(p2, p, c, p[c].statements[f.line].line)
    PROVE  GoodAt(cm, p2, acts2, run, "full", w, t, n, len)
<1>1. /\ HasStack(acts, run, s, n) /\ SizeIs(p, len) /\ CompilerTyped(cm, len) /\ IsWork(w)
      /\ ContextsTyped(p, len)
      /\ OwnersOK(acts, run, len) /\ NestOK(s) /\ LoopsOK(cm, s)
      /\ ScopesOK(cm, s, mode) /\ PoolOK(cm, p, s) /\ ContextsOK(p, s)
      /\ ActivitiesOK(p, acts, w)
  BY DEF GoodAt
<1>2. IsStack(s, n) /\ acts[run] = s /\ run \in Runners
  BY <1>1, StackIs
<1>3. /\ f \in ActivityType /\ c \in 1 .. len /\ n \in DOMAIN s
      /\ \A i \in DOMAIN s : s[i].cxt \in 1 .. len
  BY <1>1, PopFacts
<1>4. PICK z \in ProgramType : z = p[c]
  <2>1. p \in Seq(ProgramType) /\ len = Len(p)
    BY <1>1 DEF ContextsTyped, SizeIs
  <2> QED
    BY <1>3, <2>1
<1>5. StatementsOK(z, c)
  BY <1>1, <1>3, <1>4 DEF ContextsOK, SizeIs
<1>6. RunOK(z, f)
  BY <1>1, <1>2, <1>3, <1>4 DEF ActivitiesOK
<1>7. PICK st \in Seq(StatementType) : st = z.statements
  BY DEF ProgramType
<1>8. PICK j \in Nat : j = f.line /\ j \in 1 .. Len(st)
  BY <1>3, <1>4, <1>6, <1>7 DEF RunOK, ActivityType
<1>9. PICK l : l = st[j].line
  OBVIOUS
<1>10. l \in LineNumbers
  <2>1. st[j] \in StatementType
    BY <1>8
  <2> QED
    BY <1>9, <2>1 DEF StatementType
<1>11. PICK nm \in SUBSET LineNumbers : nm = z.names \cup {l}
  <2>1. z.names \in SUBSET LineNumbers
    BY DEF ProgramType
  <2> QED
    BY <1>10, <2>1
<1>12. PICK y : y = [z EXCEPT !.names = nm]
  OBVIOUS
<1>13. /\ y \in ProgramType /\ y.unit = z.unit /\ y.transactions = z.transactions
       /\ y.statements = z.statements /\ y.constants = z.constants /\ y.marked = z.marked
       /\ y.names = nm
  BY ONLY z \in ProgramType, nm \in SUBSET LineNumbers, <1>12 DEF ProgramType
<1>14. IsEdit(p2, p, c, y)
  BY <1>4, <1>7, <1>8, <1>9, <1>11, <1>12 DEF Remembers
<1>15. StatementsOK(y, c)
  BY <1>5, <1>13 DEF StatementsOK
<1>16. PICK k \in Nat : k = j + 1
  OBVIOUS
<1>17. a = [f EXCEPT !.line = k]
  BY <1>8, <1>16 DEF LineRuns
<1>18. a \in ActivityType /\ Alike(a, f) /\ a.line = k
  BY ONLY <1>3, <1>17, k \in Nat DEF ActivityType, Alike
<1>19. a.at = "run" /\ Owns(a) /\ Alike(a, s[n]) /\ c = a.cxt
  BY <1>18 DEF Alike, Owns
<1>20. RunOK(y, a)
  <2>1. Len(st) \in Nat
    OBVIOUS
  <2>2. k \in 1 .. Len(st) + 1 /\ k - 1 = j
    BY <1>8, <1>16, <2>1
  <2>3. z.names = {st[i].line : i \in 1 .. (j - 1)}
    BY <1>6, <1>7, <1>8 DEF RunOK
  <2>4. \A i \in 1 .. j : i = j \/ i \in 1 .. (j - 1)
    BY <1>8
  <2>5. j \in 1 .. j /\ \A i \in 1 .. (j - 1) : i \in 1 .. j
    BY <1>8
  <2>6. nm = {st[i].line : i \in 1 .. j}
    BY <1>9, <1>11, <2>3, <2>4, <2>5
  <2>7. z.constants = z.marked
    BY <1>6 DEF RunOK
  <2> QED
    BY <1>7, <1>13, <1>18, <2>2, <2>6, <2>7, SMTT(60) DEF RunOK
<1>21. CompileOK(a, w)
  BY <1>19 DEF CompileOK
<1>22. /\ CompilerTyped(cm, len) /\ cm.cxt = cm.cxt /\ Later(w, w)
  BY <1>1, NoLater
<1>23. LoopsOK(cm, t)
  BY <1>1, <1>2, <1>18, <1>19, LoopsTop
<1>24. ScopesOK(cm, t, "full")
  <2>1. /\ t \in Seq(ActivityType) /\ Len(t) = n /\ Compilers(t) = Compilers(s)
        /\ \A i \in 1 .. n - 1 : t[i] = s[i]
    BY <1>2, <1>18, <1>19, TopIs
  <2>2. s[n].at # "compile"
    OBVIOUS
  <2> QED
    BY <1>1, <1>2, <2>1, <2>2, ScopesOther
<1>25. PoolOK(cm, p2, s)
  <2>1. Others(p2, p, c, len) /\ p2[c] = y
    BY <1>1, <1>3, <1>13, <1>14, Edited
  <2>2. SameConstants(p2, p, s)
    BY <1>2, <1>3, <1>4, <1>13, <2>1, ConstantsKept
  <2> QED
    BY <1>1, <2>2, PoolSame
<1>26. y.unit = p[c].unit /\ y.transactions = p[c].transactions
  BY <1>4, <1>13
<1> QED
  BY <1>1, <1>13, <1>14, <1>15, <1>18, <1>19, <1>20, <1>21, <1>22, <1>23, <1>24, <1>25,
     <1>26, GoodTop

(* Another runner takes over, where none of the two compiles.              *)
Plain(s) == \A i \in DOMAIN s : s[i].at \in {"run", "fiber"}

LEMMA GoodSwitch ==
    ASSUME NEW cm, NEW p, NEW acts, NEW run, NEW mode, NEW w, NEW s, NEW n, NEW len,
           GoodAt(cm, p, acts, run, mode, w, s, n, len), Plain(s),
           NEW u \in Runners, NEW v, v = acts[u], NEW m, m = Len(v)
    PROVE  GoodAt(cm, p, acts, u, "full", w, v, m, len)
<1>1. /\ HasStack(acts, run, s, n) /\ SizeIs(p, len) /\ CompilerTyped(cm, len) /\ IsWork(w)
      /\ ContextsTyped(p, len)
      /\ OwnersOK(acts, run, len) /\ BindingOK(cm, s) /\ LoopsOK(cm, s)
      /\ ScopesOK(cm, s, mode) /\ PoolOK(cm, p, s) /\ ContextsOK(p, s)
      /\ ActivitiesOK(p, acts, w)
  BY DEF GoodAt
<1>2. /\ IsStack(s, n) /\ acts[run] = s /\ run \in Runners
      /\ acts \in [Runners -> Seq(ActivityType)]
  BY <1>1, StackIs
<1>3. v \in Seq(ActivityType) /\ m \in Nat
  BY <1>2
<1>4. HasStack(acts, u, v, m) /\ IsStack(v, m)
  BY <1>2, <1>3 DEF HasStack, IsStack
<1>5. \A r \in Runners : Plain(acts[r])
  BY <1>1, <1>2 DEF OwnersOK, Plain
<1>6. Plain(v)
  BY <1>5
<1>7. /\ Compilers(s) = {} /\ Binders(s) = {} /\ \A c : BindersOf(s, c) = {}
      /\ Compilers(v) = {} /\ Binders(v) = {} /\ \A c : BindersOf(v, c) = {}
  BY <1>6 DEF Plain, Compilers, Binders, BindersOf
<1>8. OwnersOK(acts, u, len)
  BY <1>1, <1>5 DEF OwnersOK, Plain
<1>9. NestOK(v)
  BY <1>7 DEF NestOK
<1>10. BindingOK(cm, v)
  <2>1. cm.cxt = 1
    BY <1>1, <1>7, ChainNow DEF BindingOK
  <2> QED
    BY <1>7, <2>1, ChainEmpty DEF BindingOK
<1>11. LoopsOK(cm, v)
  <2>1. cm.loops = 0
    BY <1>1, <1>7, ChainNow DEF LoopsOK
  <2> QED
    BY <1>7, <2>1, ChainEmpty DEF LoopsOK
<1>12. ScopesOK(cm, v, "full")
  <2>1. PICK g \in [1 .. Len(cm.scopes) -> Compilers(s)] : Fits(g, cm.scopes, s, mode)
    BY <1>1 DEF ScopesOK
  <2>2. \A k \in 1 .. Len(cm.scopes) : FALSE
    BY <1>7, <2>1
  <2>3. g \in [1 .. Len(cm.scopes) -> Compilers(v)]
    BY <1>7, <2>1
  <2>4. Fits(g, cm.scopes, v, "full")
    BY <1>7, <2>2, <2>3 DEF Fits
  <2> QED
    BY <2>3, <2>4 DEF ScopesOK
<1>13. PoolOK(cm, p, v)
  BY <1>1, <1>7 DEF PoolOK
<1>14. ContextsOK(p, v)
  <2> SUFFICES ASSUME NEW c \in 1 .. Len(p)
               PROVE  StatementsOK(p[c], c) /\ OpenOK(p[c], v, c) /\ UnitOK(p, v, c)
    BY DEF ContextsOK
  <2>1. StatementsOK(p[c], c) /\ OpenOK(p[c], s, c) /\ UnitOK(p, s, c)
    BY <1>1 DEF ContextsOK
  <2>2. OpenOK(p[c], v, c)
    BY <1>7, <2>1 DEF OpenOK
  <2>3. p[c].unit = Unit(c, "context")
    BY <1>7, <2>1, ChainNow DEF UnitOK
  <2>4. UnitOK(p, v, c)
    BY <1>7, <2>3, ChainEmpty DEF UnitOK
  <2> QED
    BY <2>1, <2>2, <2>4
<1> QED
  BY <1>1, <1>4, <1>8, <1>9, <1>10, <1>11, <1>12, <1>13, <1>14 DEF GoodAt

(* A fiber starts.                                                         *)
NoneYet(n) == n = 0

LEMMA OwnersFiber ==
    ASSUME NEW acts, NEW run, NEW s, NEW n, HasStack(acts, run, s, n), NoneYet(n),
           run # MainRunner, NEW a \in ActivityType, a.at = "fiber",
           NEW t, Above(t, s, a), NEW acts2, acts2 = Turned(acts, run, t),
           NEW len, OwnersOK(acts, run, len), a.cxt \in 1 .. len, a.bound \in 1 .. len
    PROVE  OwnersOK(acts2, run, len)
<1>1. /\ IsStack(s, n) /\ acts[run] = s /\ run \in Runners
  BY StackIs
<1>2. /\ Len(t) = 1 /\ DOMAIN t = 1 .. 1 /\ t[1] = a
  <2>1. Len(t) = n + 1 /\ DOMAIN t = 1 .. n + 1 /\ t[n + 1] = a
    BY <1>1, PushSets
  <2> QED
    BY <2>1 DEF NoneYet
<1>3. acts2[run] = t /\ \A r \in Runners : r # run => acts2[r] = acts[r]
  <2>1. PICK k : k = n + 1
    OBVIOUS
  <2>2. IsStack(t, k)
    BY <1>1, <2>1, PushStack
  <2> QED
    BY <2>2, TurnedIs
<1>4. \A i \in DOMAIN t : i = 1 /\ t[i] = a
  BY <1>2
<1>5. ~ Owns(a)
  BY DEF Owns
<1>6. ASSUME NEW r \in Runners, NEW i \in DOMAIN acts2[r]
      PROVE  /\ acts2[r][i].cxt \in 1 .. len /\ acts2[r][i].bound \in 1 .. len
             /\ acts2[r][i].at = "fiber" <=> i = 1 /\ r # MainRunner
             /\ r # run => acts2[r][i].at \in {"run", "fiber"}
             /\ Owns(acts2[r][i]) /\ acts2[r][i].cxt = 1 => r = MainRunner /\ i = 1
  <2>1. CASE r = run
    <3>1. i = 1 /\ acts2[r][i] = a
      BY <1>3, <1>4, <1>6, <2>1
    <3> QED
      BY <1>5, <2>1, <3>1
  <2>2. CASE r # run
    <3>1. acts2[r] = acts[r]
      BY <1>3, <2>2
    <3> QED
      BY <1>6, <3>1 DEF OwnersOK
  <2> QED
    BY <2>1, <2>2
<1>7. ASSUME NEW r \in Runners, NEW u \in Runners,
             NEW i \in DOMAIN acts2[r], NEW j \in DOMAIN acts2[u],
             Owns(acts2[r][i]), Owns(acts2[u][j]), acts2[r][i].cxt = acts2[u][j].cxt
      PROVE  r = u /\ i = j
  <2>1. r # run /\ u # run
    BY <1>3, <1>4, <1>5, <1>7
  <2>2. acts2[r] = acts[r] /\ acts2[u] = acts[u]
    BY <1>3, <2>1
  <2> QED
    BY <1>7, <2>2 DEF OwnersOK
<1> QED
  BY <1>6, <1>7 DEF OwnersOK

LEMMA GoodFiber ==
    ASSUME NEW cm, NEW p, NEW acts, NEW run, NEW mode, NEW w, NEW s, NEW n, NEW len,
           GoodAt(cm, p, acts, run, mode, w, s, n, len), NoneYet(n), run # MainRunner,
           NEW a \in ActivityType, a.at = "fiber", a.bound \in 1 .. len,
           NEW c \in 1 .. len, a.cxt = c,
           NEW t, Above(t, s, a), NEW acts2, acts2 = Turned(acts, run, t), NEW m, m = n + 1
    PROVE  GoodAt(cm, p, acts2, run, "full", w, t, m, len)
<1>1. HasStack(acts, run, s, n) /\ OwnersOK(acts, run, len) /\ NestOK(s)
  BY DEF GoodAt
<1>2. IsStack(s, n) /\ s = <<>>
  BY <1>1, StackIs DEF IsStack, NoneYet
<1>3. OwnersOK(acts2, run, len)
  BY <1>1, OwnersFiber
<1>4. NestOK(t)
  <2>1. Compilers(s) = {}
    BY <1>2 DEF Compilers
  <2>2. n \notin Compilers(s) /\ \A i \in Compilers(s) : s[i].cxt < a.cxt
    BY <2>1
  <2> QED
    BY <1>1, <1>2, <2>2, NestPush
<1>5. a.at \notin {"compile", "eval"} /\ RunOK(p[c], a)
  BY DEF RunOK
<1> QED
  BY <1>2, <1>3, <1>4, <1>5, GoodPlain

(* Later work does not change what is so.                                  *)
LEMMA GoodLater ==
    ASSUME NEW cm, NEW p, NEW acts, NEW run, NEW mode, NEW w, NEW s, NEW n, NEW len,
           GoodAt(cm, p, acts, run, mode, w, s, n, len), NEW w2, Later(w2, w), IsWork(w2)
    PROVE  GoodAt(cm, p, acts, run, mode, w2, s, n, len)
<1>1. KeepsRuns(p, p, acts)
  BY DEF KeepsRuns, SameRun
<1>2. ActivitiesOK(p, acts, w)
  BY DEF GoodAt
<1>3. ActivitiesOK(p, acts, w2)
  BY <1>1, <1>2, ActivitiesSame
<1> QED
  BY <1>3 DEF GoodAt
-----------------------------------------------------------------------------
(***************************************************************************)
(* The steps.  Where the runner in control stands, and where it arrives.   *)
(***************************************************************************)
At(s, n, len, mode) ==
    /\ GoodAt(compiler, programs, activities, runner, mode, work, s, n, len)
    /\ s = Calls
HereIs(s, n, len, f) == At(s, n, len, "full") /\ s # <<>> /\ f = s[n] /\ f = Now
RestTyped ==
    /\ runner \in Runners /\ unwinding \in [Runners -> BOOLEAN]
    /\ built \subseteq [arena : Units, tokens : Units]
    /\ \A r \in Runners : unwinding[r] => r = runner /\ activities[r] # <<>>

LEMMA Stands ==
    ASSUME CompileIInv
    PROVE  /\ RestTyped
           /\ \E s, n, len : At(s, n, len, "any")
           /\ ~ unwinding[runner] => \E s, n, len : At(s, n, len, "full")
<1>1. RestTyped
  BY DEF CompileIInv, StateOK, RestTyped
<1>2. PICK mode : Good(compiler, programs, activities, runner, mode, work)
                  /\ (~ unwinding[runner] => mode = "full")
  BY DEF CompileIInv, StateOK
<1>3. PICK s, n, len : s = activities[runner] /\ n = Len(activities[runner])
                       /\ len = Len(programs)
  OBVIOUS
<1>4. GoodAt(compiler, programs, activities, runner, mode, work, s, n, len)
  BY <1>1, <1>2, <1>3, GoodParts DEF RestTyped
<1>5. GoodAt(compiler, programs, activities, runner, "any", work, s, n, len)
  BY <1>4, GoodMode
<1> QED
  BY <1>1, <1>2, <1>3, <1>4, <1>5 DEF At, Calls

LEMMA DoingIs ==
    ASSUME CompileIInv, NEW what, Doing(what)
    PROVE  RestTyped /\ \E s, n, len, f : HereIs(s, n, len, f) /\ f.at = what
<1>1. Calls # <<>> /\ ~ unwinding[runner] /\ Now.at = what
  BY DEF Doing
<1>2. PICK s, n, len : At(s, n, len, "full")
  BY <1>1, Stands
<1>3. IsStack(s, n) /\ s = Calls
  BY <1>2, StackIs DEF At, GoodAt
<1>4. s # <<>>
  BY <1>1, <1>3
<1>5. Last(s) = s[n]
  BY <1>3, <1>4 DEF IsStack, Last
<1>6. Now = s[n]
  BY <1>3, <1>5 DEF Now
<1>7. PICK f : f = s[n] /\ f = Now
  BY <1>6
<1>8. HereIs(s, n, len, f) /\ f.at = what
  BY <1>1, <1>2, <1>4, <1>7 DEF HereIs
<1> QED
  BY <1>8, Stands

LEMMA HereFacts ==
    ASSUME NEW s, NEW n, NEW len, NEW f, HereIs(s, n, len, f)
    PROVE  /\ GoodAt(compiler, programs, activities, runner, "full", work, s, n, len)
           /\ s # <<>> /\ f = s[n] /\ f = Now /\ s = Calls /\ IsStack(s, n)
           /\ HasStack(activities, runner, s, n)
           /\ n \in Nat /\ n >= 1 /\ f \in ActivityType /\ f.cxt \in 1 .. len
           /\ f.bound \in 1 .. len /\ len \in Cxts /\ len = Len(programs)
           /\ IsWork(work)
<1>1. /\ GoodAt(compiler, programs, activities, runner, "full", work, s, n, len)
      /\ s # <<>> /\ f = s[n] /\ f = Now /\ s = Calls
  BY DEF HereIs, At
<1>2. /\ HasStack(activities, runner, s, n) /\ OwnersOK(activities, runner, len) /\ NestOK(s)
      /\ ContextsTyped(programs, len) /\ SizeIs(programs, len) /\ IsWork(work)
  BY <1>1 DEF GoodAt
<1>3. IsStack(s, n)
  BY <1>2, StackIs
<1>4. /\ n \in Nat /\ n >= 1 /\ f \in ActivityType /\ f.cxt \in 1 .. len
      /\ f.bound \in 1 .. len
  BY <1>1, <1>2, PopFacts
<1> QED
  BY <1>1, <1>2, <1>3, <1>4 DEF ContextsTyped, SizeIs

LEMMA Arrives ==
    ASSUME NEW cm, NEW p, NEW acts, NEW run, NEW mode, NEW w, NEW s, NEW n, NEW len,
           GoodAt(cm, p, acts, run, mode, w, s, n, len),
           NEW un \in [Runners -> BOOLEAN], ~ un[run] => mode = "full",
           NEW bu \in SUBSET [arena : Units, tokens : Units],
           \A r \in Runners : un[r] => r = run /\ acts[r] # <<>>
    PROVE  StateOK(cm, p, acts, un, run, bu, w)
<1>1. run \in Runners
  BY DEF GoodAt, HasStack
<1>2. un[run] \in BOOLEAN
  BY <1>1
<1>3. GoodAt(cm, p, acts, run, IF un[run] THEN "any" ELSE "full", w, s, n, len)
  <2>1. CASE un[run]
    <3>1. GoodAt(cm, p, acts, run, "any", w, s, n, len)
      BY GoodMode
    <3> QED
      BY <2>1, <3>1
  <2>2. CASE ~ un[run]
    BY <2>2
  <2> QED
    BY <2>1, <2>2
<1>4. Good(cm, p, acts, run, IF un[run] THEN "any" ELSE "full", w)
  BY <1>3, PartsGood
<1> QED
  BY <1>1, <1>4 DEF StateOK

(* A step in which nothing is thrown and the runner goes on.               *)
LEMMA GoesOn ==
    ASSUME RestTyped, ~ unwinding[runner], UNCHANGED <<unwinding, runner, built>>,
           NEW s, NEW n, NEW len,
           GoodAt(compiler', programs', activities', runner, "full", work', s, n, len)
    PROVE  CompileIInv'
<1>1. \A r \in Runners : ~ unwinding[r]
  BY DEF RestTyped
<1>2. /\ unwinding \in [Runners -> BOOLEAN]
      /\ built \in SUBSET [arena : Units, tokens : Units]
      /\ unwinding' = unwinding /\ runner' = runner /\ built' = built
  BY DEF RestTyped
<1>3. StateOK(compiler', programs', activities', unwinding, runner, built, work')
  BY <1>1, <1>2, Arrives
<1> QED
  BY <1>2, <1>3 DEF CompileIInv

(* The last activity of s becomes a.                                       *)
Tops(t, s, a) == t = Append(Front(s), a)

LEMMA TopsIs ==
    ASSUME NEW s, NEW n, IsStack(s, n), s # <<>>, NEW a \in ActivityType,
           NEW t, Tops(t, s, a)
    PROVE  Retop(t, s, n, a)
<1>1. s \in Seq(ActivityType) /\ n \in Nat /\ n = Len(s)
  BY DEF IsStack
<1>2. /\ n >= 1 /\ n - 1 \in Nat /\ Front(s) \in Seq(ActivityType) /\ Len(Front(s)) = n - 1
      /\ \A i \in 1 .. n - 1 : Front(s)[i] = s[i]
  BY <1>1, FrontSeq
<1>3. PICK h, k : h = Front(s) /\ k = n - 1
  OBVIOUS
<1>4. h \in Seq(ActivityType) /\ k = Len(h) /\ k \in Nat /\ \A i \in 1 .. k : h[i] = s[i]
  BY <1>2, <1>3
<1>5. t = Append(h, a)
  BY <1>3 DEF Tops
<1>6. /\ t \in Seq(ActivityType) /\ Len(t) = k + 1 /\ t[k + 1] = a
      /\ \A i \in 1 .. k : t[i] = h[i]
  BY <1>4, <1>5, AppendedSeq
<1>7. k + 1 = n
  BY <1>1, <1>3
<1> QED
  BY <1>2, <1>3, <1>4, <1>6, <1>7 DEF Retop

LEMMA SpendIs ==
    ASSUME NEW w, IsWork(w), NEW w2, w < MaxWork, w2 = w + 1
    PROVE  Worked(w2, w) /\ IsWork(w2) /\ Later(w2, w)
<1>1. MaxWork \in Nat
  BY CompileAssumption
<1> QED
  BY <1>1 DEF Worked, IsWork, Later

LEMMA StepOpenBlock ==
    ASSUME CompileIInv, NEW isLoop \in BOOLEAN, OpenBlock(isLoop)
    PROVE  CompileIInv'
<1>1. Doing("compile") /\ work < MaxWork /\ work' = work + 1
  BY DEF OpenBlock, MayWrite, Spend
<1>2. PICK s, n, len, f : HereIs(s, n, len, f) /\ f.at = "compile"
  BY <1>1, DoingIs
<1>3. RestTyped /\ ~ unwinding[runner]
  BY <1>1, DoingIs DEF Doing
<1>4. /\ GoodAt(compiler, programs, activities, runner, "full", work, s, n, len)
      /\ s # <<>> /\ f = s[n] /\ f = Now /\ s = Calls /\ IsStack(s, n)
      /\ f \in ActivityType /\ IsWork(work)
  BY <1>2, HereFacts
<1>5. PICK a : LineOpens(a, f, isLoop)
  BY DEF LineOpens
<1>6. PICK t : Tops(t, s, a)
  BY DEF Tops
<1>7. a \in ActivityType
  BY <1>4, <1>5, LineOpened
<1>8. Retop(t, s, n, a)
  BY <1>4, <1>6, <1>7, TopsIs
<1>9. activities' = Turned(activities, runner, t)
  <2>1. a = [NextLine EXCEPT !.blocks = Append(@, isLoop)]
    BY <1>4, <1>5 DEF LineOpens, NextLine
  <2>2. t = Append(Front(Calls), a)
    BY <1>4, <1>6 DEF Tops
  <2> QED
    BY <2>1, <2>2 DEF OpenBlock, SetCalls, Turned
<1>10. LoopsMove(compiler', compiler, compiler.loops + Opens(isLoop))
  BY DEF OpenBlock, LoopsMove
<1>11. Worked(work', work)
  BY <1>1, <1>4, SpendIs
<1>12. GoodAt(compiler', programs, activities', runner, "full", work', t, n, len)
  BY <1>2, <1>4, <1>5, <1>8, <1>9, <1>10, <1>11, GoodOpen
<1>13. programs' = programs /\ UNCHANGED <<unwinding, runner, built>>
  BY DEF OpenBlock
<1> QED
  BY <1>3, <1>12, <1>13, GoesOn

(* The lines that wait are translated, and there are results for all.      *)
Turns(acts) == \A t : Turned(acts, runner, t) = Turned(activities, runner, t)

LEMMA TurnsNow == Turns(activities)
BY DEF Turns

LEMMA TurnsTwice ==
    ASSUME activities \in [Runners -> Seq(ActivityType)], runner \in Runners,
           NEW s, NEW acts, acts = Turned(activities, runner, s)
    PROVE  Turns(acts)
BY DEF Turns, Turned

LEMMA TranslateStep ==
    ASSUME RestTyped, ~ unwinding[runner],
           NEW cm, NEW p, NEW acts, NEW w, NEW s, NEW n, NEW len,
           GoodAt(cm, p, acts, runner, "full", w, s, n, len), s # <<>>,
           s[n].at = "compile", Turns(acts), TranslateWaiting(s, cm, p)
    PROVE  /\ \E t : GoodAt(compiler', programs', activities', runner, "full", w, t, n, len)
           /\ unwinding' = unwinding
<1>1. PICK f : f = s[n]
  OBVIOUS
<1>2. PICK m : HasScopes(cm, m)
  BY DEF HasScopes
<1>3. /\ f \in ActivityType /\ f.cxt \in 1 .. len /\ cm.scopes \in Seq(ScopeType)
      /\ m \in Nat /\ m >= 1 /\ AllOf(f, cm.scopes[m]) /\ CompileOK(f, w)
  BY <1>1, <1>2, Served
<1>4. HasStack(acts, runner, s, n) /\ IsStack(s, n)
  BY StackIs DEF GoodAt
<1>5. Last(s) = f
  <2>1. Last(s) = s[n]
    BY <1>4 DEF IsStack, Last
  <2> QED
    BY <1>1, <2>1
<1>6. Pending(cm.scopes) = cm.scopes[m]
  <2>1. m = Len(cm.scopes) /\ cm.scopes # <<>>
    BY <1>2, <1>3 DEF HasScopes
  <2> QED
    BY <2>1 DEF Pending, Last
<1>7. Len(cm.scopes[m]) = Len(f.waiting) /\ Len(f.waiting) \in Nat
  <2>1. Len(f.waiting) \in Nat
    BY <1>3 DEF ActivityType
  <2>2. Len(cm.scopes[m]) = Len(f.waiting)
    BY <1>1, <1>3, StatementsOfIs
  <2> QED
    BY <2>1, <2>2
<1>8. PICK results : results = cm.scopes[m]
  OBVIOUS
<1>9. (Len(f.waiting) <= Len(results)) = TRUE
  BY <1>7, <1>8
<1>10. /\ compiler' = [cm EXCEPT !.scopes = Popped(@, Len(f.waiting)),
                                 !.loops = @ - OpenLoops(f.blocks)]
       /\ programs' = [p EXCEPT ![f.cxt].statements = @ \o StatementsOf(f, results)]
       /\ activities' = Turned(activities, runner,
                            Append(Front(s), [f EXCEPT !.blocks = <<>>, !.waiting = <<>>]))
       /\ unwinding' = [unwinding EXCEPT ![runner] = FALSE]
  BY <1>5, <1>6, <1>8, <1>9 DEF TranslateWaiting, SetCalls, Turned
<1>11. unwinding' = unwinding
  <2>1. unwinding[runner] = FALSE /\ unwinding \in [Runners -> BOOLEAN]
    BY DEF RestTyped
  <2> QED
    BY <1>10, <2>1
<1>12. Translates(compiler', cm, f)
  BY <1>10 DEF Translates
<1>13. Writes(programs', p, f, results)
  <2>1. PICK y : y = [p[f.cxt] EXCEPT !.statements = @ \o StatementsOf(f, results)]
    OBVIOUS
  <2>2. programs' = [p EXCEPT ![f.cxt] = y]
    BY <1>10, <2>1
  <2>3. IsEdit(programs', p, f.cxt, y)
    BY <2>2 DEF IsEdit
  <2>4. Translated(y, p[f.cxt], StatementsOf(f, results))
    BY <2>1 DEF Translated
  <2> QED
    BY <2>3, <2>4 DEF Writes
<1>14. PICK a : Empties(a, f)
  BY DEF Empties
<1>15. PICK t : Tops(t, s, a)
  BY DEF Tops
<1>16. a \in ActivityType
  BY <1>3, <1>14, EmptiedIs
<1>17. Retop(t, s, n, a)
  BY <1>4, <1>15, <1>16, TopsIs
<1>18. activities' = Turned(acts, runner, t)
  <2>1. t = Append(Front(s), [f EXCEPT !.blocks = <<>>, !.waiting = <<>>])
    BY <1>14, <1>15 DEF Tops, Empties
  <2>2. activities' = Turned(activities, runner, t)
    BY <1>10, <2>1
  <2> QED
    BY <2>2 DEF Turns
<1>19. GoodAt(compiler', programs', activities', runner, "full", w, t, n, len)
  BY <1>1, <1>2, <1>8, <1>12, <1>13, <1>14, <1>17, <1>18, GoodTranslate
<1> QED
  BY <1>11, <1>19

LEMMA DeliverStep ==
    ASSUME RestTyped, ~ unwinding[runner], UNCHANGED <<runner, built>>,
           NEW p, NEW acts, NEW s, NEW n, NEW len,
           GoodAt(compiler, p, acts, runner, "short", work', s, n, len), s # <<>>,
           s[n].at = "compile", Turns(acts), acts = Turned(activities, runner, s),
           NEW isImport \in BOOLEAN, Deliver(s, p, isImport)
    PROVE  CompileIInv'
<1>1. PICK f : f = s[n]
  OBVIOUS
<1>2. HasStack(acts, runner, s, n) /\ IsStack(s, n)
  BY StackIs DEF GoodAt
<1>3. Last(s) = f
  <2>1. Last(s) = s[n]
    BY <1>2 DEF IsStack, Last
  <2> QED
    BY <1>1, <2>1
<1>4. PICK cm : cm = Delivered(f, isImport)
  OBVIOUS
<1>5. PICK q : q = Defined(f, p, isImport)
  OBVIOUS
<1>6. Delivers(cm, compiler, f, isImport)
  BY <1>4 DEF Delivers, Delivered, ResultFor
<1>7. Defines(q, p, f, isImport)
  BY <1>5 DEF Defines, Defined, IsEdit
<1>8. GoodAt(cm, q, acts, runner, "full", work', s, n, len)
  BY <1>1, <1>6, <1>7, GoodDeliver
<1>9. \E t : GoodAt(compiler', programs', activities', runner, "full", work', t, n, len)
      /\ unwinding' = unwinding
  <2>1. CASE f.blocks = <<>>
    <3>1. TranslateWaiting(s, cm, q)
      BY <1>3, <1>4, <1>5, <2>1 DEF Deliver
    <3> QED
      BY <1>8, <3>1, TranslateStep
  <2>2. CASE f.blocks # <<>>
    <3>1. compiler' = cm /\ programs' = q /\ SetCalls(s) /\ unwinding' = unwinding
      BY <1>3, <1>4, <1>5, <2>2 DEF Deliver
    <3>2. activities' = acts
      BY <3>1 DEF SetCalls, Turned
    <3> QED
      BY <1>8, <3>1, <3>2
  <2> QED
    BY <2>1, <2>2
<1> QED
  BY <1>9, GoesOn

LEMMA StepCloseBlock ==
    ASSUME CompileIInv, CloseBlock
    PROVE  CompileIInv'
<1>1. Doing("compile") /\ Now.blocks # <<>> /\ UNCHANGED <<runner, built, work>>
  BY DEF CloseBlock
<1>2. PICK s, n, len, f : HereIs(s, n, len, f) /\ f.at = "compile"
  BY <1>1, DoingIs
<1>3. RestTyped /\ ~ unwinding[runner]
  BY <1>1, DoingIs DEF Doing
<1>4. /\ GoodAt(compiler, programs, activities, runner, "full", work, s, n, len)
      /\ s # <<>> /\ f = s[n] /\ f = Now /\ s = Calls /\ IsStack(s, n)
      /\ f \in ActivityType /\ IsWork(work)
  BY <1>2, HereFacts
<1>5. \E t : GoodAt(compiler', programs', activities', runner, "full", work, t, n, len)
      /\ unwinding' = unwinding
  <2>1. CASE Len(Now.blocks) = 1
    <3>1. TranslateWaiting(s, compiler, programs)
      BY <1>4, <2>1 DEF CloseBlock
    <3>2. s[n].at = "compile"
      BY <1>2, <1>4
    <3> QED
      BY <1>3, <1>4, <3>1, <3>2, TurnsNow, TranslateStep
  <2>2. CASE Len(Now.blocks) # 1
    <3>1. /\ compiler' = [compiler EXCEPT !.loops = @ - Opens(Last(Now.blocks))]
          /\ SetCalls(Append(Front(Calls), [Now EXCEPT !.blocks = Front(@)]))
          /\ programs' = programs /\ unwinding' = unwinding
      BY <2>2 DEF CloseBlock
    <3>2. PICK a : BlockCloses(a, f)
      BY DEF BlockCloses
    <3>3. PICK t : Tops(t, s, a)
      BY DEF Tops
    <3>4. f.blocks # <<>>
      BY <1>1, <1>4
    <3>5. a \in ActivityType
      BY <1>4, <3>2, <3>4, BlockClosed
    <3>6. Retop(t, s, n, a)
      BY <1>4, <3>3, <3>5, TopsIs
    <3>7. activities' = Turned(activities, runner, t)
      <4>1. t = Append(Front(Calls), [Now EXCEPT !.blocks = Front(@)])
        BY <1>4, <3>2, <3>3 DEF Tops, BlockCloses
      <4> QED
        BY <3>1, <4>1 DEF SetCalls, Turned
    <3>8. LoopsMove(compiler', compiler, compiler.loops - Opens(Last(f.blocks)))
      BY <1>4, <3>1 DEF LoopsMove
    <3>9. GoodAt(compiler', programs, activities', runner, "full", work, t, n, len)
      BY <1>2, <1>4, <3>2, <3>4, <3>6, <3>7, <3>8, GoodClose
    <3> QED
      BY <3>1, <3>9
  <2> QED
    BY <2>1, <2>2
<1> QED
  BY <1>1, <1>3, <1>5, GoesOn

(* The line that is being read waits for a result.                         *)
LEMMA WaitStep ==
    ASSUME CompileIInv, MayWrite
    PROVE  /\ RestTyped /\ ~ unwinding[runner]
           /\ \E acts, t, n, len :
                  /\ GoodAt(compiler, programs, acts, runner, "short", work', t, n, len)
                  /\ t # <<>> /\ t[n].at = "compile"
                  /\ t = Append(Front(Calls), WaitingLine)
                  /\ Turns(acts) /\ acts = Turned(activities, runner, t)
<1>1. Doing("compile") /\ work < MaxWork /\ work' = work + 1
  BY DEF MayWrite, Spend
<1>2. PICK s, n, len, f : HereIs(s, n, len, f) /\ f.at = "compile"
  BY <1>1, DoingIs
<1>3. RestTyped /\ ~ unwinding[runner]
  BY <1>1, DoingIs DEF Doing
<1>4. /\ GoodAt(compiler, programs, activities, runner, "full", work, s, n, len)
      /\ s # <<>> /\ f = s[n] /\ f = Now /\ s = Calls /\ IsStack(s, n)
      /\ f \in ActivityType /\ IsWork(work)
      /\ HasStack(activities, runner, s, n)
  BY <1>2, HereFacts
<1>5. PICK m : HasScopes(compiler, m)
  BY DEF HasScopes
<1>6. /\ compiler.cxt = f.cxt /\ programs[f.cxt].unit = Unit(f.cxt, "program")
      /\ CompileOK(f, work)
  <2>1. /\ GoodAt(compiler, programs, activities, runner, "full", work, s, n, len)
        /\ s # <<>> /\ f = s[n] /\ f.at = "compile"
    BY <1>2, <1>4
  <2>2. f.cxt = compiler.cxt
    BY ONLY <1>5, <2>1, Served
  <2>3. programs[f.cxt].unit = Unit(f.cxt, "program")
    BY ONLY <1>5, <2>1, Served
  <2>4. CompileOK(f, work)
    BY ONLY <1>5, <2>1, Served
  <2> QED
    BY <2>2, <2>3, <2>4
<1>7. PICK unit : unit = Unit(f.cxt, "program")
  OBVIOUS
<1>8. PICK a : LineWaits(a, f, unit)
  BY DEF LineWaits
<1>9. a = WaitingLine
  <2>1. programs[compiler.cxt].unit = unit
    BY <1>6, <1>7
  <2> QED
    BY <1>4, <1>8, <2>1 DEF LineWaits, WaitingLine, NextLine
<1>10. PICK t : Tops(t, s, a)
  BY DEF Tops
<1>11. Worked(work', work)
  BY <1>1, <1>4, SpendIs
<1>12. a \in ActivityType /\ Alike(a, f)
  <2>1. f.line \in LineNumbers
    BY <1>2, <1>6, <1>11, WorkedIs DEF CompileOK
  <2>2. unit \in Units
    BY <1>4, <1>7 DEF ActivityType, Units, Unit
  <2> QED
    BY <1>4, <1>8, <2>1, <2>2, LineWaited
<1>13. Retop(t, s, n, a)
  BY <1>4, <1>10, <1>12, TopsIs
<1>14. PICK acts : acts = Turned(activities, runner, t)
  OBVIOUS
<1>15. GoodAt(compiler, programs, acts, runner, "short", work', t, n, len)
  BY <1>2, <1>4, <1>7, <1>8, <1>11, <1>13, <1>14, GoodWait
<1>16. t # <<>> /\ t[n].at = "compile"
  <2>1. t # <<>> /\ t[n] = a
    <3>1. IsStack(s, n) /\ s # <<>> /\ Alike(a, s[n])
      BY <1>4, <1>12
    <3> QED
      BY <1>12, <1>13, <3>1, TopIs
  <2> QED
    BY <1>2, <1>12, <2>1 DEF Alike
<1>17. t = Append(Front(Calls), WaitingLine)
  BY <1>4, <1>9, <1>10 DEF Tops
<1>18. Turns(acts)
  BY <1>4, <1>14, StackIs, TurnsTwice
<1> QED
  BY <1>3, <1>14, <1>15, <1>16, <1>17, <1>18

LEMMA StepResolve ==
    ASSUME CompileIInv, NEW isImport \in BOOLEAN, Resolve(isImport)
    PROVE  CompileIInv'
<1>1. /\ MayWrite /\ UNCHANGED <<runner, built>>
      /\ Deliver(Append(Front(Calls), WaitingLine), programs, isImport)
  BY DEF Resolve
<1>2. RestTyped /\ ~ unwinding[runner]
  BY <1>1, WaitStep
<1>3. PICK acts, t, n, len :
          /\ GoodAt(compiler, programs, acts, runner, "short", work', t, n, len)
          /\ t # <<>> /\ t[n].at = "compile"
          /\ t = Append(Front(Calls), WaitingLine)
          /\ Turns(acts) /\ acts = Turned(activities, runner, t)
  BY <1>1, WaitStep
<1>4. Deliver(t, programs, isImport)
  BY <1>1, <1>3
<1> QED
  BY <1>1, <1>2, <1>3, <1>4, DeliverStep

(* A compile() begins, above the calls s.                                  *)
LEMMA ActivityIs ==
    ASSUME NEW len, CompilerTyped(compiler, len), NEW c \in Cxts, NEW u \in Units,
           NEW at \in {"compile", "run", "eval", "fiber"}, NEW a, a = Activity(at, c, u, {})
    PROVE  /\ a \in ActivityType /\ a.at = at /\ a.cxt = c /\ a.bound = compiler.cxt
           /\ a.unit = u /\ a.names = {} /\ a.base = Len(compiler.pool)
           /\ a.loops = compiler.loops /\ a.line = 1 /\ a.blocks = <<>> /\ a.waiting = <<>>
<1>1. compiler.cxt \in Cxts /\ compiler.pool \in Seq(Results) /\ compiler.loops \in Int
  BY CompilerIs
<1>2. PICK b \in Cxts, k \in Nat, l \in Int :
          b = compiler.cxt /\ k = Len(compiler.pool) /\ l = compiler.loops
  BY <1>1
<1>3. PICK bs \in Seq(BOOLEAN) : bs = <<>>
  <2>1. <<>> \in Seq(BOOLEAN)
    OBVIOUS
  <2> QED
    BY <2>1
<1>4. PICK v \in Seq([line : LineNumbers, unit : Units]) : v = <<>>
  <2>1. <<>> \in Seq([line : LineNumbers, unit : Units])
    OBVIOUS
  <2> QED
    BY <2>1
<1>5. PICK nm \in SUBSET LineNumbers : nm = {}
  OBVIOUS
<1>6. a = [at |-> at, cxt |-> c, bound |-> b, unit |-> u, names |-> nm,
           base |-> k, loops |-> l, line |-> 1, blocks |-> bs, waiting |-> v]
  BY <1>2, <1>3, <1>4, <1>5 DEF Activity
<1>7. a \in ActivityType
  BY ONLY <1>6, at \in {"compile", "run", "eval", "fiber"}, c \in Cxts, u \in Units,
     b \in Cxts, k \in Nat, l \in Int, bs \in Seq(BOOLEAN), nm \in SUBSET LineNumbers,
     v \in Seq([line : LineNumbers, unit : Units]) DEF ActivityType
<1> QED
  BY <1>2, <1>3, <1>4, <1>5, <1>6, <1>7

LEMMA BeginStep ==
    ASSUME RestTyped, ~ unwinding[runner],
           NEW p, NEW acts, NEW mode, NEW s, NEW n, NEW len,
           GoodAt(compiler, p, acts, runner, mode, work', s, n, len), Turns(acts),
           mode = "short" \/ n = 0 \/ s[n].at # "compile",
           NEW c \in 1 .. len, p[c] = NewProgram(c), Free(acts, c),
           \A i \in DOMAIN s : s[i].cxt < c, c = 1 => n = 0, n = 0 => runner = MainRunner,
           BeginCompile(s, c, p)
    PROVE  CompileIInv'
<1>1. CompilerTyped(compiler, len) /\ len \in Cxts
  BY DEF GoodAt, ContextsTyped
<1>2. c \in Cxts
  BY <1>1, CompileAssumption DEF Cxts
<1>3. PICK u \in Units : u = Unit(c, "context") /\ p[c].unit = u /\ p[c].names = {}
  <2>1. Unit(c, "context") \in Units
    BY <1>2 DEF Unit, Units
  <2> QED
    BY <1>2, <2>1, NewProgramIs
<1>4. PICK a : a = Activity("compile", c, u, {})
  OBVIOUS
<1>5. Begins(a, compiler, c)
  BY <1>1, <1>2, <1>3, <1>4, ActivityIs DEF Begins
<1>6. PICK t : Above(t, s, a)
  BY DEF Above
<1>7. PICK m : m = n + 1
  OBVIOUS
<1>8. /\ compiler' = [compiler EXCEPT !.scopes = Append(@, <<>>), !.loops = 0, !.cxt = c]
      /\ programs' = [p EXCEPT ![c].unit = Unit(c, "program"), ![c].transactions = @ + 1]
      /\ SetCalls(Append(s, Activity("compile", c, p[c].unit, p[c].names)))
      /\ UNCHANGED <<unwinding, runner, built>>
  BY DEF BeginCompile
<1>9. Starts(compiler', compiler, c)
  BY <1>8 DEF Starts
<1>10. OpensContext(programs', p, c)
  <2>1. PICK y : y = [p[c] EXCEPT !.unit = Unit(c, "program"), !.transactions = @ + 1]
    OBVIOUS
  <2>2. p \in Seq(ProgramType) /\ len = Len(p) /\ DOMAIN p = 1 .. len
    BY DEF GoodAt, ContextsTyped, SizeIs
  <2>3. p[c] \in ProgramType
    BY <2>2
  <2>4. programs' = [p EXCEPT ![c] = y]
    BY <1>8, <2>1, <2>2, <2>3 DEF ProgramType
  <2> QED
    BY <2>1, <2>4 DEF OpensContext, IsEdit
<1>11. activities' = Turned(acts, runner, t)
  <2>1. t = Append(s, Activity("compile", c, p[c].unit, p[c].names))
    BY <1>3, <1>4, <1>6 DEF Above
  <2>2. activities' = Turned(activities, runner, t)
    BY <1>8, <2>1 DEF SetCalls, Turned
  <2> QED
    BY <2>2 DEF Turns
<1>12. GoodAt(compiler', programs', activities', runner, "full", work', t, m, len)
  BY <1>5, <1>6, <1>7, <1>9, <1>10, <1>11, GoodBegin
<1> QED
  BY <1>8, <1>12, GoesOn

LEMMA StepStartProgram ==
    ASSUME CompileIInv, StartProgram
    PROVE  CompileIInv'
<1>1. /\ runner = MainRunner /\ Calls = <<>> /\ ~ unwinding[runner]
      /\ programs = <<NewProgram(1)>> /\ BeginCompile(<<>>, 1, programs) /\ work' = work
  BY DEF StartProgram
<1>2. RestTyped
  BY Stands
<1>3. PICK s, n, len : At(s, n, len, "full")
  BY <1>1, Stands
<1>4. GoodAt(compiler, programs, activities, runner, "full", work', s, n, len)
      /\ s = Calls
  BY <1>1, <1>3 DEF At
<1>5. /\ HasStack(activities, runner, s, n) /\ OwnersOK(activities, runner, len)
      /\ SizeIs(programs, len)
  BY <1>4 DEF GoodAt
<1>6. s = <<>> /\ n = 0 /\ activities[runner] = <<>>
  <2>1. s = <<>> /\ activities[runner] = <<>>
    BY <1>1, <1>4 DEF Calls
  <2>2. n = 0
    BY <1>5, <2>1, StackIs DEF IsStack
  <2> QED
    BY <2>1, <2>2
<1>7. 1 \in 1 .. len /\ programs[1] = NewProgram(1)
  BY <1>1, <1>5 DEF SizeIs
<1>8. Free(activities, 1)
  <2> SUFFICES ASSUME NEW r \in Runners, NEW i \in DOMAIN activities[r],
                      Owns(activities[r][i]), activities[r][i].cxt = 1
               PROVE  FALSE
    BY DEF Free
  <2>1. r = MainRunner
    BY <1>5 DEF OwnersOK
  <2>2. activities[r] = <<>>
    BY <1>1, <1>6, <2>1
  <2> QED
    BY <2>2
<1>9. BeginCompile(s, 1, programs)
  BY <1>1, <1>6
<1>10. \A i \in DOMAIN s : s[i].cxt < 1
  BY <1>6
<1>11. Turns(activities)
  BY TurnsNow
<1> QED
  BY <1>1, <1>2, <1>4, <1>6, <1>7, <1>8, <1>9, <1>10, <1>11, BeginStep

(* A context of its own is made, and compiled above the calls t.           *)
LEMMA NewStep ==
    ASSUME RestTyped, ~ unwinding[runner],
           NEW acts, NEW mode, NEW t, NEW n, NEW len,
           GoodAt(compiler, programs, acts, runner, mode, work', t, n, len), Turns(acts),
           t # <<>>, mode = "short" \/ t[n].at # "compile",
           New <= MaxPrograms,
           BeginCompile(t, New, Append(programs, NewProgram(New)))
    PROVE  CompileIInv'
<1>1. /\ HasStack(acts, runner, t, n) /\ SizeIs(programs, len) /\ ContextsTyped(programs, len)
  BY DEF GoodAt
<1>2. PICK len2 : len2 = len + 1
  OBVIOUS
<1>3. len2 = New /\ len \in Cxts
  BY <1>1, <1>2 DEF New, SizeIs, ContextsTyped
<1>4. PICK p2 : Extended(p2, programs, len2)
  BY DEF Extended
<1>5. /\ GoodAt(compiler, p2, acts, runner, mode, work', t, n, len2)
      /\ p2[len2] = NewProgram(len2) /\ len2 \in 1 .. len2 /\ Free(acts, len2)
      /\ \A i \in DOMAIN t : t[i].cxt < len2
  <2>1. len2 <= MaxPrograms
    BY <1>3
  <2> QED
    BY <1>2, <1>4, <2>1, NewContext
<1>6. BeginCompile(t, len2, p2)
  BY <1>3, <1>4 DEF Extended
<1>7. n # 0 /\ len2 # 1
  <2>1. n # 0
    BY <1>1, StackIs DEF IsStack
  <2>2. len2 # 1
    BY <1>2, <1>3, CompileAssumption DEF Cxts
  <2> QED
    BY <2>1, <2>2
<1> QED
  BY <1>5, <1>6, <1>7, BeginStep

LEMMA StepImportNew ==
    ASSUME CompileIInv, ImportNew
    PROVE  CompileIInv'
<1>1. /\ MayWrite /\ New <= MaxPrograms
      /\ BeginCompile(Append(Front(Calls), WaitingLine), New, Append(programs, NewProgram(New)))
  BY DEF ImportNew
<1>2. RestTyped /\ ~ unwinding[runner]
  BY <1>1, WaitStep
<1>3. PICK acts, t, n, len :
          /\ GoodAt(compiler, programs, acts, runner, "short", work', t, n, len)
          /\ t # <<>> /\ t[n].at = "compile"
          /\ t = Append(Front(Calls), WaitingLine)
          /\ Turns(acts) /\ acts = Turned(activities, runner, t)
  BY <1>1, WaitStep
<1>4. BeginCompile(t, New, Append(programs, NewProgram(New)))
  BY <1>1, <1>3
<1>5. /\ GoodAt(compiler, programs, acts, runner, "short", work', t, n, len)
      /\ t # <<>> /\ Turns(acts)
  BY <1>3
<1> QED
  BY <1>1, <1>2, <1>4, <1>5, NewStep

LEMMA RunningIs ==
    ASSUME CompileIInv, Running
    PROVE  /\ RestTyped /\ ~ unwinding[runner]
           /\ \E s, n, len, f :
                  HereIs(s, n, len, f) /\ f.at \in {"run", "fiber", "eval"}
<1>1. PICK what \in {"run", "fiber", "eval"} : Doing(what)
  BY DEF Running
<1>2. RestTyped /\ \E s, n, len, f : HereIs(s, n, len, f) /\ f.at = what
  BY <1>1, DoingIs
<1>3. ~ unwinding[runner]
  BY <1>1 DEF Doing
<1> QED
  BY <1>2, <1>3

LEMMA StepImportRunning ==
    ASSUME CompileIInv, ImportRunning
    PROVE  CompileIInv'
<1>1. /\ Running /\ work < MaxWork /\ work' = work + 1 /\ New <= MaxPrograms
      /\ BeginCompile(Calls, New, Append(programs, NewProgram(New)))
  BY DEF ImportRunning, MayAct, Spend
<1>2. RestTyped /\ ~ unwinding[runner]
  BY <1>1, RunningIs
<1>3. PICK s, n, len, f : HereIs(s, n, len, f) /\ f.at \in {"run", "fiber", "eval"}
  BY <1>1, RunningIs
<1>4. /\ GoodAt(compiler, programs, activities, runner, "full", work, s, n, len)
      /\ s # <<>> /\ s = Calls /\ IsWork(work)
  BY <1>3, HereFacts
<1>5. s[n].at # "compile"
  <2>1. f = s[n]
    BY <1>3, HereFacts
  <2> QED
    BY <1>3, <2>1
<1>6. Later(work', work) /\ IsWork(work')
  BY <1>1, <1>4, SpendIs
<1>7. GoodAt(compiler, programs, activities, runner, "full", work', s, n, len)
  BY <1>4, <1>6, GoodLater
<1>8. BeginCompile(s, New, Append(programs, NewProgram(New)))
  BY <1>1, <1>4
<1>9. s # <<>> /\ Turns(activities)
  BY <1>4, TurnsNow
<1> QED
  BY <1>1, <1>2, <1>5, <1>7, <1>8, <1>9, NewStep

(* The record of a context that its compile() closes.                      *)
LEMMA ClosesIs ==
    ASSUME NEW p, NEW len, SizeIs(p, len), ContextsTyped(p, len), NEW f, f.cxt \in 1 .. len
    PROVE  /\ Closes(RolledBack(f, p), p, f, p[f.cxt].statements)
           /\ Closes([RolledBack(f, p) EXCEPT ![f.cxt].statements = <<>>], p, f, <<>>)
<1>1. PICK c : c = f.cxt
  OBVIOUS
<1>2. p \in Seq(ProgramType) /\ len = Len(p) /\ DOMAIN p = 1 .. len /\ c \in 1 .. len
  BY <1>1 DEF SizeIs, ContextsTyped
<1>3. PICK z \in ProgramType : z = p[c]
  BY <1>2
<1>4. PICK x : x = [z EXCEPT !.unit = f.unit, !.names = f.names, !.transactions = @ - 1]
  OBVIOUS
<1>5. RolledBack(f, p) = [p EXCEPT ![c] = x]
  BY <1>1, <1>2, <1>3, <1>4 DEF RolledBack, ProgramType
<1>6. x = [z EXCEPT !.unit = f.unit, !.names = f.names, !.transactions = @ - 1,
                    !.statements = z.statements]
  BY ONLY <1>4, z \in ProgramType DEF ProgramType
<1>7. Closes(RolledBack(f, p), p, f, p[f.cxt].statements)
  BY <1>1, <1>3, <1>5, <1>6 DEF Closes, IsEdit
<1>8. [RolledBack(f, p) EXCEPT ![f.cxt].statements = <<>>]
          = [p EXCEPT ![c] = [x EXCEPT !.statements = <<>>]]
  <2>1. PICK q : q = [p EXCEPT ![c] = x]
    OBVIOUS
  <2>2. q[c] = x /\ [q EXCEPT ![c] = [x EXCEPT !.statements = <<>>]]
                        = [p EXCEPT ![c] = [x EXCEPT !.statements = <<>>]]
    BY <1>2, <2>1
  <2> QED
    BY <1>1, <1>5, <2>1, <2>2
<1>9. [x EXCEPT !.statements = <<>>]
          = [z EXCEPT !.unit = f.unit, !.names = f.names, !.transactions = @ - 1,
                      !.statements = <<>>]
  BY <1>4
<1> QED
  BY <1>1, <1>3, <1>7, <1>8, <1>9 DEF Closes, IsEdit

(* All lines are translated, and the program runs.                         *)
LEMMA StepEndCompile ==
    ASSUME CompileIInv, EndCompile
    PROVE  CompileIInv'
<1>1. /\ Doing("compile") /\ Now.blocks = <<>>
      /\ compiler' = Restored(Now)
      /\ programs' = RolledBack(Now, Utilized(programs))
      /\ SetCalls(Append(Front(Calls), Activity("run", Now.cxt, Now.unit, {})))
      /\ UNCHANGED <<unwinding, runner, built, work>>
  BY DEF EndCompile
<1>2. PICK s, n, len, f : HereIs(s, n, len, f) /\ f.at = "compile"
  BY <1>1, DoingIs
<1>3. RestTyped /\ ~ unwinding[runner]
  BY <1>1, DoingIs DEF Doing
<1>4. /\ GoodAt(compiler, programs, activities, runner, "full", work, s, n, len)
      /\ s # <<>> /\ f = s[n] /\ f = Now /\ s = Calls /\ IsStack(s, n)
      /\ f \in ActivityType /\ f.cxt \in 1 .. len /\ f.bound \in 1 .. len
      /\ len \in Cxts /\ n \in Nat /\ n >= 1
  BY <1>2, HereFacts
<1>5. PICK p : p = Utilized(programs)
  OBVIOUS
<1>6. Marks(p, programs, compiler)
  BY <1>5 DEF Marks, Utilized
<1>7. /\ GoodAt(compiler, p, activities, runner, "full", work, s, n, len)
      /\ \A i \in Compilers(s) : p[s[i].cxt].marked = p[s[i].cxt].constants
  BY <1>4, <1>6, GoodMarks
<1>8. p[f.cxt].marked = p[f.cxt].constants
  <2>1. n \in DOMAIN s
    BY <1>4 DEF IsStack
  <2>2. n \in Compilers(s)
    BY <1>2, <1>4, <2>1 DEF Compilers
  <2> QED
    BY <1>4, <1>7, <2>2
<1>9. Restores(compiler', compiler, f)
  BY <1>1, <1>4 DEF Restores, Restored
<1>10. SizeIs(p, len) /\ ContextsTyped(p, len) /\ CompilerTyped(compiler, len)
  BY <1>7 DEF GoodAt
<1>11. Closes(programs', p, f, p[f.cxt].statements)
  <2>1. programs' = RolledBack(f, p)
    BY <1>1, <1>4, <1>5
  <2>2. f.cxt \in 1 .. len
    BY <1>4
  <2> QED
    BY <1>10, <2>1, <2>2, ClosesIs
<1>12. PICK t : Beneath(t, s)
  BY DEF Beneath
<1>13. PICK acts : acts = Turned(activities, runner, t)
  OBVIOUS
<1>14. PICK m : m = n - 1
  OBVIOUS
<1>15. f.at = "compile" /\ f = s[n] /\ s # <<>>
  BY <1>2, <1>4
<1>16. /\ GoodAt(compiler', programs', acts, runner, "short", work, t, m, len)
       /\ Ended(programs', p, acts, runner, f, t, m, len)
  <2>1. PICK st : st = p[f.cxt].statements
    OBVIOUS
  <2>2. Left(st, p[f.cxt].statements)
    BY <2>1 DEF Left
  <2>3. Closes(programs', p, f, st)
    BY <1>11, <2>1
  <2>4. GoodAt(compiler, p, activities, runner, "full", work, s, n, len)
    BY <1>7
  <2> QED
    BY ONLY <2>2, <2>3, <2>4, <1>9, <1>12, <1>13, <1>15, <1>14, GoodEnd
<1>17. PICK c : c = f.cxt
  OBVIOUS
<1>18. c \in Cxts /\ f.unit \in Units
  BY <1>4, <1>17 DEF ActivityType
<1>19. PICK a : a = Activity("run", c, f.unit, {})
  OBVIOUS
<1>20. a \in ActivityType /\ a.at = "run" /\ a.cxt = c /\ a.bound = compiler.cxt /\ a.line = 1
  BY <1>10, <1>18, <1>19, ActivityIs
<1>21. a.bound \in 1 .. len
  BY <1>4, <1>10, <1>20, CompilerIs, CompileAssumption DEF Cxts
<1>22. PICK u : Above(u, t, a)
  BY DEF Above
<1>23. PICK k : k = m + 1
  OBVIOUS
<1>24. activities' = Turned(acts, runner, u)
  <2>1. u = Append(Front(Calls), Activity("run", Now.cxt, Now.unit, {}))
    BY <1>4, <1>12, <1>17, <1>19, <1>22 DEF Above, Beneath
  <2>2. activities' = Turned(activities, runner, u)
    BY <1>1, <2>1 DEF SetCalls, Turned
  <2>3. activities \in [Runners -> Seq(ActivityType)] /\ runner \in Runners
    BY <1>7, StackIs DEF GoodAt
  <2>4. Turns(acts)
    BY <1>13, <2>3, TurnsTwice
  <2> QED
    BY <2>2, <2>4 DEF Turns
<1>25. c \in 1 .. len /\ programs'[c].names = {} /\ programs'[c].constants = programs'[c].marked
  BY <1>8, <1>16, <1>17 DEF Ended
<1>26. Free(acts, c) /\ (\A i \in Compilers(t) : t[i].cxt < c) /\ (c = 1 => m = 0)
       /\ (m = 0 => runner = MainRunner)
  BY <1>16, <1>17 DEF Ended
<1>27. GoodAt(compiler', programs', activities', runner, "full", work, u, k, len)
  BY <1>16, <1>20, <1>21, <1>22, <1>23, <1>24, <1>25, <1>26, GoodRun
<1>28. work' = work /\ UNCHANGED <<unwinding, runner, built>>
  BY <1>1
<1> QED
  BY <1>3, <1>27, <1>28, GoesOn

(* Nothing but a compile() or the program that it has compiled stands on   *)
(* a compile().                                                            *)
LEMMA OnACompile ==
    ASSUME NEW s, NEW n, IsStack(s, n), s # <<>>, NestOK(s),
           s[n].at \notin {"compile", "run"}, NEW t, Beneath(t, s), NEW m, m = n - 1
    PROVE  t = <<>> \/ t[m].at # "compile"
<1> SUFFICES ASSUME t # <<>>, t[m].at = "compile"
             PROVE  FALSE
  OBVIOUS
<1>1. /\ n \in Nat /\ n >= 1 /\ DOMAIN s = 1 .. n
      /\ t \in Seq(ActivityType) /\ Len(t) = n - 1
      /\ \A i \in 1 .. n - 1 : t[i] = s[i]
  BY PopSets
<1>2. m \in 1 .. n - 1 /\ m \in 1 .. n /\ n \in 1 .. n /\ n = m + 1 /\ m < n
  <2>1. n - 1 # 0
    BY <1>1
  <2> QED
    BY <1>1, <2>1
<1>3. s[m].at = "compile"
  BY <1>1, <1>2
<1>4. m \in Compilers(s)
  BY <1>1, <1>2, <1>3 DEF Compilers
<1> QED
  BY <1>1, <1>2, <1>4 DEF NestOK

LEMMA StepBeginEval ==
    ASSUME CompileIInv, BeginEval
    PROVE  CompileIInv'
<1>1. /\ Running /\ work < MaxWork /\ work' = work + 1
      /\ SetCalls(Append(Calls, Activity("eval", Now.cxt, programs[Now.cxt].unit, {})))
      /\ programs' = [programs EXCEPT ![Now.cxt].unit = Unit(Now.cxt, "expression")]
      /\ compiler' = [compiler EXCEPT !.cxt = Now.cxt, !.pool = ExpressionPool]
      /\ UNCHANGED <<unwinding, runner, built>>
  BY DEF BeginEval, MayAct, Spend
<1>2. RestTyped /\ ~ unwinding[runner]
  BY <1>1, RunningIs
<1>3. PICK s, n, len, f : HereIs(s, n, len, f) /\ f.at \in {"run", "fiber", "eval"}
  BY <1>1, RunningIs
<1>4. /\ GoodAt(compiler, programs, activities, runner, "full", work, s, n, len)
      /\ s # <<>> /\ f = s[n] /\ f = Now /\ s = Calls /\ IsWork(work)
      /\ f.cxt \in 1 .. len /\ len \in Cxts
  BY <1>3, HereFacts
<1>5. PICK c : c = f.cxt
  OBVIOUS
<1>6. c \in 1 .. len /\ c \in Cxts
  BY <1>4, <1>5, CompileAssumption DEF Cxts
<1>7. SizeIs(programs, len) /\ ContextsTyped(programs, len) /\ CompilerTyped(compiler, len)
  BY <1>4 DEF GoodAt
<1>8. programs[c].unit \in Units
  <2>1. programs \in Seq(ProgramType) /\ len = Len(programs) /\ DOMAIN programs = 1 .. len
    BY <1>7 DEF ContextsTyped, SizeIs
  <2>2. programs[c] \in ProgramType
    BY <1>6, <2>1
  <2> QED
    BY <2>2 DEF ProgramType
<1>9. PICK a : a = Activity("eval", c, programs[c].unit, {})
  OBVIOUS
<1>10. Evaluates(a, compiler, programs, c)
  BY <1>6, <1>7, <1>8, <1>9, ActivityIs DEF Evaluates
<1>11. PICK t, m : Above(t, s, a) /\ m = n + 1
  BY DEF Above
<1>12. activities' = Turned(activities, runner, t)
  <2>1. t = Append(Calls, Activity("eval", Now.cxt, programs[Now.cxt].unit, {}))
    BY <1>4, <1>5, <1>9, <1>11 DEF Above
  <2> QED
    BY <1>1, <2>1 DEF SetCalls, Turned
<1>13. Rebinds(compiler', compiler, c)
  BY <1>1, <1>4, <1>5 DEF Rebinds, ExpressionPool, Constant
<1>14. SetsUnit(programs', programs, c, Unit(c, "expression"))
  BY <1>1, <1>4, <1>5 DEF SetsUnit, IsEdit
<1>15. Later(work', work) /\ IsWork(work')
  BY <1>1, <1>4, SpendIs
<1>16. s[n].at # "compile" /\ c = s[n].cxt
  BY <1>3, <1>4, <1>5
<1>17. GoodAt(compiler', programs', activities', runner, "full", work', t, m, len)
  <2>1. GoodAt(compiler, programs, activities, runner, "full", work, s, n, len) /\ s # <<>>
    BY <1>4
  <2> QED
    BY <1>10, <1>11, <1>12, <1>13, <1>14, <1>15, <1>16, <2>1, GoodEval
<1> QED
  BY <1>1, <1>2, <1>17, GoesOn

LEMMA StepEndEval ==
    ASSUME CompileIInv, EndEval
    PROVE  CompileIInv'
<1>1. /\ Doing("eval")
      /\ compiler' = EvalRestored(Now) /\ programs' = UnitRestored(Now)
      /\ SetCalls(Front(Calls))
      /\ UNCHANGED <<unwinding, runner, built, work>>
  BY DEF EndEval
<1>2. PICK s, n, len, f : HereIs(s, n, len, f) /\ f.at = "eval"
  BY <1>1, DoingIs
<1>3. RestTyped /\ ~ unwinding[runner]
  BY <1>1, DoingIs DEF Doing
<1>4. /\ GoodAt(compiler, programs, activities, runner, "full", work, s, n, len)
      /\ s # <<>> /\ f = s[n] /\ f = Now /\ s = Calls /\ IsStack(s, n)
  BY <1>2, HereFacts
<1>5. PICK t : Beneath(t, s)
  BY DEF Beneath
<1>6. PICK m : m = n - 1
  OBVIOUS
<1>7. activities' = Turned(activities, runner, t)
  BY <1>1, <1>4, <1>5 DEF SetCalls, Turned, Beneath
<1>8. Binds(compiler', compiler, f.bound)
  BY <1>1, <1>4 DEF Binds, EvalRestored
<1>9. SetsUnit(programs', programs, f.cxt, f.unit)
  BY <1>1, <1>4 DEF SetsUnit, IsEdit, UnitRestored
<1>10. GoodAt(compiler', programs', activities', runner, "short", work, t, m, len)
  <2>1. /\ GoodAt(compiler, programs, activities, runner, "full", work, s, n, len)
        /\ s # <<>> /\ f = s[n] /\ f.at = "eval"
    BY <1>2, <1>4
  <2> QED
    BY <1>5, <1>6, <1>7, <1>8, <1>9, <2>1, GoodEvalEnd
<1>11. t = <<>> \/ t[m].at # "compile"
  <2>1. NestOK(s) /\ s[n].at \notin {"compile", "run"}
    BY <1>2, <1>4 DEF GoodAt
  <2> QED
    BY <1>4, <1>5, <1>6, <2>1, OnACompile
<1>12. GoodAt(compiler', programs', activities', runner, "full", work, t, m, len)
  BY <1>10, <1>11, GoodMode
<1>13. work' = work /\ UNCHANGED <<unwinding, runner, built>>
  BY <1>1
<1> QED
  BY <1>3, <1>12, <1>13, GoesOn

(* Running code builds an expression, and runs a statement.               *)
LEMMA StepBuild ==
    ASSUME CompileIInv, Build
    PROVE  CompileIInv'
<1>1. /\ Running /\ work < MaxWork /\ work' = work + 1
      /\ compiler' = [compiler EXCEPT !.pool = ExpressionPool]
      /\ UNCHANGED <<programs, activities, unwinding, runner>>
      /\ built' = built \cup
             {[arena |-> Unit(Now.cxt, "expression"),
               tokens |-> IF compiler.cxt = Now.cxt THEN Unit(Now.cxt, "expression")
                          ELSE programs[compiler.cxt].unit]}
  BY DEF Build, MayAct, Spend
<1>2. RestTyped /\ ~ unwinding[runner]
  BY <1>1, RunningIs
<1>3. PICK s, n, len, f : HereIs(s, n, len, f) /\ f.at \in {"run", "fiber", "eval"}
  BY <1>1, RunningIs
<1>4. /\ GoodAt(compiler, programs, activities, runner, "full", work, s, n, len)
      /\ s # <<>> /\ f = s[n] /\ f = Now /\ s = Calls /\ IsWork(work)
      /\ f.cxt \in 1 .. len /\ len \in Cxts
  BY <1>3, HereFacts
<1>5. PICK c : c = f.cxt
  OBVIOUS
<1>6. c \in 1 .. len /\ c \in Cxts
  BY <1>4, <1>5, CompileAssumption DEF Cxts
<1>7. SizeIs(programs, len) /\ ContextsTyped(programs, len) /\ CompilerTyped(compiler, len)
  BY <1>4 DEF GoodAt
<1>8. Adds(compiler', compiler, c)
  BY <1>1, <1>4, <1>5 DEF Adds, ExpressionPool, Constant
<1>9. Later(work', work) /\ IsWork(work')
  BY <1>1, <1>4, SpendIs
<1>10. s[n].at # "compile" /\ c = s[n].cxt
  BY <1>3, <1>4, <1>5
<1>11. GoodAt(compiler', programs, activities, runner, "full", work', s, n, len)
  <2>1. GoodAt(compiler, programs, activities, runner, "full", work, s, n, len) /\ s # <<>>
    BY <1>4
  <2> QED
    BY <1>8, <1>9, <1>10, <2>1, GoodBuild
<1>12. Unit(c, "expression") \in Units
  BY <1>6 DEF Unit, Units
<1>13. programs[compiler.cxt].unit \in Units
  <2>1. programs \in Seq(ProgramType) /\ len = Len(programs) /\ DOMAIN programs = 1 .. len
    BY <1>7 DEF ContextsTyped, SizeIs
  <2>2. compiler.cxt \in 1 .. len
    BY <1>4, <1>7, CompilerIs, CompileAssumption DEF Cxts
  <2>3. programs[compiler.cxt] \in ProgramType
    BY <2>1, <2>2
  <2> QED
    BY <2>3 DEF ProgramType
<1>14. built' \in SUBSET [arena : Units, tokens : Units]
  <2>1. PICK x : x = IF compiler.cxt = Now.cxt THEN Unit(c, "expression")
                     ELSE programs[compiler.cxt].unit
    OBVIOUS
  <2>2. x \in Units
    BY <1>12, <1>13, <2>1
  <2>3. [arena |-> Unit(c, "expression"), tokens |-> x] \in [arena : Units, tokens : Units]
    BY <1>12, <2>2
  <2>4. built' = built \cup {[arena |-> Unit(c, "expression"), tokens |-> x]}
    BY <1>1, <1>4, <1>5, <2>1
  <2>5. built \subseteq [arena : Units, tokens : Units]
    BY <1>2 DEF RestTyped
  <2> QED
    BY <2>3, <2>4, <2>5
<1>15. /\ unwinding \in [Runners -> BOOLEAN]
       /\ \A r \in Runners : unwinding[r] => r = runner /\ activities[r] # <<>>
  BY <1>2 DEF RestTyped
<1>16. StateOK(compiler', programs, activities, unwinding, runner, built', work')
  BY <1>11, <1>14, <1>15, Arrives
<1> QED
  BY <1>1, <1>16 DEF CompileIInv

LEMMA StepRunStatement ==
    ASSUME CompileIInv, RunStatement
    PROVE  CompileIInv'
<1>1. /\ Doing("run") /\ Now.line <= Len(programs[Now.cxt].statements)
      /\ programs' = [programs EXCEPT
             ![programs[Now.cxt].statements[Now.line].result.cxt].names =
                 @ \cup {programs[Now.cxt].statements[Now.line].result.line}]
      /\ SetCalls(Append(Front(Calls), NextLine))
      /\ UNCHANGED <<compiler, unwinding, runner, built, work>>
  BY DEF RunStatement
<1>2. PICK s, n, len, f : HereIs(s, n, len, f) /\ f.at = "run"
  BY <1>1, DoingIs
<1>3. RestTyped /\ ~ unwinding[runner]
  BY <1>1, DoingIs DEF Doing
<1>4. /\ GoodAt(compiler, programs, activities, runner, "full", work, s, n, len)
      /\ s # <<>> /\ f = s[n] /\ f = Now /\ s = Calls /\ IsStack(s, n)
      /\ f \in ActivityType /\ f.cxt \in 1 .. len
      /\ HasStack(activities, runner, s, n) /\ n \in Nat /\ n >= 1
  BY <1>2, HereFacts
<1>5. PICK c : c = f.cxt
  OBVIOUS
<1>6. SizeIs(programs, len) /\ ContextsOK(programs, s) /\ ActivitiesOK(programs, activities, work)
  BY <1>4 DEF GoodAt
<1>7. StatementsOK(programs[c], c)
  BY <1>4, <1>5, <1>6 DEF ContextsOK, SizeIs
<1>8. RunOK(programs[c], f)
  <2>1. activities[runner] = s /\ n \in DOMAIN s /\ runner \in Runners
    BY <1>4, StackIs DEF IsStack
  <2> QED
    BY <1>4, <1>5, <1>6, <2>1 DEF ActivitiesOK
<1>9. f.line \in DOMAIN programs[c].statements
  <2>1. f.line \in 1 .. Len(programs[c].statements) + 1
    BY <1>2, <1>8 DEF RunOK
  <2>2. programs \in Seq(ProgramType) /\ len = Len(programs) /\ DOMAIN programs = 1 .. len
    BY <1>4 DEF GoodAt, ContextsTyped, SizeIs
  <2>3. programs[c] \in ProgramType
    BY <1>4, <1>5, <2>2
  <2>4. PICK st \in Seq(StatementType) : st = programs[c].statements
    BY <2>3 DEF ProgramType
  <2>5. f.line <= Len(st) /\ f.line \in 1 .. Len(st) + 1
    BY <1>1, <1>4, <1>5, <2>1, <2>4
  <2>6. f.line \in 1 .. Len(st)
    BY <2>5
  <2> QED
    BY <2>4, <2>6
<1>10. PICK l : l = programs[c].statements[f.line].line
  OBVIOUS
<1>11. programs[c].statements[f.line].result = [cxt |-> c, line |-> l]
  BY <1>7, <1>9, <1>10 DEF StatementsOK
<1>12. Remembers(programs', programs, c, programs[c].statements[f.line].line)
  <2>1. /\ programs[c].statements[f.line].result.cxt = c
        /\ programs[c].statements[f.line].result.line = l
    BY <1>11
  <2>2. programs' = [programs EXCEPT ![c].names = @ \cup {l}]
    BY <1>1, <1>4, <1>5, <2>1
  <2> QED
    BY <1>10, <2>2 DEF Remembers, IsEdit
<1>13. PICK a : LineRuns(a, f)
  BY DEF LineRuns
<1>14. a \in ActivityType
  <2>1. PICK k : k = f.line + 1
    OBVIOUS
  <2>2. k \in Nat
    BY <1>4, <2>1 DEF ActivityType
  <2>3. a = [f EXCEPT !.line = k]
    BY <1>13, <2>1 DEF LineRuns
  <2> QED
    BY ONLY <1>4, <2>2, <2>3 DEF ActivityType
<1>15. PICK t : Tops(t, s, a)
  BY DEF Tops
<1>16. Retop(t, s, n, a)
  BY <1>4, <1>14, <1>15, TopsIs
<1>17. activities' = Turned(activities, runner, t)
  <2>1. a = NextLine
    BY <1>4, <1>13 DEF LineRuns, NextLine
  <2>2. t = Append(Front(Calls), NextLine)
    BY <1>4, <1>15, <2>1 DEF Tops
  <2> QED
    BY <1>1, <2>2 DEF SetCalls, Turned
<1>18. f.line <= Len(programs[c].statements)
  BY <1>1, <1>4, <1>5
<1>19. GoodAt(compiler, programs', activities', runner, "full", work, t, n, len)
  <2>1. /\ GoodAt(compiler, programs, activities, runner, "full", work, s, n, len)
        /\ s # <<>> /\ f = s[n] /\ f.at = "run" /\ c = f.cxt
    BY <1>2, <1>4, <1>5
  <2> QED
    BY ONLY <1>12, <1>13, <1>16, <1>17, <1>18, <2>1, GoodStatement
<1>20. compiler' = compiler /\ work' = work /\ UNCHANGED <<unwinding, runner, built>>
  BY <1>1
<1>21. GoodAt(compiler', programs', activities', runner, "full", work', t, n, len)
  BY <1>19, <1>20
<1> QED
  BY <1>3, <1>20, <1>21, GoesOn

(* A program has run: its importer gets the result, if it compiles.        *)
LEMMA StepEndRun ==
    ASSUME CompileIInv, EndRun
    PROVE  CompileIInv'
<1>1. /\ Doing("run")
      /\ IF Len(Calls) > 1 /\ Calls[Len(Calls) - 1].at = "compile"
         THEN Deliver(Front(Calls), programs, TRUE)
         ELSE SetCalls(Front(Calls)) /\ UNCHANGED <<compiler, programs, unwinding>>
      /\ UNCHANGED <<runner, built, work>>
  BY DEF EndRun
<1>2. PICK s, n, len, f : HereIs(s, n, len, f) /\ f.at = "run"
  BY <1>1, DoingIs
<1>3. RestTyped /\ ~ unwinding[runner]
  BY <1>1, DoingIs DEF Doing
<1>4. /\ GoodAt(compiler, programs, activities, runner, "full", work, s, n, len)
      /\ s # <<>> /\ f = s[n] /\ s = Calls /\ IsStack(s, n)
  BY <1>2, HereFacts
<1>5. PICK t : Beneath(t, s)
  BY DEF Beneath
<1>6. PICK m : m = n - 1
  OBVIOUS
<1>7. PICK acts : acts = Turned(activities, runner, t)
  OBVIOUS
<1>8. s[n].at \notin {"compile", "eval"}
  BY <1>2, <1>4
<1>9. GoodAt(compiler, programs, acts, runner, "short", work, t, m, len)
  <2>1. GoodAt(compiler, programs, activities, runner, "full", work, s, n, len) /\ s # <<>>
    BY <1>4
  <2> QED
    BY ONLY <1>5, <1>6, <1>7, <1>8, <2>1, GoodPop
<1>10. /\ n \in Nat /\ n >= 1 /\ n = Len(s) /\ Len(t) = m /\ m \in Nat
       /\ t \in Seq(ActivityType) /\ \A i \in 1 .. m : t[i] = s[i]
  <2>1. /\ n \in Nat /\ n >= 1 /\ n - 1 \in Nat /\ t \in Seq(ActivityType)
        /\ Len(t) = n - 1 /\ \A i \in 1 .. n - 1 : t[i] = s[i]
    BY <1>4, <1>5, PopSets
  <2>2. n = Len(s)
    BY <1>4 DEF IsStack
  <2> QED
    BY <1>6, <2>1, <2>2
<1>11. CASE Len(Calls) > 1 /\ Calls[Len(Calls) - 1].at = "compile"
  <2>1. t[m].at = "compile" /\ t # <<>>
    <3>1. s[m].at = "compile" /\ m >= 1
      BY <1>4, <1>6, <1>10, <1>11
    <3>2. m \in 1 .. m
      BY <1>10, <3>1
    <3> QED
      BY <1>10, <3>1, <3>2
  <2>2. Deliver(t, programs, TRUE)
    <3>1. t = Front(Calls)
      BY <1>4, <1>5 DEF Beneath
    <3> QED
      BY <1>1, <1>11, <3>1
  <2>3. /\ activities \in [Runners -> Seq(ActivityType)] /\ runner \in Runners
    BY <1>4, StackIs DEF GoodAt
  <2>4. Turns(acts)
    BY <1>7, <2>3, TurnsTwice
  <2>5. GoodAt(compiler, programs, acts, runner, "short", work', t, m, len)
    BY <1>1, <1>9
  <2>6. UNCHANGED <<runner, built>> /\ TRUE \in BOOLEAN
    BY <1>1
  <2> QED
    BY <1>3, <1>7, <2>1, <2>2, <2>4, <2>5, <2>6, DeliverStep
<1>12. CASE ~ (Len(Calls) > 1 /\ Calls[Len(Calls) - 1].at = "compile")
  <2>1. t = <<>> \/ t[m].at # "compile"
    <3> SUFFICES ASSUME t # <<>> PROVE t[m].at # "compile"
      OBVIOUS
    <3>1. m # 0
      BY <1>10
    <3>2. m \in 1 .. m /\ n > 1
      BY <1>6, <1>10, <3>1
    <3>3. s[m].at # "compile"
      BY <1>4, <1>6, <1>10, <1>12, <3>2
    <3> QED
      BY <1>10, <3>2, <3>3
  <2>2. GoodAt(compiler, programs, acts, runner, "full", work, t, m, len)
    BY <1>9, <2>1, GoodMode
  <2>3. /\ activities' = acts /\ compiler' = compiler /\ programs' = programs /\ work' = work
        /\ UNCHANGED <<unwinding, runner, built>>
    BY <1>1, <1>4, <1>5, <1>7, <1>12 DEF SetCalls, Turned, Beneath
  <2>4. GoodAt(compiler', programs', activities', runner, "full", work', t, m, len)
    BY <2>2, <2>3
  <2> QED
    BY <1>3, <2>3, <2>4, GoesOn
<1> QED
  BY <1>11, <1>12

(* A step after which another runner, or none, is in control.              *)
LEMMA HandsOver ==
    ASSUME RestTyped, ~ unwinding[runner], UNCHANGED <<unwinding, built>>,
           NEW s, NEW n, NEW len,
           GoodAt(compiler', programs', activities', runner', "full", work', s, n, len)
    PROVE  CompileIInv'
<1>1. \A r \in Runners : ~ unwinding[r]
  BY DEF RestTyped
<1>2. /\ unwinding \in [Runners -> BOOLEAN]
      /\ built \in SUBSET [arena : Units, tokens : Units]
      /\ unwinding' = unwinding /\ built' = built
  BY DEF RestTyped
<1>3. StateOK(compiler', programs', activities', unwinding, runner', built, work')
  BY <1>1, <1>2, Arrives
<1> QED
  BY <1>2, <1>3 DEF CompileIInv

(* A fiber is the first call of its stack, and there is none above it when *)
(* it ends.                                                                *)
LEMMA AloneIs ==
    ASSUME NEW acts, NEW run, NEW len, OwnersOK(acts, run, len), NEW s, NEW n,
           HasStack(acts, run, s, n), s # <<>>, s[n].at = "fiber"
    PROVE  n = 1 /\ run # MainRunner
<1>1. IsStack(s, n) /\ acts[run] = s /\ run \in Runners
  BY StackIs
<1>2. n \in Nat /\ n >= 1 /\ n \in DOMAIN s
  BY <1>1 DEF IsStack
<1>3. PICK b : b = acts[run][n]
  OBVIOUS
<1>4. b.at = "fiber" <=> n = 1 /\ run # MainRunner
  BY <1>1, <1>2, <1>3 DEF OwnersOK
<1> QED
  BY <1>1, <1>3, <1>4

LEMMA StepEndFiber ==
    ASSUME CompileIInv, EndFiber
    PROVE  CompileIInv'
<1>1. /\ Doing("fiber")
      /\ SetCalls(<<>>) /\ runner' = MainRunner
      /\ UNCHANGED <<compiler, programs, unwinding, built, work>>
  BY DEF EndFiber
<1>2. PICK s, n, len, f : HereIs(s, n, len, f) /\ f.at = "fiber"
  BY <1>1, DoingIs
<1>3. RestTyped /\ ~ unwinding[runner]
  BY <1>1, DoingIs DEF Doing
<1>4. /\ GoodAt(compiler, programs, activities, runner, "full", work, s, n, len)
      /\ s # <<>> /\ f = s[n] /\ s = Calls /\ IsStack(s, n)
      /\ HasStack(activities, runner, s, n)
  BY <1>2, HereFacts
<1>5. PICK t : Beneath(t, s)
  BY DEF Beneath
<1>6. PICK m : m = n - 1
  OBVIOUS
<1>7. PICK acts : acts = Turned(activities, runner, t)
  OBVIOUS
<1>8. s[n].at \notin {"compile", "eval"} /\ s[n].at = "fiber"
  BY <1>2, <1>4
<1>9. GoodAt(compiler, programs, acts, runner, "short", work, t, m, len)
  <2>1. GoodAt(compiler, programs, activities, runner, "full", work, s, n, len) /\ s # <<>>
    BY <1>4
  <2> QED
    BY ONLY <1>5, <1>6, <1>7, <1>8, <2>1, GoodPop
<1>10. t = <<>>
  <2>1. OwnersOK(activities, runner, len)
    BY <1>4 DEF GoodAt
  <2>2. n = 1
    BY <1>4, <1>8, <2>1, AloneIs
  <2>3. t \in Seq(ActivityType) /\ Len(t) = n - 1
    BY <1>4, <1>5, PopSets
  <2> QED
    BY <2>2, <2>3
<1>11. activities' = acts
  BY <1>1, <1>7, <1>10 DEF SetCalls, Turned
<1>12. Plain(t)
  BY <1>10 DEF Plain
<1>13. PICK v, k : v = acts[MainRunner] /\ k = Len(v)
  OBVIOUS
<1>14. GoodAt(compiler, programs, acts, MainRunner, "full", work, v, k, len)
  BY <1>9, <1>12, <1>13, CompileAssumption, GoodSwitch
<1>15. GoodAt(compiler', programs', activities', runner', "full", work', v, k, len)
  BY <1>1, <1>11, <1>14
<1>16. UNCHANGED <<unwinding, built>>
  BY <1>1
<1> QED
  BY <1>3, <1>15, <1>16, HandsOver

LEMMA StepSwitchTo ==
    ASSUME CompileIInv, ~ YieldsInCompile, NEW r \in Runners, SwitchTo(r)
    PROVE  CompileIInv'
<1>1. /\ Running /\ \A i \in DOMAIN Calls : Calls[i].at \in {"run", "fiber"}
      /\ runner' = r /\ UNCHANGED <<compiler, programs, activities, unwinding, built, work>>
  BY DEF SwitchTo, MaySwitch
<1>2. RestTyped /\ ~ unwinding[runner]
  BY <1>1, RunningIs
<1>3. PICK s, n, len, f : HereIs(s, n, len, f)
  BY <1>1, RunningIs
<1>4. /\ GoodAt(compiler, programs, activities, runner, "full", work, s, n, len)
      /\ s = Calls
  BY <1>3, HereFacts
<1>5. Plain(s)
  BY <1>1, <1>4 DEF Plain
<1>6. PICK v, k : v = activities[r] /\ k = Len(v)
  OBVIOUS
<1>7. GoodAt(compiler, programs, activities, r, "full", work, v, k, len)
  BY <1>4, <1>5, <1>6, GoodSwitch
<1>8. GoodAt(compiler', programs', activities', runner', "full", work', v, k, len)
  BY <1>1, <1>7
<1>9. UNCHANGED <<unwinding, built>>
  BY <1>1
<1> QED
  BY <1>2, <1>8, <1>9, HandsOver

LEMMA StepStartFiber ==
    ASSUME CompileIInv, ~ YieldsInCompile, NEW r \in Runners, StartFiber(r)
    PROVE  CompileIInv'
<1>1. /\ Running /\ \A i \in DOMAIN Calls : Calls[i].at \in {"run", "fiber"}
      /\ work < MaxWork /\ work' = work + 1
      /\ activities[r] = <<>> /\ r # MainRunner
      /\ activities' = [activities EXCEPT ![r] = <<Activity("fiber", Now.cxt, Now.unit, {})>>]
      /\ runner' = r /\ UNCHANGED <<compiler, programs, unwinding, built>>
  BY DEF StartFiber, MaySwitch, MayAct, Spend
<1>2. RestTyped /\ ~ unwinding[runner]
  BY <1>1, RunningIs
<1>3. PICK s, n, len, f : HereIs(s, n, len, f)
  BY <1>1, RunningIs
<1>4. /\ GoodAt(compiler, programs, activities, runner, "full", work, s, n, len)
      /\ s = Calls /\ f = Now /\ f \in ActivityType /\ f.cxt \in 1 .. len /\ len \in Cxts
      /\ IsWork(work)
  BY <1>3, HereFacts
<1>5. Later(work', work) /\ IsWork(work')
  BY <1>1, <1>4, SpendIs
<1>6. GoodAt(compiler, programs, activities, runner, "full", work', s, n, len)
  BY <1>4, <1>5, GoodLater
<1>7. Plain(s)
  BY <1>1, <1>4 DEF Plain
<1>8. PICK v : v = activities[r]
  OBVIOUS
<1>9. PICK k : k = Len(v)
  OBVIOUS
<1>10. GoodAt(compiler, programs, activities, r, "full", work', v, k, len)
  BY <1>6, <1>7, <1>8, <1>9, GoodSwitch
<1>11. NoneYet(k) /\ v = <<>>
  BY <1>1, <1>8, <1>9 DEF NoneYet
<1>12. PICK c, u : c = f.cxt /\ u = f.unit
  OBVIOUS
<1>13. c \in 1 .. len /\ c \in Cxts /\ u \in Units
  BY <1>4, <1>12, CompileAssumption DEF Cxts, ActivityType
<1>14. PICK a : a = Activity("fiber", c, u, {})
  OBVIOUS
<1>15. CompilerTyped(compiler, len)
  BY <1>4 DEF GoodAt
<1>16. a \in ActivityType /\ a.at = "fiber" /\ a.cxt = c /\ a.bound = compiler.cxt
  BY <1>13, <1>14, <1>15, ActivityIs
<1>17. a.bound \in 1 .. len
  BY <1>4, <1>15, <1>16, CompilerIs, CompileAssumption DEF Cxts
<1>18. PICK t : Above(t, v, a)
  BY DEF Above
<1>19. PICK m : m = k + 1
  OBVIOUS
<1>20. activities' = Turned(activities, r, t)
  <2>1. t = <<a>>
    BY <1>11, <1>18 DEF Above
  <2>2. a = Activity("fiber", Now.cxt, Now.unit, {})
    BY <1>4, <1>12, <1>14
  <2> QED
    BY <1>1, <2>1, <2>2 DEF Turned
<1>21. GoodAt(compiler, programs, activities', r, "full", work', t, m, len)
  <2>1. NoneYet(k) /\ r # MainRunner /\ a.at = "fiber" /\ a.bound \in 1 .. len /\ a.cxt = c
    BY <1>1, <1>11, <1>16, <1>17
  <2>2. a \in ActivityType /\ c \in 1 .. len
    BY <1>13, <1>16
  <2> QED
    BY ONLY <1>10, <1>18, <1>19, <1>20, <2>1, <2>2, GoodFiber
<1>22. GoodAt(compiler', programs', activities', runner', "full", work', t, m, len)
  BY <1>1, <1>21
<1>23. UNCHANGED <<unwinding, built>>
  BY <1>1
<1> QED
  BY <1>2, <1>22, <1>23, HandsOver

LEMMA StepThrow ==
    ASSUME CompileIInv, Throw
    PROVE  CompileIInv'
<1>1. /\ Calls # <<>> /\ unwinding' = [unwinding EXCEPT ![runner] = TRUE]
      /\ UNCHANGED <<compiler, programs, activities, runner, built, work>>
  BY DEF Throw
<1>2. RestTyped
  BY Stands
<1>3. PICK s, n, len : At(s, n, len, "any")
  BY Stands
<1>4. GoodAt(compiler, programs, activities, runner, "any", work, s, n, len)
  BY <1>3 DEF At
<1>5. PICK un : un = [unwinding EXCEPT ![runner] = TRUE]
  OBVIOUS
<1>6. /\ un \in [Runners -> BOOLEAN] /\ un[runner]
      /\ \A r \in Runners : un[r] => r = runner /\ activities[r] # <<>>
  BY <1>1, <1>2, <1>5 DEF RestTyped, Calls
<1>7. built \in SUBSET [arena : Units, tokens : Units]
  BY <1>2 DEF RestTyped
<1>8. StateOK(compiler, programs, activities, un, runner, built, work)
  BY <1>4, <1>6, <1>7, Arrives
<1>9. /\ compiler' = compiler /\ programs' = programs /\ activities' = activities
      /\ unwinding' = un /\ runner' = runner /\ built' = built /\ work' = work
  BY <1>1, <1>5
<1> QED
  BY <1>8, <1>9 DEF CompileIInv

(* An exception ends the last call.                                        *)
LEMMA Fallen ==
    ASSUME NEW s, NEW n, NEW len, At(s, n, len, "any"), s # <<>>, IsStack(s, n),
           NEW f, f = s[n], f = Now, Unwind, NEW t, Beneath(t, s), NEW m, m = n - 1,
           NEW acts, acts = Turned(activities, runner, t)
    PROVE  GoodAt(compiler', programs', acts, runner, "short", work, t, m, len)
<1>1. /\ f.at = "compile" =>
             /\ compiler' = Restored(f)
             /\ programs' = [RolledBack(f, programs) EXCEPT ![f.cxt].statements = <<>>]
      /\ f.at = "eval" => compiler' = EvalRestored(f) /\ programs' = UnitRestored(f)
      /\ f.at \notin {"compile", "eval"} => compiler' = compiler /\ programs' = programs
  BY DEF Unwind
<1>2. GoodAt(compiler, programs, activities, runner, "any", work, s, n, len) /\ s # <<>>
  BY DEF At
<1>3. f.at \in {"compile", "eval"} \/ f.at \notin {"compile", "eval"}
  OBVIOUS
<1>4. Beneath(t, s) /\ f = s[n]
  OBVIOUS
<1>5. m = n - 1
  OBVIOUS
<1>6. acts = Turned(activities, runner, t)
  OBVIOUS
<1>7. CASE f.at = "compile"
  <2>1. SizeIs(programs, len) /\ ContextsTyped(programs, len)
    BY <1>2 DEF GoodAt
  <2>2. f.cxt \in 1 .. len
    <3>1. HasStack(activities, runner, s, n) /\ OwnersOK(activities, runner, len) /\ NestOK(s)
      BY <1>2 DEF GoodAt
    <3> QED
      BY <1>2, <3>1, PopFacts
  <2>3. PICK st : st = <<>>
    OBVIOUS
  <2>4. Closes(programs', programs, f, st)
    BY <1>1, <1>7, <2>1, <2>2, <2>3, ClosesIs
  <2>5. Left(st, programs[f.cxt].statements)
    BY <2>3 DEF Left
  <2>6. Restores(compiler', compiler, f)
    BY <1>1, <1>7 DEF Restores, Restored
  <2> QED
    BY ONLY <1>2, <1>4, <1>5, <1>6, <1>7, <2>4, <2>5, <2>6, GoodEnd
<1>8. CASE f.at = "eval"
  <2>1. Binds(compiler', compiler, f.bound)
    BY <1>1, <1>8 DEF Binds, EvalRestored
  <2>2. SetsUnit(programs', programs, f.cxt, f.unit)
    BY <1>1, <1>8 DEF SetsUnit, IsEdit, UnitRestored
  <2> QED
    BY ONLY <1>2, <1>4, <1>5, <1>6, <1>8, <2>1, <2>2, GoodEvalEnd
<1>9. CASE f.at \notin {"compile", "eval"}
  <2>1. s[n].at \notin {"compile", "eval"} /\ Beneath(t, s)
    BY <1>9
  <2>2. GoodAt(compiler, programs, acts, runner, "short", work, t, m, len)
    BY ONLY <1>2, <1>5, <1>6, <2>1, GoodPop
  <2> QED
    BY <1>1, <1>9, <2>2
<1> QED
  BY <1>7, <1>8, <1>9

LEMMA StepUnwind ==
    ASSUME CompileIInv, Unwind
    PROVE  CompileIInv'
<1>1. PICK t : t = Front(Calls)
  OBVIOUS
<1>2. PICK on : /\ on \in {PassesOn(t), PassesOn(t) /\ Last(t).at = "compile"}
                /\ unwinding' = [unwinding EXCEPT ![runner] = on]
  BY <1>1 DEF Unwind
<1>3. /\ unwinding[runner] /\ SetCalls(t) /\ runner' = Resumed(t)
      /\ UNCHANGED <<built, work>>
  BY <1>1 DEF Unwind
<1>4. RestTyped
  BY Stands
<1>5. PICK s, n, len : At(s, n, len, "any")
  BY Stands
<1>6. IsStack(s, n) /\ s = Calls /\ runner \in Runners
  BY <1>5, StackIs DEF At, GoodAt
<1>7. s # <<>>
  BY <1>3, <1>4, <1>6 DEF RestTyped, Calls
<1>8. PICK f : f = s[n] /\ f = Now
  <2>1. Last(s) = s[n]
    BY <1>6, <1>7 DEF IsStack, Last
  <2> QED
    BY <1>6, <2>1 DEF Now
<1>9. PICK m : m = n - 1
  OBVIOUS
<1>10. PICK acts : acts = Turned(activities, runner, t)
  OBVIOUS
<1>11. Beneath(t, s)
  BY <1>1, <1>6 DEF Beneath
<1>12. GoodAt(compiler', programs', acts, runner, "short", work, t, m, len)
  BY <1>5, <1>6, <1>7, <1>8, <1>9, <1>10, <1>11, Fallen
<1>13. activities' = acts /\ work' = work /\ built' = built
  BY <1>3, <1>10 DEF SetCalls, Turned
<1>14. on \in BOOLEAN /\ (t = <<>> => ~ on) /\ (t # <<>> /\ ~ on => Last(t).at # "compile")
  <2>1. on = PassesOn(t) \/ on = (PassesOn(t) /\ Last(t).at = "compile")
    BY <1>2
  <2>2. PassesOn(t) \in BOOLEAN /\ (t = <<>> => ~ PassesOn(t))
        /\ (t # <<>> /\ Last(t).at = "compile" => PassesOn(t))
    BY DEF PassesOn
  <2> QED
    BY <2>1, <2>2
<1>15. PICK un : un = [unwinding EXCEPT ![runner] = on]
  OBVIOUS
<1>16. /\ un \in [Runners -> BOOLEAN] /\ un[runner] = on
       /\ \A r \in Runners : un[r] => r = runner /\ on
  <2>1. unwinding \in [Runners -> BOOLEAN]
    BY <1>4 DEF RestTyped
  <2>2. un \in [Runners -> BOOLEAN] /\ un[runner] = on
        /\ \A r \in Runners : r # runner => un[r] = unwinding[r]
    BY <1>6, <1>14, <1>15, <2>1
  <2>3. \A r \in Runners : unwinding[r] => r = runner
    BY <1>4 DEF RestTyped
  <2> QED
    BY <2>2, <2>3
<1>17. built \in SUBSET [arena : Units, tokens : Units]
  BY <1>4 DEF RestTyped
<1>18. unwinding' = un
  BY <1>2, <1>15
<1>19. CASE t = <<>>
  <2>1. Plain(t)
    BY <1>19 DEF Plain
  <2>2. PICK v, k : v = acts[MainRunner] /\ k = Len(v)
    OBVIOUS
  <2>3. GoodAt(compiler', programs', acts, MainRunner, "full", work, v, k, len)
    BY <1>12, <2>1, <2>2, CompileAssumption, GoodSwitch
  <2>4. \A r \in Runners : ~ un[r]
    BY <1>14, <1>16, <1>19
  <2>5. StateOK(compiler', programs', acts, un, MainRunner, built, work)
    BY <1>16, <1>17, <2>3, <2>4, Arrives
  <2>6. runner' = MainRunner
    BY <1>3, <1>19 DEF Resumed
  <2> QED
    BY <1>13, <1>18, <2>5, <2>6 DEF CompileIInv
<1>20. CASE t # <<>>
  <2>1. runner' = runner
    BY <1>3, <1>20 DEF Resumed
  <2>2. acts[runner] = t
    <3>1. HasStack(acts, runner, t, m)
      BY <1>12 DEF GoodAt
    <3> QED
      BY <3>1 DEF HasStack
  <2>3. PICK mode : /\ GoodAt(compiler', programs', acts, runner, mode, work, t, m, len)
                    /\ ~ on => mode = "full"
    <3>1. CASE on
      BY <1>12, <3>1
    <3>2. CASE ~ on
      <4>1. IsStack(t, m)
        BY <1>12, StackIs DEF GoodAt
      <4>2. Last(t) = t[m]
        BY <1>20, <4>1, FrontSeq DEF IsStack
      <4>3. t[m].at # "compile"
        BY <1>14, <1>20, <3>2, <4>2
      <4>4. GoodAt(compiler', programs', acts, runner, "full", work, t, m, len)
        BY <1>12, <4>3, GoodMode
      <4> QED
        BY <4>4
    <3> QED
      BY <3>1, <3>2
  <2>4. ~ un[runner] => mode = "full"
    BY <1>16, <2>3
  <2>5. \A r \in Runners : un[r] => r = runner /\ acts[r] # <<>>
    BY <1>16, <1>20, <2>2
  <2>6. StateOK(compiler', programs', acts, un, runner, built, work)
    BY <1>16, <1>17, <2>3, <2>4, <2>5, Arrives
  <2> QED
    BY <1>13, <1>18, <2>1, <2>6 DEF CompileIInv
<1> QED
  BY <1>19, <1>20
-----------------------------------------------------------------------------
(***************************************************************************)
(* The shared compiler is handed over and returned completely.             *)
(***************************************************************************)
LEMMA CompileBegins == CompileInit => CompileIInv
<1> SUFFICES ASSUME CompileInit PROVE CompileIInv
  OBVIOUS
<1>1. /\ compiler = [cxt |-> 1, scopes |-> <<>>, pool |-> <<>>, loops |-> 0]
      /\ programs = <<NewProgram(1)>>
      /\ activities = [r \in Runners |-> <<>>]
      /\ unwinding = [r \in Runners |-> FALSE]
      /\ runner = MainRunner /\ built = {} /\ work = 0
  BY DEF CompileInit
<1>2. /\ MainRunner \in Runners /\ MaxPrograms \in Nat /\ MaxPrograms >= 1 /\ MaxWork \in Nat
  BY CompileAssumption
<1>3. 1 \in Cxts
  BY <1>2 DEF Cxts
<1>4. PICK x : x = NewProgram(1)
  OBVIOUS
<1>5. /\ x \in ProgramType /\ x.unit = Unit(1, "context") /\ x.transactions = 0
      /\ x.statements = <<>> /\ x.marked = {}
  <2>1. Unit(1, "context") \in Units
    BY <1>3 DEF Unit, Units
  <2>2. <<>> \in Seq(StatementType) /\ {} \in SUBSET LineNumbers /\ 0 \in 0 .. 1
    OBVIOUS
  <2>3. x = [unit |-> Unit(1, "context"), transactions |-> 0, names |-> {},
             statements |-> <<>>, constants |-> {}, marked |-> {}]
    BY <1>4 DEF NewProgram
  <2>4. x \in ProgramType
    BY <2>1, <2>2, <2>3 DEF ProgramType
  <2> QED
    BY <2>3, <2>4
<1>6. programs \in Seq(ProgramType) /\ Len(programs) = 1 /\ programs[1] = x
  BY <1>1, <1>4, <1>5
<1>7. compiler \in CompilerType
  <2>1. <<>> \in Seq(ScopeType) /\ <<>> \in Seq(Results)
    OBVIOUS
  <2> QED
    BY <1>1, <1>3, <2>1 DEF CompilerType
<1>8. activities \in [Runners -> Seq(ActivityType)] /\ \A r \in Runners : activities[r] = <<>>
  <2>1. <<>> \in Seq(ActivityType)
    OBVIOUS
  <2> QED
    BY <1>1, <2>1
<1>9. TypesOK(compiler, programs, activities, work)
  <2>1. compiler.cxt <= 1 /\ work \in 0 .. MaxWork
    BY <1>1, <1>2
  <2> QED
    BY <1>3, <1>6, <1>7, <1>8, <2>1 DEF TypesOK
<1>10. PICK s : s = activities[runner]
  OBVIOUS
<1>11. s = <<>> /\ runner \in Runners
  BY <1>1, <1>2, <1>8, <1>10
<1>12. /\ Compilers(s) = {} /\ Binders(s) = {} /\ \A c : BindersOf(s, c) = {}
  BY <1>11 DEF Compilers, Binders, BindersOf
<1>13. OwnersOK(activities, runner, Len(programs)) /\ ActivitiesOK(programs, activities, work)
  BY <1>8 DEF OwnersOK, ActivitiesOK
<1>14. NestOK(s)
  BY <1>12 DEF NestOK
<1>15. BindingOK(compiler, s) /\ LoopsOK(compiler, s)
  <2>1. compiler.cxt = 1 /\ compiler.loops = 0
    BY <1>1
  <2> QED
    BY <1>12, <2>1, ChainEmpty DEF BindingOK, LoopsOK
<1>16. ScopesOK(compiler, s, "full")
  <2>1. compiler.scopes = <<>> /\ 1 .. Len(compiler.scopes) = {}
    BY <1>1
  <2>2. PICK K, D : K = Compilers(s) /\ D = 1 .. Len(compiler.scopes)
    OBVIOUS
  <2>3. PICK g \in [D -> K] : g = [i \in D |-> i]
    <3>1. \A i \in D : i \in K
      BY <2>1, <2>2
    <3> QED
      BY ONLY <3>1
  <2>4. Fits(g, compiler.scopes, s, "full")
    BY <1>12, <2>1, <2>2, <2>3 DEF Fits
  <2> QED
    BY <2>2, <2>3, <2>4 DEF ScopesOK
<1>17. PoolOK(compiler, programs, s)
  <2>1. Len(compiler.pool) = 0 /\ 1 .. Len(compiler.pool) = {}
    BY <1>1
  <2> QED
    BY <1>12, <2>1 DEF PoolOK
<1>18. ContextsOK(programs, s)
  <2> SUFFICES ASSUME NEW c \in 1 .. Len(programs)
               PROVE  /\ StatementsOK(programs[c], c) /\ OpenOK(programs[c], s, c)
                      /\ UnitOK(programs, s, c)
    BY DEF ContextsOK
  <2>1. c = 1 /\ programs[c] = x
    BY <1>6
  <2>2. StatementsOK(x, c)
    <3>1. DOMAIN x.statements = {}
      BY <1>5
    <3> QED
      BY <1>5, <3>1 DEF StatementsOK
  <2>3. OpenOK(x, s, c)
    BY <1>5, <1>12 DEF OpenOK
  <2>4. UnitOK(programs, s, c)
    <3>1. programs[c].unit = Unit(c, "context")
      BY <1>5, <2>1
    <3> QED
      BY <1>12, <3>1, ChainEmpty DEF UnitOK
  <2> QED
    BY <2>1, <2>2, <2>3, <2>4
<1>19. ~ unwinding[runner] /\ \A r \in Runners : ~ unwinding[r]
  BY <1>1, <1>2
<1>20. Good(compiler, programs, activities, runner, "full", work)
  BY <1>9, <1>10, <1>13, <1>14, <1>15, <1>16, <1>17, <1>18 DEF Good
<1>21. unwinding \in [Runners -> BOOLEAN] /\ built \subseteq [arena : Units, tokens : Units]
  BY <1>1
<1> QED
  BY <1>11, <1>19, <1>20, <1>21 DEF CompileIInv, StateOK

LEMMA CompileStep ==
    ASSUME CompileIInv, ~ YieldsInCompile, [CompileNext]_compileVars
    PROVE  CompileIInv'
<1>1. CASE StartProgram
  BY <1>1, StepStartProgram
<1>2. CASE EndCompile
  BY <1>2, StepEndCompile
<1>3. CASE \E isLoop \in BOOLEAN : OpenBlock(isLoop)
  BY <1>3, StepOpenBlock
<1>4. CASE CloseBlock
  BY <1>4, StepCloseBlock
<1>5. CASE \E isImport \in BOOLEAN : Resolve(isImport)
  BY <1>5, StepResolve
<1>6. CASE ImportNew
  BY <1>6, StepImportNew
<1>7. CASE ImportRunning
  BY <1>7, StepImportRunning
<1>8. CASE BeginEval
  BY <1>8, StepBeginEval
<1>9. CASE EndEval
  BY <1>9, StepEndEval
<1>10. CASE Build
  BY <1>10, StepBuild
<1>11. CASE RunStatement
  BY <1>11, StepRunStatement
<1>12. CASE EndRun
  BY <1>12, StepEndRun
<1>13. CASE EndFiber
  BY <1>13, StepEndFiber
<1>14. CASE \E r \in Runners : StartFiber(r) \/ SwitchTo(r)
  BY <1>14, StepStartFiber, StepSwitchTo
<1>15. CASE Throw
  BY <1>15, StepThrow
<1>16. CASE Unwind
  BY <1>16, StepUnwind
<1>17. CASE UNCHANGED compileVars
  BY <1>17 DEF CompileIInv, compileVars
<1> QED
  BY <1>1, <1>2, <1>3, <1>4, <1>5, <1>6, <1>7, <1>8, <1>9, <1>10, <1>11, <1>12, <1>13,
     <1>14, <1>15, <1>16, <1>17 DEF CompileNext

(* Each compile(), run and eval() finds the compiler and the contexts as   *)
(* the calls beneath it have put them aside, whatever is imported,         *)
(* evaluated and thrown above it, as long as no module yields while its    *)
(* importer is compiled (instance_type::compile() and eval()).             *)
THEOREM CompileInvariant ==
    ASSUME ~ YieldsInCompile
    PROVE  CompileSpec => []CompileIInv
<1>1. CompileIInv /\ [CompileNext]_compileVars => CompileIInv'
  BY CompileStep
<1> QED
  BY CompileBegins, <1>1, PTL DEF CompileSpec

(* What the calls of a runner have put aside says what is in force.        *)
LEMMA StatesAre ==
    ASSUME CompileIInv
    PROVE  /\ compiler \in CompilerType /\ programs \in Seq(ProgramType)
           /\ unwinding \in [Runners -> BOOLEAN] /\ runner \in Runners
           /\ work \in 0 .. MaxWork /\ built \subseteq [arena : Units, tokens : Units]
           /\ \A r \in Runners : unwinding[r] => activities[r] # <<>>
           /\ \A c \in DOMAIN programs :
                  programs[c] \in ProgramType /\ StatementsOK(programs[c], c)
           /\ ActivitiesOK(programs, activities, work)
<1>1. RestTyped
  BY Stands
<1>2. PICK s, n, len : At(s, n, len, "any")
  BY Stands
<1>3. /\ SizeIs(programs, len) /\ CompilerTyped(compiler, len) /\ ContextsTyped(programs, len)
      /\ IsWork(work) /\ ContextsOK(programs, s)
      /\ ActivitiesOK(programs, activities, work)
  BY <1>2 DEF At, GoodAt
<1>4. programs \in Seq(ProgramType) /\ DOMAIN programs = 1 .. Len(programs)
  BY <1>3 DEF ContextsTyped
<1>5. \A c \in DOMAIN programs : programs[c] \in ProgramType
  BY <1>4
<1>6. \A c \in DOMAIN programs : StatementsOK(programs[c], c)
  BY <1>3, <1>4 DEF ContextsOK
<1> QED
  BY <1>1, <1>3, <1>4, <1>5, <1>6 DEF RestTyped, CompilerTyped, IsWork

LEMMA TypesFollow == CompileIInv => CompileTypeOK
<1> SUFFICES ASSUME CompileIInv PROVE CompileTypeOK
  OBVIOUS
<1>1. compiler \in [cxt : Cxts, scopes : Seq(Seq(Results)), pool : Seq(Results), loops : Int]
  BY StatesAre DEF CompilerType, ScopeType
<1>2. ASSUME NEW c \in DOMAIN programs
      PROVE  /\ programs[c].unit \in Units
             /\ programs[c].transactions \in 0 .. 1
             /\ programs[c].marked \subseteq programs[c].constants
             /\ programs[c].names \cup programs[c].constants \subseteq 1 .. MaxWork
  <2>1. PICK x \in ProgramType : x = programs[c] /\ StatementsOK(x, c)
    BY <1>2, StatesAre
  <2>2. /\ x.unit \in Units /\ x.transactions \in 0 .. 1
        /\ x.names \subseteq LineNumbers /\ x.constants \subseteq LineNumbers
    BY <2>1 DEF ProgramType
  <2>3. x.marked \subseteq x.constants
    BY <2>1 DEF StatementsOK
  <2> QED
    BY <2>1, <2>2, <2>3 DEF LineNumbers
<1> QED
  BY <1>1, <1>2, StatesAre DEF CompileTypeOK

LEMMA StatementsFollow == CompileIInv => StatementsLandHome
<1> SUFFICES ASSUME CompileIInv, NEW c \in DOMAIN programs,
                    NEW x \in Range(programs[c].statements)
             PROVE  x.result = [cxt |-> c, line |-> x.line] /\ x.unit = Unit(c, "program")
  BY DEF StatementsLandHome
<1>1. PICK k \in DOMAIN programs[c].statements : x = programs[c].statements[k]
  BY DEF Range
<1> QED
  BY <1>1, StatesAre DEF StatementsOK

LEMMA ServiceFollows == CompileIInv => ServesTheInnermost
<1> SUFFICES ASSUME CompileIInv, Doing("compile")
             PROVE  /\ compiler.cxt = Now.cxt
                    /\ compiler.loops = OpenLoops(Now.blocks)
                    /\ Pending(compiler.scopes) =
                           [i \in DOMAIN Now.waiting |->
                               [cxt |-> Now.cxt, line |-> Now.waiting[i].line]]
  BY DEF ServesTheInnermost
<1>1. PICK s, n, len, f : HereIs(s, n, len, f) /\ f.at = "compile"
  BY DoingIs
<1>2. /\ GoodAt(compiler, programs, activities, runner, "full", work, s, n, len)
      /\ s # <<>> /\ f = s[n] /\ f.at = "compile"
  BY <1>1, HereFacts
<1>3. f = Now
  BY <1>1, HereFacts
<1>4. PICK m : HasScopes(compiler, m)
  BY DEF HasScopes
<1>5. /\ f \in ActivityType /\ compiler.cxt = f.cxt /\ compiler.loops = OpenLoops(f.blocks)
      /\ compiler.scopes \in Seq(ScopeType) /\ m \in Nat /\ m >= 1
      /\ AllOf(f, compiler.scopes[m])
  BY ONLY <1>2, <1>4, Served
<1>6. Pending(compiler.scopes) = compiler.scopes[m]
  BY <1>4, <1>5 DEF HasScopes, Pending, Last
<1>7. PICK w \in Seq([line : LineNumbers, unit : Units]) : w = f.waiting
  BY <1>5 DEF ActivityType
<1>8. DOMAIN f.waiting = 1 .. Len(f.waiting)
  BY <1>7
<1> QED
  BY <1>3, <1>5, <1>6, <1>8 DEF AllOf, ResultsOf

LEMMA ScratchFollows == CompileIInv => RunsFromScratch
<1> SUFFICES ASSUME CompileIInv, Doing("run")
             PROVE  /\ programs[Now.cxt].constants = programs[Now.cxt].marked
                    /\ programs[Now.cxt].names =
                           {programs[Now.cxt].statements[i].line : i \in 1 .. (Now.line - 1)}
  BY DEF RunsFromScratch
<1>1. PICK s, n, len, f : HereIs(s, n, len, f) /\ f.at = "run"
  BY DoingIs
<1>2. IsStack(s, n) /\ n \in Nat /\ n >= 1 /\ HasStack(activities, runner, s, n)
  BY <1>1, HereFacts
<1>3. activities[runner] = s /\ runner \in Runners /\ n \in DOMAIN s
  BY <1>2, StackIs DEF IsStack
<1>4. f = s[n] /\ f = Now
  BY <1>1, HereFacts
<1>5. RunOK(programs[f.cxt], f)
  BY <1>3, <1>4, StatesAre DEF ActivitiesOK
<1> QED
  BY <1>1, <1>4, <1>5 DEF RunOK

LEMMA CleanFollows == CompileIInv => NothingLeftBehind
<1> SUFFICES ASSUME CompileIInv,
                    \A r \in Runners : \A a \in Range(activities[r]) : a.at \in {"run", "fiber"}
             PROVE  /\ compiler.cxt = 1 /\ compiler.loops = 0 /\ compiler.scopes = <<>>
                    /\ \A k \in Range(compiler.pool) : k.line = 0 /\ k.cxt # 0
                    /\ \A c \in DOMAIN programs :
                           /\ programs[c].transactions = 0
                           /\ programs[c].unit = Unit(c, "context")
  BY DEF NothingLeftBehind
<1>1. PICK s, n, len : At(s, n, len, "any")
  BY Stands
<1>2. /\ HasStack(activities, runner, s, n) /\ CompilerTyped(compiler, len)
      /\ BindingOK(compiler, s) /\ LoopsOK(compiler, s) /\ ScopesOK(compiler, s, "any")
      /\ PoolOK(compiler, programs, s) /\ ContextsOK(programs, s)
  BY <1>1 DEF At, GoodAt
<1>3. activities[runner] = s /\ runner \in Runners
  BY <1>2, StackIs
<1>4. Plain(s)
  BY <1>3 DEF Plain, Range
<1>5. Compilers(s) = {} /\ Binders(s) = {} /\ \A c : BindersOf(s, c) = {}
  BY <1>4 DEF Plain, Compilers, Binders, BindersOf
<1>6. compiler.cxt = 1 /\ compiler.loops = 0
  BY <1>2, <1>5, ChainNow DEF BindingOK, LoopsOK
<1>7. compiler.scopes = <<>>
  <2>1. compiler.scopes \in Seq(ScopeType)
    BY <1>2, CompilerIs
  <2>2. PICK g \in [1 .. Len(compiler.scopes) -> Compilers(s)] : TRUE
    BY <1>2 DEF ScopesOK
  <2>3. \A k \in 1 .. Len(compiler.scopes) : FALSE
    BY <1>5, <2>2
  <2>4. Len(compiler.scopes) = 0
    BY <2>1, <2>3
  <2> QED
    BY <2>1, <2>4
<1>8. ASSUME NEW k \in Range(compiler.pool) PROVE k.line = 0 /\ k.cxt # 0
  <2>1. compiler.pool \in Seq(Results)
    BY <1>2, CompilerIs
  <2>2. PICK j \in 1 .. Len(compiler.pool) : k = compiler.pool[j]
    BY <1>8, <2>1 DEF Range
  <2> QED
    BY <1>2, <1>5, <2>2 DEF PoolOK
<1>9. ASSUME NEW c \in DOMAIN programs
      PROVE  programs[c].transactions = 0 /\ programs[c].unit = Unit(c, "context")
  <2>1. c \in 1 .. Len(programs)
    BY <1>9, StatesAre
  <2>2. OpenOK(programs[c], s, c) /\ UnitOK(programs, s, c)
    BY <1>2, <2>1 DEF ContextsOK
  <2>3. programs[c].transactions = 0
    BY <1>5, <2>2 DEF OpenOK
  <2>4. programs[c].unit = Unit(c, "context")
    BY <1>5, <2>2, ChainNow DEF UnitOK
  <2> QED
    BY <2>3, <2>4
<1> QED
  BY <1>6, <1>7, <1>8, <1>9

(* The statements of a program have the results of its own lines and their *)
(* tokens in its arena, the compiler serves the innermost compile(), a     *)
(* program runs with what it has defined itself, and nothing is left in    *)
(* the compiler when nothing is compiled: for any contexts, fibers and     *)
(* amount of work, if no module yields while its importer is compiled      *)
(* (instance_type::compile(), the imports of sources/compiler/codegen.cpp, *)
(* runtime.import(), eval() and build()).                                  *)
THEOREM CompileCorrect ==
    ASSUME ~ YieldsInCompile
    PROVE  CompileSpec => []CompileInv
<1>1. CompileIInv => CompileInv
  BY TypesFollow, StatementsFollow, ServiceFollows, ScratchFollows, CleanFollows DEF CompileInv
<1> QED
  BY <1>1, CompileInvariant, PTL
=============================================================================
