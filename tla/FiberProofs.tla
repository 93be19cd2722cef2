---------------------------- MODULE FiberProofs ----------------------------
(***************************************************************************)
(* Machine-checked proofs about the fiber scheduler, for any number of     *)
(* script and native fibers and any schedule parameters.                   *)
(***************************************************************************)
EXTENDS Fiber, SequenceTheorems, TLAPS

(***************************************************************************)
(* Arithmetic of the back-off.                                             *)
(***************************************************************************)

(* The product of two naturals is a natural and grows with its factors. *)
LEMMA ProductNat ==
    ASSUME NEW a \in Nat, NEW b \in Nat
    PROVE  a * b \in Nat
BY SMT

(* Multiplying by a natural number keeps the order of two others.          *)
LEMMA ProductMonotone ==
    ASSUME NEW a \in Nat, NEW b \in Nat, NEW c \in Nat, a <= b
    PROVE  a * c <= b * c
BY SMT

(* Rounding down to a multiple of t stays at or below the value. *)
LEMMA RoundDown ==
    ASSUME NEW n \in Nat, NEW t \in Nat \ {0}
    PROVE  /\ n \div t \in Nat
           /\ (n \div t) * t <= n
BY SMT

(* The wait resume() chooses never exceeds the time that is left. *)
LEMMA WaitTimeBound ==
    ASSUME NEW count \in Nat, NEW r \in Nat
    PROVE  /\ WaitTime(count, r) \in Nat
           /\ WaitTime(count, r) <= r
<1>1. count * r \in Nat
  BY ProductNat
<1>2. CoefNum \in Nat /\ CoefDen \in Nat \ {0}
  BY TimeAssumption
<1>3. count * r * CoefNum \in Nat
  BY <1>1, <1>2, ProductNat
<1>4. (count * r * CoefNum) \div CoefDen \in Nat
  BY <1>2, <1>3, RoundDown
<1> QED
  BY <1>4 DEF WaitTime, MinOf

(* In ticks: the back-off of a resume of f ends no later than f's sleep. *)
LEMMA BackoffTicks ==
    ASSUME TypeOK, NEW f \in Fibers
    PROVE  /\ WaitTime(NextSkip(f), RemainMs(f)) * TicksPerMs \in Nat
           /\ WaitTime(NextSkip(f), RemainMs(f)) * TicksPerMs <= rem[f]
<1>1. rem[f] \in Nat /\ TicksPerMs \in Nat \ {0}
  BY TimeAssumption DEF TypeOK, Contexts
<1>2. NextSkip(f) \in Nat
  BY SkipAssumption DEF TypeOK, NextSkip, MinOf
<1>3. RemainMs(f) \in Nat /\ RemainMs(f) * TicksPerMs <= rem[f]
  BY <1>1, RoundDown DEF RemainMs
<1> DEFINE w == WaitTime(NextSkip(f), RemainMs(f))
<1>4. w \in Nat /\ w <= RemainMs(f)
  BY <1>2, <1>3, WaitTimeBound
<1> HIDE DEF w
<1>5. w * TicksPerMs \in Nat /\ RemainMs(f) * TicksPerMs \in Nat
  BY <1>1, <1>3, <1>4, ProductNat
<1>6. w * TicksPerMs <= RemainMs(f) * TicksPerMs
  BY <1>1, <1>3, <1>4, ProductMonotone
<1>7. w * TicksPerMs <= rem[f]
  BY <1>1, <1>3, <1>5, <1>6
<1> QED
  BY <1>5, <1>7 DEF w
-----------------------------------------------------------------------------
(***************************************************************************)
(* The two halves of a switch keep the chain and the bindings in step.     *)
(***************************************************************************)

(* The variables a switch assigns keep their types. *)
SwitchTypes ==
    /\ state \in [Fibers -> States]
    /\ chain \in Seq(Fibers)
    /\ ctl \in Contexts
    /\ prevCtx \in [Fibers -> Contexts \cup {None}]
    /\ callee \in [Contexts -> Fibers \cup {None}]
    /\ resumer \in [Fibers -> Processes]
    /\ curProc \in Processes
    /\ fiberSp \in ScriptFibers \cup {Main}

(* What the chain becomes in the first half of a switch.                   *)
LEMMA EnteredChain ==
    ASSUME SwitchTypes, RunningIsOnChain,
           NEW f \in Fibers, state[f] # "running", SwitchIn(f),
           NEW n \in Nat, n = Len(chain)
    PROVE  /\ chain' \in Seq(Fibers)
           /\ Len(chain') = n + 1
           /\ DOMAIN chain' = 1..(n + 1)
           /\ chain'[n + 1] = f
           /\ \A i \in 1..n : chain'[i] = chain[i]
           /\ chain' # <<>>
           /\ \A i \in 1..n : chain[i] # f
           /\ ctl = IF n = 0 THEN Main ELSE chain[n]
           /\ ctl \in Contexts /\ prevCtx'[f] = ctl
           /\ OnChain' = OnChain \cup {f}
<1> USE FiberAssumption DEF SwitchTypes
<1>0. n = Len(chain) /\ chain \in [1..n -> Fibers] /\ DOMAIN chain = 1..n
  OBVIOUS
<1>1. /\ chain' \in Seq(Fibers)
      /\ Len(chain') = n + 1
      /\ DOMAIN chain' = 1..(n + 1)
      /\ chain'[n + 1] = f
      /\ \A i \in 1..n : chain'[i] = chain[i]
      /\ chain' # <<>>
  BY <1>0 DEF SwitchIn, BindContext, CaptureProcess, SwapIn
<1>2. f \notin OnChain
  BY DEF RunningIsOnChain
<1>3. \A i \in 1..n : chain[i] # f
  BY <1>0, <1>2 DEF OnChain
<1>4. ctl = IF n = 0 THEN Main ELSE chain[n]
  BY <1>0 DEF RunningIsOnChain, Top
<1>5. ctl \in Contexts /\ prevCtx'[f] = ctl
  BY <1>0, <1>4 DEF SwitchIn, BindContext, CaptureProcess, SwapIn, Top, Contexts
<1>6. OnChain' = OnChain \cup {f}
  <2>1. OnChain' = {chain'[i] : i \in 1..(n + 1)} /\ OnChain = {chain[i] : i \in 1..n}
    BY <1>0, <1>1 DEF OnChain
  <2>2. \A i \in 1..(n + 1) : i \in 1..n \/ i = n + 1
    BY <1>0
  <2> QED
    BY SMTT(30), <2>1, <2>2, <1>0, <1>1
<1> QED
  BY <1>1, <1>3, <1>4, <1>5, <1>6

(* The first half of a switch: the entered fiber is pushed and bound to    *)
(* the context that resumed it.                                            *)
LEMMA SwitchInKeepsLinks ==
    ASSUME SwitchTypes, RunningIsOnChain, ReturnsToItsResumer,
           NEW f \in Fibers, state[f] # "running", SwitchIn(f)
    PROVE  SwitchTypes' /\ RunningIsOnChain' /\ ReturnsToItsResumer'
<1> USE FiberAssumption DEF SwitchTypes
<1>n. PICK n \in Nat : n = Len(chain)
  OBVIOUS
<1>0. n = Len(chain) /\ chain \in [1..n -> Fibers] /\ DOMAIN chain = 1..n
  BY <1>n
<1>1. /\ chain' \in Seq(Fibers)
      /\ Len(chain') = n + 1
      /\ DOMAIN chain' = 1..(n + 1)
      /\ chain'[n + 1] = f
      /\ \A i \in 1..n : chain'[i] = chain[i]
      /\ chain' # <<>>
  BY <1>n, EnteredChain
<1>3. \A i \in 1..n : chain[i] # f
  BY <1>n, EnteredChain
<1>4. ctl = IF n = 0 THEN Main ELSE chain[n]
  BY <1>n, EnteredChain
<1>5. ctl \in Contexts /\ prevCtx'[f] = ctl
  BY <1>n, EnteredChain
<1>6. OnChain' = OnChain \cup {f}
  BY <1>n, EnteredChain
<1>7. SwitchTypes'
  <2>1. state' \in [Fibers -> States]
    BY DEF SwitchIn, BindContext, CaptureProcess, SwapIn, States
  <2>2. prevCtx' \in [Fibers -> Contexts \cup {None}]
    BY <1>0 DEF SwitchIn, BindContext, CaptureProcess, SwapIn, Top, Contexts
  <2>3. callee' \in [Contexts -> Fibers \cup {None}]
    BY DEF SwitchIn, BindContext, CaptureProcess, SwapIn
  <2>4. resumer' \in [Fibers -> Processes]
    BY DEF SwitchIn, BindContext, CaptureProcess, SwapIn
  <2>5. ctl' \in Contexts /\ curProc' \in Processes /\ fiberSp' \in ScriptFibers \cup {Main}
    BY DEF SwitchIn, BindContext, CaptureProcess, SwapIn, Contexts, Processes
  <2> QED
    BY <1>1, <2>1, <2>2, <2>3, <2>4, <2>5
<1>8. RunningIsOnChain'
  <2>1. \A i, j \in DOMAIN chain' : chain'[i] = chain'[j] => i = j
    BY <1>0, <1>1, <1>3 DEF RunningIsOnChain
  <2>2. \A g \in Fibers : state'[g] = "running" <=> g \in OnChain'
    BY <1>6 DEF RunningIsOnChain, SwitchIn, BindContext, CaptureProcess, SwapIn
  <2>3. ctl' = Top'
    BY <1>1 DEF SwitchIn, BindContext, CaptureProcess, SwapIn, Top
  <2> QED
    BY <1>1, <2>1, <2>2, <2>3 DEF RunningIsOnChain
<1>9. ReturnsToItsResumer'
  <2> SUFFICES ASSUME NEW i \in 1..(n + 1)
               PROVE  /\ prevCtx'[chain'[i]] = Below(i)'
                      /\ callee'[Below(i)'] = chain'[i]
    BY <1>1 DEF ReturnsToItsResumer
  <2>1. CASE i = n + 1
    <3>1. Below(i)' = ctl
      BY <2>1, <1>0, <1>1, <1>4 DEF Below
    <3> QED
      BY <2>1, <3>1, <1>1, <1>5 DEF SwitchIn, BindContext, CaptureProcess, SwapIn
  <2>2. CASE i \in 1..n
    <3>1. Below(i)' = Below(i)
      BY <2>2, <1>0, <1>1 DEF Below
    <3>2. prevCtx[chain[i]] = Below(i) /\ callee[Below(i)] = chain[i]
      BY <2>2, <1>0 DEF ReturnsToItsResumer
    <3>3. Below(i) # ctl
      BY <2>2, <1>0, <1>4 DEF Below, RunningIsOnChain, Fibers
    <3>4. prevCtx'[chain[i]] = prevCtx[chain[i]]
      BY <2>2, <1>0, <1>3 DEF SwitchIn, BindContext, CaptureProcess, SwapIn
    <3>5. Below(i) \in Contexts
      BY <2>2, <1>0 DEF Below, Contexts
    <3>6. callee'[Below(i)] = callee[Below(i)]
      BY <3>3, <3>5 DEF SwitchIn, BindContext, CaptureProcess, SwapIn
    <3> QED
      BY <2>2, <3>1, <3>2, <3>4, <3>6, <1>1
  <2> QED
    BY <2>1, <2>2, <1>0
<1> QED
  BY <1>7, <1>8, <1>9

(* It keeps the invariant of the chain, and every context its process.     *)
LEMMA SwitchInKeepsChain ==
    ASSUME SwitchTypes, ChainInv,
           NEW f \in Fibers, state[f] # "running", SwitchIn(f)
    PROVE  /\ SwitchTypes' /\ ChainInv'
           /\ \A i \in 0..Len(chain) : ProcOf(i)' = ProcOf(i)
<1> USE FiberAssumption DEF SwitchTypes
<1>n. PICK n \in Nat : n = Len(chain)
  OBVIOUS
<1>0. n = Len(chain) /\ chain \in [1..n -> Fibers] /\ DOMAIN chain = 1..n
  BY <1>n
<1>1. /\ chain' \in Seq(Fibers)
      /\ Len(chain') = n + 1
      /\ DOMAIN chain' = 1..(n + 1)
      /\ chain'[n + 1] = f
      /\ \A i \in 1..n : chain'[i] = chain[i]
      /\ chain' # <<>>
  BY <1>n, EnteredChain DEF ChainInv
<1>3. \A i \in 1..n : chain[i] # f
  BY <1>n, EnteredChain DEF ChainInv
<1>4. ctl = IF n = 0 THEN Main ELSE chain[n]
  BY <1>n, EnteredChain DEF ChainInv
<1>6. OnChain' = OnChain \cup {f}
  BY <1>n, EnteredChain DEF ChainInv
<1>7. SwitchTypes' /\ RunningIsOnChain' /\ ReturnsToItsResumer'
  BY SwitchInKeepsLinks DEF ChainInv
<1>10. /\ ProcOf(n + 1)' = IF f \in ScriptFibers THEN f ELSE curProc
       /\ \A i \in 0..n : ProcOf(i)' = ProcOf(i)
  <2>1. ProcOf(n + 1)' = curProc'
    BY <1>0, <1>1 DEF ProcOf
  <2>2. ASSUME NEW i \in 0..n
        PROVE  ProcOf(i)' = ProcOf(i)
    <3>1. ProcOf(i)' = resumer'[chain'[i + 1]]
      BY <2>2, <1>0, <1>1 DEF ProcOf
    <3>2. CASE i = n
      BY <3>1, <3>2, <1>0, <1>1 DEF ProcOf, SwitchIn, BindContext, CaptureProcess, SwapIn
    <3>3. CASE i + 1 \in 1..n
      <4>1. chain'[i + 1] = chain[i + 1] /\ chain[i + 1] \in Fibers /\ chain[i + 1] # f
        BY <3>3, <1>0, <1>1, <1>3
      <4>2. ProcOf(i) = resumer[chain[i + 1]]
        <5>1. i # n
          BY <3>3
        <5> QED
          BY <5>1, <1>n DEF ProcOf
      <4>3. resumer'[chain[i + 1]] = resumer[chain[i + 1]]
        BY <4>1 DEF SwitchIn, BindContext, CaptureProcess, SwapIn
      <4> QED
        BY <3>1, <4>1, <4>2, <4>3
    <3>4. i = n \/ i + 1 \in 1..n
      BY <1>n
    <3> QED
      BY <3>2, <3>3, <3>4
  <2> QED
    BY <2>1, <2>2 DEF SwitchIn, BindContext, CaptureProcess, SwapIn
<1>11. ProcessFollowsContext'
  <2>1. ProcOf(n) = curProc
    BY <1>0 DEF ProcOf
  <2>2. \A i \in 1..n : i - 1 \in 0..n
    BY <1>0
  <2> QED
    BY <2>1, <2>2, <1>0, <1>1, <1>10 DEF ProcessFollowsContext, ChainInv
<1>12. DomainsFollowContext'
  BY DEF SwitchIn, BindContext, CaptureProcess, SwapIn, DomainsFollowContext, Fibers
<1>13. BindingsOnChain'
  <2>1. curProc' \in OnChain' \cup {Main} /\ fiberSp' \in OnChain' \cup {Main}
    BY <1>6 DEF SwitchIn, BindContext, CaptureProcess, SwapIn, ChainInv, BindingsOnChain
  <2>2. ASSUME NEW i \in 1..(n + 1)
        PROVE  resumer'[chain'[i]] \in {chain'[j] : j \in 1..(i - 1)} \cup {Main}
    <3>1. CASE i = n + 1
      BY <3>1, <1>0, <1>1
         DEF SwitchIn, BindContext, CaptureProcess, SwapIn, ChainInv, BindingsOnChain, OnChain
    <3>2. CASE i \in 1..n
      <4>1. resumer'[chain'[i]] = resumer[chain[i]]
        BY <3>2, <1>0, <1>1, <1>3 DEF SwitchIn, BindContext, CaptureProcess, SwapIn
      <4>2. {chain'[j] : j \in 1..(i - 1)} = {chain[j] : j \in 1..(i - 1)}
        BY <3>2, <1>0, <1>1
      <4> QED
        BY <3>2, <4>1, <4>2, <1>0 DEF ChainInv, BindingsOnChain
    <3> QED
      BY <3>1, <3>2, <1>0
  <2>3. ASSUME \A i \in DOMAIN chain' : chain'[i] \in NativeFibers
        PROVE  fiberSp' = Main
    <3>1. f \in NativeFibers /\ \A i \in DOMAIN chain : chain[i] \in NativeFibers
      BY SMTT(30), <2>3, <1>0, <1>1
    <3> QED
      BY <3>1 DEF SwitchIn, BindContext, CaptureProcess, SwapIn, ChainInv, BindingsOnChain
  <2> QED
    BY <1>1, <2>1, <2>2, <2>3 DEF BindingsOnChain
<1> QED
  BY <1>n, <1>7, <1>10, <1>11, <1>12, <1>13 DEF ChainInv

(* The second half, in the state the fiber really ends up in: the one it   *)
(* leaves in, or destroyed when the chain had the last handle of it.       *)
LeaveAs(s) ==
    LET to == prevCtx[Top]
        below == IF Len(chain) > 1 THEN chain[Len(chain) - 1] ELSE Main
    IN  /\ state' = [state EXCEPT ![Top] = s]
        /\ s = "destroyed" => Top \notin held
        /\ ctl' = to
        /\ chain' = Popped
        /\ callee' = [callee EXCEPT ![to] = None]
        /\ SwapOut(callee[to], below)
        /\ UNCHANGED <<held, prevCtx, resumer>>

EndState(s) == IF Top \in held THEN s ELSE "destroyed"

LEMMA SwitchOutLeaves ==
    ASSUME NEW s, s # "destroyed", NEW result, SwitchOut(s, result)
    PROVE  LeaveAs(EndState(s)) /\ outcome' \in {result, "undefined"}
BY DEF SwitchOut, LeaveAs, EndState

(* What it computes, once prev_ctx and the pending resume() are known to   *)
(* be those of the fiber that leaves.                                      *)
LEMMA SwitchOutTarget ==
    ASSUME SwitchTypes, ReturnsToItsResumer, chain # <<>>, NEW s, LeaveAs(s),
           NEW n \in Nat, n = Len(chain)
    PROVE  /\ n >= 1
           /\ chain[n] \in Fibers /\ Top = chain[n]
           /\ Below(n) \in Contexts
           /\ state' = [state EXCEPT ![chain[n]] = s]
           /\ ctl' = Below(n)
           /\ chain' = SubSeq(chain, 1, n - 1)
           /\ callee' = [callee EXCEPT ![Below(n)] = None]
           /\ curProc' = IF Below(n) \in ScriptFibers THEN Below(n)
                         ELSE resumer[chain[n]]
           /\ fiberSp' = IF Below(n) \in ScriptFibers THEN Below(n)
                         ELSE IF chain[n] \in ScriptFibers THEN Main ELSE fiberSp
           /\ prevCtx' = prevCtx /\ resumer' = resumer
<1>1. n >= 1 /\ n \in DOMAIN chain /\ chain[n] \in Fibers /\ Top = chain[n]
  BY DEF SwitchTypes, Top
<1>2. Below(n) \in Contexts
  <2>1. CASE n = 1
    BY <2>1 DEF Below, Contexts
  <2>2. CASE n > 1
    BY <2>2 DEF Below, Contexts, SwitchTypes
  <2> QED
    BY <1>1, <2>1, <2>2
<1>3. prevCtx[Top] = Below(n) /\ callee[Below(n)] = Top
  BY <1>1 DEF ReturnsToItsResumer
<1>4. (IF Len(chain) > 1 THEN chain[Len(chain) - 1] ELSE Main) = Below(n)
  BY <1>1 DEF Below
<1> QED
  BY <1>1, <1>2, <1>3, <1>4 DEF LeaveAs, SwapOut, Popped

(* What the chain becomes in the second half of a switch.                  *)
LEMMA LeftChain ==
    ASSUME SwitchTypes, RunningIsOnChain, ReturnsToItsResumer, chain # <<>>,
           NEW s, LeaveAs(s), NEW n \in Nat, n = Len(chain)
    PROVE  /\ chain' \in Seq(Fibers)
           /\ Len(chain') = n - 1
           /\ DOMAIN chain' = 1..(n - 1)
           /\ \A i \in 1..(n - 1) : chain'[i] = chain[i]
           /\ \A i \in 1..(n - 1) : i \in 1..n /\ chain[i] # chain[n]
           /\ OnChain' = OnChain \ {chain[n]}
           /\ Below(n) = IF n = 1 THEN Main ELSE chain'[n - 1]
<1> USE FiberAssumption DEF SwitchTypes
<1>n. n \in Nat /\ n = Len(chain)
  OBVIOUS
<1>0. n = Len(chain) /\ chain \in [1..n -> Fibers] /\ DOMAIN chain = 1..n
  BY <1>n
<1>t. n >= 1 /\ chain[n] \in Fibers /\ chain' = SubSeq(chain, 1, n - 1)
  BY SwitchOutTarget
<1>1. /\ chain' \in Seq(Fibers)
      /\ Len(chain') = n - 1
      /\ DOMAIN chain' = 1..(n - 1)
      /\ \A i \in 1..(n - 1) : chain'[i] = chain[i]
  BY <1>0, <1>t
<1>2. \A i \in 1..(n - 1) : i \in 1..n /\ chain[i] # chain[n]
  BY <1>0, <1>t DEF RunningIsOnChain
<1>3. OnChain' = OnChain \ {chain[n]}
  <2>1. OnChain' = {chain'[i] : i \in 1..(n - 1)} /\ OnChain = {chain[i] : i \in 1..n}
    BY <1>0, <1>1 DEF OnChain
  <2>2. \A i \in 1..n : i \in 1..(n - 1) \/ i = n
    BY <1>n
  <2> QED
    BY <2>1, <2>2, <1>0, <1>1, <1>2
<1>4. Below(n) = IF n = 1 THEN Main ELSE chain'[n - 1]
  <2>1. n # 1 => n - 1 \in 1..(n - 1)
    BY <1>t
  <2> QED
    BY <2>1, <1>1 DEF Below
<1> QED
  BY <1>1, <1>2, <1>3, <1>4

(* Leaving the top fiber, in any state but running, keeps the links of the *)
(* chain.                                                                  *)
LEMMA SwitchOutKeepsLinks ==
    ASSUME SwitchTypes, RunningIsOnChain, ReturnsToItsResumer, chain # <<>>,
           NEW s \in States \ {"running"}, LeaveAs(s)
    PROVE  SwitchTypes' /\ RunningIsOnChain' /\ ReturnsToItsResumer'
<1> USE FiberAssumption DEF SwitchTypes
<1>n. PICK n \in Nat : n = Len(chain)
  OBVIOUS
<1>0. n = Len(chain) /\ chain \in [1..n -> Fibers] /\ DOMAIN chain = 1..n
  BY <1>n
<1>t. /\ n >= 1
      /\ chain[n] \in Fibers /\ Top = chain[n]
      /\ Below(n) \in Contexts
      /\ state' = [state EXCEPT ![chain[n]] = s]
      /\ ctl' = Below(n)
      /\ chain' = SubSeq(chain, 1, n - 1)
      /\ callee' = [callee EXCEPT ![Below(n)] = None]
      /\ curProc' = IF Below(n) \in ScriptFibers THEN Below(n)
                    ELSE resumer[chain[n]]
      /\ fiberSp' = IF Below(n) \in ScriptFibers THEN Below(n)
                    ELSE IF chain[n] \in ScriptFibers THEN Main ELSE fiberSp
      /\ prevCtx' = prevCtx /\ resumer' = resumer
  BY <1>n, SwitchOutTarget
<1>1. /\ chain' \in Seq(Fibers)
      /\ Len(chain') = n - 1
      /\ DOMAIN chain' = 1..(n - 1)
      /\ \A i \in 1..(n - 1) : chain'[i] = chain[i]
  BY <1>n, LeftChain
<1>2. \A i \in 1..(n - 1) : i \in 1..n /\ chain[i] # chain[n]
  BY <1>n, LeftChain
<1>3. OnChain' = OnChain \ {chain[n]}
  BY <1>n, LeftChain
<1>4. Below(n) = IF n = 1 THEN Main ELSE chain'[n - 1]
  BY <1>n, LeftChain
<1>5. SwitchTypes'
  <2>1. state' \in [Fibers -> States]
    BY <1>t
  <2>2. callee' \in [Contexts -> Fibers \cup {None}]
    BY <1>t
  <2>3. curProc' \in Processes /\ fiberSp' \in ScriptFibers \cup {Main}
    BY <1>t DEF Processes
  <2> QED
    BY <1>1, <1>t, <2>1, <2>2, <2>3
<1>6. RunningIsOnChain'
  <2>1. \A i, j \in DOMAIN chain' : chain'[i] = chain'[j] => i = j
    BY <1>0, <1>1, <1>2 DEF RunningIsOnChain
  <2>2. \A g \in Fibers : state'[g] = "running" <=> g \in OnChain'
    BY <1>3, <1>t DEF RunningIsOnChain
  <2>3. ctl' = IF chain' = <<>> THEN Main ELSE Top'
    <3>1. CASE n = 1
      BY <3>1, <1>t, <1>1, <1>4
    <3>2. CASE n # 1
      BY <3>2, <1>t, <1>1, <1>4 DEF Top
    <3> QED
      BY <3>1, <3>2
  <2> QED
    BY <2>1, <2>2, <2>3 DEF RunningIsOnChain
<1>7. \A i \in 1..(n - 1) : Below(i)' = Below(i) /\ Below(i) # Below(n) /\ Below(i) \in Contexts
  <2> SUFFICES ASSUME NEW i \in 1..(n - 1)
               PROVE  Below(i)' = Below(i) /\ Below(i) # Below(n) /\ Below(i) \in Contexts
    OBVIOUS
  <2>1. CASE i = 1
    <3>1. n - 1 \in 1..n /\ n # 1 /\ chain[n - 1] \in Fibers
      BY <1>0
    <3> QED
      BY <2>1, <3>1 DEF Below, Contexts
  <2>2. CASE i - 1 \in 1..(n - 1)
    <3>1. /\ i - 1 \in 1..n /\ n - 1 \in 1..n
          /\ n # 1 /\ i # 1 /\ i - 1 # n - 1
      BY <2>2, <1>n
    <3>2. chain'[i - 1] = chain[i - 1] /\ chain[i - 1] \in Fibers
      BY <2>2, <3>1, <1>0, <1>1
    <3>3. chain[i - 1] # chain[n - 1]
      BY <3>1, <1>0 DEF RunningIsOnChain
    <3> QED
      BY <3>1, <3>2, <3>3 DEF Below, Contexts
  <2>3. i = 1 \/ i - 1 \in 1..(n - 1)
    BY <1>n
  <2> QED
    BY <2>1, <2>2, <2>3
<1>8. ReturnsToItsResumer'
  <2> SUFFICES ASSUME NEW i \in 1..(n - 1)
               PROVE  /\ prevCtx'[chain'[i]] = Below(i)'
                      /\ callee'[Below(i)'] = chain'[i]
    BY <1>1 DEF ReturnsToItsResumer
  <2>1. prevCtx[chain[i]] = Below(i) /\ callee[Below(i)] = chain[i]
    BY <1>0, <1>2 DEF ReturnsToItsResumer
  <2>2. callee'[Below(i)] = callee[Below(i)]
    BY <1>t, <1>7
  <2> QED
    BY <2>1, <2>2, <1>1, <1>7, <1>t
<1> QED
  BY <1>5, <1>6, <1>8

(* It keeps the invariant of the chain too, and gives every context below  *)
(* the process it had.                                                     *)
LEMMA SwitchOutKeepsChain ==
    ASSUME SwitchTypes, ChainInv, chain # <<>>,
           NEW s \in States \ {"running"}, LeaveAs(s)
    PROVE  /\ SwitchTypes' /\ ChainInv'
           /\ \A i \in 0..(Len(chain) - 1) : ProcOf(i)' = ProcOf(i)
<1> USE FiberAssumption DEF SwitchTypes
<1>n. PICK n \in Nat : n = Len(chain)
  OBVIOUS
<1>0. n = Len(chain) /\ chain \in [1..n -> Fibers] /\ DOMAIN chain = 1..n
  BY <1>n
<1>t. /\ n >= 1
      /\ chain[n] \in Fibers /\ Top = chain[n]
      /\ Below(n) \in Contexts
      /\ state' = [state EXCEPT ![chain[n]] = s]
      /\ ctl' = Below(n)
      /\ chain' = SubSeq(chain, 1, n - 1)
      /\ callee' = [callee EXCEPT ![Below(n)] = None]
      /\ curProc' = IF Below(n) \in ScriptFibers THEN Below(n)
                    ELSE resumer[chain[n]]
      /\ fiberSp' = IF Below(n) \in ScriptFibers THEN Below(n)
                    ELSE IF chain[n] \in ScriptFibers THEN Main ELSE fiberSp
      /\ prevCtx' = prevCtx /\ resumer' = resumer
  BY <1>n, SwitchOutTarget DEF ChainInv
<1>1. /\ chain' \in Seq(Fibers)
      /\ Len(chain') = n - 1
      /\ DOMAIN chain' = 1..(n - 1)
      /\ \A i \in 1..(n - 1) : chain'[i] = chain[i]
  BY <1>n, LeftChain DEF ChainInv
<1>2. \A i \in 1..(n - 1) : i \in 1..n /\ chain[i] # chain[n]
  BY <1>n, LeftChain DEF ChainInv
<1>3. OnChain' = OnChain \ {chain[n]}
  BY <1>n, LeftChain DEF ChainInv
<1>4. Below(n) = IF n = 1 THEN Main ELSE chain'[n - 1]
  BY <1>n, LeftChain DEF ChainInv
<1>5. SwitchTypes' /\ RunningIsOnChain' /\ ReturnsToItsResumer'
  BY SwitchOutKeepsLinks DEF ChainInv
<1>9. \A i \in 0..(n - 1) : ProcOf(i)' = ProcOf(i)
  <2> SUFFICES ASSUME NEW i \in 0..(n - 1)
               PROVE  ProcOf(i)' = ProcOf(i)
    OBVIOUS
  <2>1. ProcOf(i) = resumer[chain[i + 1]]
    <3>1. i # n
      BY <1>n
    <3> QED
      BY <3>1, <1>n DEF ProcOf
  <2>2. CASE i = n - 1
    <3>1. ProcOf(i)' = curProc'
      BY <2>2, <1>1 DEF ProcOf
    <3>2. ProcOf(i) = resumer[chain[n]]
      BY <2>1, <2>2, <1>n
    <3>3. CASE Below(n) \in ScriptFibers
      <4>1. n # 1 /\ Below(n) = chain[n - 1] /\ n - 1 \in 1..n
        BY <3>3, <1>t DEF Below, Fibers
      <4>2. ProcOf(n - 1) = chain[n - 1]
        BY <4>1, <3>3, <1>0 DEF ChainInv, ProcessFollowsContext
      <4> QED
        BY <3>1, <3>3, <4>1, <4>2, <2>2, <1>t
    <3>4. CASE Below(n) \notin ScriptFibers
      BY <3>1, <3>2, <3>4, <1>t
    <3> QED
      BY <3>3, <3>4
  <2>3. CASE i + 1 \in 1..(n - 1)
    <3>1. i # n - 1 /\ chain'[i + 1] = chain[i + 1]
      BY <2>3, <1>1
    <3> QED
      BY <3>1, <2>1, <1>1, <1>t DEF ProcOf
  <2>4. i = n - 1 \/ i + 1 \in 1..(n - 1)
    BY <1>n
  <2> QED
    BY <2>2, <2>3, <2>4
<1>10. ProcessFollowsContext'
  <2>1. \A i \in 1..(n - 1) : i \in 0..(n - 1) /\ i - 1 \in 0..(n - 1)
    BY <1>n
  <2>2. 0 \in 0..(n - 1)
    BY <1>t
  <2> QED
    BY <2>1, <2>2, <1>0, <1>1, <1>2, <1>9 DEF ProcessFollowsContext, ChainInv
<1>11. BindingsOnChain'
  <2>1. \A i \in 1..(n - 1) :
          resumer'[chain'[i]] \in {chain'[j] : j \in 1..(i - 1)} \cup {Main}
    <3> SUFFICES ASSUME NEW i \in 1..(n - 1)
                 PROVE  resumer'[chain'[i]] \in {chain'[j] : j \in 1..(i - 1)} \cup {Main}
      OBVIOUS
    <3>1. resumer[chain[i]] \in {chain[j] : j \in 1..(i - 1)} \cup {Main}
      BY <1>0, <1>2 DEF ChainInv, BindingsOnChain
    <3>2. \A j \in 1..(i - 1) : j \in 1..(n - 1)
      BY <1>n
    <3>3. {chain'[j] : j \in 1..(i - 1)} = {chain[j] : j \in 1..(i - 1)}
      BY <3>2, <1>1
    <3> QED
      BY <3>1, <3>3, <1>1, <1>t
  <2>2. OnChain' = {chain'[j] : j \in 1..(n - 1)}
    BY <1>1 DEF OnChain
  <2>3. Below(n) \in OnChain' \cup {Main}
    <3>1. n # 1 => n - 1 \in 1..(n - 1)
      BY <1>t
    <3> QED
      BY <3>1, <2>2, <1>4
  <2>4. resumer[chain[n]] \in OnChain' \cup {Main}
    <3>1. resumer[chain[n]] \in {chain[j] : j \in 1..(n - 1)} \cup {Main}
      BY SMTT(30), <1>0, <1>t DEF ChainInv, BindingsOnChain
    <3> QED
      BY <3>1, <2>2, <1>1
  <2>5. curProc' \in OnChain' \cup {Main}
    BY <2>3, <2>4, <1>t
  <2>6. fiberSp' \in OnChain' \cup {Main}
    <3>1. chain[n] \notin ScriptFibers => fiberSp \in (OnChain \ {chain[n]}) \cup {Main}
      BY <1>t DEF ChainInv, BindingsOnChain
    <3> QED
      BY <3>1, <2>3, <1>3, <1>t
  <2>7. ASSUME \A i \in DOMAIN chain' : chain'[i] \in NativeFibers
        PROVE  fiberSp' = Main
    <3>1. Below(n) \notin ScriptFibers
      <4>1. n # 1 => n - 1 \in 1..(n - 1)
        BY <1>t
      <4> QED
        BY <4>1, <2>7, <1>1, <1>4 DEF Fibers
    <3>2. CASE chain[n] \in ScriptFibers
      BY <3>1, <3>2, <1>t
    <3>3. CASE chain[n] \notin ScriptFibers
      <4>1. \A i \in 1..n : i \in 1..(n - 1) \/ i = n
        BY <1>n
      <4>2. \A i \in DOMAIN chain : chain[i] \in NativeFibers
        BY <4>1, <2>7, <3>3, <1>0, <1>1, <1>t DEF Fibers
      <4>3. fiberSp = Main
        BY <4>2 DEF ChainInv, BindingsOnChain
      <4> QED
        BY <4>3, <3>1, <3>3, <1>t
    <3> QED
      BY <3>2, <3>3
  <2> QED
    BY <2>1, <2>5, <2>6, <2>7, <1>1 DEF BindingsOnChain
<1>12. DomainsFollowContext'
  <2>1. CASE Below(n) \in ScriptFibers
    BY <2>1, <1>t DEF DomainsFollowContext
  <2>2. CASE Below(n) = Main
    <3>1. n = 1
      BY <2>2, <1>0, <1>t DEF Below, ChainInv, RunningIsOnChain
    <3>2. chain' = <<>>
      BY <3>1, <1>1
    <3> QED
      BY <2>2, <3>1, <3>2, <1>1, <1>11, <1>t DEF DomainsFollowContext, BindingsOnChain
  <2>3. CASE Below(n) \in NativeFibers
    BY <2>3, <1>t DEF DomainsFollowContext
  <2> QED
    BY <2>1, <2>2, <2>3, <1>t DEF Contexts, Fibers
<1> QED
  BY <1>n, <1>5, <1>9, <1>10, <1>11, <1>12 DEF ChainInv
-----------------------------------------------------------------------------
(***************************************************************************)
(* The waiting half: time, back-off counts and positions.                  *)
(***************************************************************************)
WaitTypes ==
    /\ held \in SUBSET Fibers
    /\ rem \in [Contexts -> Nat]
    /\ skip \in [Fibers -> 0..MaxSkip]
    /\ at \in [Contexts -> Positions]
    /\ outcome \in Outcomes

(* The type invariant is what the switches touch and what the waits        *)
(* touch.                                                                  *)
LEMMA TypesSplit == TypeOK <=> SwitchTypes /\ WaitTypes
BY DEF TypeOK, SwitchTypes, WaitTypes

(* The same of the next state.                                             *)
LEMMA TypesSplitNext == TypeOK' <=> SwitchTypes' /\ WaitTypes'
BY DEF TypeOK, SwitchTypes, WaitTypes

(* A position names its fiber, and the body is none of the back-offs. *)
LEMMA PositionsDiffer ==
    /\ \A f \in Fibers : Backoff(f) # Body
    /\ \A f, g \in Fibers : Backoff(f) = Backoff(g) => f = g
<1>1. \A f : Backoff(f).op = "backoff" /\ Backoff(f).fi = f
  BY DEF Backoff
<1>2. Body.op = "body"
  BY DEF Body
<1> QED
  BY <1>1, <1>2

(* A count of premature attempts stays in its range. *)
LEMMA NextSkipType ==
    ASSUME WaitTypes, NEW f \in Fibers
    PROVE  NextSkip(f) \in 0..MaxSkip
BY SkipAssumption DEF WaitTypes, NextSkip, MinOf

(* Entering a fiber whose time has come disturbs nobody's waiting. *)
LEMMA EnterKeepsWait ==
    ASSUME TypeOK, WaitInv, NEW f \in Fibers, Runnable(f),
           state' = [state EXCEPT ![f] = "running"], rem' = rem, at' = at,
           held' = held
    PROVE  WaitInv'
<1>1. rem[f] \in Nat /\ state[f] \in States /\ f \in Contexts
  BY DEF TypeOK, Contexts
<1>2. ~(rem[f] > 0)
  BY <1>1 DEF Runnable, WaitInv, AwakeOnlyWhenDue
<1>3. AwakeOnlyWhenDue'
  BY <1>2 DEF TypeOK, WaitInv, AwakeOnlyWhenDue
<1>4. HandlesAlive'
  BY DEF TypeOK, WaitInv, HandlesAlive
<1>5. BackoffNeverOversleeps'
  BY DEF WaitInv, BackoffNeverOversleeps
<1> QED
  BY <1>3, <1>4, <1>5 DEF WaitInv

(* The running fiber leaving: nobody's target has a wake-up time ahead     *)
(* while it runs, so its new wake-up time can only lie later.              *)
LEMMA LeaveKeepsWait ==
    ASSUME TypeOK, WaitInv, NEW f \in Fibers, state[f] = "running", at[f] = Body,
           NEW s \in {"suspended", "finished", "sleeping", "destroyed"}, NEW t \in Nat,
           t > 0 => s \in {"sleeping", "destroyed"},
           s = "destroyed" => f \notin held,
           held' = held,
           state' = [state EXCEPT ![f] = s],
           rem' = [rem EXCEPT ![f] = t],
           \/ at' = at
           \/ \E g \in Fibers : /\ at' = [at EXCEPT ![f] = Backoff(g)]
                                /\ state[g] = "sleeping"
                                /\ t <= rem[g]
    PROVE  WaitInv'
<1>1. f \in Contexts /\ rem[f] \in Nat /\ Fibers \subseteq Contexts
  BY DEF TypeOK, Contexts
<1>2. rem[f] = 0
  BY <1>1 DEF WaitInv, AwakeOnlyWhenDue
<1>3. AwakeOnlyWhenDue'
  BY <1>1 DEF TypeOK, WaitInv, AwakeOnlyWhenDue
<1>4. HandlesAlive'
  BY DEF TypeOK, WaitInv, HandlesAlive
<1>5. BackoffNeverOversleeps'
  <2>1. SUFFICES ASSUME NEW c \in Contexts, NEW h \in Fibers, at'[c] = Backoff(h)
                 PROVE  rem'[c] <= rem'[h]
    BY DEF BackoffNeverOversleeps
  <2>2. rem[c] \in Nat /\ rem[h] \in Nat /\ h \in Contexts
    BY <1>1 DEF TypeOK
  <2>3. CASE at'[c] = at[c]
    <3>1. at[c] = Backoff(h) /\ c # f
      BY <2>1, <2>3, PositionsDiffer
    <3>2. rem[c] <= rem[h]
      BY <3>1 DEF WaitInv, BackoffNeverOversleeps
    <3>3. rem'[c] = rem[c]
      BY <3>1 DEF TypeOK
    <3>4. CASE h = f
      BY <3>2, <3>3, <3>4, <1>1, <1>2, <2>2 DEF TypeOK
    <3>5. CASE h # f
      BY <3>2, <3>3, <3>5, <2>2 DEF TypeOK
    <3> QED
      BY <3>4, <3>5
  <2>4. CASE at'[c] # at[c]
    <3>1. PICK g \in Fibers : /\ at' = [at EXCEPT ![f] = Backoff(g)]
                              /\ state[g] = "sleeping"
                              /\ t <= rem[g]
      BY <2>4
    <3>2. c = f /\ at'[c] = Backoff(g)
      BY <2>4, <3>1 DEF TypeOK
    <3>3. h = g /\ h # f
      BY <2>1, <3>1, <3>2, PositionsDiffer
    <3>4. rem'[c] = t /\ rem'[h] = rem[g]
      BY <3>1, <3>2, <3>3, <1>1, <2>2 DEF TypeOK
    <3> QED
      BY <3>1, <3>4
  <2> QED
    BY <2>3, <2>4
<1> QED
  BY <1>3, <1>4, <1>5 DEF WaitInv
-----------------------------------------------------------------------------
(***************************************************************************)
(* The invariant.                                                          *)
(***************************************************************************)

(* The invariant holds before the first fiber is created.                  *)
LEMMA InitInv == Init => FiberInv
<1> SUFFICES ASSUME Init PROVE FiberInv
  OBVIOUS
<1> USE FiberAssumption
<1>1. TypeOK
  BY SkipAssumption DEF Init, TypeOK, States, Contexts, Processes, Positions, Outcomes
<1>2. Len(chain) = 0 /\ DOMAIN chain = {} /\ OnChain = {}
  BY DEF Init, OnChain
<1>3. RunningIsOnChain
  BY <1>2 DEF Init, RunningIsOnChain
<1>4. ReturnsToItsResumer /\ ProcessFollowsContext
  BY <1>2 DEF Init, ReturnsToItsResumer, ProcessFollowsContext, ProcOf
<1>5. DomainsFollowContext /\ BindingsOnChain
  BY <1>2 DEF Init, DomainsFollowContext, BindingsOnChain
<1>6. WaitInv
  <2>1. \A f \in Fibers : Body # Backoff(f)
    BY PositionsDiffer
  <2>2. \A c \in Contexts : at[c] = Body /\ rem[c] = 0
    BY DEF Init
  <2> QED
    BY <2>1, <2>2 DEF Init, WaitInv, BackoffNeverOversleeps, AwakeOnlyWhenDue,
                      HandlesAlive, Contexts
<1> QED
  BY <1>1, <1>3, <1>4, <1>5, <1>6 DEF FiberInv, ChainInv

(* The variables of the chain and its bindings. *)
chainVars == <<chain, ctl, prevCtx, callee, resumer, curProc, fiberSp>>

(* A step that neither switches nor starts or stops a fiber on the chain.  *)
LEMMA NoSwitchKeepsChain ==
    ASSUME SwitchTypes, ChainInv, UNCHANGED chainVars,
           state' \in [Fibers -> States],
           \A f \in Fibers : state'[f] = "running" <=> state[f] = "running"
    PROVE  SwitchTypes' /\ ChainInv'
<1>1. SwitchTypes'
  BY DEF SwitchTypes, chainVars
<1>2. OnChain' = OnChain
  BY DEF OnChain, chainVars
<1>3. RunningIsOnChain'
  BY <1>2 DEF ChainInv, RunningIsOnChain, chainVars, Top
<1>4. ReturnsToItsResumer'
  BY DEF ChainInv, ReturnsToItsResumer, Below, chainVars
<1>5. ProcessFollowsContext'
  BY DEF ChainInv, ProcessFollowsContext, ProcOf, chainVars
<1>6. DomainsFollowContext' /\ BindingsOnChain'
  BY <1>2 DEF ChainInv, DomainsFollowContext, BindingsOnChain, chainVars
<1> QED
  BY <1>1, <1>3, <1>4, <1>5, <1>6 DEF ChainInv

(* Control is with the top of a non-empty chain, and that fiber is running. *)
LEMMA TopRuns ==
    ASSUME TypeOK, ChainInv, chain # <<>>
    PROVE  ctl = Top /\ Top \in Fibers /\ Top \in Contexts /\ state[Top] = "running"
<1>1. Len(chain) \in DOMAIN chain /\ Top \in Fibers
  BY DEF TypeOK, Top
<1>2. Top \in OnChain
  BY <1>1 DEF OnChain, Top
<1> QED
  BY <1>1, <1>2 DEF ChainInv, RunningIsOnChain, Contexts

(* How SwitchOut changes the state of the fiber that leaves. *)
LEMMA LeaveState ==
    ASSUME NEW s, LeaveAs(s)
    PROVE  state' = [state EXCEPT ![Top] = s]
BY DEF LeaveAs, SwapOut

(* A fiber enters: Resume of one that can run. *)
LEMMA ResumeSwitchInv ==
    ASSUME FiberInv, NEW f \in Fibers, ResumeSwitch(f)
    PROVE  FiberInv'
<1>1. TypeOK /\ ChainInv /\ WaitInv /\ SwitchTypes /\ WaitTypes
  BY TypesSplit DEF FiberInv
<1>2. Runnable(f) /\ SwitchIn(f) /\ UNCHANGED <<rem, at>>
  BY DEF ResumeSwitch
<1>3. state[f] # "running"
  BY <1>2 DEF Runnable
<1>4. SwitchTypes' /\ ChainInv'
  BY <1>1, <1>2, <1>3, SwitchInKeepsChain
<1>5. WaitTypes'
  BY <1>1, SkipAssumption DEF ResumeSwitch, WaitTypes, Outcomes
<1>6. WaitInv'
  BY <1>1, <1>2, EnterKeepsWait DEF ResumeSwitch, SwitchIn, BindContext, CaptureProcess, SwapIn
<1> QED
  BY <1>4, <1>5, <1>6, TypesSplitNext DEF FiberInv

(* The fiber on top leaves: yield, sleep_for, the end of its function, or  *)
(* a back-off inside a fiber.                                              *)
LEMMA LeaveInv ==
    ASSUME FiberInv, chain # <<>>, InBody,
           NEW s \in {"suspended", "finished", "sleeping"},
           NEW result \in Outcomes, SwitchOut(s, result),
           NEW t \in Nat, t > 0 => s = "sleeping",
           rem' = [rem EXCEPT ![Top] = t],
           \/ at' = at
           \/ \E g \in Fibers : /\ at' = [at EXCEPT ![Top] = Backoff(g)]
                                /\ state[g] = "sleeping"
                                /\ t <= rem[g],
           skip' \in [Fibers -> 0..MaxSkip]
    PROVE  FiberInv'
<1> DEFINE x == EndState(s)
<1>1. TypeOK /\ ChainInv /\ WaitInv /\ SwitchTypes /\ WaitTypes
  BY TypesSplit DEF FiberInv
<1>2. ctl = Top /\ Top \in Fibers /\ Top \in Contexts /\ state[Top] = "running"
  BY <1>1, TopRuns
<1>3. LeaveAs(x) /\ outcome' \in {result, "undefined"}
  BY SwitchOutLeaves
<1>4. x \in {"suspended", "finished", "sleeping", "destroyed"} /\ x \in {s, "destroyed"}
  BY DEF EndState
<1> HIDE DEF x
<1>5. SwitchTypes' /\ ChainInv'
  <2>1. x \in States \ {"running"}
    BY <1>4 DEF States
  <2> QED
    BY <1>1, <1>3, <2>1, SwitchOutKeepsChain
<1>6. at[Top] = Body
  BY <1>2 DEF InBody
<1>7. /\ state' = [state EXCEPT ![Top] = x] /\ held' = held
      /\ x = "destroyed" => Top \notin held
      /\ t > 0 => x \in {"sleeping", "destroyed"}
  BY <1>3, <1>4 DEF LeaveAs
<1>8. WaitInv'
  BY <1>1, <1>2, <1>4, <1>6, <1>7, LeaveKeepsWait
<1>9. WaitTypes'
  <2>1. rem' \in [Contexts -> Nat]
    BY <1>1 DEF WaitTypes
  <2>2. at' \in [Contexts -> Positions]
    BY <1>1 DEF WaitTypes, Positions
  <2>3. held' \in SUBSET Fibers /\ outcome' \in Outcomes
    BY <1>1, <1>3, <1>7 DEF WaitTypes, Outcomes
  <2> QED
    BY <2>1, <2>2, <2>3 DEF WaitTypes
<1> QED
  BY <1>5, <1>8, <1>9, TypesSplitNext DEF FiberInv

(* A running fiber has no wake-up time ahead. *)
LEMMA RunningIsDue ==
    ASSUME TypeOK, WaitInv, NEW f \in Fibers, state[f] = "running"
    PROVE  rem = [rem EXCEPT ![f] = 0]
<1>1. f \in Contexts /\ rem \in [Contexts -> Nat] /\ rem[f] \in Nat
  BY DEF TypeOK, Contexts
<1>2. ~(rem[f] > 0)
  BY DEF WaitInv, AwakeOnlyWhenDue
<1>3. rem[f] = 0
  BY <1>1, <1>2
<1> QED
  BY <1>1, <1>3

(* yield() keeps the invariant: the fiber that leaves was not asleep.      *)
LEMMA YieldInv ==
    ASSUME FiberInv, Yield
    PROVE  FiberInv'
<1>1. TypeOK /\ ChainInv /\ WaitInv
  BY DEF FiberInv
<1>2. chain # <<>> /\ InBody /\ SwitchOut("suspended", "ok") /\ UNCHANGED <<rem, skip, at>>
  BY DEF Yield
<1>3. Top \in Fibers /\ Top \in Contexts /\ state[Top] = "running"
  BY <1>1, <1>2, TopRuns
<1>4. rem' = [rem EXCEPT ![Top] = 0]
  BY <1>1, <1>2, <1>3, RunningIsDue
<1>5. skip' \in [Fibers -> 0..MaxSkip] /\ "ok" \in Outcomes /\ "task_error" \in Outcomes
  BY <1>1, <1>2 DEF TypeOK, Outcomes
<1>6. 0 \in Nat /\ ~(0 > 0)
  OBVIOUS
<1> QED
  BY <1>2, <1>4, <1>5, <1>6, LeaveInv

(* A task that returns or throws keeps the invariant.                      *)
LEMMA FinishInv ==
    ASSUME FiberInv, NEW threw \in BOOLEAN, Finish(threw)
    PROVE  FiberInv'
<1>1. TypeOK /\ ChainInv /\ WaitInv
  BY DEF FiberInv
<1> DEFINE result == IF threw THEN "task_error" ELSE "ok"
<1>2. chain # <<>> /\ InBody /\ SwitchOut("finished", result) /\ UNCHANGED <<rem, skip, at>>
  BY DEF Finish
<1>3. Top \in Fibers /\ Top \in Contexts /\ state[Top] = "running"
  BY <1>1, <1>2, TopRuns
<1>4. rem' = [rem EXCEPT ![Top] = 0]
  BY <1>1, <1>2, <1>3, RunningIsDue
<1>5. skip' \in [Fibers -> 0..MaxSkip] /\ "ok" \in Outcomes /\ "task_error" \in Outcomes
  BY <1>1, <1>2 DEF TypeOK, Outcomes
<1>6. 0 \in Nat /\ ~(0 > 0)
  OBVIOUS
<1>7. result \in Outcomes
  BY <1>5
<1> HIDE DEF result
<1> QED
  BY <1>2, <1>4, <1>5, <1>6, <1>7, LeaveInv

(* sleep_for() keeps the invariant: nobody backs off on the fiber that is  *)
(* running.                                                                *)
LEMMA SleepForInv ==
    ASSUME FiberInv, NEW ms \in Nat, SleepFor(ms)
    PROVE  FiberInv'
<1>1. TypeOK /\ ChainInv /\ WaitInv
  BY DEF FiberInv
<1>2. chain # <<>> /\ InBody /\ SwitchOut("sleeping", "ok") /\ at' = at
      /\ skip' = [skip EXCEPT ![Top] = 0]
      /\ rem' = [rem EXCEPT ![Top] = ms * TicksPerMs]
  BY DEF SleepFor, SleepCurrent
<1>3. ms * TicksPerMs \in Nat
  BY TimeAssumption, ProductNat
<1>4. skip' \in [Fibers -> 0..MaxSkip] /\ "ok" \in Outcomes
  <2>1. 0 \in 0..MaxSkip
    BY SkipAssumption
  <2> QED
    BY <1>1, <1>2, <2>1 DEF TypeOK, Outcomes
<1> QED
  BY <1>2, <1>3, <1>4, LeaveInv

(* A resuming fiber that backs off will be due no later than its target.   *)
LEMMA ResumeBackoffFiberInv ==
    ASSUME FiberInv, NEW f \in Fibers, ResumeBackoffFiber(f)
    PROVE  FiberInv'
<1> DEFINE t == WaitTime(NextSkip(f), RemainMs(f)) * TicksPerMs
<1>1. TypeOK /\ ChainInv /\ WaitInv /\ WaitTypes
  BY TypesSplit DEF FiberInv
<1>2. chain # <<>> /\ InBody /\ SwitchOut("sleeping", "ok")
      /\ at' = [at EXCEPT ![ctl] = Backoff(f)]
      /\ state[f] = "sleeping"
      /\ skip' = [skip EXCEPT ![f] = NextSkip(f), ![Top] = 0]
      /\ rem' = [rem EXCEPT ![Top] = t]
  BY DEF ResumeBackoffFiber, SleepCurrent
<1>3. t \in Nat /\ t <= rem[f]
  BY <1>1, BackoffTicks
<1>4. ctl = Top
  BY <1>1, <1>2, TopRuns
<1>5. skip' \in [Fibers -> 0..MaxSkip] /\ "ok" \in Outcomes
  <2>1. NextSkip(f) \in 0..MaxSkip /\ 0 \in 0..MaxSkip
    BY <1>1, NextSkipType, SkipAssumption
  <2> QED
    BY <1>1, <1>2, <2>1 DEF TypeOK, Outcomes
<1> HIDE DEF t
<1> QED
  BY <1>2, <1>3, <1>4, <1>5, LeaveInv

(* fiber.create: a new fiber is held and not on the chain.                 *)
LEMMA CreateInv ==
    ASSUME FiberInv, NEW f \in Fibers, Create(f)
    PROVE  FiberInv'
<1>1. TypeOK /\ ChainInv /\ WaitInv /\ SwitchTypes /\ WaitTypes
  BY TypesSplit DEF FiberInv
<1>2. state' \in [Fibers -> States] /\ UNCHANGED chainVars
      /\ \A g \in Fibers : state'[g] = "running" <=> state[g] = "running"
  BY <1>1 DEF Create, SwitchTypes, States, chainVars
<1>3. SwitchTypes' /\ ChainInv'
  BY <1>1, <1>2, NoSwitchKeepsChain
<1>4. WaitTypes'
  BY <1>1 DEF Create, WaitTypes, Outcomes
<1>5. f \in Contexts /\ rem[f] \in Nat
  BY <1>1 DEF TypeOK, Contexts
<1>6. ~(rem[f] > 0)
  BY <1>5, <1>1 DEF Create, WaitInv, AwakeOnlyWhenDue
<1>7. AwakeOnlyWhenDue' /\ BackoffNeverOversleeps'
  BY <1>1, <1>6 DEF Create, TypeOK, WaitInv, AwakeOnlyWhenDue, BackoffNeverOversleeps
<1>8. HandlesAlive'
  BY <1>1 DEF Create, TypeOK, WaitInv, HandlesAlive
<1> QED
  BY <1>3, <1>4, <1>7, <1>8, TypesSplitNext DEF FiberInv, WaitInv

(* Dropping the last handle but those of the chain leaves nothing          *)
(* dangling: what is on the chain is not destroyed.                        *)
LEMMA DropInv ==
    ASSUME FiberInv, NEW f \in Fibers, Drop(f)
    PROVE  FiberInv'
<1>1. TypeOK /\ ChainInv /\ WaitInv /\ SwitchTypes /\ WaitTypes
  BY TypesSplit DEF FiberInv
<1>2. state' = state \/ (state[f] # "running" /\ state' = [state EXCEPT ![f] = "destroyed"])
  BY <1>1 DEF Drop, Kept, ChainInv, RunningIsOnChain
<1>3. state' \in [Fibers -> States] /\ UNCHANGED chainVars
      /\ \A g \in Fibers : state'[g] = "running" <=> state[g] = "running"
  BY <1>1, <1>2 DEF Drop, SwitchTypes, States, chainVars
<1>4. SwitchTypes' /\ ChainInv'
  BY <1>1, <1>3, NoSwitchKeepsChain
<1>5. WaitTypes'
  BY <1>1 DEF Drop, WaitTypes
<1>6. AwakeOnlyWhenDue' /\ BackoffNeverOversleeps'
  BY <1>1, <1>2 DEF Drop, TypeOK, WaitInv, AwakeOnlyWhenDue, BackoffNeverOversleeps
<1>7. HandlesAlive'
  BY <1>1, <1>2 DEF Drop, TypeOK, WaitInv, HandlesAlive
<1> QED
  BY <1>4, <1>5, <1>6, <1>7, TypesSplitNext DEF FiberInv, WaitInv

(* fiber.current(): the fiber on top of the chain is alive.                *)
LEMMA GetCurrentInv ==
    ASSUME FiberInv, GetCurrent
    PROVE  FiberInv'
<1>1. TypeOK /\ ChainInv /\ WaitInv /\ SwitchTypes /\ WaitTypes
  BY TypesSplit DEF FiberInv
<1>2. Top \in Fibers /\ state[Top] = "running"
  BY <1>1, TopRuns DEF GetCurrent
<1>3. UNCHANGED chainVars /\ UNCHANGED <<state, rem, at, skip, outcome>>
      /\ held' = held \cup {Top}
  BY DEF GetCurrent, chainVars
<1>4. state' \in [Fibers -> States]
      /\ \A g \in Fibers : state'[g] = "running" <=> state[g] = "running"
  BY <1>1, <1>3 DEF SwitchTypes
<1>5. SwitchTypes' /\ ChainInv'
  BY <1>1, <1>3, <1>4, NoSwitchKeepsChain
<1>6. WaitTypes'
  BY <1>1, <1>2, <1>3 DEF WaitTypes
<1>7. WaitInv'
  BY <1>1, <1>2, <1>3 DEF WaitInv, BackoffNeverOversleeps, AwakeOnlyWhenDue, HandlesAlive
<1> QED
  BY <1>5, <1>6, <1>7, TypesSplitNext DEF FiberInv

(* Calls that return at once, or start or end a wait, without a switch.    *)
LEMMA StayInv ==
    ASSUME FiberInv, UNCHANGED chainVars, state' = state, WaitTypes', WaitInv'
    PROVE  FiberInv'
<1>1. SwitchTypes /\ ChainInv
  BY TypesSplit DEF FiberInv
<1>2. state' \in [Fibers -> States]
  BY <1>1 DEF SwitchTypes
<1>3. SwitchTypes' /\ ChainInv'
  BY <1>1, <1>2, NoSwitchKeepsChain
<1> QED
  BY <1>3, TypesSplitNext DEF FiberInv

(* A step that changes only counts and the outcome keeps the invariant.    *)
LEMMA QuietInv ==
    ASSUME FiberInv, UNCHANGED chainVars, UNCHANGED <<state, held, rem, at>>,
           skip' \in [Fibers -> 0..MaxSkip], outcome' \in Outcomes
    PROVE  FiberInv'
<1>1. WaitTypes /\ WaitInv
  BY TypesSplit DEF FiberInv
<1>2. WaitTypes'
  BY <1>1 DEF WaitTypes
<1>3. WaitInv'
  BY <1>1 DEF WaitInv, BackoffNeverOversleeps, AwakeOnlyWhenDue, HandlesAlive
<1> QED
  BY <1>2, <1>3, StayInv

(* The calls that only throw keep the invariant.                           *)
LEMMA RefusedInv ==
    ASSUME FiberInv, YieldOutside \/ \E f \in Fibers : ResumeRejected(f)
    PROVE  FiberInv'
<1>1. UNCHANGED chainVars /\ UNCHANGED <<state, held, rem, at, skip>> /\ outcome' = "lang_error"
  BY DEF YieldOutside, ResumeRejected, chainVars
<1>2. skip' \in [Fibers -> 0..MaxSkip] /\ outcome' \in Outcomes
  BY <1>1 DEF FiberInv, TypeOK, Outcomes
<1> QED
  BY <1>1, <1>2, QuietInv

(* A wait too short to be worth it changes nothing but the count of        *)
(* attempts.                                                               *)
LEMMA EarlyReturnInv ==
    ASSUME FiberInv, NEW f \in Fibers, ResumeEarlyReturn(f)
    PROVE  FiberInv'
<1>1. WaitTypes
  BY TypesSplit DEF FiberInv
<1>2. skip' \in [Fibers -> 0..MaxSkip]
  BY <1>1, NextSkipType DEF ResumeEarlyReturn, WaitTypes
<1>3. UNCHANGED chainVars /\ UNCHANGED <<state, held, rem, at>> /\ outcome' \in Outcomes
  BY DEF ResumeEarlyReturn, chainVars, Outcomes
<1> QED
  BY <1>2, <1>3, QuietInv

(* The thread that backs off will be due no later than its target.         *)
LEMMA BackoffThreadInv ==
    ASSUME FiberInv, NEW f \in Fibers, ResumeBackoffThread(f)
    PROVE  FiberInv'
<1> DEFINE t == WaitTime(NextSkip(f), RemainMs(f)) * TicksPerMs
<1>1. TypeOK /\ WaitTypes /\ WaitInv /\ RunningIsOnChain
  BY TypesSplit DEF FiberInv, ChainInv
<1>2. t \in Nat /\ t <= rem[f]
  BY <1>1, BackoffTicks
<1>3. ctl = Main /\ Main \in Contexts /\ Main \notin Fibers /\ Fibers \subseteq Contexts
  BY <1>1, FiberAssumption DEF ResumeBackoffThread, RunningIsOnChain, Contexts
<1>4. /\ at' = [at EXCEPT ![Main] = Backoff(f)]
      /\ rem' = [rem EXCEPT ![Main] = t]
      /\ state[f] = "sleeping"
      /\ UNCHANGED chainVars /\ UNCHANGED <<state, held, outcome>>
      /\ skip' = [skip EXCEPT ![f] = NextSkip(f)]
  BY <1>3 DEF ResumeBackoffThread, chainVars
<1> HIDE DEF t
<1>5. WaitTypes'
  BY <1>1, <1>2, <1>4, NextSkipType DEF WaitTypes, Positions
<1>6. AwakeOnlyWhenDue'
  BY <1>1, <1>3, <1>4 DEF WaitInv, AwakeOnlyWhenDue, WaitTypes
<1>8. HandlesAlive'
  BY <1>1, <1>4 DEF WaitInv, HandlesAlive
<1>7. BackoffNeverOversleeps'
  <2> SUFFICES ASSUME NEW c \in Contexts, NEW h \in Fibers, at'[c] = Backoff(h)
               PROVE  rem'[c] <= rem'[h]
    BY DEF BackoffNeverOversleeps
  <2>1. rem'[h] = rem[h]
    BY <1>3, <1>4
  <2>2. CASE c = Main
    <3>1. at'[c] = Backoff(f) /\ rem'[c] = t
      BY <2>2, <1>1, <1>3, <1>4 DEF WaitTypes
    <3>2. h = f
      BY <3>1, PositionsDiffer
    <3> QED
      BY <3>1, <3>2, <2>1, <1>2, <1>4
  <2>3. CASE c # Main
    <3>1. at[c] = Backoff(h) /\ rem'[c] = rem[c]
      BY <2>3, <1>1, <1>4 DEF WaitTypes
    <3> QED
      BY <3>1, <2>1, <1>1, <1>4 DEF WaitInv, BackoffNeverOversleeps
  <2> QED
    BY <2>2, <2>3
<1> QED
  BY <1>4, <1>5, <1>6, <1>7, <1>8, StayInv DEF WaitInv

(* The end of a back-off keeps the invariant.                              *)
LEMMA BackoffDoneInv ==
    ASSUME FiberInv, BackoffDone
    PROVE  FiberInv'
<1>1. TypeOK /\ WaitTypes /\ WaitInv
  BY TypesSplit DEF FiberInv
<1>2. /\ at' = [at EXCEPT ![ctl] = Body]
      /\ skip' = [skip EXCEPT ![at[ctl].fi] = 0]
      /\ UNCHANGED chainVars /\ UNCHANGED <<state, held, rem>> /\ outcome' \in Outcomes
  BY DEF BackoffDone, chainVars, Outcomes
<1>3. WaitTypes'
  <2>1. 0 \in 0..MaxSkip
    BY SkipAssumption
  <2> QED
    BY <2>1, <1>1, <1>2 DEF WaitTypes, Positions, Outcomes
<1>4. \A c \in Contexts, h \in Fibers : at'[c] = Backoff(h) => at[c] = Backoff(h)
  BY <1>1, <1>2, PositionsDiffer DEF WaitTypes
<1>5. WaitInv'
  BY <1>1, <1>2, <1>4 DEF WaitInv, BackoffNeverOversleeps, AwakeOnlyWhenDue, HandlesAlive
<1> QED
  BY <1>2, <1>3, <1>5, StayInv

(* The clock advances every wait alike, so no order between two of them    *)
(* changes.                                                                *)
LEMMA TickInv ==
    ASSUME FiberInv, Tick
    PROVE  FiberInv'
<1>1. TypeOK /\ WaitTypes /\ WaitInv
  BY TypesSplit DEF FiberInv
<1>2. /\ rem' = [c \in Contexts |-> IF rem[c] > 0 THEN rem[c] - 1 ELSE 0]
      /\ UNCHANGED chainVars /\ UNCHANGED <<state, held, at, skip, outcome>>
  BY DEF Tick, chainVars
<1>3. \A c \in Contexts : rem[c] \in Nat
  BY <1>1 DEF WaitTypes
<1>4. \A c, d \in Contexts : rem[c] <= rem[d] => rem'[c] <= rem'[d]
  BY <1>2, <1>3
<1>5. \A c \in Contexts : rem'[c] \in Nat /\ (rem'[c] > 0 => rem[c] > 0)
  BY <1>2, <1>3
<1>6. WaitTypes'
  BY <1>1, <1>2, <1>5 DEF WaitTypes
<1>7. WaitInv'
  BY <1>1, <1>2, <1>4, <1>5
     DEF WaitInv, BackoffNeverOversleeps, AwakeOnlyWhenDue, HandlesAlive, Contexts
<1> QED
  BY <1>2, <1>6, <1>7, StayInv

(* Every step of the scheduler keeps the invariant.                        *)
LEMMA NextInv == FiberInv /\ [Next]_vars => FiberInv'
<1> SUFFICES ASSUME FiberInv, [Next]_vars PROVE FiberInv'
  OBVIOUS
<1>1. CASE UNCHANGED vars
  <2>1. UNCHANGED chainVars /\ UNCHANGED <<state, held, rem, at, skip, outcome>>
    BY <1>1 DEF vars, chainVars
  <2>2. skip' \in [Fibers -> 0..MaxSkip] /\ outcome' \in Outcomes
    BY <2>1 DEF FiberInv, TypeOK
  <2> QED
    BY <2>1, <2>2, QuietInv
<1>2. ASSUME NEW f \in Fibers, Create(f) PROVE FiberInv'
  BY <1>2, CreateInv
<1>3. ASSUME NEW f \in Fibers, Resume(f) PROVE FiberInv'
  BY <1>3, RefusedInv, ResumeSwitchInv, EarlyReturnInv, BackoffThreadInv,
     ResumeBackoffFiberInv DEF Resume
<1>4. ASSUME NEW f \in Fibers, Drop(f) PROVE FiberInv'
  BY <1>4, DropInv
<1>11. CASE GetCurrent
  BY <1>11, GetCurrentInv
<1>5. CASE BackoffDone
  BY <1>5, BackoffDoneInv
<1>6. CASE Yield
  BY <1>6, YieldInv
<1>7. ASSUME NEW ms \in SleepMs, SleepFor(ms) PROVE FiberInv'
  BY <1>7, SleepForInv, TimeAssumption
<1>8. CASE YieldOutside
  BY <1>8, RefusedInv
<1>9. ASSUME NEW threw \in BOOLEAN, Finish(threw) PROVE FiberInv'
  BY <1>9, FinishInv
<1>10. CASE Tick
  BY <1>10, TickInv
<1> QED
  BY <1>1, <1>2, <1>3, <1>4, <1>5, <1>6, <1>7, <1>8, <1>9, <1>10, <1>11 DEF Next, Step

(***************************************************************************)
(* The inductive invariant holds in every reachable state, whatever the    *)
(* number of fibers, the nesting and the schedule parameters.              *)
(***************************************************************************)
THEOREM FiberInvariant == Spec => []FiberInv
BY InitInv, NextInv, PTL DEF Spec

(* Every variable of the scheduler keeps its type.                         *)
THEOREM TypeCorrect == Spec => []TypeOK
<1>1. FiberInv => TypeOK
  BY DEF FiberInv
<1> QED
  BY <1>1, FiberInvariant, PTL

(* A fiber is on the chain exactly while it is running, and a fiber that   *)
(* leaves gives control back to the resume() that entered it.              *)
THEOREM ControlReturns == Spec => [](RunningIsOnChain /\ ReturnsToItsResumer)
<1>1. FiberInv => RunningIsOnChain /\ ReturnsToItsResumer
  BY DEF FiberInv, ChainInv
<1> QED
  BY <1>1, FiberInvariant, PTL

(* After any nesting of resumes every context finds the process it calls   *)
(* functions on as it left it, and its own variables.                      *)
THEOREM BindingsFollow == Spec => [](ProcessFollowsContext /\ DomainsFollowContext)
<1>1. FiberInv => ProcessFollowsContext /\ DomainsFollowContext
  BY DEF FiberInv, ChainInv
<1> QED
  BY <1>1, FiberInvariant, PTL

(* Whatever handles of fibers the program drops, also inside them and      *)
(* while they have resumed others: current_process, the fiber stack        *)
(* pointer, and the saved process and context of every pending resume()    *)
(* never belong to a destroyed fiber.  (Of the fiber a resume() has just   *)
(* come back from, or backs off for, nothing is claimed: dropping it makes *)
(* the outcome "undefined".)                                               *)
THEOREM NothingDangles == Spec => []NoDanglingBinding
<1>1. FiberInv => NoDanglingBinding
  <2> SUFFICES ASSUME FiberInv PROVE NoDanglingBinding
    OBVIOUS
  <2> USE FiberAssumption
  <2>1. TypeOK /\ RunningIsOnChain /\ ReturnsToItsResumer /\ BindingsOnChain
    BY DEF FiberInv, ChainInv
  <2> DEFINE live(p) == p \in Fibers => state[p] \notin {"unborn", "destroyed"}
  <2>2. ASSUME NEW p \in OnChain \cup {Main}
        PROVE  live(p)
    BY <2>1 DEF RunningIsOnChain
  <2>3. live(curProc) /\ live(fiberSp)
    BY <2>1, <2>2 DEF BindingsOnChain
  <2>4. ASSUME NEW i \in DOMAIN chain
        PROVE  live(resumer[chain[i]]) /\ live(prevCtx[chain[i]])
    <3>1. resumer[chain[i]] \in OnChain \cup {Main}
      <4>1. \A j \in 1..(i - 1) : j \in DOMAIN chain
        BY <2>1 DEF TypeOK
      <4> QED
        BY <4>1, <2>1 DEF BindingsOnChain, OnChain
    <3>2. prevCtx[chain[i]] \in OnChain \cup {Main}
      <4>1. i # 1 => i - 1 \in DOMAIN chain
        BY <2>1 DEF TypeOK
      <4> QED
        BY <4>1, <2>1 DEF ReturnsToItsResumer, Below, OnChain
    <3> QED
      BY <3>1, <3>2, <2>2
  <2> QED
    BY <2>3, <2>4 DEF NoDanglingBinding
<1> QED
  BY <1>1, FiberInvariant, PTL

(* The back-off of a premature resume never outlasts the sleep it waits    *)
(* for, and only a sleeping fiber has a wake-up time ahead of it.          *)
THEOREM BackoffBounded == Spec => [](BackoffNeverOversleeps /\ AwakeOnlyWhenDue)
<1>1. FiberInv => BackoffNeverOversleeps /\ AwakeOnlyWhenDue
  BY DEF FiberInv, WaitInv
<1> QED
  BY <1>1, FiberInvariant, PTL

(* Resuming and yielding nest like calls, for any number of fibers: the    *)
(* chain is the machine stack, names are looked up in the domains of the   *)
(* fiber in control, and no fiber runs ahead of its time.                  *)
THEOREM SwitchesNested == Spec => []SwitchesNest
<1>1. FiberInv => SwitchesNest
  BY DEF FiberInv, ChainInv, WaitInv, SwitchesNest
<1> QED
  BY <1>1, FiberInvariant, PTL

(* No step takes a fiber out of finished other than its destruction: the   *)
(* fiber that enters or leaves is never a finished one.                    *)
THEOREM FinishedFinal == Spec => FinishedIsFinal
<1> DEFINE Final == \A f \in Fibers : state[f] \in {"finished", "destroyed"} =>
                       state'[f] \in {state[f], "destroyed"}
<1>1. FiberInv /\ [Next]_vars => [Final]_vars
  <2> SUFFICES ASSUME FiberInv, [Next]_vars,
                      NEW f \in Fibers, state[f] \in {"finished", "destroyed"}
               PROVE  state'[f] \in {state[f], "destroyed"}
    OBVIOUS
  <2>1. TypeOK /\ ChainInv /\ state \in [Fibers -> States]
    BY DEF FiberInv, TypeOK
  <2>2. ASSUME NEW s, NEW result, chain # <<>>, SwitchOut(s, result)
        PROVE  state'[f] = state[f]
    <3>1. Top # f
      BY <2>1, <2>2, TopRuns
    <3>2. state' = [state EXCEPT ![Top] = IF Top \in held THEN s ELSE "destroyed"]
      BY <2>2 DEF SwitchOut
    <3> QED
      BY <2>1, <3>1, <3>2
  <2>3. ASSUME NEW g \in Fibers, Create(g) \/ Drop(g) \/ Resume(g)
        PROVE  state'[f] \in {state[f], "destroyed"}
    <3>1. CASE Create(g)
      BY <3>1, <2>1 DEF Create
    <3>2. CASE Drop(g)
      BY <3>2, <2>1 DEF Drop
    <3>3. CASE ResumeSwitch(g)
      BY <3>3, <2>1 DEF ResumeSwitch, Runnable, SwitchIn, BindContext, CaptureProcess, SwapIn
    <3>4. CASE ResumeRejected(g) \/ ResumeEarlyReturn(g) \/ ResumeBackoffThread(g)
      BY <3>4 DEF ResumeRejected, ResumeEarlyReturn, ResumeBackoffThread
    <3>5. CASE ResumeBackoffFiber(g)
      BY <3>5, <2>2 DEF ResumeBackoffFiber, SleepCurrent
    <3> QED
      BY <2>3, <3>1, <3>2, <3>3, <3>4, <3>5 DEF Resume
  <2>4. CASE Yield \/ (\E ms \in SleepMs : SleepFor(ms)) \/ \E threw \in BOOLEAN : Finish(threw)
    BY <2>4, <2>2 DEF Yield, SleepFor, SleepCurrent, Finish
  <2>5. CASE BackoffDone \/ YieldOutside \/ Tick \/ GetCurrent \/ UNCHANGED vars
    BY <2>5 DEF BackoffDone, YieldOutside, Tick, GetCurrent, vars
  <2> QED
    BY <2>3, <2>4, <2>5 DEF Next, Step
<1> QED
  BY <1>1, FiberInvariant, PTL DEF Spec, FinishedIsFinal
-----------------------------------------------------------------------------
(***************************************************************************)
(* The scheduler implements the stack of activations.                      *)
(***************************************************************************)
FrameSet == [ctx : Contexts, proc : Processes]

FramesShape ==
    /\ Frames \in Seq(FrameSet)
    /\ Len(Frames) = Len(chain) + 1
    /\ \A i \in 1..(Len(chain) + 1) :
          Frames[i] = [ctx |-> IF i = 1 THEN Main ELSE chain[i - 1],
                       proc |-> ProcOf(i - 1)]

(* The activation of the i-th context of the chain (0 is the thread).      *)
LEMMA FramesAre == SwitchTypes => FramesShape
<1> SUFFICES ASSUME SwitchTypes PROVE FramesShape
  OBVIOUS
<1>n. PICK n \in Nat : n = Len(chain)
  BY DEF SwitchTypes
<1> DEFINE F == [i \in 1..(n + 1) |-> [ctx |-> IF i = 1 THEN Main ELSE chain[i - 1],
                                       proc |-> ProcOf(i - 1)]]
<1>1. ASSUME NEW i \in 1..(n + 1)
      PROVE  [ctx |-> IF i = 1 THEN Main ELSE chain[i - 1],
              proc |-> ProcOf(i - 1)] \in FrameSet
  <2>1. (IF i = 1 THEN Main ELSE chain[i - 1]) \in Contexts
    BY <1>n DEF SwitchTypes, Contexts
  <2>2. ProcOf(i - 1) \in Processes
    <3>1. CASE i - 1 = n
      BY <3>1, <1>n DEF SwitchTypes, ProcOf
    <3>2. CASE i \in 1..n
      <4>1. chain[(i - 1) + 1] \in Fibers
        BY <3>2, <1>n DEF SwitchTypes
      <4> QED
        BY <4>1, <3>2, <1>n DEF SwitchTypes, ProcOf
    <3> QED
      BY <3>1, <3>2, <1>n
  <2> QED
    BY <2>1, <2>2 DEF FrameSet
<1>2. F = Frames
  BY <1>n DEF Frames
<1>3. F \in [1..(n + 1) -> FrameSet]
  BY <1>1
<1>4. \A i \in 1..(n + 1) : F[i] = [ctx |-> IF i = 1 THEN Main ELSE chain[i - 1],
                                    proc |-> ProcOf(i - 1)]
  OBVIOUS
<1> HIDE DEF F
<1>5. n + 1 \in Nat /\ DOMAIN F = 1..(n + 1)
  BY <1>3
<1>6. F \in Seq(FrameSet) /\ Len(F) = n + 1
  BY <1>3, <1>5
<1> QED
  BY <1>n, <1>2, <1>4, <1>6 DEF FramesShape

(* The same of the next state.                                             *)
LEMMA FramesAreNext == SwitchTypes' => FramesShape'
BY FramesAre, PTL

absLife == [f \in Fibers |-> Life(state[f])]

(* A change of one fiber's state is a change of its abstract state. *)
LEMMA LifeChange ==
    ASSUME state \in [Fibers -> States], NEW f \in Fibers, NEW s,
           state' = [state EXCEPT ![f] = s]
    PROVE  absLife' = [absLife EXCEPT ![f] = Life(s)]
<1>1. \A g \in Fibers : Life(state'[g]) = IF g = f THEN Life(s) ELSE Life(state[g])
  <2> SUFFICES ASSUME NEW g \in Fibers
               PROVE  Life(state'[g]) = IF g = f THEN Life(s) ELSE Life(state[g])
    OBVIOUS
  <2>1. state'[g] = IF g = f THEN s ELSE state[g]
    OBVIOUS
  <2> QED
    BY <2>1
<1>2. absLife' = [g \in Fibers |-> Life(state'[g])]
  BY DEF absLife, Life
<1>3. absLife = [g \in Fibers |-> Life(state[g])]
  BY DEF absLife
<1> QED
  BY <1>1, <1>2, <1>3

(* The initial state maps to the initial state of Coroutine.               *)
LEMMA InitRefines == Init => C!Init
<1> SUFFICES ASSUME Init PROVE C!Init
  OBVIOUS
<1>1. Len(chain) = 0 /\ 0 \in Nat
  BY DEF Init
<1>2. SwitchTypes
  BY InitInv, TypesSplit DEF FiberInv
<1>3. Frames \in Seq(FrameSet) /\ Len(Frames) = 1 /\ Frames[1] = [ctx |-> Main, proc |-> Main]
  <2>1. ProcOf(0) = Main
    BY <1>1 DEF Init, ProcOf
  <2>2. FramesShape
    BY <1>2, FramesAre
  <2>3. Len(Frames) = 0 + 1 /\ Frames[1] = [ctx |-> Main, proc |-> ProcOf(1 - 1)]
        /\ Frames \in Seq(FrameSet)
    BY <1>1, <2>2 DEF FramesShape
  <2> QED
    BY <2>1, <2>3
<1>4. Frames = <<[ctx |-> Main, proc |-> Main]>>
  BY <1>3
<1>5. [f \in Fibers |-> Life(state[f])] = [f \in Fibers |-> "none"]
  BY DEF Init, Life
<1> QED
  BY <1>4, <1>5 DEF C!Init, C!Frame, C!Fibers, Fibers

(* Entering a fiber pushes its activation. *)
LEMMA EnterRefines ==
    ASSUME FiberInv, NEW f \in Fibers, ResumeSwitch(f)
    PROVE  C!Enter(f)
<1>1. SwitchTypes /\ ChainInv /\ SwitchIn(f) /\ Runnable(f)
  BY TypesSplit DEF FiberInv, ResumeSwitch
<1>2. SwitchTypes' /\ \A i \in 0..Len(chain) : ProcOf(i)' = ProcOf(i)
  <2>1. state[f] # "running"
    BY <1>1 DEF Runnable
  <2> QED
    BY <1>1, <2>1, SwitchInKeepsChain
<1>n. PICK n \in Nat : n = Len(chain)
  BY <1>1 DEF SwitchTypes
<1>3. chain' = Append(chain, f) /\ chain \in Seq(Fibers) /\ n + 1 \in Nat /\ n + 1 = Len(chain')
  BY <1>1, <1>n DEF SwitchIn, BindContext, CaptureProcess, SwapIn, SwitchTypes
<1>4. /\ Frames \in Seq(FrameSet) /\ Len(Frames) = n + 1
      /\ \A i \in 1..(n + 1) :
            Frames[i] = [ctx |-> IF i = 1 THEN Main ELSE chain[i - 1],
                         proc |-> ProcOf(i - 1)]
  BY <1>1, <1>n, FramesAre DEF FramesShape
<1>5. /\ Frames' \in Seq(FrameSet)' /\ Len(Frames') = (n + 1) + 1
      /\ \A i \in 1..((n + 1) + 1) :
            Frames'[i] = [ctx |-> IF i = 1 THEN Main ELSE chain'[i - 1],
                          proc |-> ProcOf(i - 1)']
  BY <1>2, <1>3, FramesAreNext DEF FramesShape
<1> DEFINE new == [ctx |-> f, proc |-> IF f \in ScriptFibers THEN f
                                       ELSE Frames[Len(Frames)].proc]
<1>6. Frames[Len(Frames)].proc = curProc /\ curProc \in Processes
  <2>1. Frames[n + 1].proc = ProcOf((n + 1) - 1)
    BY <1>n, <1>4
  <2>2. ProcOf(n) = curProc
    BY <1>n DEF ProcOf
  <2> QED
    BY <1>n, <1>1, <1>4, <2>1, <2>2 DEF SwitchTypes
<1>7. Frames'[n + 2] = new
  <2>1. chain'[n + 1] = f
    BY <1>3, <1>n
  <2>2. ProcOf(n + 1)' = curProc'
    BY <1>3 DEF ProcOf
  <2>3. curProc' = IF f \in ScriptFibers THEN f ELSE curProc
    BY <1>1 DEF SwitchIn, BindContext, CaptureProcess, SwapIn
  <2>4. Frames'[n + 2] = [ctx |-> chain'[n + 1], proc |-> ProcOf(n + 1)']
    <3>1. n + 2 \in 1..((n + 1) + 1) /\ (n + 2) - 1 = n + 1 /\ n + 2 # 1
      BY <1>n
    <3> QED
      BY <1>5, <3>1
  <2> QED
    BY <2>1, <2>2, <2>3, <2>4, <1>6
<1>8. ASSUME NEW i \in 1..(n + 1)
      PROVE  Frames'[i] = Frames[i]
  <2>1. i \in 1..((n + 1) + 1) /\ i - 1 \in 0..n
    BY <1>n
  <2>2. i # 1 => chain'[i - 1] = chain[i - 1]
    BY <1>3, <1>n
  <2>3. ProcOf(i - 1)' = ProcOf(i - 1)
    BY <1>2, <1>n, <2>1
  <2> QED
    BY <1>4, <1>5, <2>1, <2>2, <2>3
<1>9. Frames' = Append(Frames, new)
  <2>1. new \in FrameSet
    BY <1>6 DEF FrameSet, Contexts, Fibers, Processes
  <2>2. Frames' \in Seq(FrameSet)
    BY <1>5 DEF FrameSet, Contexts, Fibers, Processes
  <2> HIDE DEF new
  <2>3. /\ Append(Frames, new) \in Seq(FrameSet)
        /\ Len(Append(Frames, new)) = n + 2
        /\ \A i \in 1..(n + 1) : Append(Frames, new)[i] = Frames[i]
        /\ Append(Frames, new)[n + 2] = new
    BY <1>4, <2>1, AppendProperties
  <2>4. Len(Frames') = n + 2 /\ n + 2 \in Nat
    BY <1>5
  <2>5. \A i \in 1..(n + 2) : Frames'[i] = Append(Frames, new)[i]
    <3>1. \A i \in 1..(n + 2) : i \in 1..(n + 1) \/ i = n + 2
      BY <1>n
    <3> QED
      BY <3>1, <1>7, <1>8, <2>3
  <2> QED
    BY <2>2, <2>3, <2>4, <2>5, SeqEqual
<1>10. absLife[f] = "idle" /\ absLife' = [absLife EXCEPT ![f] = "active"]
  <2>1. state \in [Fibers -> States] /\ state' = [state EXCEPT ![f] = "running"]
        /\ state[f] \in {"ready", "suspended", "sleeping"}
    BY <1>1 DEF SwitchTypes, SwitchIn, BindContext, CaptureProcess, SwapIn, Runnable
  <2>2. absLife[f] = "idle"
    BY <2>1 DEF absLife, Life
  <2> QED
    BY <2>1, <2>2, LifeChange DEF Life
<1> QED
  BY <1>9, <1>10 DEF C!Enter, C!Frame, C!Current, absLife

(* Leaving a fiber takes its activation off and uncovers the one below.    *)
LEMMA LeaveRefines ==
    ASSUME FiberInv, chain # <<>>,
           NEW s \in {"suspended", "sleeping", "finished", "destroyed"}, LeaveAs(s)
    PROVE  C!Leave(Life(s))
<1>1. SwitchTypes /\ ChainInv
  BY TypesSplit DEF FiberInv
<1>2. SwitchTypes' /\ \A i \in 0..(Len(chain) - 1) : ProcOf(i)' = ProcOf(i)
  <2>1. s \in States \ {"running"}
    BY DEF States
  <2> QED
    BY <1>1, <2>1, SwitchOutKeepsChain
<1>n. PICK n \in Nat : n = Len(chain)
  BY <1>1 DEF SwitchTypes
<1>3. /\ n >= 1 /\ Top = chain[n] /\ chain[n] \in Fibers
      /\ chain' = SubSeq(chain, 1, n - 1)
      /\ state' = [state EXCEPT ![Top] = s]
  BY <1>1, <1>n, SwitchOutTarget DEF ChainInv
<1>4. /\ n - 1 \in Nat /\ Len(chain') = n - 1
      /\ \A i \in 1..(n - 1) : chain'[i] = chain[i]
  BY <1>1, <1>n, <1>3 DEF SwitchTypes
<1>5. /\ Frames \in Seq(FrameSet) /\ Len(Frames) = n + 1
      /\ \A i \in 1..(n + 1) :
            Frames[i] = [ctx |-> IF i = 1 THEN Main ELSE chain[i - 1],
                         proc |-> ProcOf(i - 1)]
  BY <1>1, <1>n, FramesAre DEF FramesShape
<1>6. /\ Frames' \in Seq(FrameSet) /\ Len(Frames') = n
      /\ \A i \in 1..n :
            Frames'[i] = [ctx |-> IF i = 1 THEN Main ELSE chain'[i - 1],
                          proc |-> ProcOf(i - 1)']
  <2>1. (n - 1) + 1 = n
    BY <1>n
  <2>2. FramesShape'
    BY <1>2, FramesAreNext
  <2> QED
    BY <2>1, <2>2, <1>4 DEF FramesShape, FrameSet, Contexts, Fibers, Processes
<1>7. ASSUME NEW i \in 1..n
      PROVE  Frames'[i] = Frames[i]
  <2>1. i \in 1..(n + 1) /\ i - 1 \in 0..(n - 1) /\ (i # 1 => i - 1 \in 1..(n - 1))
    BY <1>n
  <2>2. i # 1 => chain'[i - 1] = chain[i - 1]
    BY <2>1, <1>4
  <2>3. ProcOf(i - 1)' = ProcOf(i - 1)
    BY <1>2, <1>n, <2>1
  <2> QED
    BY <1>5, <1>6, <2>1, <2>2, <2>3
<1>8. Frames' = SubSeq(Frames, 1, Len(Frames) - 1)
  <2>1. Len(Frames) - 1 = n
    BY <1>5, <1>n
  <2>2. /\ SubSeq(Frames, 1, n) \in Seq(FrameSet)
        /\ Len(SubSeq(Frames, 1, n)) = n
        /\ \A i \in 1..n : SubSeq(Frames, 1, n)[i] = Frames[i]
    <3>1. n + 1 \in Nat /\ 1..n \subseteq 1..(n + 1) /\ \A i \in 1..n : Frames[i] \in FrameSet
      <4>1. 1..n \subseteq 1..(n + 1)
        BY <1>n
      <4> QED
        BY <4>1, <1>n, <1>5, ElementOfSeq
    <3> QED
      BY <3>1, <1>n, <1>3, <1>5
  <2>3. /\ Len(Frames') = Len(SubSeq(Frames, 1, n))
        /\ \A i \in 1..Len(Frames') : Frames'[i] = SubSeq(Frames, 1, n)[i]
    BY <2>2, <1>6, <1>7
  <2>4. Frames' = SubSeq(Frames, 1, n)
    BY <2>2, <2>3, <1>6, SeqEqual
  <2> QED
    BY <2>1, <2>4
<1>9. Frames[Len(Frames)].ctx = Top
  <2>1. n + 1 \in 1..(n + 1) /\ n + 1 # 1 /\ (n + 1) - 1 = n
    BY <1>n, <1>3
  <2>2. Frames[n + 1] = [ctx |-> chain[n], proc |-> ProcOf(n)]
    BY <1>5, <2>1
  <2> QED
    BY <2>2, <1>3, <1>5
<1>10. absLife' = [absLife EXCEPT ![Top] = Life(s)]
  BY <1>1, <1>3, LifeChange DEF SwitchTypes
<1> QED
  BY <1>3, <1>5, <1>8, <1>9, <1>10 DEF C!Leave, C!Current, absLife

(* Every other step changes neither activations nor, except for creation   *)
(* and destruction, what a fiber is in the abstract.                       *)
LEMMA FramesStay ==
    ASSUME UNCHANGED chainVars
    PROVE  Frames' = Frames
BY DEF chainVars, Frames, ProcOf

(* Every step maps to a step of Coroutine or to a stutter.                 *)
LEMMA NextRefines ==
    ASSUME FiberInv, [Next]_vars
    PROVE  [C!Next]_(C!vars)
<1>1. state \in [Fibers -> States] /\ C!Fibers = Fibers
  BY DEF FiberInv, TypeOK, C!Fibers, Fibers
<1>2. ASSUME NEW s \in {"suspended", "sleeping", "finished"}, NEW result, chain # <<>>,
             SwitchOut(s, result)
      PROVE  C!Next
  <2>1. LeaveAs(EndState(s)) /\ EndState(s) \in {"suspended", "sleeping", "finished", "destroyed"}
    BY <1>2, SwitchOutLeaves DEF EndState
  <2>2. C!Leave(Life(EndState(s)))
    BY <1>2, <2>1, LeaveRefines
  <2>3. Life(EndState(s)) \in {"idle", "done", "gone"}
    BY <2>1 DEF Life
  <2> QED
    BY <2>2, <2>3 DEF C!Next
<1>3. ASSUME UNCHANGED <<chainVars, state>>
      PROVE  UNCHANGED C!vars
  BY <1>3, FramesStay DEF C!vars
<1>4. ASSUME NEW f \in Fibers, Create(f)
      PROVE  C!Next
  <2>1. Frames' = Frames
    BY <1>4, FramesStay DEF Create, chainVars
  <2>2. state[f] = "unborn" /\ state' = [state EXCEPT ![f] = "ready"]
    BY <1>4 DEF Create
  <2>3. absLife' = [absLife EXCEPT ![f] = "idle"] /\ absLife[f] = "none"
    BY <1>1, <2>2, LifeChange DEF Life, absLife
  <2> QED
    BY <1>1, <2>1, <2>3 DEF C!Next, C!Create, absLife
<1>5. ASSUME NEW f \in Fibers, Drop(f), f \notin OnChain
      PROVE  C!Next
  <2>1. Frames' = Frames
    BY <1>5, FramesStay DEF Drop, chainVars
  <2>2. state[f] \notin {"unborn", "destroyed", "running"}
        /\ state' = [state EXCEPT ![f] = "destroyed"]
    BY <1>5 DEF Drop, Kept, FiberInv, ChainInv, RunningIsOnChain, WaitInv, HandlesAlive
  <2>3. state[f] \in {"ready", "suspended", "sleeping", "finished"}
    BY <1>1, <2>2 DEF States
  <2>4. absLife' = [absLife EXCEPT ![f] = "gone"]
    BY <1>1, <2>2, LifeChange DEF Life
  <2>5. absLife[f] \in {"idle", "done"}
    BY <2>3 DEF Life, absLife
  <2> QED
    BY <1>1, <2>1, <2>4, <2>5 DEF C!Next, C!Destroy, absLife
<1>6. ASSUME NEW f \in Fibers, Resume(f)
      PROVE  [C!Next]_(C!vars)
  <2>1. CASE ResumeSwitch(f)
    BY <1>1, <2>1, EnterRefines DEF C!Next
  <2>2. CASE ResumeBackoffFiber(f)
    BY <2>2, <1>2 DEF ResumeBackoffFiber, SleepCurrent
  <2>3. CASE ResumeRejected(f) \/ ResumeEarlyReturn(f) \/ ResumeBackoffThread(f)
    BY <2>3, <1>3 DEF ResumeRejected, ResumeEarlyReturn, ResumeBackoffThread, chainVars
  <2> QED
    BY <1>6, <2>1, <2>2, <2>3 DEF Resume
<1>7. CASE Yield \/ (\E ms \in SleepMs : SleepFor(ms)) \/ \E threw \in BOOLEAN : Finish(threw)
  BY <1>7, <1>2 DEF Yield, SleepFor, SleepCurrent, Finish
<1>8. CASE BackoffDone \/ YieldOutside \/ Tick \/ GetCurrent \/ UNCHANGED vars
  BY <1>8, <1>3 DEF BackoffDone, YieldOutside, Tick, GetCurrent, vars, chainVars
<1>9. ASSUME NEW f \in Fibers, Drop(f), f \in OnChain
      PROVE  UNCHANGED C!vars
  BY <1>9, <1>3 DEF Drop, Kept, chainVars
<1> QED
  BY <1>4, <1>5, <1>6, <1>7, <1>8, <1>9 DEF Next, Step

(***************************************************************************)
(* The scheduler, with its re-bound prev_ctx, saved resumer processes and  *)
(* swap-in and swap-out, is a stack of activations: control and the        *)
(* process it calls functions on are always those of the activation below  *)
(* the one that ended.                                                     *)
(***************************************************************************)
THEOREM ImplementsCoroutines == Spec => CoroutineSpec
<1>1. Init => C!Init
  BY InitRefines
<1>2. FiberInv /\ [Next]_vars => [C!Next]_(C!vars)
  BY NextRefines
<1> QED
  BY <1>1, <1>2, FiberInvariant, PTL DEF Spec, CoroutineSpec, C!Spec
=============================================================================
