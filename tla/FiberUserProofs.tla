-------------------------- MODULE FiberUserProofs ---------------------------
(***************************************************************************)
(* Machine-checked proofs about what uses fibers.  Futures: for any        *)
(* fibers, futures, durations and schedule parameters, driving fibers out  *)
(* of wait, wait_for and get keeps the invariants of the scheduler, and a  *)
(* future says of its task only what the task did.  Scope guards: for any  *)
(* fibers and depth of nesting, a function returns through the slot it     *)
(* pushed, as long as fibers keep to the discipline of MaySwitch.          *)
(***************************************************************************)
EXTENDS FiberFuture, FiberScope, FiberProofs, FiniteSetTheorems

(***************************************************************************)
(* Futures.  The inductive invariant: a context inside a future call that  *)
(* has no control either waits for resume() to come back from the future's *)
(* own fiber or, off the chain, sleeps between two attempts; so whatever   *)
(* resume() throws into a call is thrown by the future's own fiber.        *)
(***************************************************************************)
CallTypes ==
    /\ fut \in [Contexts -> Calls \cup {NoCall}]
    /\ left \in [Contexts -> Nat \cup {-1}]
    /\ mException \in [Futures -> {"none", "lang_error", "task_error"}]
    /\ retVal \in [Fibers -> {"null", "value"}]
    /\ threwInto \in [Fibers -> Futures \cup {None}]

CallsInBody == \A c \in Contexts : fut[c] # NoCall => at[c] = Body

Waiting(c) ==
    IF c \in OnChain \cup {Main}
    THEN fut[c].pc = "resumed" /\ callee[c] = Target[fut[c].u]
    ELSE fut[c].pc = "loop"

SuspendedCalls == \A c \in Contexts \ {ctl} : fut[c] # NoCall => Waiting(c)

Failed(f) == state[f] = "finished" /\ retVal[f] = "null"

ErrorIsTheTargets ==
    Now # NoCall /\ Now.pc = "resumed" /\ outcome = "task_error" => Failed(Goal)

MainIsAwake ==
    \/ rem[Main] = 0
    \/ at[Main] # Body
    \/ fut[Main] # NoCall /\ fut[Main].pc = "loop"

(* Every handle made is still held, so no fiber is lost in a resume().     *)
NothingDropped ==
    /\ outcome # "undefined"
    /\ \A f \in Fibers : state[f] # "unborn" => f \in held
    /\ \A f \in Fibers : state[f] # "destroyed"

(* An exception that came out of a future's call is kept by that future,   *)
(* or is about to be.                                                      *)
Delivering(u) ==
    Now # NoCall /\ Now.pc = "resumed" /\ Now.u = u /\ outcome = "task_error"

ErrorsDelivered ==
    \A f \in Fibers : threwInto[f] # None =>
        /\ Failed(f) /\ Target[threwInto[f]] = f
        /\ mException[threwInto[f]] = "task_error" \/ Delivering(threwInto[f])

(* A call has been refused its fiber because that fiber was running.       *)
RefusedRuns ==
    Now # NoCall /\ Now.pc = "resumed" /\ outcome = "lang_error" => state[Goal] # "finished"

FutIInv ==
    /\ FiberInv /\ CallTypes /\ CallsInBody /\ SuspendedCalls
    /\ ErrorIsTheTargets /\ MainIsAwake /\ TaskErrorIsTheTasks /\ PollsWithinDeadline
    /\ NothingDropped /\ ErrorsDelivered /\ RefusedRuns
-----------------------------------------------------------------------------
(* The fields of a call.                                                   *)
LEMMA CallFields ==
    /\ \A x \in Calls : /\ x.op \in {"wait", "wait_for", "get"} /\ x.u \in Futures
                        /\ x.pc \in {"loop", "resumed"} /\ x # NoCall
                        /\ DOMAIN x = {"op", "u", "pc"}
    /\ NoCall.op = "none" /\ NoCall.pc = "none" /\ NoCall.u = None
    /\ \A op \in {"wait", "wait_for", "get"}, u \in Futures, pc \in {"loop", "resumed"} :
           /\ Call(op, u, pc) \in Calls
           /\ Call(op, u, pc).op = op /\ Call(op, u, pc).u = u /\ Call(op, u, pc).pc = pc
    /\ \A x \in Calls, pc \in {"loop", "resumed"} :
           /\ [x EXCEPT !.pc = pc] \in Calls
           /\ [x EXCEPT !.pc = pc].op = x.op /\ [x EXCEPT !.pc = pc].u = x.u
           /\ [x EXCEPT !.pc = pc].pc = pc
<1>1. ASSUME NEW x \in Calls
      PROVE  \E op \in {"wait", "wait_for", "get"}, u \in Futures, pc \in {"loop", "resumed"} :
                 x = [op |-> op, u |-> u, pc |-> pc]
  BY DEF Calls, Call
<1>2. \A op \in {"wait", "wait_for", "get"}, u \in Futures, pc \in {"loop", "resumed"} :
          [op |-> op, u |-> u, pc |-> pc] \in Calls
  BY DEF Calls, Call
<1>3. ASSUME NEW x \in Calls, NEW q \in {"loop", "resumed"}
      PROVE  /\ x.op \in {"wait", "wait_for", "get"} /\ x.u \in Futures
             /\ x.pc \in {"loop", "resumed"}
             /\ DOMAIN x = {"op", "u", "pc"}
             /\ [x EXCEPT !.pc = q] = [op |-> x.op, u |-> x.u, pc |-> q]
  BY <1>1
<1>4. NoCall.op = "none" /\ NoCall.pc = "none" /\ NoCall.u = None
  BY DEF NoCall
<1>5. ASSUME NEW x \in Calls PROVE x # NoCall
  <2>1. x.op # "none"
    BY <1>3
  <2> QED
    BY <2>1, <1>4
<1>6. ASSUME NEW op \in {"wait", "wait_for", "get"}, NEW u \in Futures,
             NEW pc \in {"loop", "resumed"}
      PROVE  /\ Call(op, u, pc) \in Calls
             /\ Call(op, u, pc).op = op /\ Call(op, u, pc).u = u /\ Call(op, u, pc).pc = pc
  BY <1>2 DEF Call
<1>7. ASSUME NEW x \in Calls, NEW pc \in {"loop", "resumed"}
      PROVE  /\ [x EXCEPT !.pc = pc] \in Calls
             /\ [x EXCEPT !.pc = pc].op = x.op /\ [x EXCEPT !.pc = pc].u = x.u
             /\ [x EXCEPT !.pc = pc].pc = pc
  <2>1. [x EXCEPT !.pc = pc] = [op |-> x.op, u |-> x.u, pc |-> pc]
    BY <1>3
  <2>2. [op |-> x.op, u |-> x.u, pc |-> pc] \in Calls
    BY <1>2, <1>3
  <2> QED
    BY <2>1, <2>2
<1> QED
  BY <1>3, <1>4, <1>5, <1>6, <1>7

(* The context in control is inside a call: what moving on in it changes.  *)
LEMMA GotoCall ==
    ASSUME CallTypes, ctl \in Contexts, Now # NoCall,
           NEW pc \in {"loop", "resumed"}, Goto(pc)
    PROVE  /\ fut' \in [Contexts -> Calls \cup {NoCall}]
           /\ Now \in Calls /\ fut'[ctl] \in Calls /\ fut'[ctl] # NoCall
           /\ fut'[ctl].op = Now.op /\ fut'[ctl].u = Now.u /\ fut'[ctl].pc = pc
           /\ \A c \in Contexts \ {ctl} : fut'[c] = fut[c]
<1>1. Now \in Calls /\ fut[ctl] = Now
  BY DEF CallTypes, Now
<1>2. fut' = [fut EXCEPT ![ctl] = [Now EXCEPT !.pc = pc]]
  BY DEF Goto, Now
<1>3. fut'[ctl] = [Now EXCEPT !.pc = pc] /\ \A c \in Contexts \ {ctl} : fut'[c] = fut[c]
  BY <1>2 DEF CallTypes
<1>4. fut' \in [Contexts -> Calls \cup {NoCall}]
  BY <1>1, <1>2, CallFields DEF CallTypes
<1> QED
  BY <1>1, <1>3, <1>4, CallFields

(* A step without a switch: the calls that wait go on waiting.             *)
LEMMA StayKeepsCalls ==
    ASSUME SuspendedCalls, UNCHANGED <<chain, ctl, callee>>,
           \A c \in Contexts \ {ctl} : fut'[c] = fut[c]
    PROVE  SuspendedCalls'
BY DEF SuspendedCalls, Waiting, OnChain

(* The fiber the context in control resumes is the one its call is about.  *)
LEMMA EnterKeepsCalls ==
    ASSUME FiberInv, SuspendedCalls, NEW f \in Fibers, state[f] # "running", SwitchIn(f),
           \A c \in Contexts \ {ctl} : fut'[c] = fut[c],
           fut'[ctl] = NoCall \/ (fut'[ctl].pc = "resumed" /\ Target[fut'[ctl].u] = f)
    PROVE  SuspendedCalls'
<1>1. /\ chain \in Seq(Fibers) /\ ctl \in Contexts /\ callee \in [Contexts -> Fibers \cup {None}]
      /\ f \notin OnChain /\ ctl \in OnChain \cup {Main}
  <2>1. TypeOK /\ RunningIsOnChain
    BY DEF FiberInv, ChainInv
  <2>2. ctl \in OnChain \cup {Main}
    BY <2>1 DEF RunningIsOnChain, TypeOK, OnChain, Top
  <2> QED
    BY <2>1, <2>2 DEF TypeOK, RunningIsOnChain
<1>2. OnChain' = OnChain \cup {f} /\ ctl' = f /\ callee' = [callee EXCEPT ![ctl] = f]
  <2>1. chain' = Append(chain, f) /\ ctl' = f /\ callee' = [callee EXCEPT ![ctl] = f]
    BY DEF SwitchIn
  <2> QED
    BY <1>1, <2>1 DEF OnChain
<1>3. ASSUME NEW c \in Contexts \ {f}, fut'[c] # NoCall PROVE Waiting(c)'
  <2>1. CASE c = ctl
    BY <1>1, <1>2, <1>3, <2>1 DEF Waiting
  <2>2. CASE c # ctl
    BY <1>1, <1>2, <1>3, <2>2 DEF SuspendedCalls, Waiting
  <2> QED
    BY <2>1, <2>2
<1> QED
  BY <1>2, <1>3 DEF SuspendedCalls

(* Control comes back, and a call that gets it was waiting for the fiber   *)
(* that leaves.                                                            *)
LEMMA LeaveKeepsCalls ==
    ASSUME FiberInv, SuspendedCalls, chain # <<>>, NEW s, LeaveAs(s),
           \A c \in Contexts \ {Top} : fut'[c] = fut[c],
           fut'[Top] = NoCall \/ fut'[Top].pc = "loop"
    PROVE  /\ SuspendedCalls'
           /\ ctl' \in Contexts \ {Top}
           /\ fut[ctl'] # NoCall => fut[ctl'].pc = "resumed" /\ Target[fut[ctl'].u] = Top
<1>0. SwitchTypes /\ ChainInv /\ RunningIsOnChain /\ chain \in Seq(Fibers)
  BY TypesSplit DEF FiberInv, ChainInv, TypeOK
<1>1. PICK n \in Nat : n = Len(chain)
  BY <1>0
<1>2. /\ n >= 1 /\ chain[n] \in Fibers /\ Top = chain[n] /\ Below(n) \in Contexts
      /\ ctl' = Below(n) /\ chain' = SubSeq(chain, 1, n - 1)
      /\ callee' = [callee EXCEPT ![Below(n)] = None]
  BY <1>0, <1>1, SwitchOutTarget DEF ChainInv
<1>3. /\ DOMAIN chain = 1 .. n /\ DOMAIN chain' = 1 .. (n - 1)
      /\ \A k \in 1 .. (n - 1) : chain'[k] = chain[k]
  BY <1>0, <1>1, <1>2
<1>4. \A k \in 1 .. (n - 1) : chain[k] # Top
  BY <1>0, <1>2, <1>3 DEF RunningIsOnChain
<1>5. OnChain' = OnChain \ {Top} /\ Top \in OnChain
  <2>1. OnChain' = {chain[i] : i \in 1 .. (n - 1)} /\ OnChain = {chain[i] : i \in 1 .. n}
    BY <1>3 DEF OnChain
  <2>2. n \in 1 .. n /\ \A i \in 1 .. n : i = n \/ i \in 1 .. (n - 1)
    BY <1>1, <1>2
  <2>3. \A i \in 1 .. (n - 1) : i \in 1 .. n
    BY <1>1
  <2> QED
    BY <1>2, <1>4, <2>1, <2>2, <2>3
<1>6. Top # Main /\ ctl = Top
  BY <1>0, <1>2, FiberAssumption DEF RunningIsOnChain
<1>7. Below(n) # Top /\ Below(n) \in OnChain \cup {Main} /\ callee[Below(n)] = Top
  <2>1. callee[Below(n)] = Top
    BY <1>0, <1>2, <1>3 DEF ChainInv, ReturnsToItsResumer
  <2>2. CASE n = 1
    BY <1>6, <2>1, <2>2 DEF Below
  <2>3. CASE n > 1
    BY <1>3, <1>4, <2>1, <2>3 DEF Below, OnChain
  <2> QED
    BY <1>2, <2>2, <2>3
<1>8. ASSUME NEW c \in Contexts \ {ctl'}, fut'[c] # NoCall PROVE Waiting(c)'
  <2>1. CASE c = Top
    BY <1>5, <1>6, <1>8, <2>1 DEF Waiting
  <2>2. CASE c # Top
    <3>1. callee'[c] = callee[c]
      BY <1>0, <1>2, <1>8 DEF SwitchTypes
    <3> QED
      BY <1>5, <1>6, <1>8, <2>2, <3>1 DEF SuspendedCalls, Waiting
  <2> QED
    BY <2>1, <2>2
<1> QED
  BY <1>2, <1>6, <1>7, <1>8 DEF SuspendedCalls, Waiting
-----------------------------------------------------------------------------
(***************************************************************************)
(* What a step does to everything but the calls that wait.                 *)
(***************************************************************************)

(* The facts about the state before a step that most steps need.           *)
LEMMA Known ==
    ASSUME FutIInv
    PROVE  /\ TypeOK /\ ctl \in Contexts /\ Main \in Contexts /\ Fibers \subseteq Contexts
           /\ Now = fut[ctl] /\ Now \in Calls \cup {NoCall}
           /\ Now # NoCall => InBody /\ Now.u \in Futures /\ Goal \in Fibers
           /\ chain = <<>> => ctl = Main
           /\ chain # <<>> => ctl = Top /\ Top \in Fibers /\ Top # Main /\ state[Top] = "running"
<1>1. TypeOK /\ ctl \in Contexts /\ Main \in Contexts /\ Fibers \subseteq Contexts
  BY DEF FutIInv, FiberInv, TypeOK, Contexts
<1>2. Now = fut[ctl] /\ Now \in Calls \cup {NoCall}
  BY <1>1 DEF Now, FutIInv, CallTypes
<1>3. Now # NoCall => InBody /\ Now.u \in Futures /\ Goal \in Fibers
  BY <1>1, <1>2, CallFields, FutureAssumption DEF FutIInv, CallsInBody, InBody, Goal
<1>4. chain = <<>> => ctl = Main
  BY DEF FutIInv, FiberInv, ChainInv, RunningIsOnChain
<1>5. chain # <<>> => ctl = Top /\ Top \in Fibers /\ Top # Main /\ state[Top] = "running"
  BY TopRuns, FiberAssumption DEF FutIInv, FiberInv
<1> QED
  BY <1>1, <1>2, <1>3, <1>4, <1>5

(* A context in control that is outside any call is awake.                 *)
LEMMA InControlIsAwake ==
    ASSUME FutIInv, InBody, Now = NoCall
    PROVE  rem[ctl] = 0
<1>1. rem[ctl] \in Nat
  BY Known DEF TypeOK
<1>2. CASE chain = <<>>
  BY <1>2, Known DEF FutIInv, MainIsAwake, InBody
<1>3. CASE chain # <<>>
  BY <1>1, <1>3, Known DEF FutIInv, FiberInv, WaitInv, AwakeOnlyWhenDue
<1> QED
  BY <1>2, <1>3

(* Whoever leaves the chain is held, so it leaves as it meant to.          *)
LEMMA LeavesHeld ==
    ASSUME FutIInv, chain # <<>>, NEW s \in {"suspended", "sleeping", "finished"},
           NEW result \in {"ok", "task_error"}, SwitchOut(s, result)
    PROVE  LeaveAs(s) /\ outcome' = result /\ NothingDropped'
<1>1. Top \in Fibers /\ state[Top] = "running" /\ Top \in held
  BY Known DEF FutIInv, NothingDropped
<1>2. state' = [state EXCEPT ![Top] = s] /\ outcome' = result /\ held' = held
  BY <1>1 DEF SwitchOut
<1>3. s # "destroyed" /\ s # "unborn" /\ result # "undefined"
  OBVIOUS
<1>4. LeaveAs(s)
  BY <1>1, <1>3, SwitchOutLeaves DEF EndState
<1>5. NothingDropped'
  BY <1>1, <1>2, <1>3, Known DEF NothingDropped, FutIInv, TypeOK
<1> QED
  BY <1>2, <1>4, <1>5

(* A step that drops no handle and loses no fiber.                         *)
LEMMA HeldStay ==
    ASSUME FutIInv, held' = held, outcome' # "undefined",
           \A g \in Fibers : \/ state'[g] = state[g]
                             \/ state[g] # "unborn" /\ state'[g] # "destroyed"
    PROVE  NothingDropped'
BY DEF FutIInv, NothingDropped

(* Whoever is resumed is held before and after.                            *)
LEMMA EntersHeld ==
    ASSUME FutIInv, NEW f \in Fibers, ResumeSwitch(f)
    PROVE  NothingDropped'
<1>1. /\ state[f] # "unborn" /\ held' = held /\ outcome' = "ok"
      /\ state' = [state EXCEPT ![f] = "running"]
  BY DEF ResumeSwitch, Runnable, SwitchIn
<1>2. \A g \in Fibers : \/ state'[g] = state[g]
                        \/ state[g] # "unborn" /\ state'[g] # "destroyed"
  BY <1>1, Known DEF TypeOK
<1> QED
  BY <1>1, <1>2, HeldStay

(* What a future has been thrown it keeps, but for the call it is in.      *)
LEMMA Delivered ==
    ASSUME FutIInv, Now = NoCall \/ Now.pc = "loop", NEW f \in Fibers, threwInto[f] # None
    PROVE  mException[threwInto[f]] = "task_error"
BY DEF FutIInv, ErrorsDelivered, Delivering

(* It goes on keeping it.                                                  *)
LEMMA DeliveredStay ==
    ASSUME FutIInv, UNCHANGED <<retVal, threwInto>>,
           \A f \in Fibers : state[f] = "finished" => state'[f] = "finished",
           \A f \in Fibers : threwInto[f] # None => mException'[threwInto[f]] = "task_error"
    PROVE  ErrorsDelivered'
BY DEF FutIInv, ErrorsDelivered, Failed

(* A step of the code outside calls.                                       *)
LEMMA BodyKeeps ==
    ASSUME FutIInv, Now = NoCall, FiberInv', SuspendedCalls', UNCHANGED futVars,
           \A c \in Contexts \ {ctl} : at'[c] = at[c] /\ rem'[c] = rem[c],
           \A f \in Fibers : state[f] = "finished" => state'[f] = "finished",
           outcome' = "ok" \/ ctl' = ctl,
           ctl = Main => rem'[Main] = 0 \/ at'[Main] # Body,
           NothingDropped'
    PROVE  FutIInv'
<1>1. CallTypes'
  BY DEF FutIInv, CallTypes, futVars
<1>2. CallsInBody'
  BY Known DEF FutIInv, CallsInBody, futVars
<1>3. ErrorIsTheTargets' /\ RefusedRuns'
  <2>1. CASE outcome' = "ok"
    BY <2>1 DEF ErrorIsTheTargets, RefusedRuns
  <2>2. CASE ctl' = ctl
    BY <2>2 DEF ErrorIsTheTargets, RefusedRuns, Now, futVars
  <2> QED
    BY <2>1, <2>2
<1>4. MainIsAwake'
  BY Known DEF FutIInv, MainIsAwake, futVars
<1>5. TaskErrorIsTheTasks'
  BY FutureAssumption DEF FutIInv, TaskErrorIsTheTasks, futVars
<1>6. PollsWithinDeadline'
  BY Known, CallFields DEF FutIInv, PollsWithinDeadline, futVars
<1>7. ErrorsDelivered'
  <2>1. UNCHANGED <<retVal, threwInto, mException>>
    BY DEF futVars
  <2>2. \A f \in Fibers : threwInto[f] # None => mException'[threwInto[f]] = "task_error"
    BY <2>1, Delivered
  <2> QED
    BY <2>1, <2>2, DeliveredStay
<1> QED
  BY <1>1, <1>2, <1>3, <1>4, <1>5, <1>6, <1>7 DEF FutIInv

(* A step of a future call: it begins, moves on, or ends.                  *)
LEMMA CallKeeps ==
    ASSUME FutIInv, FiberInv', SuspendedCalls', InBody, NothingDropped', RefusedRuns', UNCHANGED <<at, retVal, threwInto>>,
           fut' \in [Contexts -> Calls \cup {NoCall}],
           left' \in [Contexts -> Nat \cup {-1}],
           mException' \in [Futures -> {"none", "lang_error", "task_error"}],
           \A c \in Contexts \ {ctl} : fut'[c] = fut[c] /\ left'[c] = left[c] /\ rem'[c] = rem[c],
           \A f \in Fibers : state[f] = "finished" => state'[f] = "finished",
           \A u \in Futures : mException'[u] = "task_error"
                                  => mException[u] = "task_error" \/ Failed(Target[u]),
           \A f \in Fibers : threwInto[f] # None => mException'[threwInto[f]] = "task_error",
           outcome' # "task_error" \/ (ctl' = ctl /\ (fut'[ctl] = NoCall \/ fut'[ctl].pc = "loop")),
           \/ rem'[ctl] = 0
           \/ /\ fut'[ctl] # NoCall /\ fut'[ctl].pc = "loop"
              /\ fut'[ctl].op = "wait_for" /\ left'[ctl] > 0 => rem'[ctl] <= left'[ctl]
    PROVE  FutIInv'
<1>1. CallTypes'
  BY DEF FutIInv, CallTypes
<1>2. CallsInBody'
  BY Known DEF FutIInv, CallsInBody, InBody
<1>3. ErrorIsTheTargets'
  <2>1. CASE outcome' # "task_error"
    BY <2>1 DEF ErrorIsTheTargets
  <2>2. CASE ctl' = ctl /\ (fut'[ctl] = NoCall \/ fut'[ctl].pc = "loop")
    BY <2>2 DEF ErrorIsTheTargets, Now
  <2> QED
    BY <2>1, <2>2
<1>4. MainIsAwake'
  BY Known DEF FutIInv, MainIsAwake
<1>5. TaskErrorIsTheTasks'
  BY FutureAssumption DEF FutIInv, TaskErrorIsTheTasks, Failed
<1>6. PollsWithinDeadline'
  <2> SUFFICES ASSUME NEW c \in Contexts, fut'[c].op = "wait_for", fut'[c].pc = "loop", left'[c] > 0
               PROVE  rem'[c] <= left'[c]
    BY DEF PollsWithinDeadline
  <2>1. CASE c # ctl
    BY <2>1 DEF FutIInv, PollsWithinDeadline
  <2>2. CASE c = ctl
    <3>1. rem'[c] = 0 => rem'[c] <= left'[c]
      OBVIOUS
    <3> QED
      BY <2>2, <3>1
  <2> QED
    BY <2>1, <2>2
<1>7. ErrorsDelivered'
  BY DeliveredStay
<1> QED
  BY <1>1, <1>2, <1>3, <1>4, <1>5, <1>6, <1>7 DEF FutIInv
-----------------------------------------------------------------------------
(***************************************************************************)
(* The code outside calls.                                                 *)
(***************************************************************************)

(* The steps of the scheduler that switch to nobody.                       *)
LEMMA StayInBody ==
    ASSUME FutIInv, Now = NoCall, UNCHANGED futVars,
           \/ \E f \in Fibers : \/ Create(f) \/ ResumeRejected(f) \/ ResumeEarlyReturn(f)
                               \/ ResumeBackoffThread(f)
           \/ BackoffDone \/ YieldOutside
    PROVE  FutIInv'
<1>1. FiberInv'
  BY CreateInv, RefusedInv, EarlyReturnInv, BackoffThreadInv, BackoffDoneInv DEF FutIInv
<1>2. UNCHANGED <<chain, ctl, callee>>
  BY DEF Create, ResumeRejected, ResumeEarlyReturn, ResumeBackoffThread, BackoffDone, YieldOutside
<1>3. SuspendedCalls'
  BY <1>2, StayKeepsCalls DEF FutIInv, futVars
<1>4. \A c \in Contexts \ {ctl} : at'[c] = at[c] /\ rem'[c] = rem[c]
  BY Known DEF TypeOK, Create, ResumeRejected, ResumeEarlyReturn, ResumeBackoffThread,
               BackoffDone, YieldOutside
<1>5. \A g \in Fibers : state[g] = "finished" => state'[g] = "finished"
  BY Known DEF TypeOK, Create, ResumeRejected, ResumeEarlyReturn, ResumeBackoffThread,
               BackoffDone, YieldOutside
<1>6. ctl = Main => rem'[Main] = 0 \/ at'[Main] # Body
  <2> SUFFICES ASSUME ctl = Main PROVE rem'[Main] = 0 \/ at'[Main] # Body
    OBVIOUS
  <2>1. CASE BackoffDone
    BY <2>1 DEF BackoffDone
  <2>2. ASSUME NEW f \in Fibers, ResumeBackoffThread(f) PROVE at'[Main] # Body
    BY <2>2, Known, PositionsDiffer DEF ResumeBackoffThread, TypeOK
  <2>3. CASE \/ \E f \in Fibers : Create(f) \/ ResumeRejected(f) \/ ResumeEarlyReturn(f)
             \/ YieldOutside
    <3>1. InBody /\ rem' = rem
      BY <2>3 DEF Create, ResumeRejected, ResumeEarlyReturn, YieldOutside
    <3> QED
      BY <3>1, InControlIsAwake
  <2> QED
    BY <2>1, <2>2, <2>3
<1>7. NothingDropped'
  <2>1. ASSUME NEW f \in Fibers, Create(f) PROVE NothingDropped'
    <3>1. state' = [state EXCEPT ![f] = "ready"] /\ held' = held \cup {f} /\ outcome' = "ok"
      BY <2>1 DEF Create
    <3> QED
      BY <3>1, Known DEF FutIInv, NothingDropped, TypeOK
  <2>2. CASE BackoffDone
    <3>1. at[ctl].fi \in Fibers
      BY <2>2, Known DEF TypeOK, Positions, BackoffDone, Body, Backoff
    <3>2. outcome' = "ok" /\ UNCHANGED <<state, held>>
      BY <2>2, <3>1 DEF BackoffDone, FutIInv, NothingDropped
    <3> QED
      BY <3>2, HeldStay
  <2>3. ASSUME \/ \E f \in Fibers : \/ ResumeRejected(f) \/ ResumeEarlyReturn(f)
                                     \/ ResumeBackoffThread(f)
               \/ YieldOutside
        PROVE  NothingDropped'
    <3>1. UNCHANGED <<state, held>> /\ outcome' \in {"ok", "lang_error", outcome}
      BY <2>3 DEF ResumeRejected, ResumeEarlyReturn, ResumeBackoffThread, YieldOutside
    <3>2. outcome' # "undefined"
      BY <3>1 DEF FutIInv, NothingDropped
    <3> QED
      BY <3>1, <3>2, HeldStay
  <2> QED
    BY <2>1, <2>2, <2>3
<1> QED
  BY <1>1, <1>2, <1>3, <1>4, <1>5, <1>6, <1>7, BodyKeeps

(* resume() that enters a fiber.                                           *)
LEMMA EnterInBody ==
    ASSUME FutIInv, Now = NoCall, UNCHANGED futVars, NEW f \in Fibers, ResumeSwitch(f)
    PROVE  FutIInv'
<1>1. FiberInv'
  BY ResumeSwitchInv DEF FutIInv
<1>2. state[f] # "running" /\ state[f] # "finished" /\ SwitchIn(f) /\ InBody
      /\ outcome' = "ok" /\ UNCHANGED <<rem, at>>
  BY DEF ResumeSwitch, Runnable
<1>3. SuspendedCalls'
  <2>1. fut' = fut /\ fut'[ctl] = NoCall
    BY Known DEF futVars
  <2> QED
    BY <1>2, <2>1, EnterKeepsCalls DEF FutIInv
<1>4. \A g \in Fibers : state[g] = "finished" => state'[g] = "finished"
  BY <1>2, Known DEF SwitchIn, TypeOK
<1>5. ctl = Main => rem'[Main] = 0 \/ at'[Main] # Body
  BY <1>2, InControlIsAwake
<1>6. NothingDropped'
  BY EntersHeld DEF ResumeSwitch
<1> QED
  BY <1>1, <1>2, <1>3, <1>4, <1>5, <1>6, BodyKeeps

(* yield, sleep_for and a back-off inside a fiber.                         *)
LEMMA LeaveInBody ==
    ASSUME FutIInv, Now = NoCall, UNCHANGED futVars,
           NEW f \in Fibers, NEW ms \in Nat, Yield \/ SleepFor(ms) \/ ResumeBackoffFiber(f)
    PROVE  FutIInv'
<1>1. FiberInv'
  BY YieldInv, SleepForInv, ResumeBackoffFiberInv DEF FutIInv
<1>0. chain # <<>> /\ InBody
      /\ (SwitchOut("suspended", "ok") \/ SwitchOut("sleeping", "ok"))
  BY DEF Yield, SleepFor, ResumeBackoffFiber, SleepCurrent
<1>2. /\ chain # <<>> /\ InBody /\ outcome' = "ok" /\ NothingDropped'
      /\ (LeaveAs("suspended") \/ LeaveAs("sleeping"))
  BY <1>0, LeavesHeld
<1>3. ctl = Top /\ Top \in Fibers /\ Top # Main /\ state[Top] = "running"
  BY <1>2, Known
<1>4. \A c \in Contexts \ {ctl} : at'[c] = at[c] /\ rem'[c] = rem[c]
  BY <1>3, Known DEF TypeOK, Yield, SleepFor, ResumeBackoffFiber, SleepCurrent
<1>5. SuspendedCalls'
  <2>1. fut' = fut /\ fut'[Top] = NoCall
    BY <1>3, Known DEF futVars
  <2> QED
    BY <1>2, <2>1, LeaveKeepsCalls DEF FutIInv
<1>6. \A g \in Fibers : state[g] = "finished" => state'[g] = "finished"
  BY <1>2, <1>3, LeaveState, Known DEF TypeOK
<1> QED
  BY <1>1, <1>2, <1>3, <1>4, <1>5, <1>6, BodyKeeps

(* The end of a task: whoever drove it through a future gets its exception. *)
LEMMA FinishKeeps ==
    ASSUME FutIInv, NEW f \in Fibers, NEW threw \in BOOLEAN, FinishBody(f, threw)
    PROVE  FutIInv'
<1>1. /\ Now = NoCall /\ chain # <<>> /\ Top = f /\ Finish(threw)
      /\ retVal' = [retVal EXCEPT ![f] = IF threw THEN "null" ELSE "value"]
      /\ threwInto' = [threwInto EXCEPT ![f] = IF threw THEN fut[prevCtx[f]].u ELSE None]
      /\ UNCHANGED <<fut, left, mException>>
  BY DEF FinishBody
<1> DEFINE result == IF threw THEN "task_error" ELSE "ok"
<1>10. SwitchOut("finished", result) /\ UNCHANGED <<rem, at>>
  BY <1>1 DEF Finish
<1>11. result \in {"ok", "task_error"}
  OBVIOUS
<1>12. LeaveAs("finished") /\ outcome' = result /\ NothingDropped'
  <2> HIDE DEF result
  <2> QED
    BY <1>1, <1>10, <1>11, LeavesHeld
<1>2. LeaveAs("finished") /\ UNCHANGED <<rem, at>> /\ NothingDropped'
      /\ outcome' = IF threw THEN "task_error" ELSE "ok"
  BY <1>10, <1>12
<1> HIDE DEF result
<1>3. ctl = f /\ state[f] = "running" /\ state' = [state EXCEPT ![f] = "finished"]
  BY <1>1, <1>2, Known, LeaveState
<1>4. FiberInv'
  BY <1>1, FinishInv DEF FutIInv
<1>5. /\ SuspendedCalls' /\ ctl' \in Contexts \ {f}
      /\ fut[ctl'] # NoCall => fut[ctl'].pc = "resumed" /\ Target[fut[ctl'].u] = f
  <2>1. fut' = fut /\ fut'[Top] = NoCall
    BY <1>1, <1>3, Known
  <2> QED
    BY <1>1, <1>2, <2>1, LeaveKeepsCalls DEF FutIInv
<1>13. prevCtx[f] = ctl' /\ fut[ctl'].u \in Futures \cup {None}
  <2>1. prevCtx[f] = ctl'
    BY <1>1, <1>2 DEF LeaveAs
  <2>2. fut[ctl'] \in Calls \cup {NoCall}
    BY <1>5 DEF FutIInv, CallTypes
  <2> QED
    BY <2>1, <2>2, CallFields
<1>6. CallTypes' /\ CallsInBody' /\ MainIsAwake' /\ PollsWithinDeadline'
  <2>1. threwInto' \in [Fibers -> Futures \cup {None}]
    BY <1>1, <1>13 DEF FutIInv, CallTypes
  <2> QED
    BY <1>1, <1>2, <2>1 DEF FutIInv, CallTypes, CallsInBody, MainIsAwake, PollsWithinDeadline
<1>7. \A g \in Fibers : Failed(g) => Failed(g)'
  BY <1>1, <1>3, Known DEF Failed, TypeOK, FutIInv, CallTypes
<1>8. TaskErrorIsTheTasks'
  BY <1>1, <1>7, FutureAssumption DEF FutIInv, TaskErrorIsTheTasks, Failed
<1>9. ErrorIsTheTargets'
  <2> SUFFICES ASSUME Now' # NoCall, outcome' = "task_error" PROVE Failed(Goal)'
    BY DEF ErrorIsTheTargets
  <2>1. Goal' = f
    BY <1>1, <1>5 DEF Goal, Now
  <2>2. threw
    BY <1>2
  <2> QED
    BY <1>1, <1>3, <2>1, <2>2, Known DEF Failed, TypeOK, FutIInv, CallTypes
<1>14. RefusedRuns'
  BY <1>2 DEF RefusedRuns
<1>15. ErrorsDelivered'
  <2> SUFFICES ASSUME NEW g \in Fibers, threwInto'[g] # None
               PROVE  /\ Failed(g)' /\ Target[threwInto'[g]] = g
                      /\ mException'[threwInto'[g]] = "task_error" \/ Delivering(threwInto[g])'
    BY DEF ErrorsDelivered
  <2>1. CASE g # f
    <3>1. threwInto'[g] = threwInto[g]
      BY <1>1, <2>1 DEF FutIInv, CallTypes
    <3>2. Failed(g) /\ Target[threwInto[g]] = g /\ mException[threwInto[g]] = "task_error"
      BY <1>1, <3>1, Delivered DEF FutIInv, ErrorsDelivered
    <3> QED
      BY <1>1, <1>7, <3>1, <3>2
  <2>2. CASE g = f
    <3>1. threw /\ threwInto'[f] = fut[ctl'].u
      BY <1>1, <1>13, <2>2 DEF FutIInv, CallTypes
    <3>2. fut[ctl'] # NoCall
      BY <2>2, <3>1, CallFields
    <3>3. Now' = fut[ctl']
      BY <1>1 DEF Now
    <3>4. Delivering(threwInto[g])' /\ Target[threwInto'[g]] = g
      BY <1>2, <1>5, <2>2, <3>1, <3>2, <3>3 DEF Delivering
    <3>5. Failed(g)'
      BY <1>1, <1>3, <2>2, <3>1, Known DEF Failed, TypeOK, FutIInv, CallTypes
    <3> QED
      BY <3>4, <3>5
  <2> QED
    BY <2>1, <2>2
<1> QED
  BY <1>2, <1>4, <1>5, <1>6, <1>8, <1>9, <1>14, <1>15 DEF FutIInv
-----------------------------------------------------------------------------
(***************************************************************************)
(* The code of a call.                                                     *)
(***************************************************************************)

(* wait, wait_for and get begin in a context that is awake.                *)
LEMMA BeginKeeps ==
    ASSUME FutIInv, NEW op \in {"wait", "wait_for", "get"}, NEW u \in Futures,
           NEW ms \in Nat, Begin(op, u, ms)
    PROVE  FutIInv'
<1>1. /\ Now = NoCall /\ InBody
      /\ fut' = [fut EXCEPT ![ctl] = Call(op, u, "loop")]
      /\ left' = [left EXCEPT ![ctl] = IF op = "wait_for" THEN ms * TicksPerMs ELSE 0]
      /\ UNCHANGED <<vars, mException, retVal, threwInto>>
  BY DEF Begin
<1>2. rem[ctl] = 0
  BY <1>1, InControlIsAwake
<1>3. FiberInv'
  BY <1>1, NextInv DEF FutIInv
<1>4. ms * TicksPerMs \in Nat
  BY TimeAssumption, ProductNat
<1>5. /\ fut' \in [Contexts -> Calls \cup {NoCall}] /\ left' \in [Contexts -> Nat \cup {-1}]
      /\ fut'[ctl].pc = "loop"
      /\ \A c \in Contexts \ {ctl} : fut'[c] = fut[c] /\ left'[c] = left[c]
  BY <1>1, <1>4, Known, CallFields DEF FutIInv, CallTypes
<1>6. UNCHANGED <<chain, ctl, callee, rem, at, state, held, outcome>>
  BY <1>1 DEF vars
<1>9. NothingDropped' /\ RefusedRuns'
      /\ \A f \in Fibers : threwInto[f] # None => mException'[threwInto[f]] = "task_error"
  <2>1. NothingDropped'
    BY <1>6, HeldStay DEF FutIInv, NothingDropped
  <2>2. RefusedRuns'
    BY <1>5, <1>6 DEF RefusedRuns, Now
  <2> QED
    BY <1>1, <2>1, <2>2, Delivered
<1>7. SuspendedCalls'
  BY <1>5, <1>6, StayKeepsCalls DEF FutIInv
<1>8. mException' \in [Futures -> {"none", "lang_error", "task_error"}]
  BY <1>1 DEF FutIInv, CallTypes
<1> QED
  BY <1>1, <1>2, <1>3, <1>5, <1>6, <1>7, <1>8, <1>9, CallKeeps

(* What resume() threw, kept by the future, was thrown by its own task.    *)
LEMMA KeepIsTheTasks ==
    ASSUME FutIInv, At("resumed"), Keep
    PROVE  /\ mException' \in [Futures -> {"none", "lang_error", "task_error"}]
           /\ \A u \in Futures : mException'[u] = "task_error"
                                   => mException[u] = "task_error" \/ Failed(Target[u])
           /\ \A f \in Fibers : threwInto[f] # None
                                   => mException'[threwInto[f]] = "task_error"
<1>1. Now # NoCall /\ Now.pc = "resumed" /\ Now.u \in Futures
  BY Known DEF At
<1>2. outcome \in {"ok", "lang_error", "task_error"}
  BY Known DEF TypeOK, Outcomes, FutIInv, NothingDropped
<1>3. outcome = "task_error" => Failed(Target[Now.u])
  BY <1>1 DEF FutIInv, ErrorIsTheTargets, Goal
<1>4. ASSUME NEW f \in Fibers, threwInto[f] # None
      PROVE  mException'[threwInto[f]] = "task_error"
  <2>1. /\ state[f] = "finished" /\ Target[threwInto[f]] = f /\ threwInto[f] \in Futures
        /\ mException[threwInto[f]] = "task_error"
               \/ (Now.u = threwInto[f] /\ outcome = "task_error")
    BY <1>4 DEF FutIInv, ErrorsDelivered, Delivering, Failed, CallTypes
  <2>2. outcome = "lang_error" => threwInto[f] # Now.u
    BY <1>1, <2>1 DEF FutIInv, RefusedRuns, Goal
  <2>3. mException \in [Futures -> {"none", "lang_error", "task_error"}]
    BY DEF FutIInv, CallTypes
  <2> QED
    BY <1>2, <2>1, <2>2, <2>3 DEF Keep
<1>5. /\ mException' \in [Futures -> {"none", "lang_error", "task_error"}]
      /\ \A u \in Futures : mException'[u] = "task_error"
                               => mException[u] = "task_error" \/ Failed(Target[u])
  BY <1>1, <1>2, <1>3 DEF Keep, FutIInv, CallTypes
<1> QED
  BY <1>4, <1>5

(* The end of a call, at the head of the loop or after resume().           *)
LEMMA EndKeeps ==
    ASSUME FutIInv, EndAtHead \/ EndAfterResume
    PROVE  FutIInv'
<1>1. /\ Now # NoCall /\ rem[ctl] = 0
      /\ outcome' = Result(Now.op, Now.u)
      /\ fut' = [fut EXCEPT ![ctl] = NoCall]
      /\ UNCHANGED <<state, held, chain, ctl, prevCtx, callee, resumer, curProc, fiberSp,
                     rem, skip, at, left, retVal, threwInto>>
  BY DEF EndAtHead, EndAfterResume, At, End
<1>2. /\ mException' \in [Futures -> {"none", "lang_error", "task_error"}]
      /\ \A u \in Futures : mException'[u] = "task_error"
                              => mException[u] = "task_error" \/ Failed(Target[u])
      /\ \A f \in Fibers : threwInto[f] # None => mException'[threwInto[f]] = "task_error"
  <2>1. CASE EndAtHead
    <3>1. mException' = mException /\ Now.pc = "loop"
      BY <2>1 DEF EndAtHead, At
    <3>2. \A f \in Fibers : threwInto[f] # None => mException'[threwInto[f]] = "task_error"
      BY <3>1, Delivered
    <3> QED
      BY <3>1, <3>2 DEF FutIInv, CallTypes
  <2>2. CASE EndAfterResume
    BY <2>2, KeepIsTheTasks DEF EndAfterResume
  <2> QED
    BY <2>1, <2>2
<1>3. outcome' \in Outcomes /\ outcome' # "undefined"
  BY <1>1, <1>2, Known DEF Result, Outcomes
<1>4. FiberInv'
  <2>1. skip' \in [Fibers -> 0..MaxSkip]
    BY <1>1, Known DEF TypeOK
  <2> QED
    BY <1>1, <1>3, <2>1, QuietInv DEF FutIInv, chainVars
<1>5. /\ fut' \in [Contexts -> Calls \cup {NoCall}] /\ left' \in [Contexts -> Nat \cup {-1}]
      /\ fut'[ctl] = NoCall /\ \A c \in Contexts \ {ctl} : fut'[c] = fut[c]
  BY <1>1, Known DEF FutIInv, CallTypes
<1>6. SuspendedCalls'
  BY <1>1, <1>5, StayKeepsCalls DEF FutIInv
<1>7. NothingDropped' /\ RefusedRuns'
  <2>1. NothingDropped'
    BY <1>1, <1>3, HeldStay
  <2> QED
    BY <1>1, <1>5, <2>1 DEF RefusedRuns, Now
<1> QED
  BY <1>1, <1>2, <1>4, <1>5, <1>6, <1>7, Known, CallKeeps

(* What moving on inside a call leaves alone.                              *)
LEMMA MovingOn ==
    ASSUME FutIInv, NEW pc \in {"loop", "resumed"}, NEW from, At(from), Goto(pc)
    PROVE  /\ fut' \in [Contexts -> Calls \cup {NoCall}]
           /\ Now \in Calls /\ fut'[ctl] # NoCall
           /\ fut'[ctl].op = Now.op /\ fut'[ctl].u = Now.u /\ fut'[ctl].pc = pc
           /\ \A c \in Contexts \ {ctl} : fut'[c] = fut[c]
           /\ InBody /\ rem[ctl] = 0
BY GotoCall, Known DEF At, FutIInv

(* resume_fiber() that enters the fiber.                                   *)
LEMMA DriveSwitchKeeps ==
    ASSUME FutIInv, DriveSwitch
    PROVE  FutIInv'
<1>1. /\ At("loop") /\ ResumeSwitch(Goal) /\ Goto("resumed")
      /\ UNCHANGED <<left, mException, retVal, threwInto>> /\ Goal \in Fibers
  BY Known DEF DriveSwitch, At
<1>2. FiberInv'
  BY <1>1, ResumeSwitchInv DEF FutIInv
<1>3. state[Goal] # "running" /\ state[Goal] # "finished" /\ SwitchIn(Goal)
      /\ outcome' = "ok" /\ UNCHANGED <<rem, at>>
  BY <1>1 DEF ResumeSwitch, Runnable
<1>4. SuspendedCalls'
  <2>1. Target[fut'[ctl].u] = Goal
    BY <1>1, MovingOn DEF Goal
  <2> QED
    BY <1>1, <1>3, <2>1, MovingOn, EnterKeepsCalls DEF FutIInv
<1>5. \A g \in Fibers : state[g] = "finished" => state'[g] = "finished"
  BY <1>1, <1>3, Known DEF SwitchIn, TypeOK
<1>6. left' \in [Contexts -> Nat \cup {-1}]
      /\ mException' \in [Futures -> {"none", "lang_error", "task_error"}]
  BY <1>1 DEF FutIInv, CallTypes
<1>7. NothingDropped' /\ RefusedRuns'
      /\ \A f \in Fibers : threwInto[f] # None => mException'[threwInto[f]] = "task_error"
  <2>1. NothingDropped'
    BY <1>1, EntersHeld
  <2>2. RefusedRuns'
    BY <1>3 DEF RefusedRuns
  <2> QED
    BY <1>1, <2>1, <2>2, Delivered DEF At
<1> QED
  BY <1>1, <1>2, <1>3, <1>4, <1>5, <1>6, <1>7, MovingOn, CallKeeps

(* resume_fiber() that is refused, or finds the fiber asleep.              *)
LEMMA DriveStayKeeps ==
    ASSUME FutIInv, DriveRefused \/ DriveAsleep
    PROVE  FutIInv'
<1>1. /\ At("loop") /\ Goto("resumed") /\ outcome' \in {"ok", "lang_error"}
      /\ state[Goal] # "finished"
      /\ UNCHANGED <<state, held, chain, ctl, prevCtx, callee, resumer, curProc, fiberSp,
                     rem, skip, at, left, mException, retVal, threwInto>>
  BY DEF DriveRefused, DriveAsleep, ResumeRejected, LeaveLoop
<1>2. FiberInv'
  <2>1. skip' \in [Fibers -> 0..MaxSkip] /\ outcome' \in Outcomes
    BY <1>1, Known DEF TypeOK, Outcomes
  <2> QED
    BY <1>1, <2>1, QuietInv DEF FutIInv, chainVars
<1>3. SuspendedCalls'
  BY <1>1, MovingOn, StayKeepsCalls DEF FutIInv
<1>4. left' \in [Contexts -> Nat \cup {-1}]
      /\ mException' \in [Futures -> {"none", "lang_error", "task_error"}]
  BY <1>1 DEF FutIInv, CallTypes
<1>5. NothingDropped' /\ RefusedRuns'
      /\ \A f \in Fibers : threwInto[f] # None => mException'[threwInto[f]] = "task_error"
  <2>1. NothingDropped'
    BY <1>1, HeldStay
  <2>2. fut'[ctl].u = Now.u
    BY <1>1, MovingOn
  <2>3. Goal' = Goal
    BY <1>1, <2>2 DEF Goal, Now
  <2>4. RefusedRuns'
    BY <1>1, <2>3 DEF RefusedRuns
  <2> QED
    BY <1>1, <2>1, <2>4, Delivered DEF At
<1> QED
  BY <1>1, <1>2, <1>3, <1>4, <1>5, MovingOn, CallKeeps

(* A poll asks for a time of its own, and under a deadline for no more     *)
(* than what is left.                                                      *)
LEMMA PollFits ==
    ASSUME FutIInv, At("resumed"), ~Breaks
    PROVE  /\ PollMs \in Nat /\ PollMs * TicksPerMs \in Nat
           /\ Now.op = "wait_for" => PollMs * TicksPerMs <= left[ctl]
<1>1. left[ctl] \in Nat \cup {-1} /\ TicksPerMs \in Nat \ {0} /\ BusyWaitMin \in Nat
      /\ CoefNum \in Nat /\ CoefDen \in Nat \ {0}
  BY Known, TimeAssumption DEF FutIInv, CallTypes
<1>2. CASE Now.op # "wait_for"
  <2>1. PollMs = BusyWaitMin
    BY <1>2 DEF PollMs
  <2>2. BusyWaitMin * TicksPerMs \in Nat
    BY <1>1, ProductNat
  <2> QED
    BY <1>1, <1>2, <2>1, <2>2
<1>3. CASE Now.op = "wait_for"
  <2>1. LeftMs # 0
    BY <1>3 DEF Breaks
  <2>2. left[ctl] \in Nat /\ LeftMs = left[ctl] \div TicksPerMs
    BY <1>1, <2>1 DEF LeftMs
  <2>3. LeftMs \in Nat /\ LeftMs * TicksPerMs <= left[ctl]
    BY <1>1, <2>2, RoundDown
  <2>4. LeftMs * CoefNum \in Nat
    BY <1>1, <2>3, ProductNat
  <2>5. (LeftMs * CoefNum) \div CoefDen \in Nat
    BY <1>1, <2>4, RoundDown
  <2>6. PollMs \in Nat /\ PollMs <= LeftMs
    BY <1>1, <1>3, <2>3, <2>5 DEF PollMs, MinOf, MaxOf
  <2>7. PollMs * TicksPerMs <= LeftMs * TicksPerMs
    BY <1>1, <2>3, <2>6, ProductMonotone
  <2>8. PollMs * TicksPerMs \in Nat /\ LeftMs * TicksPerMs \in Nat
    BY <1>1, <2>3, <2>6, ProductNat
  <2>9. PollMs * TicksPerMs <= left[ctl]
    BY <2>2, <2>3, <2>7, <2>8
  <2> QED
    BY <2>6, <2>8, <2>9
<1> QED
  BY <1>2, <1>3

(* The loop goes round at once.                                            *)
LEMMA GoRoundKeeps ==
    ASSUME FutIInv, GoRound
    PROVE  FutIInv'
<1>1. /\ At("resumed") /\ Keep /\ Goto("loop") /\ UNCHANGED <<vars, left, retVal, threwInto>>
  BY DEF GoRound
<1>2. FiberInv'
  BY <1>1, NextInv DEF FutIInv
<1>3. UNCHANGED <<chain, ctl, callee, rem, at, state, held, outcome>>
  BY <1>1 DEF vars
<1>4. SuspendedCalls'
  BY <1>1, <1>3, MovingOn, StayKeepsCalls DEF FutIInv
<1>5. left' \in [Contexts -> Nat \cup {-1}]
  BY <1>1 DEF FutIInv, CallTypes
<1>6. NothingDropped' /\ RefusedRuns'
  <2>1. NothingDropped'
    BY <1>1, <1>3, HeldStay DEF FutIInv, NothingDropped
  <2>2. fut'[ctl].pc = "loop"
    BY <1>1, MovingOn
  <2> QED
    BY <1>1, <1>3, <2>1, <2>2 DEF RefusedRuns, Now
<1> QED
  BY <1>1, <1>2, <1>3, <1>4, <1>5, <1>6, MovingOn, KeepIsTheTasks, CallKeeps

(* The thread sleeps between two attempts.                                 *)
LEMMA PollThreadKeeps ==
    ASSUME FutIInv, PollThread
    PROVE  FutIInv'
<1>1. /\ At("resumed") /\ Keep /\ ~Breaks /\ chain = <<>> /\ Goto("loop")
      /\ rem' = [rem EXCEPT ![ctl] = PollMs * TicksPerMs]
      /\ UNCHANGED <<state, held, chain, ctl, prevCtx, callee, resumer, curProc, fiberSp,
                     skip, at, outcome, left, retVal, threwInto>>
  BY DEF PollThread
<1> DEFINE t == PollMs * TicksPerMs
<1>2. t \in Nat /\ (Now.op = "wait_for" => t <= left[ctl])
  BY <1>1, PollFits
<1> HIDE DEF t
<1>3. ctl = Main /\ Main \notin Fibers /\ at[Main] = Body /\ rem' = [rem EXCEPT ![Main] = t]
  BY <1>1, Known, MovingOn, FiberAssumption DEF InBody, t
<1>4. TypeOK /\ WaitTypes /\ WaitInv
  BY TypesSplit DEF FutIInv, FiberInv
<1>5. \A f \in Fibers : rem'[f] = rem[f]
  BY <1>3, <1>4, Known DEF TypeOK
<1>6. WaitTypes'
  BY <1>1, <1>2, <1>3, <1>4 DEF WaitTypes
<1>7. WaitInv'
  <2>1. AwakeOnlyWhenDue' /\ HandlesAlive'
    BY <1>1, <1>4, <1>5 DEF WaitInv, AwakeOnlyWhenDue, HandlesAlive
  <2>2. BackoffNeverOversleeps'
    <3> SUFFICES ASSUME NEW c \in Contexts, NEW f \in Fibers, at[c] = Backoff(f)
                 PROVE  rem'[c] <= rem'[f]
      BY <1>1 DEF BackoffNeverOversleeps
    <3>1. c # Main
      BY <1>3, PositionsDiffer
    <3> QED
      BY <1>3, <1>4, <1>5, <3>1 DEF WaitInv, BackoffNeverOversleeps, TypeOK
  <2> QED
    BY <2>1, <2>2 DEF WaitInv
<1>8. FiberInv'
  BY <1>1, <1>6, <1>7, StayInv DEF FutIInv, chainVars
<1>9. SuspendedCalls'
  BY <1>1, MovingOn, StayKeepsCalls DEF FutIInv
<1>10. left' \in [Contexts -> Nat \cup {-1}] /\ rem'[ctl] = t
       /\ \A c \in Contexts \ {ctl} : rem'[c] = rem[c]
  BY <1>1, <1>3, Known DEF FutIInv, CallTypes, TypeOK
<1>11. NothingDropped' /\ RefusedRuns'
  <2>1. NothingDropped'
    BY <1>1, HeldStay DEF FutIInv, NothingDropped
  <2>2. fut'[ctl].pc = "loop"
    BY <1>1, MovingOn
  <2> QED
    BY <1>1, <2>1, <2>2 DEF RefusedRuns, Now
<1> QED
  BY <1>1, <1>2, <1>8, <1>9, <1>10, <1>11, MovingOn, KeepIsTheTasks, CallKeeps

(* A fiber that waits for another sleeps between two attempts, and so      *)
(* hands control back in the middle of its call.                           *)
LEMMA PollFiberKeeps ==
    ASSUME FutIInv, PollFiber
    PROVE  FutIInv'
<1>1. /\ At("resumed") /\ Keep /\ ~Breaks /\ chain # <<>> /\ Goto("loop")
      /\ SleepFor(PollMs) /\ UNCHANGED <<left, retVal, threwInto>>
  BY DEF PollFiber
<1> DEFINE t == PollMs * TicksPerMs
<1>2. t \in Nat /\ PollMs \in Nat /\ (Now.op = "wait_for" => t <= left[ctl])
  BY <1>1, PollFits
<1>3. ctl = Top /\ Top \in Fibers /\ Top # Main /\ state[Top] = "running"
  BY <1>1, Known
<1>11. rem' = [rem EXCEPT ![Top] = t] /\ SwitchOut("sleeping", "ok") /\ at' = at
  BY <1>1 DEF SleepFor, SleepCurrent
<1>4. /\ rem' = [rem EXCEPT ![Top] = t] /\ LeaveAs("sleeping") /\ at' = at /\ outcome' = "ok"
      /\ NothingDropped'
  BY <1>1, <1>11, LeavesHeld
<1>5. FiberInv'
  BY <1>1, <1>2, SleepForInv DEF FutIInv
<1> HIDE DEF t
<1>6. SuspendedCalls'
  BY <1>1, <1>3, <1>4, MovingOn, LeaveKeepsCalls DEF FutIInv
<1>7. \A g \in Fibers : state[g] = "finished" => state'[g] = "finished"
  BY <1>3, <1>4, LeaveState, Known DEF TypeOK
<1>8. left' \in [Contexts -> Nat \cup {-1}] /\ rem'[ctl] = t
      /\ \A c \in Contexts \ {ctl} : rem'[c] = rem[c] /\ left'[c] = left[c]
  BY <1>1, <1>3, <1>4, Known DEF FutIInv, CallTypes, TypeOK
<1>9. RefusedRuns'
  BY <1>4 DEF RefusedRuns
<1> QED
  BY <1>1, <1>2, <1>4, <1>5, <1>6, <1>7, <1>8, <1>9, MovingOn, KeepIsTheTasks, CallKeeps

(* Time passes for wake-up times and deadlines alike.                      *)
LEMMA FutTickKeeps ==
    ASSUME FutIInv, FutTick
    PROVE  FutIInv'
<1>1. /\ rem' = [c \in Contexts |-> MaxOf(rem[c] - 1, 0)]
      /\ left' = [c \in Contexts |-> IF fut[c].op = "wait_for"
                                      THEN MaxOf(left[c] - 1, -1) ELSE left[c]]
      /\ UNCHANGED <<state, held, chain, ctl, prevCtx, callee, resumer, curProc, fiberSp,
                     skip, at, outcome, fut, mException, retVal, threwInto>>
  BY DEF FutTick
<1>2. \A c \in Contexts : rem[c] \in Nat /\ left[c] \in Nat \cup {-1}
  BY Known DEF TypeOK, FutIInv, CallTypes
<1>3. \A c \in Contexts : MaxOf(rem[c] - 1, 0) = IF rem[c] > 0 THEN rem[c] - 1 ELSE 0
  BY <1>2 DEF MaxOf
<1>4. FiberInv'
  <2>1. CASE \E c \in Contexts : rem[c] > 0
    <3>1. rem' = [c \in Contexts |-> IF rem[c] > 0 THEN rem[c] - 1 ELSE 0]
      BY <1>1, <1>3
    <3>2. Tick
      BY <1>1, <2>1, <3>1 DEF Tick
    <3> QED
      BY <3>2, TickInv DEF FutIInv
  <2>2. CASE ~\E c \in Contexts : rem[c] > 0
    <3>1. \A c \in Contexts : rem[c] = 0
      BY <1>2, <2>2
    <3>2. rem' = rem
      BY <1>1, <1>3, <3>1, Known DEF TypeOK
    <3>3. skip' \in [Fibers -> 0..MaxSkip] /\ outcome' \in Outcomes
      BY <1>1, Known DEF TypeOK
    <3> QED
      BY <1>1, <3>2, <3>3, QuietInv DEF FutIInv, chainVars
  <2> QED
    BY <2>1, <2>2
<1>5. CallTypes'
  <2>1. \A c \in Contexts : left[c] \in Nat \cup {-1} => MaxOf(left[c] - 1, -1) \in Nat \cup {-1}
    BY DEF MaxOf
  <2>2. left' \in [Contexts -> Nat \cup {-1}]
    BY <1>1, <1>2, <2>1
  <2> QED
    BY <1>1, <2>2 DEF FutIInv, CallTypes
<1>6. CallsInBody' /\ TaskErrorIsTheTasks'
  BY <1>1 DEF FutIInv, CallsInBody, TaskErrorIsTheTasks
<1>7. ErrorIsTheTargets' /\ RefusedRuns' /\ ErrorsDelivered'
  BY <1>1 DEF FutIInv, ErrorIsTheTargets, RefusedRuns, ErrorsDelivered, Delivering, Now, Goal,
              Failed
<1>11. NothingDropped'
  BY <1>1 DEF FutIInv, NothingDropped
<1>8. SuspendedCalls'
  BY <1>1, StayKeepsCalls DEF FutIInv
<1>9. MainIsAwake'
  <2>1. rem[Main] = 0 => rem'[Main] = 0
    BY <1>1, <1>3, Known
  <2> QED
    BY <1>1, <2>1 DEF FutIInv, MainIsAwake
<1>10. PollsWithinDeadline'
  <2> SUFFICES ASSUME NEW c \in Contexts, fut[c].op = "wait_for", fut[c].pc = "loop", left'[c] > 0
               PROVE  rem'[c] <= left'[c]
    BY <1>1 DEF PollsWithinDeadline
  <2>1. left'[c] = MaxOf(left[c] - 1, -1) /\ rem'[c] = IF rem[c] > 0 THEN rem[c] - 1 ELSE 0
    BY <1>1, <1>3
  <2>2. left[c] > 1 /\ left'[c] = left[c] - 1
    BY <1>2, <2>1 DEF MaxOf
  <2>3. rem[c] <= left[c]
    BY <2>2, <1>2 DEF FutIInv, PollsWithinDeadline
  <2> QED
    BY <1>2, <2>1, <2>2, <2>3
<1> QED
  BY <1>4, <1>5, <1>6, <1>7, <1>8, <1>9, <1>10, <1>11 DEF FutIInv
-----------------------------------------------------------------------------
(***************************************************************************)
(* The invariant.                                                          *)
(***************************************************************************)

(* The invariant holds before the first call.                              *)
LEMMA FutInitInv == FutInit => FutIInv
<1> SUFFICES ASSUME FutInit PROVE FutIInv
  OBVIOUS
<1>1. FiberInv
  BY InitInv DEF FutInit
<1>2. CallTypes
  BY DEF FutInit, CallTypes
<1>3. \A c \in Contexts : fut[c] = NoCall /\ fut[c].op = "none"
  BY CallFields DEF FutInit
<1>4. ctl \in Contexts /\ Now = NoCall
  BY <1>1, <1>3 DEF FiberInv, TypeOK, Now
<1>5. CallsInBody /\ SuspendedCalls /\ ErrorIsTheTargets /\ PollsWithinDeadline
  BY <1>3, <1>4 DEF CallsInBody, SuspendedCalls, ErrorIsTheTargets, PollsWithinDeadline
<1>6. MainIsAwake /\ TaskErrorIsTheTasks
  BY DEF FutInit, Init, MainIsAwake, TaskErrorIsTheTasks, Contexts
<1>7. NothingDropped
  BY DEF FutInit, Init, NothingDropped
<1>8. ErrorsDelivered /\ RefusedRuns
  BY <1>4 DEF FutInit, ErrorsDelivered, RefusedRuns
<1> QED
  BY <1>1, <1>2, <1>5, <1>6, <1>7, <1>8 DEF FutIInv

(* Every step of the fibers and of the calls keeps it.                     *)
LEMMA FutNextInv == FutIInv /\ [FutNext]_allVars => FutIInv'
<1> SUFFICES ASSUME FutIInv, [FutNext]_allVars PROVE FutIInv'
  OBVIOUS
<1>1. CASE UNCHANGED allVars
  <2>1. UNCHANGED vars /\ UNCHANGED futVars
    BY <1>1 DEF allVars
  <2>2. FiberInv'
    BY <2>1, NextInv DEF FutIInv
  <2>3. CallTypes' /\ CallsInBody' /\ SuspendedCalls' /\ ErrorIsTheTargets' /\ MainIsAwake'
        /\ TaskErrorIsTheTasks' /\ PollsWithinDeadline' /\ NothingDropped' /\ RefusedRuns'
        /\ ErrorsDelivered'
    BY <2>1 DEF NothingDropped, RefusedRuns, ErrorsDelivered, Delivering, FutIInv, vars, futVars, CallTypes, CallsInBody, SuspendedCalls, Waiting, OnChain,
                ErrorIsTheTargets, Now, Goal, Failed, MainIsAwake, TaskErrorIsTheTasks,
                PollsWithinDeadline
  <2> QED
    BY <2>2, <2>3 DEF FutIInv
<1>2. ASSUME BodyStep PROVE FutIInv'
  <2>1. Now = NoCall /\ UNCHANGED futVars
    BY <1>2 DEF BodyStep
  <2>2. ASSUME NEW f \in Fibers, Create(f) \/ Resume(f) PROVE FutIInv'
    <3>1. 0 \in Nat
      OBVIOUS
    <3> QED
      BY <2>1, <2>2, <3>1, StayInBody, EnterInBody, LeaveInBody DEF Resume
  <2>3. CASE BackoffDone
    <3>1. at[ctl].fi \in Fibers
      BY <2>3, Known DEF TypeOK, Positions, BackoffDone, Body, Backoff
    <3> QED
      BY <2>1, <2>3, <3>1, StayInBody
  <2>4. ASSUME NEW ms \in Nat, Yield \/ SleepFor(ms) PROVE FutIInv'
    <3>1. chain # <<>>
      BY <2>4 DEF Yield, SleepFor
    <3>2. Top \in Fibers
      BY <3>1, Known
    <3> QED
      BY <2>1, <2>4, <3>2, LeaveInBody
  <2>5. CASE YieldOutside
    BY <2>1, <2>5, StayInBody
  <2> QED
    BY <1>2, <2>2, <2>3, <2>4, <2>5, TimeAssumption DEF BodyStep
<1>3. ASSUME NEW f \in Fibers, NEW threw \in BOOLEAN, FinishBody(f, threw) PROVE FutIInv'
  BY <1>3, FinishKeeps
<1>4. ASSUME NEW u \in Futures, Begin("wait", u, 0) \/ Begin("get", u, 0) PROVE FutIInv'
  BY <1>4, BeginKeeps
<1>5. ASSUME NEW u \in Futures, NEW ms \in WaitMs, Begin("wait_for", u, ms) PROVE FutIInv'
  BY <1>5, BeginKeeps, FutureAssumption
<1>6. CASE FutStep
  BY <1>6, EndKeeps, DriveSwitchKeeps, DriveStayKeeps, GoRoundKeeps, PollThreadKeeps,
     PollFiberKeeps DEF FutStep
<1>7. CASE FutTick
  BY <1>7, FutTickKeeps
<1> QED
  BY <1>1, <1>2, <1>3, <1>4, <1>5, <1>6, <1>7 DEF FutNext

(***************************************************************************)
(* The inductive invariant holds in every reachable state.                 *)
(***************************************************************************)
THEOREM FutureInvariant == FutSpec => []FutIInv
BY FutInitInv, FutNextInv, PTL DEF FutSpec

(* What a future knows of its task is the task's own doing, and a waiter   *)
(* with a deadline polls within it (fiber_future and its wait_for).        *)
THEOREM FutureCorrect == FutSpec => []FutInv
<1>1. FutIInv => FutInv
  BY DEF FutIInv, FiberInv, CallTypes, FutInv, FutTypeOK
<1> QED
  BY <1>1, FutureInvariant, PTL

(* Switches nest and waits are bounded also when library code drives the   *)
(* fibers out of future calls.                                             *)
THEOREM SwitchesNestInCalls == FutSpec => [](SwitchesNest /\ BackoffNeverOversleeps)
<1>1. FutIInv => SwitchesNest /\ BackoffNeverOversleeps
  BY DEF FutIInv, FiberInv, ChainInv, WaitInv, SwitchesNest
<1> QED
  BY <1>1, FutureInvariant, PTL

(* A call ends only at the head of its loop or after resume(), as its own  *)
(* context's step.                                                         *)
LEMMA OnlyEndsEnd ==
    ASSUME FutIInv, [FutNext]_allVars, NEW c \in Contexts, fut[c] # NoCall, fut'[c] = NoCall
    PROVE  c = ctl /\ (EndAtHead \/ EndAfterResume)
<1>1. ASSUME NEW pc \in {"loop", "resumed"}, NEW from, At(from), Goto(pc) PROVE FALSE
  BY <1>1, MovingOn
<1>2. ~UNCHANGED fut
  OBVIOUS
<1>3. ASSUME NEW op \in {"wait", "wait_for", "get"}, NEW u \in Futures, NEW ms, Begin(op, u, ms)
      PROVE  FALSE
  BY <1>3, CallFields, Known DEF Begin, FutIInv, CallTypes
<1>4. EndAtHead \/ EndAfterResume
  BY <1>1, <1>2, <1>3 DEF FutNext, allVars, futVars, BodyStep, FinishBody, FutTick, FutStep,
                          DriveSwitch, DriveRefused, DriveAsleep, GoRound, PollThread, PollFiber
<1>5. fut' = [fut EXCEPT ![ctl] = NoCall]
  BY <1>4 DEF EndAtHead, EndAfterResume, End
<1> QED
  BY <1>4, <1>5 DEF FutIInv, CallTypes

(* What a task threw out of a future's own call is what every get() of    *)
(* that future throws: no later or earlier refusal takes its place.        *)
THEOREM GetThrowsTaskErrors == FutSpec => GetThrowsItsTasksError
<1>1. FutIInv /\ [FutNext]_allVars
        => [\A c \in Contexts, u \in Futures :
                Ends("get", c, u) /\ threwInto[Target[u]] = u => outcome' = "task_error"]_allVars
  <2> SUFFICES ASSUME FutIInv, [FutNext]_allVars, NEW c \in Contexts, NEW u \in Futures,
                      Ends("get", c, u), threwInto[Target[u]] = u
               PROVE  outcome' = "task_error"
    OBVIOUS
  <2>1. fut[c].op = "get" /\ fut[c].u = u /\ fut'[c] = NoCall /\ fut[c] # NoCall
    BY CallFields DEF Ends
  <2>2. c = ctl /\ (EndAtHead \/ EndAfterResume)
    BY <2>1, OnlyEndsEnd
  <2>3. Now.op = "get" /\ Now.u = u /\ outcome' = Result(Now.op, Now.u)
    BY <2>1, <2>2 DEF Now, EndAtHead, EndAfterResume, End
  <2>4. Target[u] \in Fibers /\ threwInto[Target[u]] # None
    BY FutureAssumption
  <2>5. mException'[u] = "task_error"
    <3>1. CASE EndAtHead
      <4>1. mException' = mException /\ Now.pc = "loop"
        BY <3>1 DEF EndAtHead, At
      <4> QED
        BY <4>1, <2>4, Delivered
    <3>2. CASE EndAfterResume
      BY <3>2, <2>4, KeepIsTheTasks DEF EndAfterResume
    <3> QED
      BY <2>2, <3>1, <3>2
  <2> QED
    BY <2>3, <2>5 DEF Result
<1> QED
  BY <1>1, FutureInvariant, PTL DEF FutSpec, GetThrowsItsTasksError

(* Only a future that has met a refused resume gives up before its fiber   *)
(* has finished.                                                           *)
THEOREM EarlyEndsAreRefusals == FutSpec => WaitEndsEarlyOnlyIfRefused
<1>1. FutIInv /\ [FutNext]_allVars
        => [\A c \in Contexts, u \in Futures :
                (Ends("wait", c, u) \/ Ends("get", c, u)) /\ mException'[u] # "lang_error"
                    => state[Target[u]] = "finished"]_allVars
  <2> SUFFICES ASSUME FutIInv, [FutNext]_allVars, NEW c \in Contexts, NEW u \in Futures,
                      Ends("wait", c, u) \/ Ends("get", c, u), mException'[u] # "lang_error"
               PROVE  state[Target[u]] = "finished"
    OBVIOUS
  <2>1. fut[c].op \in {"wait", "get"} /\ fut[c].u = u /\ fut'[c] = NoCall /\ fut[c] # NoCall
    BY CallFields DEF Ends
  <2>2. c = ctl /\ (EndAtHead \/ EndAfterResume)
    BY <2>1, OnlyEndsEnd
  <2>3. Now.op # "wait_for" /\ Now.u = u /\ Goal = Target[u]
    BY <2>1, <2>2 DEF Now, Goal
  <2>4. CASE EndAtHead
    BY <2>3, <2>4 DEF EndAtHead, LeaveLoop, Expired
  <2>5. CASE EndAfterResume
    <3>1. mException'[u] = "task_error"
      BY <2>3, <2>5, KeepIsTheTasks DEF EndAfterResume, Breaks
    <3>2. mException[u] = "task_error" \/ Failed(Target[u])
      BY <2>5, <3>1, KeepIsTheTasks DEF EndAfterResume
    <3> QED
      BY <3>2 DEF Failed, FutIInv, TaskErrorIsTheTasks
  <2> QED
    BY <2>2, <2>4, <2>5
<1> QED
  BY <1>1, FutureInvariant, PTL DEF FutSpec, WaitEndsEarlyOnlyIfRefused
-----------------------------------------------------------------------------
(***************************************************************************)
(* Scope guards.  The inductive invariant: where the guards of each        *)
(* context come from.                                                      *)
(***************************************************************************)

(* The process the code directly inside a guard runs on.                   *)
Within(g) == IF g.kind = "scope" THEN Main ELSE g.proc

(* Each guard was opened on the process of the one around it, the first on *)
(* the process of its context; the thread's own never changes.             *)
GuardsNest ==
    /\ \A c \in Contexts : \A i \in 1 .. Len(nest[c]) - 1 :
           nest[c][i + 1].proc = Within(nest[c][i])
    /\ \A f \in ScriptFibers : \A i \in 1 .. Len(nest[f]) :
           (\A j \in 1 .. i - 1 : nest[f][j].kind = "call") => nest[f][i].proc = f
    /\ \A i \in 1 .. Len(nest[Main]) : nest[Main][i].proc = Main

(* The context in control runs on the process of its innermost guard, or   *)
(* on its own.                                                             *)
ControlNests ==
    /\ nest[ctl] # <<>> => curProc = Within(Last(nest[ctl]))
    /\ ctl \in ScriptFibers /\ (\A i \in 1 .. Len(nest[ctl]) : nest[ctl][i].kind = "call")
           => curProc = ctl
    /\ ctl = Main => curProc = Main

(* What the discipline leaves open in a fiber that has no control.         *)
OthersWait ==
    /\ \A f \in NativeFibers \ {ctl} : nest[f] = <<>>
    /\ \A f \in ScriptFibers \ {ctl} : \A i \in 1 .. Len(nest[f]) : nest[f][i].kind = "call"

(* On a value stack are the slots of its own context and, above them, of   *)
(* the one in control.                                                     *)
SlotsLayered ==
    \A p \in Processes : \A i \in 1 .. Len(vstack[p]) :
        /\ vstack[p][i] \in {p, ctl}
        /\ vstack[p][i] = p => \A j \in 1 .. i : vstack[p][j] = p

(* The switches return to whoever resumed, and the thread's process is the *)
(* one the fiber at the bottom of the chain has saved.                     *)
SwitchesReturn ==
    /\ RunningIsOnChain /\ ReturnsToItsResumer
    /\ chain # <<>> => resumer[chain[1]] = Main

GuardTypes ==
    /\ ctl \in Contexts
    /\ curProc \in Processes
    /\ nest \in [Contexts -> Seq(Guards)]

SlotTypes ==
    /\ GuardTypes
    /\ vstack \in [Processes -> Seq(Contexts)]

SlotInv ==
    /\ SlotTypes
    /\ GuardsNest /\ ControlNests /\ OthersWait
    /\ SlotsAccounted /\ SlotsLayered

ScopeIInv == TypeOK /\ SwitchesReturn /\ SlotInv
-----------------------------------------------------------------------------
(***************************************************************************)
(* Sequences and the occurrences of a value in them.                       *)
(***************************************************************************)

LEMMA AppendFacts ==
    ASSUME NEW S, NEW s \in Seq(S), NEW x \in S, NEW n \in Nat, n = Len(s)
    PROVE  /\ Append(s, x) \in Seq(S)
           /\ Append(s, x) # <<>>
           /\ Len(Append(s, x)) = n + 1
           /\ DOMAIN Append(s, x) = 1 .. n + 1
           /\ Append(s, x)[n + 1] = x
           /\ \A i \in 1 .. n : Append(s, x)[i] = s[i]
           /\ Last(Append(s, x)) = x
<1>1. /\ Append(s, x) \in Seq(S) /\ Len(Append(s, x)) = n + 1
      /\ Append(s, x)[n + 1] = x /\ \A i \in 1 .. n : Append(s, x)[i] = s[i]
  OBVIOUS
<1>2. DOMAIN Append(s, x) = 1 .. n + 1 /\ Append(s, x) # <<>>
  BY <1>1
<1> QED
  BY <1>1, <1>2 DEF Last

LEMMA FrontFacts ==
    ASSUME NEW S, NEW s \in Seq(S), s # <<>>, NEW n \in Nat, n = Len(s)
    PROVE  /\ n >= 1 /\ n - 1 \in Nat /\ DOMAIN s = 1 .. n
           /\ Last(s) = s[n] /\ Last(s) \in S
           /\ Front(s) \in Seq(S)
           /\ Len(Front(s)) = n - 1
           /\ DOMAIN Front(s) = 1 .. n - 1
           /\ \A i \in 1 .. n - 1 : Front(s)[i] = s[i]
<1>1. n >= 1 /\ n - 1 \in Nat /\ DOMAIN s = 1 .. n /\ s[n] \in S
  OBVIOUS
<1>2. /\ Front(s) \in Seq(S) /\ Len(Front(s)) = n - 1
      /\ \A i \in 1 .. n - 1 : Front(s)[i] = s[i]
  BY <1>1 DEF Front
<1>3. DOMAIN Front(s) = 1 .. n - 1
  BY <1>1, <1>2
<1> QED
  BY <1>1, <1>2, <1>3 DEF Last

(* How often a value occurs is a number, zero when it does not.            *)
LEMMA CountIsNat ==
    ASSUME NEW S, NEW s \in Seq(S), NEW x
    PROVE  /\ IsFiniteSet({i \in DOMAIN s : s[i] = x})
           /\ Occurrences(s, x) \in Nat
           /\ Occurrences(s, x) = 0 <=> \A i \in DOMAIN s : s[i] # x
<1> DEFINE Places == {i \in DOMAIN s : s[i] = x}
<1>1. PICK n \in Nat : n = Len(s) /\ DOMAIN s = 1 .. n
  OBVIOUS
<1>2. IsFiniteSet(1 .. n)
  BY FS_Interval
<1>3. IsFiniteSet(Places)
  BY <1>1, <1>2, FS_Subset
<1>4. Cardinality(Places) \in Nat /\ (Cardinality(Places) = 0 <=> Places = {})
  BY <1>3, FS_CardinalityType, FS_EmptySet
<1> QED
  BY <1>3, <1>4 DEF Occurrences

(* Appending a value adds one occurrence of it and none of another.        *)
LEMMA CountAfterAppend ==
    ASSUME NEW S, NEW s \in Seq(S), NEW x \in S, NEW y
    PROVE  Occurrences(Append(s, x), y) =
               IF x = y THEN Occurrences(s, y) + 1 ELSE Occurrences(s, y)
<1>1. PICK n \in Nat : n = Len(s) /\ DOMAIN s = 1 .. n
  OBVIOUS
<1> DEFINE t == Append(s, x)
           Old == {i \in DOMAIN s : s[i] = y}
           New == {i \in DOMAIN t : t[i] = y}
<1>2. /\ DOMAIN t = 1 .. n + 1 /\ t[n + 1] = x
      /\ \A i \in 1 .. n : t[i] = s[i]
  BY <1>1, AppendFacts
<1> HIDE DEF t
<1>3. IsFiniteSet(Old) /\ n + 1 \notin Old
  <2>1. IsFiniteSet(Old)
    BY CountIsNat
  <2> QED
    BY <1>1, <2>1
<1>4. \A i : i \in 1 .. n + 1 <=> i \in 1 .. n \/ i = n + 1
  BY <1>1
<1>5. New = IF x = y THEN Old \cup {n + 1} ELSE Old
  BY <1>1, <1>2, <1>4
<1>7. Occurrences(s, y) = Cardinality(Old) /\ Occurrences(t, y) = Cardinality(New)
  BY DEF Occurrences
<1>6. Cardinality(Old \cup {n + 1}) = Cardinality(Old) + 1
  BY <1>3, FS_AddElement
<1> QED
  BY <1>5, <1>6, <1>7 DEF t

(* Taking the last value off removes one occurrence of it.                 *)
LEMMA CountAfterFront ==
    ASSUME NEW S, NEW s \in Seq(S), s # <<>>, NEW y
    PROVE  Occurrences(s, y) =
               IF Last(s) = y THEN Occurrences(Front(s), y) + 1
               ELSE Occurrences(Front(s), y)
<1>1. Front(s) \in Seq(S) /\ Last(s) \in S
  BY FrontFacts
<1>2. s = Append(Front(s), Last(s))
  <2>1. PICK n \in Nat : n = Len(s)
    OBVIOUS
  <2>2. /\ n >= 1 /\ n - 1 \in Nat /\ Len(Front(s)) = n - 1 /\ Last(s) = s[n]
        /\ DOMAIN s = 1 .. n /\ \A i \in 1 .. n - 1 : Front(s)[i] = s[i]
    BY <2>1, FrontFacts
  <2> DEFINE t == Append(Front(s), Last(s))
  <2>3. /\ t \in Seq(S) /\ DOMAIN t = 1 .. (n - 1) + 1 /\ t[(n - 1) + 1] = Last(s)
        /\ Len(t) = (n - 1) + 1
        /\ \A i \in 1 .. n - 1 : t[i] = Front(s)[i]
    BY <1>1, <2>2, AppendFacts
  <2> HIDE DEF t
  <2>4. Len(t) = n /\ t[n] = s[n] /\ \A i \in 1 .. n - 1 : t[i] = s[i]
    BY <2>2, <2>3
  <2>5. \A i \in 1 .. n : i = n \/ i \in 1 .. n - 1
    BY <2>2
  <2>6. \A i \in 1 .. n : t[i] = s[i]
    BY <2>4, <2>5
  <2>7. t = s
    BY <1>1, <2>1, <2>3, <2>4, <2>6, SeqEqual
  <2> QED
    BY <2>7 DEF t
<1>3. Occurrences(Append(Front(s), Last(s)), y) =
          IF Last(s) = y THEN Occurrences(Front(s), y) + 1
          ELSE Occurrences(Front(s), y)
  BY <1>1, CountAfterAppend
<1>4. Occurrences(s, y) = Occurrences(Append(Front(s), Last(s)), y)
  BY <1>2
<1> QED
  BY <1>3, <1>4
-----------------------------------------------------------------------------
(***************************************************************************)
(* Opening and closing a guard in the context in control.                  *)
(***************************************************************************)

LEMMA GuardFields ==
    /\ \A g \in Guards :
        /\ g.kind \in {"scope", "call"} /\ g.proc \in Processes
        /\ Within(g) \in Processes
        /\ \A p : g = CallGuard(p) <=> g.kind = "call" /\ g.proc = p
    /\ \A p \in Processes : /\ ScopeGuard(p) \in Guards /\ CallGuard(p) \in Guards
                            /\ Within(ScopeGuard(p)) = Main /\ Within(CallGuard(p)) = p
                            /\ ScopeGuard(p).proc = p /\ ScopeGuard(p).kind = "scope"
                            /\ CallGuard(p).proc = p /\ CallGuard(p).kind = "call"
<1>1. Main \in Processes
  BY DEF Processes
<1>2. ASSUME NEW p
      PROVE  /\ ScopeGuard(p).proc = p /\ ScopeGuard(p).kind = "scope"
             /\ CallGuard(p).proc = p /\ CallGuard(p).kind = "call"
             /\ Within(ScopeGuard(p)) = Main /\ Within(CallGuard(p)) = p
  BY DEF ScopeGuard, CallGuard, Within
<1>3. ASSUME NEW g \in Guards
      PROVE  /\ g.kind \in {"scope", "call"} /\ g.proc \in Processes
             /\ Within(g) \in Processes
             /\ \A p : g = CallGuard(p) <=> (g.kind = "call" /\ g.proc = p)
  <2>1. CASE \E q \in Processes : g = ScopeGuard(q)
    <3>1. PICK q \in Processes : g = ScopeGuard(q)
      BY <2>1
    <3>2. /\ g.kind = "scope" /\ g.proc = q /\ Within(g) = Main
      BY <1>2, <3>1
    <3>3. \A p : CallGuard(p) # g
      BY <1>2, <3>2
    <3> QED
      BY <1>1, <3>2, <3>3
  <2>2. CASE \E q \in Processes : g = CallGuard(q)
    <3>1. PICK q \in Processes : g = CallGuard(q)
      BY <2>2
    <3>2. /\ g.kind = "call" /\ g.proc = q /\ Within(g) = q
      BY <1>2, <3>1
    <3>3. \A p : g = CallGuard(p) <=> p = q
      BY <1>2, <3>1
    <3> QED
      BY <3>2, <3>3
  <2> QED
    BY <2>1, <2>2 DEF Guards
<1> QED
  BY <1>2, <1>3 DEF Guards

(* A guard opened on the current process keeps the guards nested.          *)
LEMMA OpenKeepsNests ==
    ASSUME GuardTypes, GuardsNest, ControlNests, OthersWait,
           NEW g \in Guards, g.proc = curProc, Opened(g),
           curProc' = Within(g), ctl' = ctl
    PROVE  GuardTypes' /\ GuardsNest' /\ ControlNests' /\ OthersWait'
<1> DEFINE s == nest[ctl]
           t == nest'[ctl]
<1>1. ctl \in Contexts /\ s \in Seq(Guards)
  BY DEF GuardTypes
<1>2. PICK n \in Nat : n = Len(s) /\ DOMAIN s = 1 .. n
  BY <1>1
<1>3. /\ t = Append(s, g) /\ \A c \in Contexts \ {ctl} : nest'[c] = nest[c]
      /\ nest' \in [Contexts -> Seq(Guards)]
  BY <1>1 DEF Opened, GuardTypes
<1>4. /\ t \in Seq(Guards) /\ t # <<>> /\ Len(t) = n + 1 /\ t[n + 1] = g
      /\ \A i \in 1 .. n : t[i] = s[i]
      /\ Last(t) = g
  BY <1>1, <1>2, <1>3, AppendFacts
<1>5. s # <<>> => n \in 1 .. n /\ Last(s) = s[n] /\ curProc = Within(s[n])
  BY <1>1, <1>2 DEF ControlNests, Last
<1>6. \A i \in 1 .. n + 1 : i = n + 1 \/ i \in 1 .. n
  BY <1>2
<1> HIDE DEF s, t
<1>7. \A i \in 1 .. Len(t) - 1 : t[i + 1].proc = Within(t[i])
  <2> SUFFICES ASSUME NEW i \in 1 .. n
               PROVE  t[i + 1].proc = Within(t[i])
    BY <1>2, <1>4
  <2>1. CASE i = n
    <3>1. s # <<>> /\ t[i] = s[n]
      BY <2>1, <1>1, <1>2, <1>4
    <3> QED
      BY <2>1, <3>1, <1>4, <1>5
  <2>2. CASE i # n
    <3>1. i \in 1 .. Len(s) - 1 /\ i + 1 \in 1 .. n
      BY <2>2, <1>2
    <3> QED
      BY <3>1, <1>1, <1>4 DEF s, GuardsNest
  <2> QED
    BY <2>1, <2>2
<1>8. ctl \in ScriptFibers => \A i \in 1 .. Len(t) :
          (\A j \in 1 .. i - 1 : t[j].kind = "call") => t[i].proc = ctl
  <2> SUFFICES ASSUME ctl \in ScriptFibers, NEW i \in 1 .. n + 1,
                      \A j \in 1 .. i - 1 : t[j].kind = "call"
               PROVE  t[i].proc = ctl
    BY <1>4
  <2>1. CASE i = n + 1
    <3>1. \A j \in 1 .. Len(nest[ctl]) : nest[ctl][j].kind = "call"
      BY <2>1, <1>2, <1>4 DEF s
    <3> QED
      BY <2>1, <3>1, <1>4 DEF ControlNests
  <2>2. CASE i \in 1 .. n
    <3>1. \A j \in 1 .. i - 1 : j \in 1 .. n
      BY <2>2, <1>2
    <3>2. \A j \in 1 .. i - 1 : s[j].kind = "call"
      BY <3>1, <1>4
    <3> QED
      BY <2>2, <3>2, <1>2, <1>4 DEF s, GuardsNest
  <2> QED
    BY <2>1, <2>2, <1>6
<1>9. ctl = Main => \A i \in 1 .. Len(t) : t[i].proc = Main
  BY <1>2, <1>4, <1>6 DEF s, GuardsNest, ControlNests
<1>10. GuardTypes'
  BY <1>1, <1>3, GuardFields DEF GuardTypes
<1>11. GuardsNest'
  <2>0. Main \in Contexts /\ ScriptFibers \subseteq Contexts
    BY DEF Contexts, Fibers
  <2>1. ASSUME NEW c \in Contexts
        PROVE  \A i \in 1 .. Len(nest'[c]) - 1 :
                   nest'[c][i + 1].proc = Within(nest'[c][i])
    BY <1>3, <1>7 DEF t, GuardsNest
  <2>2. ASSUME NEW f \in ScriptFibers
        PROVE  \A i \in 1 .. Len(nest'[f]) :
            (\A j \in 1 .. i - 1 : nest'[f][j].kind = "call") => nest'[f][i].proc = f
    BY <2>0, <1>3, <1>8 DEF t, GuardsNest
  <2>3. \A i \in 1 .. Len(nest'[Main]) : nest'[Main][i].proc = Main
    BY <2>0, <1>3, <1>9 DEF t, GuardsNest
  <2>4. \A g1 : Within(g1)' = Within(g1)
    BY DEF Within
  <2> QED
    BY <2>1, <2>2, <2>3 DEF GuardsNest, Within
<1>12. ControlNests'
  <2>1. n + 1 \in 1 .. Len(t)
    BY <1>2, <1>4
  <2>2. ctl \in ScriptFibers /\ (\A i \in 1 .. Len(t) : t[i].kind = "call")
          => curProc' = ctl
    <3> SUFFICES ASSUME ctl \in ScriptFibers, \A i \in 1 .. Len(t) : t[i].kind = "call"
                 PROVE  curProc' = ctl
      OBVIOUS
    <3>1. \A j \in 1 .. (n + 1) - 1 : j \in 1 .. Len(t)
      BY <1>2, <1>4
    <3>2. g.kind = "call" /\ t[n + 1].proc = ctl
      BY <2>1, <3>1, <1>4, <1>8
    <3> QED
      BY <3>2, <1>4 DEF Within
  <2>3. ctl = Main => curProc' = Main
    BY DEF ControlNests, Within
  <2>4. t # <<>> => curProc' = Within(Last(t))
    BY <1>4
  <2> QED
    BY <2>2, <2>3, <2>4 DEF t, ControlNests, Within
<1>13. OthersWait'
  <2>1. NativeFibers \subseteq Contexts /\ ScriptFibers \subseteq Contexts
    BY DEF Contexts, Fibers
  <2> QED
    BY <2>1, <1>3 DEF OthersWait
<1> QED
  BY <1>10, <1>11, <1>12, <1>13

(* So does closing the innermost one, back on the process it was opened on. *)
LEMMA CloseKeepsNests ==
    ASSUME GuardTypes, GuardsNest, ControlNests, OthersWait,
           nest[ctl] # <<>>, Closed,
           curProc' = Last(nest[ctl]).proc, ctl' = ctl
    PROVE  GuardTypes' /\ GuardsNest' /\ ControlNests' /\ OthersWait'
<1> DEFINE s == nest[ctl]
           t == nest'[ctl]
<1>1. ctl \in Contexts /\ s \in Seq(Guards) /\ s # <<>>
  BY DEF GuardTypes
<1>2. PICK n \in Nat : n = Len(s)
  BY <1>1
<1>3. /\ t = Front(s) /\ \A c \in Contexts \ {ctl} : nest'[c] = nest[c]
      /\ nest' = [nest EXCEPT ![ctl] = Front(s)]
  BY <1>1 DEF Closed, GuardTypes
<1>4. /\ n >= 1 /\ n - 1 \in Nat /\ DOMAIN s = 1 .. n
      /\ Last(s) = s[n] /\ Last(s) \in Guards
      /\ t \in Seq(Guards) /\ Len(t) = n - 1
      /\ \A i \in 1 .. n - 1 : t[i] = s[i]
  BY <1>1, <1>2, <1>3, FrontFacts
<1>5. n \in 1 .. n /\ \A i \in 1 .. n - 1 : i \in 1 .. n
  BY <1>4
<1>0. curProc' = s[n].proc
  BY <1>4
<1> HIDE DEF s, t
<1>7. \A i \in 1 .. Len(t) - 1 : t[i + 1].proc = Within(t[i])
  <2> SUFFICES ASSUME NEW i \in 1 .. n - 2
               PROVE  t[i + 1].proc = Within(t[i])
    BY <1>2, <1>4
  <2>1. i \in 1 .. n - 1 /\ i + 1 \in 1 .. n - 1
    BY <1>4
  <2> QED
    BY <2>1, <1>1, <1>2, <1>4 DEF s, GuardsNest
<1>8. ctl \in ScriptFibers => \A i \in 1 .. Len(t) :
          (\A j \in 1 .. i - 1 : t[j].kind = "call") => t[i].proc = ctl
  <2> SUFFICES ASSUME ctl \in ScriptFibers, NEW i \in 1 .. n - 1,
                      \A j \in 1 .. i - 1 : t[j].kind = "call"
               PROVE  t[i].proc = ctl
    BY <1>4
  <2>1. \A j \in 1 .. i - 1 : j \in 1 .. n - 1
    BY <1>4
  <2>2. \A j \in 1 .. i - 1 : s[j].kind = "call"
    BY <2>1, <1>4
  <2> QED
    BY <2>2, <1>2, <1>4, <1>5 DEF s, GuardsNest
<1>9. ctl = Main => \A i \in 1 .. Len(t) : t[i].proc = Main
  BY <1>2, <1>4, <1>5 DEF s, GuardsNest
<1>10. GuardTypes'
  BY <1>0, <1>1, <1>3, <1>4, GuardFields DEF GuardTypes
<1>11. GuardsNest'
  <2>0. Main \in Contexts /\ ScriptFibers \subseteq Contexts
    BY DEF Contexts, Fibers
  <2>1. ASSUME NEW c \in Contexts
        PROVE  \A i \in 1 .. Len(nest'[c]) - 1 :
                   nest'[c][i + 1].proc = Within(nest'[c][i])
    BY <1>3, <1>7 DEF t, GuardsNest
  <2>2. ASSUME NEW f \in ScriptFibers
        PROVE  \A i \in 1 .. Len(nest'[f]) :
            (\A j \in 1 .. i - 1 : nest'[f][j].kind = "call") => nest'[f][i].proc = f
    BY <2>0, <1>3, <1>8 DEF t, GuardsNest
  <2>3. \A i \in 1 .. Len(nest'[Main]) : nest'[Main][i].proc = Main
    BY <2>0, <1>3, <1>9 DEF t, GuardsNest
  <2> QED
    BY <2>1, <2>2, <2>3 DEF GuardsNest, Within
<1>12. ControlNests'
  <2>1. t # <<>> => curProc' = Within(Last(t))
    <3> SUFFICES ASSUME t # <<>>
                 PROVE  curProc' = Within(Last(t))
      OBVIOUS
    <3>1. Last(t) = t[n - 1] /\ n - 1 \in 1 .. n - 1
      BY <1>4 DEF Last
    <3>2. s[(n - 1) + 1].proc = Within(s[n - 1])
      BY <3>1, <1>1, <1>2 DEF s, GuardsNest
    <3> QED
      BY <3>1, <3>2, <1>0, <1>4
  <2>2. ctl \in ScriptFibers /\ (\A i \in 1 .. Len(t) : t[i].kind = "call")
          => curProc' = ctl
    <3> SUFFICES ASSUME ctl \in ScriptFibers, \A i \in 1 .. Len(t) : t[i].kind = "call"
                 PROVE  curProc' = ctl
      OBVIOUS
    <3>1. \A j \in 1 .. n - 1 : s[j].kind = "call"
      BY <1>4
    <3> QED
      BY <3>1, <1>0, <1>2, <1>5 DEF s, GuardsNest
  <2>3. ctl = Main => curProc' = Main
    BY <1>0, <1>2, <1>5 DEF s, GuardsNest
  <2> QED
    BY <2>1, <2>2, <2>3 DEF t, ControlNests, Within
<1>13. OthersWait'
  <2>1. NativeFibers \subseteq Contexts /\ ScriptFibers \subseteq Contexts
    BY DEF Contexts, Fibers
  <2> QED
    BY <2>1, <1>3 DEF OthersWait
<1> QED
  BY <1>10, <1>11, <1>12, <1>13
-----------------------------------------------------------------------------
(***************************************************************************)
(* The slots on the value stacks.                                          *)
(***************************************************************************)

(* The slot on top is the one of the function that is about to return.     *)
LEMMA OwnSlotOnTop ==
    ASSUME SlotInv
    PROVE  ReturnsItsOwnSlot
<1> SUFFICES ASSUME Innermost("call")
             PROVE  /\ curProc = Last(nest[ctl]).proc
                    /\ vstack[curProc] # <<>>
                    /\ Last(vstack[curProc]) = ctl
  BY DEF ReturnsItsOwnSlot
<1> DEFINE s == nest[ctl]
           v == vstack[curProc]
<1>1. /\ ctl \in Contexts /\ curProc \in Processes
      /\ s \in Seq(Guards) /\ s # <<>> /\ v \in Seq(Contexts)
      /\ Last(s).kind = "call"
  BY DEF SlotInv, SlotTypes, GuardTypes, Innermost
<1>2. PICK n \in Nat : n = Len(s)
  BY <1>1
<1> HIDE DEF s
<1>0. DOMAIN s = 1 .. n /\ n >= 1 /\ Last(s) = s[n] /\ Last(s) \in Guards
  BY <1>1, <1>2, FrontFacts
<1>3. DOMAIN s = 1 .. n /\ n \in 1 .. n /\ Last(s) = s[n] /\ Last(s) \in Guards
  BY <1>0
<1>4. curProc = Last(s).proc
  BY <1>1 DEF s, SlotInv, ControlNests, Within
<1>5. s[n] = CallGuard(curProc)
  BY <1>1, <1>3, <1>4, GuardFields
<1>6. Occurrences(s, CallGuard(curProc)) # 0
  BY <1>1, <1>3, <1>5, CountIsNat
<1>7. Occurrences(v, ctl) # 0
  BY <1>1, <1>6 DEF s, SlotInv, SlotsAccounted
<1>8. PICK i \in DOMAIN v : v[i] = ctl
  BY <1>1, <1>7, CountIsNat
<1>9. PICK m \in Nat : m = Len(v) /\ DOMAIN v = 1 .. m
  BY <1>1
<1>10. m \in 1 .. m /\ i \in 1 .. m /\ v # <<>> /\ Last(v) = v[m]
  BY <1>8, <1>9 DEF Last
<1>11. v[m] \in {curProc, ctl} /\ (v[m] = curProc => v[i] = curProc)
  BY <1>1, <1>9, <1>10 DEF SlotInv, SlotsLayered
<1> QED
  BY <1>4, <1>8, <1>10, <1>11 DEF s

(* The functions a context has active when the discipline lets it be left  *)
(* were all called on its own process.                                     *)
CallsAreOwn ==
    \A p \in Processes \ {ctl} : \A i \in DOMAIN nest[ctl] : nest[ctl][i] # CallGuard(p)

LEMMA LeftInOrder ==
    ASSUME Disciplined, GuardTypes, GuardsNest, MaySwitch
    PROVE  /\ CallsAreOwn
           /\ ctl \in NativeFibers => nest[ctl] = <<>>
           /\ ctl \in ScriptFibers => \A i \in 1 .. Len(nest[ctl]) : nest[ctl][i].kind = "call"
<1> USE FiberAssumption
<1>1. ctl \in Contexts /\ nest[ctl] \in Seq(Guards)
  BY DEF GuardTypes
<1>2. PICK n \in Nat : n = Len(nest[ctl]) /\ DOMAIN nest[ctl] = 1 .. n
  BY <1>1
<1>3. CASE ctl = Main
  <2>1. \A i \in 1 .. n : nest[ctl][i].proc = Main
    BY <1>2, <1>3 DEF GuardsNest
  <2>2. CallsAreOwn
    BY <1>2, <1>3, <2>1, GuardFields DEF CallsAreOwn
  <2> QED
    BY <1>3, <2>2 DEF Fibers
<1>4. CASE ctl \in NativeFibers /\ nest[ctl] = <<>>
  BY <1>4 DEF CallsAreOwn
<1>5. CASE ctl \in ScriptFibers /\ \A i \in 1 .. n : nest[ctl][i].kind = "call"
  <2>1. ASSUME NEW i \in 1 .. n
        PROVE  nest[ctl][i].proc = ctl
    <3>1. \A j \in 1 .. i - 1 : nest[ctl][j].kind = "call"
      BY <1>5
    <3> QED
      BY <3>1, <1>2, <1>5 DEF GuardsNest
  <2>2. CallsAreOwn
    BY <1>2, <2>1, GuardFields DEF CallsAreOwn
  <2> QED
    BY <1>2, <1>5, <2>2
<1>6. \/ ctl = Main
      \/ ctl \in NativeFibers /\ nest[ctl] = <<>>
      \/ ctl \in ScriptFibers /\ \A i \in 1 .. n : nest[ctl][i].kind = "call"
  BY <1>2 DEF MaySwitch
<1> QED
  BY <1>3, <1>4, <1>5, <1>6, Zenon

(* Control may go to any other context that has what it waits for: the     *)
(* nesting and the slots of all contexts are as they should be there.      *)
LEMMA SwitchKeepsSlots ==
    ASSUME SlotInv, CallsAreOwn,
           ctl \in NativeFibers => nest[ctl] = <<>>,
           ctl \in ScriptFibers => \A i \in 1 .. Len(nest[ctl]) : nest[ctl][i].kind = "call",
           ctl' \in Contexts \ {ctl}, curProc' \in Processes,
           ctl' \in ScriptFibers => curProc' = ctl',
           ctl' = Main => curProc' = Main,
           UNCHANGED scopeVars
    PROVE  SlotInv'
<1> USE FiberAssumption
<1>0. nest' = nest /\ vstack' = vstack
  BY DEF scopeVars
<1>1. SlotTypes'
  BY <1>0 DEF SlotInv, SlotTypes, GuardTypes
<1>2. GuardsNest'
  BY <1>0 DEF SlotInv, GuardsNest, Within
<1>3. OthersWait'
  BY <1>0 DEF SlotInv, OthersWait
<1>4. SlotsAccounted'
  BY <1>0 DEF SlotInv, SlotsAccounted, Occurrences
<1>5. SlotsLayered'
  <2> SUFFICES ASSUME NEW p \in Processes, NEW i \in 1 .. Len(vstack[p])
               PROVE  /\ vstack[p][i] \in {p, ctl'}
                      /\ vstack[p][i] = p => \A j \in 1 .. i : vstack[p][j] = p
    BY <1>0 DEF SlotsLayered
  <2>1. /\ vstack[p][i] \in {p, ctl}
        /\ vstack[p][i] = p => \A j \in 1 .. i : vstack[p][j] = p
    BY DEF SlotInv, SlotsLayered
  <2>2. vstack[p][i] = p
    <3> SUFFICES ASSUME p # ctl, vstack[p][i] = ctl
                 PROVE  FALSE
      BY <2>1
    <3>1. /\ vstack[p] \in Seq(Contexts) /\ nest[ctl] \in Seq(Guards)
          /\ ctl \in Contexts /\ i \in DOMAIN vstack[p]
      BY DEF SlotInv, SlotTypes, GuardTypes
    <3>2. Occurrences(vstack[p], ctl) # 0
      BY <3>1, CountIsNat
    <3>3. Occurrences(nest[ctl], CallGuard(p)) # 0
      BY <3>1, <3>2 DEF SlotInv, SlotsAccounted
    <3> QED
      BY <3>1, <3>3, CountIsNat DEF CallsAreOwn
  <2> QED
    BY <2>1, <2>2
<1>6. ControlNests'
  <2> DEFINE s == nest[ctl']
  <2>1. s \in Seq(Guards)
    BY DEF SlotInv, SlotTypes, GuardTypes
  <2>2. ASSUME s # <<>> PROVE curProc' = Within(Last(s))
    <3>1. PICK n \in Nat : n = Len(s)
      BY <2>1
    <3> HIDE DEF s
    <3>0. Last(s) = s[n] /\ n >= 1
      BY <2>1, <2>2, <3>1 DEF Last
    <3>2. n \in 1 .. n /\ Last(s) = s[n] /\ n >= 1
      BY <3>0
    <3>3. CASE ctl' = Main
      <4>1. s[n].proc = Main
        BY <3>1, <3>2, <3>3 DEF s, SlotInv, GuardsNest
      <4> QED
        BY <3>2, <3>3, <4>1 DEF Within
    <3>4. CASE ctl' \in ScriptFibers
      <4>1. \A i \in 1 .. n : s[i].kind = "call"
        BY <3>1, <3>4 DEF s, SlotInv, OthersWait
      <4>2. \A j \in 1 .. n - 1 : j \in 1 .. n
        BY <3>1
      <4>3. s[n].proc = ctl'
        BY <3>1, <3>2, <3>4, <4>1, <4>2 DEF s, SlotInv, GuardsNest
      <4> QED
        BY <3>2, <3>4, <4>1, <4>3 DEF Within
    <3>5. CASE ctl' \in NativeFibers
      BY <2>2, <3>5 DEF s, SlotInv, OthersWait
    <3> QED
      BY <3>3, <3>4, <3>5 DEF Contexts, Fibers
  <2> QED
    BY <1>0, <2>2 DEF ControlNests, Within
<1> QED
  BY <1>1, <1>2, <1>3, <1>4, <1>5, <1>6 DEF SlotInv
-----------------------------------------------------------------------------
(***************************************************************************)
(* The four operations on guards.                                          *)
(***************************************************************************)

(* They leave the scheduler's variables but current_process alone.         *)
LEMMA SameFiberKeeps ==
    ASSUME TypeOK, SwitchesReturn, SameFiber, curProc' \in Processes
    PROVE  TypeOK' /\ SwitchesReturn' /\ ctl' = ctl
BY DEF TypeOK, SwitchesReturn, SameFiber, RunningIsOnChain, ReturnsToItsResumer,
       OnChain, Top, Below

(* A scope guard is no slot.                                               *)
LEMMA ScopesHoldNoSlot ==
    ASSUME SlotInv, nest' \in [Contexts -> Seq(Guards)], vstack' = vstack, ctl' = ctl,
           \A c \in Contexts : \A p \in Processes :
               Occurrences(nest'[c], CallGuard(p)) = Occurrences(nest[c], CallGuard(p))
    PROVE  SlotsAccounted' /\ SlotsLayered'
<1>1. SlotsAccounted'
  BY DEF SlotInv, SlotsAccounted, Occurrences, CallGuard
<1>2. SlotsLayered'
  BY DEF SlotInv, SlotsLayered
<1> QED
  BY <1>1, <1>2

LEMMA OpenScopeInv == ScopeIInv /\ OpenScope => ScopeIInv'
<1> SUFFICES ASSUME ScopeIInv, OpenScope
             PROVE  ScopeIInv'
  OBVIOUS
<1> DEFINE g == ScopeGuard(curProc)
<1>1. SlotInv /\ SlotTypes /\ GuardTypes /\ Main \in Processes /\ curProc \in Processes
  BY DEF ScopeIInv, SlotInv, SlotTypes, GuardTypes, Processes
<1>2. g \in Guards /\ g.proc = curProc /\ g.kind = "scope" /\ Within(g) = Main
  BY <1>1, GuardFields
<1>3. curProc' = Main /\ Opened(g) /\ SameFiber /\ vstack' = vstack
  BY DEF OpenScope
<1>4. TypeOK' /\ SwitchesReturn' /\ ctl' = ctl
  BY <1>1, <1>3, SameFiberKeeps DEF ScopeIInv
<1>5. \A p : g # CallGuard(p)
  BY <1>2, GuardFields
<1> HIDE DEF g
<1>6. GuardTypes' /\ GuardsNest' /\ ControlNests' /\ OthersWait'
  BY <1>1, <1>2, <1>3, <1>4, OpenKeepsNests DEF SlotInv
<1>7. /\ nest'[ctl] = Append(nest[ctl], g)
      /\ \A c \in Contexts \ {ctl} : nest'[c] = nest[c]
  BY <1>1, <1>3 DEF Opened, GuardTypes
<1>8. ASSUME NEW p \in Processes
      PROVE  Occurrences(nest'[ctl], CallGuard(p)) = Occurrences(nest[ctl], CallGuard(p))
  <2>1. nest[ctl] \in Seq(Guards)
    BY <1>1 DEF GuardTypes
  <2> QED
    BY <2>1, <1>2, <1>5, <1>7, CountAfterAppend
<1>9. SlotsAccounted' /\ SlotsLayered'
  <2>1. \A c \in Contexts : \A p \in Processes :
            Occurrences(nest'[c], CallGuard(p)) = Occurrences(nest[c], CallGuard(p))
    BY <1>7, <1>8
  <2> QED
    BY <2>1, <1>1, <1>3, <1>4, <1>6, ScopesHoldNoSlot DEF GuardTypes
<1> QED
  BY <1>1, <1>3, <1>4, <1>6, <1>9 DEF ScopeIInv, SlotInv, SlotTypes

LEMMA CloseScopeInv == ScopeIInv /\ CloseScope => ScopeIInv'
<1> SUFFICES ASSUME ScopeIInv, CloseScope
             PROVE  ScopeIInv'
  OBVIOUS
<1> DEFINE s == nest[ctl]
<1>1. /\ SlotInv /\ SlotTypes /\ GuardTypes
      /\ ctl \in Contexts /\ s \in Seq(Guards) /\ s # <<>> /\ Last(s).kind = "scope"
  BY DEF ScopeIInv, SlotInv, SlotTypes, GuardTypes, CloseScope, Innermost
<1>2. Last(s) \in Guards /\ Front(s) \in Seq(Guards)
  BY <1>1, FrontFacts
<1>3. curProc' = Last(s).proc /\ Closed /\ SameFiber /\ vstack' = vstack
  BY DEF CloseScope
<1>4. TypeOK' /\ SwitchesReturn' /\ ctl' = ctl
  BY <1>2, <1>3, GuardFields, SameFiberKeeps DEF ScopeIInv
<1>5. \A p : Last(s) # CallGuard(p)
  BY <1>1, <1>2, GuardFields
<1>6. GuardTypes' /\ GuardsNest' /\ ControlNests' /\ OthersWait'
  BY <1>1, <1>3, <1>4, CloseKeepsNests DEF SlotInv
<1>7. nest'[ctl] = Front(s) /\ \A c \in Contexts \ {ctl} : nest'[c] = nest[c]
  BY <1>1, <1>3 DEF Closed, GuardTypes
<1>8. ASSUME NEW p \in Processes
      PROVE  Occurrences(nest'[ctl], CallGuard(p)) = Occurrences(nest[ctl], CallGuard(p))
  BY <1>1, <1>5, <1>7, CountAfterFront
<1>9. SlotsAccounted' /\ SlotsLayered'
  <2>1. \A c \in Contexts : \A p \in Processes :
            Occurrences(nest'[c], CallGuard(p)) = Occurrences(nest[c], CallGuard(p))
    BY <1>7, <1>8
  <2> QED
    BY <2>1, <1>1, <1>3, <1>4, <1>6, ScopesHoldNoSlot DEF GuardTypes
<1> QED
  BY <1>1, <1>3, <1>4, <1>6, <1>9 DEF ScopeIInv, SlotInv, SlotTypes

(* A call pushes its slot on the stack it is then accounted on.            *)
LEMMA CallFunctionInv == ScopeIInv /\ CallFunction => ScopeIInv'
<1> SUFFICES ASSUME ScopeIInv, CallFunction
             PROVE  ScopeIInv'
  OBVIOUS
<1> DEFINE g == CallGuard(curProc)
           v == vstack[curProc]
<1>1. /\ SlotInv /\ SlotTypes /\ GuardTypes
      /\ ctl \in Contexts /\ curProc \in Processes
      /\ nest[ctl] \in Seq(Guards) /\ v \in Seq(Contexts)
  BY DEF ScopeIInv, SlotInv, SlotTypes, GuardTypes
<1>2. g \in Guards /\ g.proc = curProc /\ Within(g) = curProc
  BY <1>1, GuardFields
<1>3. /\ curProc' = curProc /\ Opened(g) /\ SameFiber
      /\ vstack' = [vstack EXCEPT ![curProc] = Append(v, ctl)]
  BY DEF CallFunction
<1>4. TypeOK' /\ SwitchesReturn' /\ ctl' = ctl
  BY <1>1, <1>3, SameFiberKeeps DEF ScopeIInv
<1>5. \A p : g = CallGuard(p) <=> p = curProc
  BY <1>2, GuardFields
<1> HIDE DEF g
<1>6. GuardTypes' /\ GuardsNest' /\ ControlNests' /\ OthersWait'
  BY <1>1, <1>2, <1>3, <1>4, OpenKeepsNests DEF SlotInv
<1>7. /\ nest'[ctl] = Append(nest[ctl], g)
      /\ \A c \in Contexts \ {ctl} : nest'[c] = nest[c]
  BY <1>1, <1>3 DEF Opened, GuardTypes
<1>8. /\ vstack'[curProc] = Append(v, ctl)
      /\ \A p \in Processes \ {curProc} : vstack'[p] = vstack[p]
      /\ vstack' \in [Processes -> Seq(Contexts)]
  <2>1. Append(v, ctl) \in Seq(Contexts)
    BY <1>1
  <2> QED
    BY <2>1, <1>1, <1>3 DEF SlotTypes
<1>9. SlotsAccounted'
  <2> SUFFICES ASSUME NEW p \in Processes, NEW c \in Contexts
               PROVE  Occurrences(vstack'[p], c) = Occurrences(nest'[c], CallGuard(p))
    BY DEF SlotsAccounted, Occurrences, CallGuard
  <2>1. Occurrences(vstack[p], c) = Occurrences(nest[c], CallGuard(p))
    BY <1>1 DEF SlotInv, SlotsAccounted
  <2>2. Occurrences(vstack'[p], c) = IF p = curProc /\ c = ctl
                                     THEN Occurrences(vstack[p], c) + 1
                                     ELSE Occurrences(vstack[p], c)
    <3>1. CASE p = curProc
      BY <3>1, <1>1, <1>8, CountAfterAppend
    <3>2. CASE p # curProc
      BY <3>2, <1>8
    <3> QED
      BY <3>1, <3>2
  <2>3. Occurrences(nest'[c], CallGuard(p)) = IF p = curProc /\ c = ctl
                                              THEN Occurrences(nest[c], CallGuard(p)) + 1
                                              ELSE Occurrences(nest[c], CallGuard(p))
    <3>1. CASE c = ctl
      BY <3>1, <1>1, <1>2, <1>5, <1>7, CountAfterAppend
    <3>2. CASE c # ctl
      BY <3>2, <1>7
    <3> QED
      BY <3>1, <3>2
  <2> QED
    BY <2>1, <2>2, <2>3
<1>10. SlotsLayered'
  <2> SUFFICES ASSUME NEW p \in Processes, NEW i \in 1 .. Len(vstack'[p])
               PROVE  /\ vstack'[p][i] \in {p, ctl}
                      /\ vstack'[p][i] = p => \A j \in 1 .. i : vstack'[p][j] = p
    BY <1>4 DEF SlotsLayered
  <2>0. \A k \in 1 .. Len(vstack[p]) :
            /\ vstack[p][k] \in {p, ctl}
            /\ vstack[p][k] = p => \A j \in 1 .. k : vstack[p][j] = p
    BY <1>1 DEF SlotInv, SlotsLayered
  <2>1. CASE p # curProc
    BY <2>0, <2>1, <1>8
  <2>2. CASE p = curProc
    <3>1. PICK m \in Nat : m = Len(v) /\ DOMAIN v = 1 .. m
      BY <1>1
    <3>2. /\ Len(vstack'[p]) = m + 1 /\ vstack'[p][m + 1] = ctl
          /\ \A k \in 1 .. m : vstack'[p][k] = v[k]
      BY <2>2, <3>1, <1>1, <1>8, AppendFacts
    <3>3. \A k \in 1 .. m + 1 : k = m + 1 \/ k \in 1 .. m
      BY <3>1
    <3>4. i \in 1 .. m + 1
      BY <3>2
    <3>5. CASE i \in 1 .. m
      <4>1. \A j \in 1 .. i : j \in 1 .. m
        BY <3>1, <3>5
      <4> QED
        BY <4>1, <2>0, <2>2, <3>1, <3>2, <3>5
    <3>6. CASE i = m + 1
      <4>1. vstack'[p][i] = ctl
        BY <3>2, <3>6
      <4>2. ASSUME ctl = p, NEW j \in 1 .. m + 1
            PROVE  vstack'[p][j] = p
        BY <4>2, <2>0, <2>2, <3>1, <3>2, <3>3
      <4> QED
        BY <4>1, <4>2, <3>6
    <3> QED
      BY <3>3, <3>4, <3>5, <3>6
  <2> QED
    BY <2>1, <2>2
<1> QED
  BY <1>4, <1>6, <1>8, <1>9, <1>10 DEF ScopeIInv, SlotInv, SlotTypes

(* A return takes its own slot off.                                        *)
LEMMA ReturnFunctionInv == ScopeIInv /\ ReturnFunction => ScopeIInv'
<1> SUFFICES ASSUME ScopeIInv, ReturnFunction
             PROVE  ScopeIInv'
  OBVIOUS
<1> DEFINE s == nest[ctl]
           v == vstack[curProc]
<1>0. SlotInv /\ Innermost("call")
  BY DEF ScopeIInv, ReturnFunction
<1>1. /\ SlotTypes /\ GuardTypes
      /\ ctl \in Contexts /\ curProc \in Processes
      /\ s \in Seq(Guards) /\ s # <<>> /\ Last(s).kind = "call" /\ v \in Seq(Contexts)
  BY <1>0 DEF SlotInv, SlotTypes, GuardTypes, Innermost
<1>2. curProc = Last(s).proc /\ v # <<>> /\ Last(v) = ctl
  BY <1>0, OwnSlotOnTop DEF ReturnsItsOwnSlot
<1>3. /\ curProc' = Last(s).proc /\ Closed /\ SameFiber
      /\ vstack' = [vstack EXCEPT ![curProc] = Front(v)]
  BY <1>1, <1>2 DEF ReturnFunction, SlotTypes
<1>4. TypeOK' /\ SwitchesReturn' /\ ctl' = ctl
  BY <1>1, <1>2, <1>3, SameFiberKeeps DEF ScopeIInv
<1>5. Last(s) \in Guards /\ Front(s) \in Seq(Guards) /\ Front(v) \in Seq(Contexts)
  <2>1. Last(s) \in Guards /\ Front(s) \in Seq(Guards)
    BY <1>1, FrontFacts
  <2>2. Front(v) \in Seq(Contexts)
    BY <1>1, <1>2, FrontFacts
  <2> QED
    BY <2>1, <2>2
<1>6. GuardTypes' /\ GuardsNest' /\ ControlNests' /\ OthersWait'
  BY <1>0, <1>1, <1>3, <1>4, CloseKeepsNests DEF SlotInv
<1>7. nest'[ctl] = Front(s) /\ \A c \in Contexts \ {ctl} : nest'[c] = nest[c]
  BY <1>1, <1>3 DEF Closed, GuardTypes
<1>8. /\ vstack'[curProc] = Front(v)
      /\ \A p \in Processes \ {curProc} : vstack'[p] = vstack[p]
      /\ vstack' \in [Processes -> Seq(Contexts)]
  BY <1>1, <1>3, <1>5 DEF SlotTypes
<1>9. SlotsAccounted'
  <2> SUFFICES ASSUME NEW p \in Processes, NEW c \in Contexts
               PROVE  Occurrences(vstack'[p], c) = Occurrences(nest'[c], CallGuard(p))
    BY DEF SlotsAccounted, Occurrences, CallGuard
  <2>0. /\ Occurrences(vstack'[p], c) \in Nat /\ Occurrences(nest'[c], CallGuard(p)) \in Nat
    BY <1>6, <1>8, CountIsNat DEF GuardTypes
  <2>1. Occurrences(vstack[p], c) = Occurrences(nest[c], CallGuard(p))
    BY <1>0 DEF SlotInv, SlotsAccounted
  <2>2. Occurrences(vstack[p], c) = IF p = curProc /\ c = ctl
                                    THEN Occurrences(vstack'[p], c) + 1
                                    ELSE Occurrences(vstack'[p], c)
    <3>1. CASE p = curProc
      BY <3>1, <1>1, <1>2, <1>8, CountAfterFront
    <3>2. CASE p # curProc
      BY <3>2, <1>8
    <3> QED
      BY <3>1, <3>2
  <2>3. Occurrences(nest[c], CallGuard(p)) = IF p = curProc /\ c = ctl
                                             THEN Occurrences(nest'[c], CallGuard(p)) + 1
                                             ELSE Occurrences(nest'[c], CallGuard(p))
    <3>0. Last(s) = CallGuard(p) <=> p = curProc
      BY <1>1, <1>2, <1>5, GuardFields
    <3>1. CASE c = ctl
      BY <3>0, <3>1, <1>1, <1>7, CountAfterFront
    <3>2. CASE c # ctl
      BY <3>2, <1>7
    <3> QED
      BY <3>1, <3>2
  <2> DEFINE a == Occurrences(vstack'[p], c)
             b == Occurrences(nest'[c], CallGuard(p))
             own == p = curProc /\ c = ctl
  <2>4. (IF own THEN a + 1 ELSE a) = (IF own THEN b + 1 ELSE b)
    BY <2>1, <2>2, <2>3
  <2>5. a \in Nat /\ b \in Nat
    BY <2>0
  <2> HIDE DEF a, b, own
  <2>6. a = b
    BY <2>4, <2>5
  <2> QED
    BY <2>6 DEF a, b
<1>10. SlotsLayered'
  <2> SUFFICES ASSUME NEW p \in Processes, NEW i \in 1 .. Len(vstack'[p])
               PROVE  /\ vstack'[p][i] \in {p, ctl}
                      /\ vstack'[p][i] = p => \A j \in 1 .. i : vstack'[p][j] = p
    BY <1>4 DEF SlotsLayered
  <2>0. \A k \in 1 .. Len(vstack[p]) :
            /\ vstack[p][k] \in {p, ctl}
            /\ vstack[p][k] = p => \A j \in 1 .. k : vstack[p][j] = p
    BY <1>0 DEF SlotInv, SlotsLayered
  <2>1. CASE p # curProc
    BY <2>0, <2>1, <1>8
  <2>2. CASE p = curProc
    <3>1. PICK m \in Nat : m = Len(v)
      BY <1>1
    <3>2. /\ Len(vstack'[p]) = m - 1 /\ m >= 1
          /\ \A k \in 1 .. m - 1 : vstack'[p][k] = v[k]
      BY <2>2, <3>1, <1>1, <1>2, <1>8, FrontFacts
    <3>3. i \in 1 .. m - 1 /\ i \in 1 .. m /\ \A j \in 1 .. i : j \in 1 .. m - 1
      BY <3>1, <3>2
    <3> QED
      BY <2>0, <2>2, <3>1, <3>2, <3>3
  <2> QED
    BY <2>1, <2>2
<1> QED
  BY <1>4, <1>6, <1>8, <1>9, <1>10 DEF ScopeIInv, SlotInv, SlotTypes
-----------------------------------------------------------------------------
(***************************************************************************)
(* The switches, and the steps that stay where they are.                   *)
(***************************************************************************)

(* A fiber is entered.                                                     *)
LEMMA ResumeInv ==
    ASSUME ScopeIInv, Disciplined, MaySwitch,
           NEW f \in Fibers, ResumeSwitch(f), UNCHANGED scopeVars
    PROVE  ScopeIInv'
<1> USE FiberAssumption
<1>1. /\ TypeOK /\ SwitchTypes /\ WaitTypes /\ SlotInv /\ GuardTypes
      /\ RunningIsOnChain /\ ReturnsToItsResumer
      /\ chain # <<>> => resumer[chain[1]] = Main
  BY TypesSplit DEF ScopeIInv, SwitchesReturn, SlotInv, SlotTypes
<1>2. SwitchIn(f) /\ state[f] # "running"
  BY DEF ResumeSwitch, Runnable
<1>3. SwitchTypes' /\ RunningIsOnChain' /\ ReturnsToItsResumer'
  BY <1>1, <1>2, SwitchInKeepsLinks
<1>4. WaitTypes'
  BY <1>1, SkipAssumption DEF ResumeSwitch, WaitTypes, Outcomes
<1>5. TypeOK'
  BY <1>3, <1>4, TypesSplitNext
<1>6. PICK n \in Nat : n = Len(chain)
  BY <1>1 DEF SwitchTypes
<1>7. /\ chain'[n + 1] = f /\ \A i \in 1..n : chain'[i] = chain[i] /\ chain[i] # f
      /\ ctl = IF n = 0 THEN Main ELSE chain[n]
  BY <1>1, <1>2, <1>6, EnteredChain
<1>8. ctl' = f /\ resumer' = [resumer EXCEPT ![f] = curProc]
      /\ curProc' = IF f \in ScriptFibers THEN f ELSE curProc
  BY <1>2 DEF SwitchIn, CaptureProcess, SwapIn
<1>9. ctl' \in Contexts \ {ctl} /\ ctl' # Main
  <2>1. ctl # f
    BY <1>6, <1>7
  <2> QED
    BY <2>1, <1>8 DEF Contexts
<1>10. resumer'[chain'[1]] = Main
  <2>1. CASE n = 0
    <3>1. ctl = Main /\ curProc = Main /\ chain'[1] = f
      BY <2>1, <1>1, <1>7 DEF SlotInv, ControlNests
    <3> QED
      BY <3>1, <1>1, <1>8 DEF SwitchTypes
  <2>2. CASE n # 0
    <3>1. 1 \in 1..n /\ chain # <<>>
      BY <2>2, <1>6
    <3>2. chain'[1] = chain[1] /\ chain[1] # f
      BY <3>1, <1>7
    <3> QED
      BY <3>1, <3>2, <1>1, <1>8 DEF SwitchTypes
  <2> QED
    BY <2>1, <2>2
<1>11. SlotInv'
  <2>1. /\ CallsAreOwn
        /\ ctl \in NativeFibers => nest[ctl] = <<>>
        /\ ctl \in ScriptFibers => \A i \in 1 .. Len(nest[ctl]) : nest[ctl][i].kind = "call"
    BY <1>1, LeftInOrder DEF SlotInv
  <2>2. curProc' \in Processes /\ (ctl' \in ScriptFibers => curProc' = ctl')
    BY <1>5, <1>8 DEF TypeOK
  <2> QED
    BY <2>1, <2>2, <1>1, <1>9, SwitchKeepsSlots
<1> QED
  BY <1>3, <1>5, <1>10, <1>11 DEF ScopeIInv, SwitchesReturn

(* The fiber on top leaves, by yielding or by ending.                      *)
LEMMA LeaveKeepsScopes ==
    ASSUME ScopeIInv, chain # <<>>, CallsAreOwn,
           ctl \in NativeFibers => nest[ctl] = <<>>,
           ctl \in ScriptFibers => \A i \in 1 .. Len(nest[ctl]) : nest[ctl][i].kind = "call",
           NEW s \in {"suspended", "finished", "destroyed"}, LeaveAs(s),
           UNCHANGED <<rem, skip, at>>, outcome' \in Outcomes, UNCHANGED scopeVars
    PROVE  ScopeIInv'
<1> USE FiberAssumption
<1>1. /\ TypeOK /\ SwitchTypes /\ WaitTypes /\ SlotInv
      /\ RunningIsOnChain /\ ReturnsToItsResumer
      /\ resumer[chain[1]] = Main
  BY TypesSplit DEF ScopeIInv, SwitchesReturn
<1>2. SwitchTypes' /\ RunningIsOnChain' /\ ReturnsToItsResumer'
  <2>1. s \in States \ {"running"}
    BY DEF States
  <2> QED
    BY <2>1, <1>1, SwitchOutKeepsLinks
<1>3. WaitTypes'
  BY <1>1 DEF WaitTypes, LeaveAs
<1>4. TypeOK'
  BY <1>2, <1>3, TypesSplitNext
<1>5. PICK n \in Nat : n = Len(chain)
  BY <1>1 DEF SwitchTypes
<1>6. /\ n >= 1 /\ chain[n] \in Fibers /\ Top = chain[n] /\ ctl' = Below(n)
      /\ curProc' = IF Below(n) \in ScriptFibers THEN Below(n) ELSE resumer[chain[n]]
      /\ resumer' = resumer
  BY <1>1, <1>5, SwitchOutTarget
<1>7. /\ Len(chain') = n - 1 /\ \A i \in 1..(n - 1) : chain'[i] = chain[i]
      /\ \A i \in 1..(n - 1) : chain[i] # chain[n]
      /\ Below(n) = IF n = 1 THEN Main ELSE chain'[n - 1]
  BY <1>1, <1>5, LeftChain
<1>8. ctl = chain[n]
  BY <1>1, <1>6 DEF RunningIsOnChain
<1>9. ctl' \in Contexts \ {ctl}
  <2>1. CASE n = 1
    BY <2>1, <1>6, <1>7, <1>8 DEF Contexts
  <2>2. CASE n # 1
    <3>1. n - 1 \in 1..(n - 1)
      BY <2>2, <1>6
    <3>2. ctl' = chain[n - 1] /\ chain[n - 1] # chain[n]
      BY <2>2, <3>1, <1>6, <1>7
    <3> QED
      BY <3>2, <1>4, <1>8 DEF TypeOK
  <2> QED
    BY <2>1, <2>2
<1>10. ctl' = Main => curProc' = Main
  <2> SUFFICES ASSUME ctl' = Main PROVE curProc' = Main
    OBVIOUS
  <2>1. n = 1
    <3> SUFFICES ASSUME n # 1 PROVE FALSE
      OBVIOUS
    <3>1. n - 1 \in 1..n /\ n - 1 \in 1..(n - 1)
      BY <1>6
    <3>2. chain[n - 1] \in Fibers /\ ctl' = chain[n - 1]
      BY <3>1, <1>1, <1>5, <1>6, <1>7 DEF SwitchTypes
    <3> QED
      BY <3>2
  <2> QED
    BY <2>1, <1>1, <1>6 DEF Fibers
<1>11. SlotInv'
  <2>1. curProc' \in Processes /\ (ctl' \in ScriptFibers => curProc' = ctl')
    BY <1>4, <1>6 DEF TypeOK
  <2> QED
    BY <2>1, <1>1, <1>9, <1>10, SwitchKeepsSlots
<1>12. chain' # <<>> => resumer'[chain'[1]] = Main
  <2> SUFFICES ASSUME chain' # <<>> PROVE resumer[chain'[1]] = Main
    BY <1>6
  <2>1. 1 \in 1..(n - 1)
    BY <1>2, <1>5, <1>7 DEF SwitchTypes
  <2> QED
    BY <2>1, <1>1, <1>7
<1> QED
  BY <1>2, <1>4, <1>11, <1>12 DEF ScopeIInv, SwitchesReturn

LEMMA SwitchStepInv ==
    ASSUME Disciplined
    PROVE  ScopeIInv /\ SwitchStep => ScopeIInv'
<1> SUFFICES ASSUME ScopeIInv, SwitchStep
             PROVE  ScopeIInv'
  OBVIOUS
<1>1. MaySwitch /\ UNCHANGED scopeVars
  BY DEF SwitchStep
<1>2. ASSUME NEW f \in Fibers, ResumeSwitch(f)
      PROVE  ScopeIInv'
  BY <1>1, <1>2, ResumeInv
<1>3. CASE Yield
  <2>1. GuardTypes /\ GuardsNest
    BY DEF ScopeIInv, SlotInv, SlotTypes
  <2>2. /\ CallsAreOwn
        /\ ctl \in NativeFibers => nest[ctl] = <<>>
        /\ ctl \in ScriptFibers => \A i \in 1 .. Len(nest[ctl]) : nest[ctl][i].kind = "call"
    BY <2>1, <1>1, LeftInOrder
  <2>3. chain # <<>> /\ SwitchOut("suspended", "ok") /\ UNCHANGED <<rem, skip, at>>
    BY <1>3 DEF Yield
  <2>4. LeaveAs(EndState("suspended")) /\ outcome' \in {"ok", "undefined"}
    BY <2>3, SwitchOutLeaves
  <2>5. EndState("suspended") \in {"suspended", "finished", "destroyed"} /\ outcome' \in Outcomes
    BY <2>4 DEF EndState, Outcomes
  <2> QED
    BY <2>2, <2>3, <2>4, <2>5, <1>1, LeaveKeepsScopes
<1> QED
  BY <1>2, <1>3 DEF SwitchStep

LEMMA FinishKeepsScopes ==
    ASSUME ScopeIInv, NEW threw \in BOOLEAN, nest[ctl] = <<>>, Finish(threw),
           UNCHANGED scopeVars
    PROVE  ScopeIInv'
<1> DEFINE result == IF threw THEN "task_error" ELSE "ok"
<1>4. chain # <<>> /\ SwitchOut("finished", result) /\ UNCHANGED <<rem, skip, at>>
  BY DEF Finish
<1>5. result \in {"ok", "task_error"}
  OBVIOUS
<1> HIDE DEF result
<1>1. LeaveAs(EndState("finished")) /\ outcome' \in {result, "undefined"}
  BY <1>4, SwitchOutLeaves
<1>6. EndState("finished") \in {"suspended", "finished", "destroyed"} /\ outcome' \in Outcomes
  BY <1>1, <1>5 DEF EndState, Outcomes
<1>2. CallsAreOwn
  BY DEF CallsAreOwn
<1>3. \A i \in 1 .. Len(nest[ctl]) : nest[ctl][i].kind = "call"
  OBVIOUS
<1> QED
  BY <1>1, <1>2, <1>3, <1>4, <1>6, LeaveKeepsScopes

(* The states of fibers may change as long as the same ones run.           *)
LEMMA StayKeepsScopes ==
    ASSUME ScopeIInv, state' \in [Fibers -> States],
           \A f \in Fibers : state'[f] = "running" <=> state[f] = "running",
           outcome' \in Outcomes, held' \in SUBSET Fibers,
           UNCHANGED <<chain, ctl, prevCtx, callee, resumer, curProc, fiberSp, rem,
                       skip, at>>,
           UNCHANGED scopeVars
    PROVE  ScopeIInv'
<1>1. TypeOK'
  BY DEF ScopeIInv, TypeOK
<1>2. SwitchesReturn'
  BY DEF ScopeIInv, SwitchesReturn, RunningIsOnChain, ReturnsToItsResumer,
         OnChain, Top, Below
<1>3. SlotInv'
  <2>1. UNCHANGED <<nest, vstack, ctl, curProc>> /\ SlotInv
    BY DEF ScopeIInv, scopeVars
  <2>2. SlotTypes' /\ GuardsNest' /\ ControlNests' /\ OthersWait'
    BY <2>1 DEF SlotInv, SlotTypes, GuardTypes, GuardsNest, ControlNests, OthersWait, Within
  <2>3. SlotsAccounted' /\ SlotsLayered'
    BY <2>1 DEF SlotInv, SlotsAccounted, SlotsLayered, Occurrences
  <2> QED
    BY <2>2, <2>3 DEF SlotInv
<1> QED
  BY <1>1, <1>2, <1>3 DEF ScopeIInv

LEMMA OtherStepInv == ScopeIInv /\ OtherStep => ScopeIInv'
<1> SUFFICES ASSUME ScopeIInv, OtherStep
             PROVE  ScopeIInv'
  OBVIOUS
<1>1. UNCHANGED scopeVars /\ TypeOK
  BY DEF OtherStep, ScopeIInv
<1>2. ASSUME NEW f \in Fibers, Create(f)
      PROVE  ScopeIInv'
  <2>1. /\ state[f] = "unborn" /\ state' = [state EXCEPT ![f] = "ready"]
        /\ outcome' = "ok" /\ held' = held \cup {f}
        /\ UNCHANGED <<chain, ctl, prevCtx, callee, resumer, curProc, fiberSp, rem,
                       skip, at>>
    BY <1>2 DEF Create
  <2>2. /\ state' \in [Fibers -> States] /\ outcome' \in Outcomes /\ held' \in SUBSET Fibers
        /\ \A h \in Fibers : state'[h] = "running" <=> state[h] = "running"
    BY <2>1, <1>1 DEF TypeOK, States, Outcomes
  <2> QED
    BY <2>1, <2>2, <1>1, StayKeepsScopes
<1>3. ASSUME NEW f \in Fibers, ResumeRejected(f)
      PROVE  ScopeIInv'
  <2>1. /\ state' = state /\ outcome' \in Outcomes /\ held' = held
        /\ UNCHANGED <<chain, ctl, prevCtx, callee, resumer, curProc, fiberSp, rem,
                       skip, at>>
    BY <1>3 DEF ResumeRejected, Outcomes
  <2> QED
    BY <2>1, <1>1, StayKeepsScopes DEF TypeOK
<1>4. ASSUME nest[ctl] = <<>>, NEW threw \in BOOLEAN, Finish(threw)
      PROVE  ScopeIInv'
  BY <1>1, <1>4, FinishKeepsScopes
<1> QED
  BY <1>2, <1>3, <1>4 DEF OtherStep

LEMMA ScopeInitInv == ScopeInit => ScopeIInv
<1> SUFFICES ASSUME ScopeInit
             PROVE  ScopeIInv
  OBVIOUS
<1>1. FiberInv
  BY InitInv DEF ScopeInit
<1>2. TypeOK /\ RunningIsOnChain /\ ReturnsToItsResumer
  BY <1>1 DEF FiberInv, ChainInv
<1>3. SwitchesReturn
  BY <1>2 DEF ScopeInit, Init, SwitchesReturn
<1>4. /\ \A c \in Contexts : nest[c] = <<>>
      /\ \A p \in Processes : vstack[p] = <<>>
      /\ ctl = Main /\ curProc = Main
      /\ ctl \in Contexts /\ curProc \in Processes
      /\ nest \in [Contexts -> Seq(Guards)] /\ vstack \in [Processes -> Seq(Contexts)]
  BY DEF ScopeInit, Init, Contexts, Processes
<1>5. NativeFibers \subseteq Contexts /\ ScriptFibers \subseteq Contexts /\ Main \in Contexts
  BY DEF Contexts, Fibers
<1>6. SlotTypes
  BY <1>4 DEF SlotTypes, GuardTypes
<1>7. GuardsNest /\ ControlNests /\ OthersWait
  BY <1>4, <1>5 DEF GuardsNest, ControlNests, OthersWait
<1>8. SlotsAccounted /\ SlotsLayered
  <2>1. \A x : Occurrences(<<>>, x) = 0
    <3>1. <<>> \in Seq(Contexts) /\ DOMAIN <<>> = {}
      OBVIOUS
    <3> QED
      BY <3>1, CountIsNat
  <2>2. SlotsAccounted
    BY <1>4, <2>1 DEF SlotsAccounted
  <2> QED
    BY <1>4, <2>2 DEF SlotsLayered
<1> QED
  BY <1>2, <1>3, <1>6, <1>7, <1>8 DEF ScopeIInv, SlotInv

LEMMA ScopeNextInv ==
    ASSUME Disciplined
    PROVE  ScopeIInv /\ [ScopeNext]_scopeAllVars => ScopeIInv'
<1>1. ASSUME ScopeIInv, UNCHANGED scopeAllVars
      PROVE  ScopeIInv'
  <2>1. UNCHANGED vars /\ UNCHANGED scopeVars
    BY <1>1 DEF scopeAllVars
  <2>2. state' = state /\ outcome' = outcome /\ held' = held
        /\ UNCHANGED <<chain, ctl, prevCtx, callee, resumer, curProc, fiberSp, rem,
                       skip, at>>
    BY <2>1 DEF vars
  <2> QED
    BY <2>1, <2>2, <1>1, StayKeepsScopes DEF ScopeIInv, TypeOK
<1> QED
  BY <1>1, OpenScopeInv, CloseScopeInv, CallFunctionInv, ReturnFunctionInv,
     SwitchStepInv, OtherStepInv DEF ScopeNext
-----------------------------------------------------------------------------
(***************************************************************************)
(* The theorems.  Their hypothesis is the discipline of MaySwitch: without *)
(* it a native fiber may yield between the call and the return of a        *)
(* function, and the slots of two contexts interleave on one stack.        *)
(***************************************************************************)

(* The inductive invariant holds in every state (process_run_scope and     *)
(* fcall_guard under cs_swap_in, cs_swap_out).                             *)
THEOREM ScopeInvariant ==
    ASSUME Disciplined
    PROVE  ScopeSpec => []ScopeIInv
<1>1. ScopeIInv /\ [ScopeNext]_scopeAllVars => ScopeIInv'
  BY ScopeNextInv
<1> QED
  BY <1>1, ScopeInitInv, PTL DEF ScopeSpec

(* A function returns its result through the slot it pushed, on the stack  *)
(* it pushed it on, whatever fibers were switched to in between, and no    *)
(* slot is left behind.                                                    *)
THEOREM ScopeCorrect ==
    ASSUME Disciplined
    PROVE  ScopeSpec => []ScopeInv
<1>1. ScopeIInv => ScopeInv
  BY OwnSlotOnTop DEF ScopeIInv, ScopeInv, ScopeTypeOK, SlotInv, SlotTypes, GuardTypes
<1>2. ScopeSpec => []ScopeIInv
  BY ScopeInvariant
<1> QED
  BY <1>1, <1>2, PTL

=============================================================================
