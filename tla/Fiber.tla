------------------------------- MODULE Fiber -------------------------------
(***************************************************************************)
(* The fiber scheduler of the Covariant Script runtime: fiber::create,     *)
(* resume, yield and sleep_for (sources/system/unix/common.cpp, the same   *)
(* control on win32), the per-thread fiber chain fiber_context::stack, and *)
(* the two pieces of interpreter state a switch rebinds: current_process   *)
(* (whose value stack calls use) and the instance's fiber stack pointer    *)
(* (whose domains variables live in).                                      *)
(*                                                                         *)
(* One OS thread; a "context" is the thread's own stack (Main) or a fiber. *)
(* What a context's code does between two calls of the fiber API is left   *)
(* open: whenever it has control and is not inside an API call it may make *)
(* any call.  A process is named after the script fiber that forked it;    *)
(* Main names the root process, and, as a domain stack, the instance's own *)
(* m_data (fiber_stack == nullptr).                                        *)
(*                                                                         *)
(* Time is kept as what remains: rem[c] is the number of clock ticks until *)
(* context c's wake_up_time, 0 once it has passed.                         *)
(***************************************************************************)
EXTENDS Integers, Sequences

CONSTANTS ScriptFibers,  \* fibers made by fiber::create: own process, own domain stack
          NativeFibers,  \* fibers made by fiber::create_native: neither of the two
          Main,          \* the thread's own context, its process and its domain stack
          None,          \* no context, no fiber, no process
          SleepMs,       \* durations, in milliseconds, passed to sleep_for
          TicksPerMs,    \* resolution of steady_clock: ticks per millisecond
          BusyWaitMin,   \* fiber_context::busy_wait_min, in milliseconds
          CoefNum,       \* fiber_context::busy_wait_coef = CoefNum / CoefDen
          CoefDen,
          MaxSkip        \* busy_skip_count saturates here (see SkipAssumption)

Fibers == ScriptFibers \cup NativeFibers
Contexts == Fibers \cup {Main}

ASSUME FiberAssumption ==
    /\ ScriptFibers \cap NativeFibers = {}
    /\ Main \notin Fibers
    /\ None \notin Contexts

ASSUME TimeAssumption ==
    /\ SleepMs \subseteq Nat
    /\ TicksPerMs \in Nat \ {0}
    /\ BusyWaitMin \in Nat
    /\ CoefNum \in Nat
    /\ CoefDen \in Nat \ {0}
    /\ CoefNum <= CoefDen

(* From MaxSkip on, the product of count, remaining time and coefficient   *)
(* is at least the remaining time, so it is clamped: counting further      *)
(* would not change what resume() does.                                    *)
ASSUME SkipAssumption ==
    /\ MaxSkip \in Nat \ {0}
    /\ CoefNum = 0 \/ MaxSkip * CoefNum >= CoefDen

VARIABLES
    state,    \* fiber -> fiber_state; "unborn" before creation, "destroyed" after
    held,     \* fibers that code holds a handle of: a script variable, a future
    chain,    \* fiber_context::stack, bottom first
    ctl,      \* the context whose code the processor is executing
    prevCtx,  \* fiber -> prev_ctx, the context it switches back to
    callee,   \* context -> the fiber `fi` of its innermost pending resume()
    resumer,  \* fiber -> resumer_process
    curProc,  \* current_process
    fiberSp,  \* the instance's fiber_stack
    rem,      \* context -> ticks until wake_up_time
    skip,     \* fiber -> busy_skip_count
    at,       \* context -> the API call it is suspended in, if any
    outcome   \* how the last API call of the context in control ended

vars == <<state, held, chain, ctl, prevCtx, callee, resumer, curProc, fiberSp,
          rem, skip, at, outcome>>

Processes == ScriptFibers \cup {Main, None}
States == {"unborn", "ready", "running", "suspended", "sleeping", "finished",
           "destroyed"}
Outcomes == {"ok", "lang_error", "task_error", "undefined"}

Body == [op |-> "body", fi |-> None]
Backoff(f) == [op |-> "backoff", fi |-> f]
Positions == {Body} \cup {Backoff(f) : f \in Fibers}

Top == chain[Len(chain)]
Popped == SubSeq(chain, 1, Len(chain) - 1)
OnChain == {chain[i] : i \in DOMAIN chain}
InBody == at[ctl] = Body

MinOf(a, b) == IF a <= b THEN a ELSE b
-----------------------------------------------------------------------------
Init ==
    /\ state = [f \in Fibers |-> "unborn"]
    /\ held = {}
    /\ chain = <<>>
    /\ ctl = Main
    /\ prevCtx = [f \in Fibers |-> None]
    /\ callee = [c \in Contexts |-> None]
    /\ resumer = [f \in Fibers |-> None]
    /\ curProc = Main
    /\ fiberSp = Main
    /\ rem = [c \in Contexts |-> 0]
    /\ skip = [f \in Fibers |-> 0]
    /\ at = [c \in Contexts |-> Body]
    /\ outcome = "ok"
-----------------------------------------------------------------------------
(***************************************************************************)
(* The switch, out of resume().  The first half runs in the resumer: bind  *)
(* prev_ctx and resumer_process, mark the fiber running, push it, and      *)
(* cs_swap_in().                                                           *)
(***************************************************************************)
BindOnce(f) == \* MUTANT: a fiber remembers its first resumer's context
    prevCtx' = IF state[f] # "ready" THEN prevCtx
               ELSE [prevCtx EXCEPT ![f] = IF chain = <<>> THEN Main ELSE Top]

BindContext(f) ==
    prevCtx' = [prevCtx EXCEPT ![f] = IF chain = <<>> THEN Main ELSE Top]

CaptureOnce(f) == \* MUTANT: a fiber remembers its first resumer's process
    resumer' = IF state[f] # "ready" THEN resumer
               ELSE [resumer EXCEPT ![f] = curProc]

CaptureLate(f) == \* MUTANT: the process is captured after cs_swap_in()
    resumer' = [resumer EXCEPT ![f] = IF f \in ScriptFibers THEN f ELSE curProc]

CaptureProcess(f) == resumer' = [resumer EXCEPT ![f] = curProc]

SwapInAlways(f) == \* MUTANT: no test for a context of the fiber's own
    /\ curProc' = f
    /\ fiberSp' = f

SwapIn(f) ==
    /\ curProc' = IF f \in ScriptFibers THEN f ELSE curProc
    /\ fiberSp' = IF f \in ScriptFibers THEN f ELSE fiberSp

SwitchIn(f) ==
    /\ BindContext(f)
    /\ CaptureProcess(f)
    /\ callee' = [callee EXCEPT ![ctl] = f]
    /\ state' = [state EXCEPT ![f] = "running"]
    /\ chain' = Append(chain, f)
    /\ SwapIn(f)
    /\ ctl' = f

(***************************************************************************)
(* The second half: the fiber on top of the chain leaves in state s and    *)
(* the processor continues in its prev_ctx, in the resume() that context   *)
(* is suspended in.  That call pops the chain, undoes the binding of *its* *)
(* fiber fi with cs_swap_out(), and lets the fiber now on top, if any,     *)
(* cs_swap_in() again.                                                     *)
(*                                                                         *)
(* fiber_resume() is given a reference to the handle in its caller's       *)
(* variable, so it keeps none of its own: when the fiber, or code that ran *)
(* meanwhile, has assigned to that variable, the pop drops the last handle *)
(* and destroys the fiber, and resume() goes on to use it.  That outcome   *)
(* is "undefined": what the program does from there on is not modelled.    *)
(***************************************************************************)
SwapOutOnly(fi, below) == \* MUTANT: the fiber below is not swapped in again
    /\ curProc' = resumer[fi]
    /\ fiberSp' = IF fi \in ScriptFibers THEN Main ELSE fiberSp

SwapOut(fi, below) ==
    /\ curProc' = IF below \in ScriptFibers THEN below ELSE resumer[fi]
    /\ fiberSp' = IF below \in ScriptFibers THEN below
                  ELSE IF fi \in ScriptFibers THEN Main ELSE fiberSp

SwitchOut(s, result) ==
    LET to == prevCtx[Top]
        below == IF Len(chain) > 1 THEN chain[Len(chain) - 1] ELSE Main
    IN  /\ state' = [state EXCEPT ![Top] = IF Top \in held THEN s ELSE "destroyed"]
        /\ outcome' = IF Top \in held THEN result ELSE "undefined"
        /\ ctl' = to
        /\ chain' = Popped
        /\ callee' = [callee EXCEPT ![to] = None]
        /\ SwapOut(callee[to], below)
        /\ UNCHANGED <<held, prevCtx, resumer>>

(* sleep_for(ms): record the wake-up time and leave as sleeping. *)
SleepCurrent(ticks) ==
    /\ rem' = [rem EXCEPT ![Top] = ticks]
    /\ SwitchOut("sleeping", "ok")
-----------------------------------------------------------------------------
(***************************************************************************)
(* fiber.create: a script fiber forks a process, so it needs an active     *)
(* one; without it the constructor throws.                                 *)
(***************************************************************************)
Create(f) ==
    /\ InBody
    /\ state[f] = "unborn"
    /\ f \in ScriptFibers => curProc # None
    /\ state' = [state EXCEPT ![f] = "ready"]
    /\ held' = held \cup {f}
    /\ outcome' = "ok"
    /\ UNCHANGED <<chain, ctl, prevCtx, callee, resumer, curProc, fiberSp, rem,
                   skip, at>>

(***************************************************************************)
(* resume(f): the error path.                                              *)
(***************************************************************************)
ResumeRejected(f) ==
    /\ InBody /\ f \in held
    /\ state[f] \in {"running", "finished"}
    /\ outcome' = "lang_error"
    /\ UNCHANGED <<state, held, chain, ctl, prevCtx, callee, resumer, curProc,
                   fiberSp, rem, skip, at>>

(***************************************************************************)
(* resume(f) of a fiber that can run: never started, suspended, or asleep  *)
(* with its wake-up time reached.                                          *)
(***************************************************************************)
RunnableDone(f) == \* MUTANT: a finished fiber is not refused
    \/ state[f] \in {"ready", "suspended", "finished"}
    \/ state[f] = "sleeping" /\ rem[f] = 0

Runnable(f) ==
    \/ state[f] \in {"ready", "suspended"}
    \/ state[f] = "sleeping" /\ rem[f] = 0

ResumeSwitch(f) ==
    /\ InBody /\ f \in held
    /\ Runnable(f)
    /\ SwitchIn(f)
    /\ skip' = IF state[f] = "sleeping" THEN [skip EXCEPT ![f] = 0] ELSE skip
    /\ outcome' = "ok"
    /\ UNCHANGED <<held, rem, at>>

(***************************************************************************)
(* resume(f) of a fiber that is still asleep, schedule_policy::normal: the *)
(* back-off.  The wait grows with the number of premature attempts and *)
(* with the time that is left, up to that time itself; a wait too short to *)
(* be worth it is skipped, keeping the count of attempts.                  *)
(***************************************************************************)
WaitUnclamped(count, remainMs) == \* MUTANT: not bounded by what remains
    (count * remainMs * CoefNum) \div CoefDen

WaitTime(count, remainMs) ==
    MinOf((count * remainMs * CoefNum) \div CoefDen, remainMs)

BacksOff(count, remainMs) ==
    \/ WaitTime(count, remainMs) >= BusyWaitMin
    \/ WaitTime(count, remainMs) = remainMs /\ remainMs > 0

NextSkip(f) == MinOf(skip[f] + 1, MaxSkip)
RemainMs(f) == rem[f] \div TicksPerMs

ResumeEarlyReturn(f) ==
    /\ InBody /\ f \in held
    /\ state[f] = "sleeping" /\ rem[f] > 0
    /\ ~BacksOff(NextSkip(f), RemainMs(f))
    /\ skip' = [skip EXCEPT ![f] = NextSkip(f)]
    /\ outcome' = "ok"
    /\ UNCHANGED <<state, held, chain, ctl, prevCtx, callee, resumer, curProc,
                   fiberSp, rem, at>>

(* Outside a fiber the thread itself sleeps. *)
ResumeBackoffThread(f) ==
    /\ InBody /\ f \in held
    /\ chain = <<>>
    /\ state[f] = "sleeping" /\ rem[f] > 0
    /\ BacksOff(NextSkip(f), RemainMs(f))
    /\ skip' = [skip EXCEPT ![f] = NextSkip(f)]
    /\ rem' = [rem EXCEPT ![ctl] = WaitTime(NextSkip(f), RemainMs(f)) * TicksPerMs]
    /\ at' = [at EXCEPT ![ctl] = Backoff(f)]
    /\ UNCHANGED <<state, held, chain, ctl, prevCtx, callee, resumer, curProc,
                   fiberSp, outcome>>

(* Inside a fiber the resuming fiber goes to sleep, in the middle of resume(). *)
ResumeBackoffFiber(f) ==
    /\ InBody /\ f \in held
    /\ chain # <<>>
    /\ state[f] = "sleeping" /\ rem[f] > 0
    /\ BacksOff(NextSkip(f), RemainMs(f))
    /\ skip' = [skip EXCEPT ![f] = NextSkip(f), ![Top] = 0]
    /\ at' = [at EXCEPT ![ctl] = Backoff(f)]
    /\ SleepCurrent(WaitTime(NextSkip(f), RemainMs(f)) * TicksPerMs)

(* The wait is over: reset the count of the fiber waited for and return,   *)
(* without a switch.  That fiber may have been dropped during the wait.    *)
BackoffDone ==
    /\ at[ctl].op = "backoff"
    /\ rem[ctl] = 0
    /\ skip' = [skip EXCEPT ![at[ctl].fi] = 0]
    /\ at' = [at EXCEPT ![ctl] = Body]
    /\ outcome' = IF state[at[ctl].fi] = "destroyed" THEN "undefined" ELSE "ok"
    /\ UNCHANGED <<state, held, chain, ctl, prevCtx, callee, resumer, curProc,
                   fiberSp, rem>>
-----------------------------------------------------------------------------
(* yield() *)
Yield ==
    /\ InBody
    /\ chain # <<>>
    /\ SwitchOut("suspended", "ok")
    /\ UNCHANGED <<rem, skip, at>>

(* sleep_for(ms) *)
SleepFor(ms) ==
    /\ InBody
    /\ chain # <<>>
    /\ skip' = [skip EXCEPT ![Top] = 0]
    /\ SleepCurrent(ms * TicksPerMs)
    /\ UNCHANGED at

(* Both throw when the chain is empty. *)
YieldOutside ==
    /\ InBody
    /\ chain = <<>>
    /\ outcome' = "lang_error"
    /\ UNCHANGED <<state, held, chain, ctl, prevCtx, callee, resumer, curProc,
                   fiberSp, rem, skip, at>>

(***************************************************************************)
(* entry(): the fiber's function returns, or an exception leaves it.  The  *)
(* state becomes finished either way; resume() then rethrows the exception *)
(* in the resumer.                                                         *)
(***************************************************************************)
FinishOnReturn(threw) == \* MUTANT: an exception leaves the state unset
    /\ InBody
    /\ chain # <<>>
    /\ SwitchOut(IF threw THEN "suspended" ELSE "finished",
                 IF threw THEN "task_error" ELSE "ok")
    /\ UNCHANGED <<rem, skip, at>>

Finish(threw) ==
    /\ InBody
    /\ chain # <<>>
    /\ SwitchOut("finished", IF threw THEN "task_error" ELSE "ok")
    /\ UNCHANGED <<rem, skip, at>>

(* fiber.current(): a handle of the fiber on top of the chain. *)
GetCurrent ==
    /\ InBody
    /\ chain # <<>>
    /\ held' = held \cup {Top}
    /\ UNCHANGED <<state, chain, ctl, prevCtx, callee, resumer, curProc, fiberSp,
                   rem, skip, at, outcome>>

(***************************************************************************)
(* The last variable with a handle of f is assigned to, or goes out of     *)
(* scope.  The fiber lives on while the chain has a handle of it; a        *)
(* resume() that is backing off for it has none.                           *)
(***************************************************************************)
KeptByNothing == \* MUTANT: the chain holds no handles
    {}

Kept == OnChain

Drop(f) ==
    /\ InBody
    /\ f \in held
    /\ held' = held \ {f}
    /\ state' = IF f \in Kept THEN state ELSE [state EXCEPT ![f] = "destroyed"]
    /\ UNCHANGED <<chain, ctl, prevCtx, callee, resumer, curProc, fiberSp, rem,
                   skip, at, outcome>>

(* steady_clock advances. *)
Tick ==
    /\ \E c \in Contexts : rem[c] > 0
    /\ rem' = [c \in Contexts |-> IF rem[c] > 0 THEN rem[c] - 1 ELSE 0]
    /\ UNCHANGED <<state, held, chain, ctl, prevCtx, callee, resumer, curProc,
                   fiberSp, skip, at, outcome>>

Resume(f) ==
    \/ ResumeRejected(f)
    \/ ResumeSwitch(f)
    \/ ResumeEarlyReturn(f)
    \/ ResumeBackoffThread(f)
    \/ ResumeBackoffFiber(f)

Step ==
    \/ \E f \in Fibers : Create(f) \/ Resume(f) \/ Drop(f)
    \/ GetCurrent
    \/ BackoffDone
    \/ Yield
    \/ \E ms \in SleepMs : SleepFor(ms)
    \/ YieldOutside
    \/ \E threw \in BOOLEAN : Finish(threw)
    \/ Tick

Defined == outcome # "undefined"

Next == Defined /\ Step

Spec == Init /\ [][Next]_vars
-----------------------------------------------------------------------------
(***************************************************************************)
(* Properties                                                              *)
(***************************************************************************)

(* Every variable of the scheduler keeps its type. *)
TypeOK ==
    /\ state \in [Fibers -> States]
    /\ held \in SUBSET Fibers
    /\ chain \in Seq(Fibers)
    /\ ctl \in Contexts
    /\ prevCtx \in [Fibers -> Contexts \cup {None}]
    /\ callee \in [Contexts -> Fibers \cup {None}]
    /\ resumer \in [Fibers -> Processes]
    /\ curProc \in Processes
    /\ fiberSp \in ScriptFibers \cup {Main}
    /\ rem \in [Contexts -> Nat]
    /\ skip \in [Fibers -> 0..MaxSkip]
    /\ at \in [Contexts -> Positions]
    /\ outcome \in Outcomes

(* The context under the i-th fiber of the chain: the one that resumed it. *)
Below(i) == IF i = 1 THEN Main ELSE chain[i - 1]

(***************************************************************************)
(* The chain describes the machine stacks: a fiber is on it exactly while  *)
(* its state is running, never twice, and the processor executes its top.  *)
(***************************************************************************)
RunningIsOnChain ==
    /\ \A i, j \in DOMAIN chain : chain[i] = chain[j] => i = j
    /\ \A f \in Fibers : state[f] = "running" <=> f \in OnChain
    /\ ctl = IF chain = <<>> THEN Main ELSE Top

(***************************************************************************)
(* The switch a fiber makes on leaving lands in the context directly below *)
(* it on the chain, inside the resume() call that entered this very fiber, *)
(* although prev_ctx is overwritten by every resume, whoever the caller.   *)
(***************************************************************************)
ReturnsToItsResumer ==
    \A i \in DOMAIN chain :
        /\ prevCtx[chain[i]] = Below(i)
        /\ callee[Below(i)] = chain[i]

(* The process the i-th fiber of the chain (Main for 0) runs on, or will   *)
(* find in current_process when control comes back to it.                  *)
ProcOf(i) == IF i = Len(chain) THEN curProc ELSE resumer[chain[i + 1]]

(***************************************************************************)
(* Whatever was resumed from it, in whatever nesting of script and native  *)
(* fibers, a script fiber finds its own process again, the thread finds    *)
(* the root process, and a native fiber finds the process it was entered   *)
(* on: what cs_swap_in and cs_swap_out are for.                            *)
(***************************************************************************)
ProcessFollowsContext ==
    /\ ProcOf(0) = Main
    /\ \A i \in DOMAIN chain :
          ProcOf(i) = IF chain[i] \in ScriptFibers THEN chain[i] ELSE ProcOf(i - 1)

(***************************************************************************)
(* While the thread or a script fiber is in control, variables are looked  *)
(* up in its own domains.  (A native fiber that has resumed a script fiber *)
(* continues with fiber_stack == nullptr even when a script fiber is below *)
(* it on the chain, so nothing is said of native fibers.)                  *)
(***************************************************************************)
DomainsFollowContext ==
    ctl \notin NativeFibers => fiberSp = ctl

(***************************************************************************)
(* Whatever handles the program drops, also those of the fibers that are   *)
(* running or have resumed others, the current process, the current domain *)
(* stack and everything that the pending calls of resume() will switch     *)
(* back to belong to fibers that exist: the chain keeps them.  (It does    *)
(* not keep the fiber that a resume() has just come back from or backs off *)
(* for, see SwitchOut and BackoffDone.)                                    *)
(***************************************************************************)
NoDanglingBinding ==
    LET live(p) == p \in Fibers => state[p] \notin {"unborn", "destroyed"}
    IN  /\ live(curProc)
        /\ live(fiberSp)
        /\ \A i \in DOMAIN chain : live(resumer[chain[i]]) /\ live(prevCtx[chain[i]])

(***************************************************************************)
(* The back-off in resume() never oversleeps: a context waiting in it is   *)
(* due no later than the fiber it waits for, although both are rounded to  *)
(* milliseconds and the fiber may meanwhile be driven by somebody else.    *)
(***************************************************************************)
BackoffNeverOversleeps ==
    \A c \in Contexts : \A f \in Fibers : at[c] = Backoff(f) => rem[c] <= rem[f]

(* A fiber's wake-up time lies in the future only while it is asleep: it   *)
(* is never running, suspended or finished ahead of time.                  *)
AwakeOnlyWhenDue ==
    \A f \in Fibers : rem[f] > 0 => state[f] \in {"sleeping", "destroyed"}

(* Resuming and yielding nest like calls: the chain is the machine stack,  *)
(* names are looked up in the domains of the fiber in control, and no      *)
(* fiber is entered ahead of its time (fiber.hpp, resume and yield).       *)
SwitchesNest ==
    /\ RunningIsOnChain
    /\ DomainsFollowContext
    /\ AwakeOnlyWhenDue

(***************************************************************************)
(* The strengthening that makes the invariants above inductive: where the  *)
(* saved bindings can point to, and why fiber_stack is back to nullptr     *)
(* when the last, native, fiber of a chain leaves.                         *)
(***************************************************************************)
BindingsOnChain ==
    /\ curProc \in OnChain \cup {Main}
    /\ fiberSp \in OnChain \cup {Main}
    /\ \A i \in DOMAIN chain :
          resumer[chain[i]] \in {chain[j] : j \in 1..(i - 1)} \cup {Main}
    /\ (\A i \in DOMAIN chain : chain[i] \in NativeFibers) => fiberSp = Main

HandlesAlive ==
    \A f \in Fibers : f \in held => state[f] \notin {"unborn", "destroyed"}

ChainInv ==
    /\ RunningIsOnChain
    /\ ReturnsToItsResumer
    /\ ProcessFollowsContext
    /\ DomainsFollowContext
    /\ BindingsOnChain

WaitInv ==
    /\ BackoffNeverOversleeps
    /\ AwakeOnlyWhenDue
    /\ HandlesAlive

FiberInv == TypeOK /\ ChainInv /\ WaitInv

(* A finished fiber stays finished until it is destroyed: no later resume  *)
(* re-enters its dead stack.                                               *)
FinishedIsFinal ==
    [][\A f \in Fibers : state[f] \in {"finished", "destroyed"} =>
          state'[f] \in {state[f], "destroyed"}]_vars

(* The scheduler implements the stack of activations of module Coroutine.  *)
Life(s) ==
    CASE s = "unborn" -> "none"
      [] s \in {"ready", "suspended", "sleeping"} -> "idle"
      [] s = "running" -> "active"
      [] s = "finished" -> "done"
      [] s = "destroyed" -> "gone"

Frames ==
    [i \in 1..(Len(chain) + 1) |->
        [ctx |-> IF i = 1 THEN Main ELSE chain[i - 1], proc |-> ProcOf(i - 1)]]

C == INSTANCE Coroutine WITH life <- [f \in Fibers |-> Life(state[f])],
                             frames <- Frames

CoroutineSpec == C!Spec
=============================================================================
