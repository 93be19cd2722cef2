---------------------------- MODULE FiberFuture ----------------------------
(***************************************************************************)
(* Futures over fibers (class fiber_future, sources/system/common.cpp).    *)
(* wait, wait_for and get drive the target fiber themselves, with resume() *)
(* under schedule_policy::no_backpressure, from whatever context calls     *)
(* them: the thread, or a fiber, which then sleeps between two attempts    *)
(* and so hands control back in the middle of the call.                    *)
(*                                                                         *)
(* A call is spread over several steps of Fiber: fut[c] says which call    *)
(* context c is inside.  An exception that leaves resume() is caught by    *)
(* resume_fiber() and kept in the future's mException.                     *)
(* Futures hold a handle of their fiber, and the program holds its futures *)
(* while a call of them is pending, so no fiber is destroyed here.         *)
(***************************************************************************)
EXTENDS Fiber

CONSTANTS Futures,  \* future objects; several may wrap one fiber
          Target,   \* future -> mFiber
          WaitMs    \* durations, in milliseconds, passed to wait_for

ASSUME FutureAssumption ==
    /\ Target \in [Futures -> Fibers]
    /\ None \notin Futures
    /\ WaitMs \subseteq Nat

VARIABLES
    fut,         \* context -> the future call it is inside of, if any
    left,        \* context -> ticks until wait_for's end_time, -1 once past
    mException,  \* future -> the exception it keeps, if any
    retVal,      \* fiber -> ret_val: "null" until the function has returned
    threwInto    \* history, fiber -> the future whose call its exception reached

futVars == <<fut, left, mException, retVal, threwInto>>
allVars == <<vars, futVars>>

NoCall == [op |-> "none", u |-> None, pc |-> "none"]
Call(op, u, pc) == [op |-> op, u |-> u, pc |-> pc]
Calls == {Call(op, u, pc) : op \in {"wait", "wait_for", "get"}, u \in Futures,
                            pc \in {"loop", "resumed"}}

FutInit ==
    /\ Init
    /\ fut = [c \in Contexts |-> NoCall]
    /\ left = [c \in Contexts |-> 0]
    /\ mException = [u \in Futures |-> "none"]
    /\ retVal = [f \in Fibers |-> "null"]
    /\ threwInto = [f \in Fibers |-> None]
-----------------------------------------------------------------------------
(* The call the context in control is inside of. *)
Now == fut[ctl]
Goal == Target[Now.u]
At(pc) == Now # NoCall /\ Now.pc = pc /\ rem[ctl] = 0

Goto(pc) == fut' = [fut EXCEPT ![ctl].pc = pc]

(***************************************************************************)
(* Code outside future calls does what it does in Fiber.  A function that  *)
(* returns leaves its result in ret_val; one that throws leaves it null,   *)
(* and its exception comes out of the resume() that drove it last: a       *)
(* future's, or one that some code has called itself.                      *)
(***************************************************************************)
BodyStep ==
    /\ Now = NoCall
    /\ \/ \E f \in Fibers : Create(f) \/ Resume(f)
       \/ BackoffDone \/ Yield \/ YieldOutside
       \/ \E ms \in SleepMs : SleepFor(ms)
    /\ UNCHANGED futVars

FinishBody(f, threw) ==
    /\ Now = NoCall
    /\ chain # <<>> /\ Top = f
    /\ Finish(threw)
    /\ retVal' = [retVal EXCEPT ![f] = IF threw THEN "null" ELSE "value"]
    /\ threwInto' = [threwInto EXCEPT ![f] = IF threw THEN fut[prevCtx[f]].u ELSE None]
    /\ UNCHANGED <<fut, left, mException>>
-----------------------------------------------------------------------------
(* future.wait, wait_for and get *)
Begin(op, u, ms) ==
    /\ Now = NoCall /\ InBody
    /\ state[Target[u]] # "unborn"
    /\ fut' = [fut EXCEPT ![ctl] = Call(op, u, "loop")]
    /\ left' = [left EXCEPT ![ctl] = IF op = "wait_for" THEN ms * TicksPerMs ELSE 0]
    /\ UNCHANGED <<vars, mException, retVal, threwInto>>

(* How a call ends: get() rethrows what the future keeps, and otherwise    *)
(* asks the fiber for its return value, which an unfinished fiber refuses. *)
Result(op, u) ==
    IF op # "get" THEN "ok"
    ELSE IF mException'[u] # "none" THEN mException'[u]
    ELSE IF state[Target[u]] = "finished" THEN "ok"
    ELSE "lang_error"

End ==
    /\ outcome' = Result(Now.op, Now.u)
    /\ fut' = [fut EXCEPT ![ctl] = NoCall]
    /\ UNCHANGED <<state, held, chain, ctl, prevCtx, callee, resumer, curProc, fiberSp,
                   rem, skip, at, left, retVal, threwInto>>

(* The head of the loop: leave it, or go and resume the fiber. *)
Expired == Now.op = "wait_for" /\ left[ctl] < 0
LeaveAsleep == \* MUTANT: a sleeping fiber is taken for a ready one
    state[Goal] \in {"finished", "sleeping"} \/ Expired

LeaveLoop == state[Goal] = "finished" \/ Expired

EndAtHead ==
    /\ At("loop") /\ LeaveLoop
    /\ UNCHANGED mException
    /\ End

(* resume_fiber(): the switch, the refusal, and the early return of        *)
(* no_backpressure for a fiber that is still asleep.                       *)
DriveSwitch ==
    /\ At("loop") /\ ~LeaveLoop
    /\ ResumeSwitch(Goal)
    /\ Goto("resumed")
    /\ UNCHANGED <<left, mException, retVal, threwInto>>

DriveRefused ==
    /\ At("loop") /\ ~LeaveLoop
    /\ ResumeRejected(Goal)
    /\ Goto("resumed")
    /\ UNCHANGED <<left, mException, retVal, threwInto>>

DriveAsleep ==
    /\ At("loop") /\ ~LeaveLoop
    /\ state[Goal] = "sleeping" /\ rem[Goal] > 0
    /\ outcome' = "ok"
    /\ Goto("resumed")
    /\ UNCHANGED <<state, held, chain, ctl, prevCtx, callee, resumer, curProc, fiberSp,
                   rem, skip, at, left, mException, retVal, threwInto>>

(***************************************************************************)
(* Back from resume(): keep what it threw, then decide whether the loop    *)
(* ends, goes round at once, or sleeps first.                              *)
(***************************************************************************)
KeepFirst == \* MUTANT: an exception that is kept already stays
    mException' = IF outcome = "ok" \/ mException[Now.u] # "none" THEN mException
                  ELSE [mException EXCEPT ![Now.u] = outcome]

Keep ==
    mException' = IF outcome = "ok" THEN mException
                  ELSE [mException EXCEPT ![Now.u] = outcome]

LeftMs == IF left[ctl] < 0 THEN 0 ELSE left[ctl] \div TicksPerMs

BreaksOnResult == \* MUTANT: a refused resume does not end the loop
    Now.op = "wait_for" /\ (state[Goal] = "finished" \/ LeftMs = 0)

Breaks ==
    \/ mException'[Now.u] # "none"
    \/ Now.op = "wait_for" /\ (state[Goal] = "finished" \/ LeftMs = 0)

MaxOf(a, b) == IF a >= b THEN a ELSE b

PollMs ==
    IF Now.op = "wait_for"
    THEN MinOf(MaxOf((LeftMs * CoefNum) \div CoefDen, BusyWaitMin), LeftMs)
    ELSE BusyWaitMin

Sleeps == Now.op = "wait_for" \/ state[Goal] = "sleeping"

EndAfterResume ==
    /\ At("resumed")
    /\ Keep
    /\ Breaks
    /\ End

GoRound ==
    /\ At("resumed")
    /\ Keep
    /\ ~Breaks /\ ~Sleeps
    /\ Goto("loop")
    /\ UNCHANGED <<vars, left, retVal, threwInto>>

PollThread ==
    /\ At("resumed")
    /\ Keep
    /\ ~Breaks /\ Sleeps
    /\ chain = <<>>
    /\ rem' = [rem EXCEPT ![ctl] = PollMs * TicksPerMs]
    /\ Goto("loop")
    /\ UNCHANGED <<state, held, chain, ctl, prevCtx, callee, resumer, curProc, fiberSp,
                   skip, at, outcome, left, retVal, threwInto>>

PollFiber ==
    /\ At("resumed")
    /\ Keep
    /\ ~Breaks /\ Sleeps
    /\ chain # <<>>
    /\ SleepFor(PollMs)
    /\ Goto("loop")
    /\ UNCHANGED <<left, retVal, threwInto>>

FutStep ==
    \/ EndAtHead \/ DriveSwitch \/ DriveRefused \/ DriveAsleep
    \/ EndAfterResume \/ GoRound \/ PollThread \/ PollFiber

(* steady_clock, also for the deadlines of pending wait_for calls. *)
FutTick ==
    /\ \/ \E c \in Contexts : rem[c] > 0
       \/ \E c \in Contexts : fut[c].op = "wait_for" /\ left[c] >= 0
    /\ rem' = [c \in Contexts |-> MaxOf(rem[c] - 1, 0)]
    /\ left' = [c \in Contexts |-> IF fut[c].op = "wait_for"
                                   THEN MaxOf(left[c] - 1, -1) ELSE left[c]]
    /\ UNCHANGED <<state, held, chain, ctl, prevCtx, callee, resumer, curProc, fiberSp,
                   skip, at, outcome, fut, mException, retVal, threwInto>>

FutNext ==
    \/ BodyStep
    \/ \E f \in Fibers, threw \in BOOLEAN : FinishBody(f, threw)
    \/ \E u \in Futures : Begin("wait", u, 0) \/ Begin("get", u, 0)
    \/ \E u \in Futures, ms \in WaitMs : Begin("wait_for", u, ms)
    \/ FutStep
    \/ FutTick

FutSpec == FutInit /\ [][FutNext]_allVars

(***************************************************************************)
(* Time passes, the processor goes on executing library code, and a task   *)
(* function that keeps being given control returns in the end.             *)
(***************************************************************************)
FairFutSpec ==
    /\ FutSpec
    /\ WF_allVars(FutTick)
    /\ WF_allVars(FutStep)
    /\ WF_allVars(BackoffDone /\ UNCHANGED futVars)
    /\ \A f \in Fibers : SF_allVars(\E threw \in BOOLEAN : FinishBody(f, threw))
-----------------------------------------------------------------------------
(* Every variable of the futures keeps its type. *)
FutTypeOK ==
    /\ TypeOK
    /\ fut \in [Contexts -> Calls \cup {NoCall}]
    /\ left \in [Contexts -> Nat \cup {-1}]
    /\ mException \in [Futures -> {"none", "lang_error", "task_error"}]
    /\ retVal \in [Fibers -> {"null", "value"}]
    /\ threwInto \in [Fibers -> Futures \cup {None}]

Ends(op, c, u) == fut[c].op = op /\ fut[c].u = u /\ fut'[c] = NoCall

(* A future keeps a task's exception only of a task that has really ended, *)
(* and ended by it: the exception is never that of some other fiber the    *)
(* task was driving.                                                       *)
TaskErrorIsTheTasks ==
    \A u \in Futures : mException[u] = "task_error" =>
        state[Target[u]] = "finished" /\ retVal[Target[u]] = "null"

(* A task's exception that came out of a call of a future is what every    *)
(* get() of that future throws from then on, although a refused resume, in *)
(* a call made by the task itself, may have left one there before          *)
(* (docs/Asynchronous.md:375, get: "rethrow any task exception here").     *)
GetThrowsItsTasksError ==
    [][\A c \in Contexts, u \in Futures :
          Ends("get", c, u) /\ threwInto[Target[u]] = u => outcome' = "task_error"]_allVars

(* Only a future that has met a refused resume, of a fiber that was        *)
(* waiting for its own waiter, gives up before the fiber has finished.     *)
WaitEndsEarlyOnlyIfRefused ==
    [][\A c \in Contexts, u \in Futures :
          (Ends("wait", c, u) \/ Ends("get", c, u)) /\ mException'[u] # "lang_error"
              => state[Target[u]] = "finished"]_allVars

(* A wait_for asleep between two polls wakes up by its deadline.           *)
PollsWithinDeadline ==
    \A c \in Contexts :
        fut[c].op = "wait_for" /\ fut[c].pc = "loop" /\ left[c] > 0 => rem[c] <= left[c]

(* When every task function ends if it keeps being driven, a call made by  *)
(* the thread returns, whatever the tasks wait for, each other included.   *)
ThreadCallsReturn ==
    \A u \in Futures : fut[Main].u = u ~> fut[Main] = NoCall

(* What a future knows of its task is the task's own doing, and a waiter   *)
(* with a deadline polls within it (fiber_future and its wait_for).        *)
FutInv ==
    /\ FutTypeOK
    /\ TaskErrorIsTheTasks
    /\ PollsWithinDeadline

(***************************************************************************)
(* What the documentation promises (docs/Asynchronous.md).                 *)
(***************************************************************************)

(* Line 273, get(): "Block until ready, then return result (idempotent)".  *)
GetReturnsTheResult ==
    [][\A c \in Contexts, u \in Futures :
          Ends("get", c, u) /\ retVal[Target[u]] = "value" => outcome' = "ok"]_allVars
=============================================================================
