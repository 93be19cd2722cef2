---------------------------- MODULE FiberThreads ----------------------------
(***************************************************************************)
(* Fibers on several OS threads, each thread running contexts of its own   *)
(* (sources/system/unix/common.cpp).  The fiber chain is thread_local, but *)
(* the place where resume() keeps the stack of a thread that is not in a   *)
(* fiber, `static cs_fiber_ucontext_t global_ctx`, is one for all threads. *)
(*                                                                         *)
(* What a switch does to processes and domains is the business of module   *)
(* Fiber; here only the machine stacks matter.  The stack of a thread is   *)
(* named after the thread, the stack of a fiber after the fiber.  A thread *)
(* that is no longer on a stack of its own takes no further step: what it  *)
(* would do is undefined.                                                  *)
(***************************************************************************)
EXTENDS SequencesExt, Naturals

CONSTANTS Threads,
          Fibers,
          Home,       \* fiber -> the thread whose context made it
          GlobalCtx,  \* the static variable, as a value of prev_ctx
          None        \* a pointer or a context not set yet

VARIABLES
    on,         \* thread -> the stack its processor is executing on
    chain,      \* thread -> fiber_context::current()->stack
    prevCtx,    \* fiber -> prev_ctx
    globalCtx,  \* the stack last saved in global_ctx
    state       \* fiber -> "idle", "running" or "finished"

vars == <<on, chain, prevCtx, globalCtx, state>>

Stacks == Threads \cup Fibers

Init ==
    /\ on = [t \in Threads |-> t]
    /\ chain = [t \in Threads |-> <<>>]
    /\ prevCtx = [f \in Fibers |-> None]
    /\ globalCtx = None
    /\ state = [f \in Fibers |-> "idle"]
-----------------------------------------------------------------------------
OwnStack(t) == IF chain[t] = <<>> THEN t ELSE Last(chain[t])

(* resume(): where the fiber will switch back to, and the switch, which    *)
(* saves the stack of the resumer there.                                   *)
Resumer(t) == IF chain[t] = <<>> THEN GlobalCtx ELSE Last(chain[t])

Resume(t, f) ==
    /\ on[t] = OwnStack(t)
    /\ Home[f] = t /\ state[f] = "idle"
    /\ prevCtx' = [prevCtx EXCEPT ![f] = Resumer(t)]
    /\ globalCtx' = IF Resumer(t) = GlobalCtx THEN on[t] ELSE globalCtx
    /\ state' = [state EXCEPT ![f] = "running"]
    /\ chain' = [chain EXCEPT ![t] = Append(@, f)]
    /\ on' = [on EXCEPT ![t] = f]

(* yield(), sleep_for() or the end of the function, and in the resumer the *)
(* pop of the chain.                                                       *)
Leave(t, s) ==
    LET f == Last(chain[t])
    IN  /\ chain[t] # <<>>
        /\ on[t] = OwnStack(t)
        /\ state' = [state EXCEPT ![f] = s]
        /\ chain' = [chain EXCEPT ![t] = Front(@)]
        /\ on' = [on EXCEPT ![t] = IF prevCtx[f] = GlobalCtx THEN globalCtx
                                   ELSE prevCtx[f]]
        /\ UNCHANGED <<prevCtx, globalCtx>>

Next ==
    \E t \in Threads :
        \/ \E f \in Fibers : Resume(t, f)
        \/ \E s \in {"idle", "finished"} : Leave(t, s)

Spec == Init /\ [][Next]_vars
-----------------------------------------------------------------------------
(***************************************************************************)
(* A thread executes on its own stack or on that of the fiber it resumed   *)
(* last, whatever fibers the other threads resume and leave meanwhile.     *)
(* docs/SDK.md:132: "Two contexts may run on **different threads**         *)
(* concurrently."                                                          *)
(***************************************************************************)
ThreadsKeepTheirStacks ==
    \A t \in Threads : on[t] = OwnStack(t)
=============================================================================
