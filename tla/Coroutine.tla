----------------------------- MODULE Coroutine -----------------------------
(***************************************************************************)
(* What the fiber API promises, without the machinery: a stack of          *)
(* activations.  Entering a fiber puts an activation on top, leaving it    *)
(* takes that activation off and gives control back to the one below,      *)
(* which finds the process it calls functions on exactly as it left it.    *)
(* A script fiber always runs on its own process, a native fiber on the    *)
(* process of whoever entered it this time.                                *)
(*                                                                         *)
(* Module Fiber implements this specification (see Fiber!CoroutineSpec).   *)
(***************************************************************************)
EXTENDS Naturals, Sequences

CONSTANTS ScriptFibers,  \* fibers with a process of their own
          NativeFibers,  \* fibers without one
          Main           \* the thread's own context and its process

VARIABLES
    life,    \* fiber -> "none", "idle", "active", "done" or "gone"
    frames   \* the activations, outermost first: who runs, on which process

vars == <<life, frames>>

Fibers == ScriptFibers \cup NativeFibers
Frame(c, p) == [ctx |-> c, proc |-> p]
Current == frames[Len(frames)]

Init ==
    /\ life = [f \in Fibers |-> "none"]
    /\ frames = <<Frame(Main, Main)>>

Create(f) ==
    /\ life[f] = "none"
    /\ life' = [life EXCEPT ![f] = "idle"]
    /\ UNCHANGED frames

Enter(f) ==
    /\ life[f] = "idle"
    /\ life' = [life EXCEPT ![f] = "active"]
    /\ frames' = Append(frames,
                        Frame(f, IF f \in ScriptFibers THEN f ELSE Current.proc))

(* A fiber nobody but its activation holds on to is gone with it. *)
Leave(how) ==
    /\ Len(frames) > 1
    /\ life' = [life EXCEPT ![Current.ctx] = how]
    /\ frames' = SubSeq(frames, 1, Len(frames) - 1)

Destroy(f) ==
    /\ life[f] \in {"idle", "done"}
    /\ life' = [life EXCEPT ![f] = "gone"]
    /\ UNCHANGED frames

Next ==
    \/ \E f \in Fibers : Create(f) \/ Enter(f) \/ Destroy(f)
    \/ \E how \in {"idle", "done", "gone"} : Leave(how)

Spec == Init /\ [][Next]_vars
=============================================================================
