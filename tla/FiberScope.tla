----------------------------- MODULE FiberScope -----------------------------
(***************************************************************************)
(* Scope guards on the C++ stacks of the fibers: process_run_scope, which  *)
(* installs a process and puts the previous one back, and fcall_guard, the *)
(* slot a script function keeps on the value stack of current_process for  *)
(* its result.  Guards nest within one context, but the contexts are       *)
(* switched by module Fiber, which rebinds current_process on its own.     *)
(*                                                                         *)
(* One session: the process every scope installs is the root one.  An      *)
(* import made by a fiber is such a scope: the module's top-level code is  *)
(* run by interpret() on the process of the context, the root's.           *)
(***************************************************************************)
EXTENDS Fiber, SequencesExt

CONSTANTS MaxNest,     \* guards a context may have open at a time
          Disciplined  \* TRUE: fibers keep to the discipline of MaySwitch

VARIABLES
    nest,    \* context -> its open guards, innermost last
    vstack   \* process -> value stack: the contexts whose functions pushed a slot

scopeVars == <<nest, vstack>>
scopeAllVars == <<vars, scopeVars>>

(* A guard, with the process it puts back or the one whose stack it is on. *)
ScopeGuard(p) == [kind |-> "scope", proc |-> p]
CallGuard(p) == [kind |-> "call", proc |-> p]
Guards == {ScopeGuard(p) : p \in Processes} \cup {CallGuard(p) : p \in Processes}

ScopeInit ==
    /\ Init
    /\ nest = [c \in Contexts |-> <<>>]
    /\ vstack = [p \in Processes |-> <<>>]

CanNest == InBody /\ Len(nest[ctl]) < MaxNest
Innermost(kind) == InBody /\ nest[ctl] # <<>> /\ Last(nest[ctl]).kind = kind
Opened(g) == nest' = [nest EXCEPT ![ctl] = Append(@, g)]
Closed == nest' = [nest EXCEPT ![ctl] = Front(@)]

SameFiber == UNCHANGED <<state, held, chain, ctl, prevCtx, callee, resumer, fiberSp,
                         rem, skip, at, outcome>>

(* process_run_scope(context): the root is related to every process forked *)
(* from it, so the scope is never refused here.                            *)
OpenScope ==
    /\ CanNest
    /\ Opened(ScopeGuard(curProc))
    /\ curProc' = Main
    /\ SameFiber /\ UNCHANGED vstack

(* ~process_run_scope *)
CloseScope ==
    /\ Innermost("scope")
    /\ curProc' = Last(nest[ctl]).proc
    /\ Closed
    /\ SameFiber /\ UNCHANGED vstack

(* A script function is entered: poll_current_process, then fcall_guard.   *)
CallFunction ==
    /\ CanNest
    /\ curProc # None
    /\ Opened(CallGuard(curProc))
    /\ vstack' = [vstack EXCEPT ![curProc] = Append(@, ctl)]
    /\ SameFiber /\ UNCHANGED curProc

(* It returns: ~fcall_guard pops the stack of whatever process is current. *)
ReturnLeaking == \* MUTANT: unwinding leaves the slot on the stack
    /\ Innermost("call")
    /\ Closed
    /\ SameFiber /\ UNCHANGED <<curProc, vstack>>

ReturnFunction ==
    /\ Innermost("call")
    /\ vstack' = [vstack EXCEPT ![curProc] = IF @ = <<>> THEN @ ELSE Front(@)]
    /\ Closed
    /\ SameFiber /\ UNCHANGED curProc

(***************************************************************************)
(* Where a program that keeps to the discipline switches fibers: not while *)
(* a fiber has a scope open, and from a native fiber not while it has a    *)
(* script function active (docs/Asynchronous.md:109: C++ functions are     *)
(* "suitable for C++ callbacks that don't need the CovScript runtime").   *)
(***************************************************************************)
MaySwitch ==
    \/ ~Disciplined
    \/ ctl = Main
    \/ ctl \in NativeFibers /\ nest[ctl] = <<>>
    \/ ctl \in ScriptFibers /\ \A i \in DOMAIN nest[ctl] : nest[ctl][i].kind = "call"

SwitchStep ==
    /\ MaySwitch
    /\ \/ \E f \in Fibers : ResumeSwitch(f)
       \/ Yield
    /\ UNCHANGED scopeVars

(* A fiber ends with all its guards closed, by return or by unwinding.     *)
OtherStep ==
    /\ \/ \E f \in Fibers : Create(f) \/ ResumeRejected(f)
       \/ nest[ctl] = <<>> /\ \E threw \in BOOLEAN : Finish(threw)
    /\ UNCHANGED scopeVars

ScopeNext ==
    \/ OpenScope \/ CloseScope
    \/ CallFunction \/ ReturnFunction
    \/ SwitchStep \/ OtherStep

ScopeSpec == ScopeInit /\ [][ScopeNext]_scopeAllVars
-----------------------------------------------------------------------------
(* Every variable keeps its type. *)
ScopeTypeOK ==
    /\ TypeOK
    /\ nest \in [Contexts -> Seq(Guards)]
    /\ vstack \in [Processes -> Seq(Contexts)]

(* The slot a returning function takes its result from, and pops, is the   *)
(* one it pushed: no other context's slot lies above it, and the stack is  *)
(* the one it was pushed on.                                               *)
ReturnsItsOwnSlot ==
    Innermost("call") =>
        /\ curProc = Last(nest[ctl]).proc
        /\ vstack[curProc] # <<>>
        /\ Last(vstack[curProc]) = ctl

Occurrences(s, x) == Cardinality({i \in DOMAIN s : s[i] = x})

(* The value stacks hold exactly the slots of the functions still active.  *)
SlotsAccounted ==
    \A p \in Processes : \A c \in Contexts :
        Occurrences(vstack[p], c) = Occurrences(nest[c], CallGuard(p))

(* Values are returned through the slot that the returning function        *)
(* pushed, whatever fibers were switched to in between, and no slot is     *)
(* left behind (fcall_guard and process_run_scope).                        *)
ScopeInv ==
    /\ ScopeTypeOK
    /\ ReturnsItsOwnSlot
    /\ SlotsAccounted

(***************************************************************************)
(* What the documentation promises.                                        *)
(***************************************************************************)

(* Code directly inside a scope runs on the process the scope installed,   *)
(* also after the context was switched out and back in (docs/SDK.md:122:   *)
(* "process_run_scope(ctx) installs ctx's process for the scope").         *)
ScopeInstalls ==
    Innermost("scope") => curProc = Main
=============================================================================
