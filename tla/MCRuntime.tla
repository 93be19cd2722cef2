----------------------------- MODULE MCRuntime ------------------------------
(* Instances of the modules about variables and values for TLC: the steps  *)
(* are those of one of them, which the first state chooses, and the others *)
(* do not move.                                                            *)
EXTENDS Storage, Values, Memory, Structs, Containers

CONSTANTS p1, p2, p3, p4, p5, s1, s2, b1, b2, b3, x, y, h, g, i

VARIABLE part

MCNameOf == (i :> x)
MCDeclaredIn == <<{"x", "f"}, {"y", "f"}, {"z"}>>

(* Variables of FiberScope; `held` is also one of Structs.                 *)
VARIABLES state, held_, chain, ctl, prevCtx, callee, resumer, curProc, fiberSp, rem, skip,
          at, outcome, nest, vstack

scopeVars == <<state, held_, chain, ctl, prevCtx, callee, resumer, curProc, fiberSp, rem,
               skip, at, outcome, nest, vstack>>

Scope == INSTANCE FiberScope WITH
    ScriptFibers <- {"f1", "f2"}, NativeFibers <- {"n"}, Main <- "thread", None <- "none",
    held <- held_, MaxNest <- 2, Disciplined <- TRUE,
    \* no fiber sleeps here
    SleepMs <- {}, TicksPerMs <- 1, BusyWaitMin <- 1, CoefNum <- 1, CoefDen <- 1, MaxSkip <- 1

(* See FiberScope: values are returned through the slot that was pushed.   *)
ScopeInv == Scope!ScopeInv

MCParts == {"storage", "values", "memory", "structs", "containers", "scope"}

MCInit ==
    /\ part \in MCParts
    /\ StorageInit
    /\ ValuesInit
    /\ MemoryInit
    /\ StructsInit
    /\ ContainersInit
    /\ Scope!ScopeInit

MCVars == <<part, storageVars, valuesVars, memoryVars, structsVars,
            containersVars, scopeVars>>

(* Everything but the part that moves stays.                               *)
Only(p) ==
    /\ part = p /\ UNCHANGED part
    /\ p # "storage" => UNCHANGED storageVars
    /\ p # "values" => UNCHANGED valuesVars
    /\ p # "memory" => UNCHANGED memoryVars
    /\ p # "structs" => UNCHANGED structsVars
    /\ p # "containers" => UNCHANGED containersVars
    /\ p # "scope" => UNCHANGED scopeVars

MCNext ==
    \/ Only("storage") /\ StorageNext
    \/ Only("values") /\ ValuesNext
    \/ Only("memory") /\ MemoryNext
    \/ Only("structs") /\ StructsNext
    \/ Only("containers") /\ ContainersNext
    \/ Only("scope") /\ Scope!ScopeNext

MCSpec == MCInit /\ [][MCNext]_MCVars
=============================================================================
