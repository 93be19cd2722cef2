----------------------------- MODULE MCSession ------------------------------
(* Instances of the modules about running programs for TLC: the steps are  *)
(* those of one of them, which the first state chooses, and the others do  *)
(* not move.                                                               *)
EXTENDS ImportCache, Repl, Processes, Debugger, Control

CONSTANT Lib

VARIABLE part

Symmetry == Permutations(Keys \ Extensions)

MCParts == {"importCache", "repl", "processes", "debugger", "control"}

MCInit ==
    /\ part \in MCParts
    /\ ImportInit
    /\ ReplInit
    /\ ProcessesInit
    /\ DebuggerInit
    /\ ControlInit

MCVars == <<part, importVars, replVars, processesVars, debuggerVars, controlVars>>

(* Everything but the part that moves stays.                               *)
Only(p) ==
    /\ part = p /\ UNCHANGED part
    /\ p # "importCache" => UNCHANGED importVars
    /\ p # "repl" => UNCHANGED replVars
    /\ p # "processes" => UNCHANGED processesVars
    /\ p # "debugger" => UNCHANGED debuggerVars
    /\ p # "control" => UNCHANGED controlVars

(* Bound: with the last frame that MaxFrames allows the loops are `for`,   *)
(* which has every place of the other kinds.                               *)
DeepLoopsAreFor ==
    \/ Len(frames[Main]) + Len(frames[Fiber]) < MaxFrames
    \/ \A c \in Contexts : \A k \in DOMAIN frames[c] :
           frames[c][k].kind \in Loops => frames[c][k].kind = "for"

MCNext ==
    \/ Only("importCache") /\ ImportNext
    \/ Only("repl") /\ ReplNext
    \/ Only("processes") /\ ProcessesNext
    \/ Only("debugger") /\ DebuggerNext
    \/ Only("control") /\ ControlNext /\ DeepLoopsAreFor'

MCSpec == MCInit /\ [][MCNext]_MCVars
=============================================================================
