------------------------------ MODULE Debugger ------------------------------
(***************************************************************************)
(* cs_dbg (debugger.cpp): the breakpoints, the stepping state, the command *)
(* loop, and the program it drives: statements, calls, returns and the     *)
(* function definitions that pending breakpoints wait for.                 *)
(*                                                                         *)
(* The program has one statement per line and the functions Funcs at its   *)
(* top level.                                                              *)
(***************************************************************************)
EXTENDS Integers, FiniteSets

CONSTANTS Funcs, SourceLines,
          MaxBreakpoints, MaxDepth,   \* bounds: breakpoints set, call depth
          TargetsAreShared            \* TRUE: a function may get more than one

ASSUME DebuggerAssumption ==
    /\ Funcs \cap SourceLines = {}
    /\ MaxBreakpoints \in Nat /\ MaxDepth \in Nat
    /\ TargetsAreShared \in BOOLEAN

VARIABLES breakpoints,   \* m_breakpoints: [id, kind, at]
          pendings,      \* m_pending: [name, id, open]
          lastId,        \* m_id
          matched,       \* functions with mMatch
          defined,       \* functions whose definition has run
          byStep, level, into,   \* exec_by_step, current_level, step_into_function
          depth,         \* size of the call stack
          phase,         \* "none", "running", "stopped", "over", "quit"
          asked,         \* ghost: what the last command asked for, and where
          due            \* ghost: the breakpoint that was just hit
debuggerVars == <<breakpoints, pendings, lastId, matched, defined, byStep, level, into,
                  depth, phase, asked, due>>
records == <<breakpoints, pendings, lastId, matched>>
stepping == <<byStep, level, into>>

DebuggerInit ==
    /\ breakpoints = {} /\ pendings = {} /\ lastId = 0
    /\ matched = {} /\ defined = {}
    /\ byStep = FALSE /\ level = 0 /\ into = FALSE
    /\ depth = 0 /\ phase = "none"
    /\ asked = [cmd |-> "run", depth |-> 0] /\ due = FALSE

AtPrompt == phase \in {"none", "stopped", "over"}
HasContext == phase # "none"   \* the context outlives its run
Breakpoint(kind, at) == [id |-> lastId + 1, kind |-> kind, at |-> at]
Add(b) ==
    /\ lastId < MaxBreakpoints
    /\ breakpoints' = breakpoints \cup {b}
    /\ lastId' = b.id
-----------------------------------------------------------------------------
(* "break": a line; a name while nothing runs yet; or else a function.     *)
BreakLine(n) ==
    /\ AtPrompt /\ Add(Breakpoint("line", n))
    /\ UNCHANGED <<pendings, matched, defined, stepping, depth, phase, asked, due>>

Free(f) == TargetsAreShared \/ ~\E b \in breakpoints : b.at = f
BreakPending(f) ==
    /\ AtPrompt /\ ~HasContext /\ Free(f)
    /\ Add(Breakpoint("name", f))
    /\ pendings' = IF \E p \in pendings : p.name = f THEN pendings
                   ELSE pendings \cup {[name |-> f, id |-> lastId + 1, open |-> TRUE]}
    /\ UNCHANGED <<matched, defined, stepping, depth, phase, asked, due>>
BreakFunc(f) ==
    /\ AtPrompt /\ HasContext /\ f \in defined /\ Free(f)
    /\ Add(Breakpoint("func", f))
    /\ matched' = matched \cup {f}
    /\ UNCHANGED <<pendings, defined, stepping, depth, phase, asked, due>>

(* "rmbreak": breakpoint_recorder::remove().                               *)
MatchedWithoutAll(removed) == matched \* MUTANT: set_debugger_state(false) is missing
MatchedWithout(removed) ==
    {f \in matched : ~\E b \in removed : b.kind = "func" /\ b.at = f}
PendingWithout(id, removed) ==
    {p \in pendings : p.id # id /\ ~\E b \in removed : b.kind = "name" /\ b.at = p.name}

RemoveBreakpoint(id) ==
    LET removed == {b \in breakpoints : b.id = id}
    IN /\ AtPrompt /\ removed # {}
       /\ breakpoints' = breakpoints \ removed
       /\ matched' = MatchedWithout(removed)
       /\ pendings' = PendingWithout(id, removed)
       /\ UNCHANGED <<lastId, defined, stepping, depth, phase, asked, due>>
-----------------------------------------------------------------------------
(* "run": only one context is ever created.                                *)
Run ==
    /\ phase = "none"
    /\ phase' = "running"
    /\ asked' = [cmd |-> "continue", depth |-> 0]
    /\ UNCHANGED <<records, defined, stepping, depth, due>>

(* "next", "step" and "continue" end the prompt; without a run there is    *)
(* nothing else to return to and the debugger ends.                        *)
Resume(cmd) ==
    /\ AtPrompt /\ HasContext
    /\ into' = (into \/ cmd = "step")
    /\ byStep' = (byStep /\ cmd # "continue")
    /\ phase' = IF phase = "stopped" THEN "running" ELSE "quit"
    /\ asked' = [cmd |-> cmd, depth |-> depth]
    /\ due' = FALSE
    /\ UNCHANGED <<records, defined, level, depth>>

(* reset(): breakpoints that came from pending ones wait again.            *)
Reset ==
    LET Back(b) == \E p \in pendings : p.id = b.id /\ b.kind = "func"
    IN /\ breakpoints' = {IF Back(b) THEN [b EXCEPT !.kind = "name"] ELSE b : b \in breakpoints}
       /\ matched' = matched \ {b.at : b \in {c \in breakpoints : Back(c)}}
       /\ pendings' = {[p EXCEPT !.open = TRUE] : p \in pendings}
       /\ byStep' = FALSE /\ level' = 0 /\ into' = FALSE
       /\ UNCHANGED lastId

Finish ==   \* the program ends, or an interrupt or an error ends it
    /\ phase = "running"
    /\ Reset
    /\ phase' = "over" /\ depth' = 0 /\ due' = FALSE
    /\ UNCHANGED <<defined, asked>>
-----------------------------------------------------------------------------
(* cs_debugger_step_callback() before a statement.                         *)
Stops(at) == \/ ~byStep /\ at
             \/ byStep /\ (into \/ depth <= level)

ScriptStatement(n) ==
    LET at == \E b \in breakpoints : b.kind = "line" /\ b.at = n
    IN /\ phase = "running"
       /\ IF Stops(at)
          THEN /\ phase' = "stopped" /\ byStep' = TRUE
               /\ level' = depth /\ into' = FALSE
               /\ due' = (due \/ (~byStep /\ at))
          ELSE UNCHANGED <<phase, stepping, due>>
       /\ UNCHANGED <<records, defined, depth, asked>>

(* A call: cs_debugger_func_callback() when the function matches, and the  *)
(* next statement stops.                                                   *)
ScriptCall(f) ==
    /\ phase = "running" /\ f \in defined /\ depth < MaxDepth
    /\ depth' = depth + 1
    /\ IF f \in matched
       THEN byStep' = TRUE /\ level' = depth + 1 /\ due' = TRUE
       ELSE UNCHANGED <<byStep, level, due>>
    /\ UNCHANGED <<records, defined, into, phase, asked>>

ScriptReturn ==
    /\ phase = "running" /\ depth > 0
    /\ depth' = depth - 1
    /\ UNCHANGED <<records, defined, stepping, phase, asked, due>>

(* statement_function::run_impl() at the top level: replace_pending().     *)
Define(f) ==
    LET waiting == {p \in pendings : p.name = f}
        open == {p \in waiting : p.open /\ \E b \in breakpoints : b.id = p.id}
    IN /\ phase = "running" /\ depth = 0 /\ f \notin defined
       /\ defined' = defined \cup {f}
       /\ matched' = IF waiting # {} THEN matched \cup {f} ELSE matched
       /\ breakpoints' = {IF \E p \in open : p.id = b.id THEN [b EXCEPT !.kind = "func"] ELSE b
                          : b \in breakpoints}
       /\ pendings' = {IF p \in open THEN [p EXCEPT !.open = FALSE] ELSE p : p \in pendings}
       /\ UNCHANGED <<lastId, stepping, depth, phase, asked, due>>

DebuggerNext ==
    \/ \E n \in SourceLines : BreakLine(n) \/ ScriptStatement(n)
    \/ \E f \in Funcs : BreakPending(f) \/ BreakFunc(f) \/ ScriptCall(f) \/ Define(f)
    \/ \E id \in 1 .. MaxBreakpoints : RemoveBreakpoint(id)
    \/ \E cmd \in {"next", "step", "continue"} : Resume(cmd)
    \/ Run \/ Finish \/ ScriptReturn
DebuggerSpec == DebuggerInit /\ [][DebuggerNext]_debuggerVars
-----------------------------------------------------------------------------
DebuggerTypeOK ==
    /\ \A b \in breakpoints : b.id \in 1 .. lastId /\ b.kind \in {"line", "name", "func"}
    /\ \A a, b \in breakpoints : a.id = b.id => a = b
    /\ \A p, q \in pendings : p.name = q.name => p = q
    /\ matched \subseteq defined /\ depth \in 0 .. MaxDepth

(* A defined function stops the program exactly when a breakpoint on it is *)
(* listed.                                                                 *)
ListedBreakpointsStop ==
    phase \in {"running", "stopped"} =>
        \A f \in defined : f \in matched <=> \E b \in breakpoints : b.at = f

(* The program stops at a breakpoint, in the statement that "step" enters, *)
(* or for "next" not below where it was given.                             *)
StopsAsAsked ==
    phase = "stopped" => \/ due
                         \/ asked.cmd = "step"
                         \/ asked.cmd = "next" /\ depth <= asked.depth

(* Every pending entry is the one of a listed breakpoint on that name.     *)
PendingIsListed ==
    \A p \in pendings : \E b \in breakpoints :
        b.id = p.id /\ b.at = p.name /\ b.kind = (IF p.open THEN "name" ELSE "func")

(* The program stops where the list of breakpoints and the last command    *)
(* say, through every order of setting, removing and running               *)
(* (debugger.cpp).                                                         *)
DebuggerInv ==
    /\ DebuggerTypeOK
    /\ ListedBreakpointsStop
    /\ StopsAsAsked
    /\ PendingIsListed
=============================================================================
