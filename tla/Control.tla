------------------------------ MODULE Control ------------------------------
(***************************************************************************)
(* Execution of statements (sources/instance/statement.cpp): how `return`, *)
(* `break`, `continue` and exceptions travel through the statements that   *)
(* are being executed.  A C++ activation of a run_impl(), a function body  *)
(* or interpret() is a frame; the machine stack of a context is a sequence *)
(* of frames.  `return`, `break` and `continue` raise a flag of the        *)
(* instance their statement belongs to, and whoever ran the statement      *)
(* tests the flags afterwards.  The flags are shared by the main program   *)
(* and all fibers, and a script can run in the middle of the journey: the  *)
(* `finalize` method of a value that dies with its scope.                  *)
(*                                                                         *)
(* Values, names and conditions are nondeterministic.  What `return`,      *)
(* `break` and `continue` are for is recorded in the ghost field `over`.   *)
(***************************************************************************)
EXTENDS SequencesExt, Naturals

CONSTANTS Main, Fiber,       \* the contexts: the main program and one fiber
          Root,              \* the instance the main program belongs to
          Modules,           \* the instances of the modules it may import
          LoopKinds,         \* the kinds of loops that scripts use
          MaxFrames,         \* bound: frames of both contexts together
          JumpFinalizers,    \* TRUE: a `finalize` method runs during a jump
          ModuleReturns      \* TRUE: a module executes `return` at top level

Loops == {"while", "loop", "until", "for", "foreach", "iterate"}

ASSUME ControlAssumption ==
    /\ Main # Fiber /\ Root \notin Modules
    /\ LoopKinds \subseteq Loops
    /\ MaxFrames \in Nat
    /\ JumpFinalizers \in BOOLEAN /\ ModuleReturns \in BOOLEAN

VARIABLES
    frames,  \* context -> its frames, the innermost last
    ctl,     \* the context whose code executes
    flags,   \* instance -> return_fcall, break_block and continue_block
    ready    \* the instances whose top level has been executed

controlVars == <<frames, ctl, flags, ready>>

Contexts == {Main, Fiber}
Instances == {Root} \cup Modules

Functions == {"function", "finalizer"}
Bodies == Functions \cup {"program"}
Blocks == {"block", "try", "catch"}
Kinds == Bodies \cup Blocks \cup Loops

(* Where a frame is: at a statement of its body or at an expression of a   *)
(* loop's head (evaluating); after a statement it has run ("check"); in    *)
(* the clean-up of its domain after a round, before a catch body or at its *)
(* end (cleaning).                                                         *)
Evaluating == {"body", "init", "cond", "step"}
Cleaning == {"clear", "reset", "leave"}

Frame == [kind : Kinds,
          inst : Instances,
          pc : Evaluating \cup Cleaning \cup {"check"},
          why : {"end", "flag", "lang", "fatal"},  \* what ended it, or a round
          over : {"no", "round", "all"}]           \* what should have ended

NewFrame(kind, i, pc) ==
    [kind |-> kind, inst |-> i, pc |-> pc, why |-> "end", over |-> "no"]

NoFlags == [ret |-> FALSE, brk |-> FALSE, cont |-> FALSE]

ControlInit ==
    /\ frames = [c \in Contexts |->
                    IF c = Main THEN <<NewFrame("program", Root, "body")>> ELSE <<>>]
    /\ ctl = Main
    /\ flags = [i \in Instances |-> NoFlags]
    /\ ready = {Root}
-----------------------------------------------------------------------------
Stack == frames[ctl]
Top == Last(Stack)
FlagsHere == flags[Top.inst]

Goto(f, pc) == [f EXCEPT !.pc = pc]
ReplaceTop(f) == frames' = [frames EXCEPT ![ctl] = Append(Front(@), f)]
Push(f) == frames' = [frames EXCEPT ![ctl] = Append(@, f)]
(* A compound statement: when it is done, the parent tests the flags.      *)
Enter(f) == frames' = [frames EXCEPT ![ctl] = Append(Front(@), Goto(Top, "check")) \o <<f>>]
Room == Len(frames[Main]) + Len(frames[Fiber]) < MaxFrames

At(pc) == Stack # <<>> /\ Top.pc = pc
(* foreach over a container evaluates nothing between two elements.        *)
AtExpression ==
    /\ Stack # <<>>
    /\ Top.pc \in Evaluating
    /\ ~ (Top.kind = "foreach" /\ Top.pc = "cond")

(* The frame of the function or the top level the statement belongs to,    *)
(* and the loop around the statement in there, or 0.                       *)
BodyOf(s) == SelectLastInSeq(s, LAMBDA f : f.kind \in Bodies)

LoopOf(s) == SelectLastInSubSeq(s, BodyOf(s), Len(s), LAMBDA f : f.kind \in Loops)
-----------------------------------------------------------------------------
(* What an expression may do: call a function of the script, import a      *)
(* module, resume or leave a fiber, or throw.  Function call_rr() and its  *)
(* siblings, source_import(), resume(), yield().                           *)
MayCall(i) == i \in ready \/ i = Top.inst

Call(i) ==
    /\ AtExpression /\ Room /\ MayCall(i)
    /\ Push(NewFrame("function", i, "body"))
    /\ UNCHANGED <<ctl, flags, ready>>

Import(i) ==
    /\ AtExpression /\ Room
    /\ i \notin ready
    /\ \A c \in Contexts, k \in 1 .. MaxFrames :
           k \in DOMAIN frames[c] => frames[c][k].inst # i
    /\ Push(NewFrame("program", i, "body"))
    /\ UNCHANGED <<ctl, flags, ready>>

StartFiber(i) ==
    /\ ctl = Main /\ AtExpression /\ Room
    /\ frames[Fiber] = <<>>
    /\ i \in ready
    /\ frames' = [frames EXCEPT ![Fiber] = <<NewFrame("function", i, "body")>>]
    /\ ctl' = Fiber
    /\ UNCHANGED <<flags, ready>>

SwitchTo(c) ==
    /\ c # ctl /\ AtExpression
    /\ frames[c] # <<>>
    /\ ctl' = c
    /\ UNCHANGED <<frames, flags, ready>>

(* An exception arrives in the innermost of these frames.  A try statement *)
(* takes a lang_error; every other statement list passes it on, and turns  *)
(* any std::exception into a cs::exception; interpret() does so with both. *)
Unwound(s, why) ==
    LET f == Last(s)
    IN  Append(Front(s),
               IF f.kind = "try" /\ why = "lang"
               THEN [f EXCEPT !.kind = "catch", !.pc = "reset"]
               ELSE [f EXCEPT !.pc = "leave",
                              !.why = IF f.kind = "program" THEN "fatal" ELSE why])

Raise(why) ==
    /\ AtExpression
    /\ frames' = [frames EXCEPT ![ctl] = Unwound(@, why)]
    /\ UNCHANGED <<ctl, flags, ready>>
-----------------------------------------------------------------------------
(* The statements of a body, after their expression.                       *)
Statement == \* one that ends here: no effect on the control flow
    /\ At("body")
    /\ ReplaceTop(Goto(Top, "check"))
    /\ UNCHANGED <<ctl, flags, ready>>

(* A jump out of all frames above the one at target, and out of that frame *)
(* too ("all") or to its next round ("round").                             *)
JumpTo(target, extent) ==
    frames' = [frames EXCEPT ![ctl] = [k \in DOMAIN @ |->
        LET f == IF k = Len(@) THEN Goto(@[k], "check") ELSE @[k]
        IN  IF k > target THEN [f EXCEPT !.over = "all"]
            ELSE IF k = target THEN [f EXCEPT !.over = extent] ELSE f]]

Break ==
    /\ At("body") /\ LoopOf(Stack) # 0
    /\ JumpTo(LoopOf(Stack), "all")
    /\ flags' = [flags EXCEPT ![Top.inst].brk = TRUE]
    /\ UNCHANGED <<ctl, ready>>

Continue ==
    /\ At("body") /\ LoopOf(Stack) # 0
    /\ JumpTo(LoopOf(Stack), "round")
    /\ flags' = [flags EXCEPT ![Top.inst].cont = TRUE]
    /\ UNCHANGED <<ctl, ready>>

(* The value stack of the process has a slot for every function being      *)
(* executed; `return` is refused when there is none.                       *)
ValueStackEmpty == \A k \in DOMAIN Stack : Stack[k].kind \notin Functions
AtTopLevel == Stack[BodyOf(Stack)].kind = "program"

Return ==
    /\ At("body")
    /\ AtTopLevel => ValueStackEmpty \/ ModuleReturns
    /\ IF ValueStackEmpty
       THEN /\ frames' = [frames EXCEPT ![ctl] = Unwound(@, "fatal")]
            /\ UNCHANGED flags
       ELSE /\ IF AtTopLevel THEN ReplaceTop(Goto(Top, "check"))
               ELSE JumpTo(BodyOf(Stack), "all")
            /\ flags' = [flags EXCEPT ![Top.inst].ret = TRUE]
    /\ UNCHANGED <<ctl, ready>>

EnterBlock(kind) ==
    /\ At("body") /\ Room
    /\ Enter(NewFrame(kind, Top.inst, "body"))
    /\ UNCHANGED <<ctl, flags, ready>>

(* Loops clear stale flags first; only then is the head of a while, for or *)
(* struct iteration evaluated.  foreach over an empty container returns    *)
(* before (a Statement).                                                   *)
EntryFlags(fl) == [fl EXCEPT !.brk = FALSE, !.cont = FALSE]
FirstOf(kind) ==
    CASE kind = "for" -> "init"
      [] kind \in {"while", "iterate"} -> "cond"
      [] OTHER -> "body"

EnterLoop(kind) ==
    /\ At("body") /\ Room
    /\ Enter(NewFrame(kind, Top.inst, FirstOf(kind)))
    /\ flags' = [flags EXCEPT ![Top.inst] = EntryFlags(@)]
    /\ UNCHANGED <<ctl, ready>>
-----------------------------------------------------------------------------
(* The rounds of a loop.                                                   *)
RoundEnd(kind) == IF kind = "for" THEN "step" ELSE "clear"

EndOfBody ==
    /\ At("body")
    /\ ReplaceTop(Goto(Top, IF Top.kind \in Loops THEN RoundEnd(Top.kind) ELSE "leave"))
    /\ UNCHANGED <<ctl, flags, ready>>

LoopHead == \* the expressions of the head, in their order
    /\ Stack # <<>>
    /\ \/ Top.pc = "init" /\ ReplaceTop(Goto(Top, "cond"))
       \/ Top.pc = "cond" /\ \E next \in {"body", "leave"} : ReplaceTop(Goto(Top, next))
       \/ Top.pc = "step" /\ ReplaceTop(Goto(Top, "clear"))
    /\ UNCHANGED <<ctl, flags, ready>>

NextRound ==
    /\ At("clear")
    /\ ReplaceTop([Top EXCEPT !.pc = IF Top.kind = "loop" THEN "body" ELSE "cond",
                              !.why = "end",
                              !.over = IF @ = "round" THEN "no" ELSE @])
    /\ UNCHANGED <<ctl, flags, ready>>

Catch == \* scope.reset(), and on to the catch body
    /\ At("reset")
    /\ ReplaceTop(Goto(Top, "body"))
    /\ UNCHANGED <<ctl, flags, ready>>

(* After a statement: the test of the flags, by kind of frame.             *)
Proceed == ReplaceTop(Goto(Top, "body"))
EarlyEnd(pc) == ReplaceTop([Top EXCEPT !.pc = pc, !.why = "flag"])
LowerJump(flag) == \* MUTANT: a function leaves its flag up
    IF flag = "ret" THEN UNCHANGED flags
    ELSE flags' = [flags EXCEPT ![Top.inst][flag] = FALSE]

Lower(flag) == flags' = [flags EXCEPT ![Top.inst][flag] = FALSE]

CheckProgram ==
    /\ At("check") /\ Top.kind = "program"
    /\ Proceed
    /\ UNCHANGED <<ctl, flags, ready>>

CheckFunction ==
    /\ At("check") /\ Top.kind \in Functions
    /\ IF FlagsHere.ret THEN EarlyEnd("leave") /\ Lower("ret")
       ELSE Proceed /\ UNCHANGED flags
    /\ UNCHANGED <<ctl, ready>>

ReturnOrBreak(fl) == \* MUTANT: a block does not stop for `continue`
    fl.ret \/ fl.brk

AnyFlag(fl) == fl.ret \/ fl.brk \/ fl.cont

CheckBlock ==
    /\ At("check") /\ Top.kind \in Blocks
    /\ IF AnyFlag(FlagsHere) THEN EarlyEnd("leave") ELSE Proceed
    /\ UNCHANGED <<ctl, flags, ready>>

CheckLoop ==
    /\ At("check") /\ Top.kind \in Loops
    /\ IF FlagsHere.ret THEN EarlyEnd("leave") /\ UNCHANGED flags
       ELSE IF FlagsHere.brk THEN EarlyEnd("leave") /\ Lower("brk")
       ELSE IF FlagsHere.cont THEN EarlyEnd(RoundEnd(Top.kind)) /\ Lower("cont")
       ELSE Proceed /\ UNCHANGED flags
    /\ UNCHANGED <<ctl, ready>>
-----------------------------------------------------------------------------
(* The domain of a frame is emptied or removed, and a value that dies in   *)
(* it has a `finalize` method.  A program has no domain of its own.        *)
FlagsDown == \A i \in Instances : flags[i] = NoFlags

Finalize(i) ==
    /\ FlagsDown \/ JumpFinalizers
    /\ Room
    /\ Stack # <<>> /\ Top.pc \in Cleaning /\ Top.kind # "program"
    /\ MayCall(i)
    /\ Push(NewFrame("finalizer", i, "body"))
    /\ UNCHANGED <<ctl, flags, ready>>

(* A frame has ended.  The exceptions of a finalizer are swallowed, those  *)
(* of an imported module make the import return null and drop the module;  *)
(* those of a fiber are thrown again in whoever resumed it.                *)
Failed(f) == f.why \in {"lang", "fatal"}

LeaveFrame ==
    /\ At("leave") /\ Len(Stack) > 1
    /\ frames' = [frames EXCEPT ![ctl] =
                     IF Failed(Top) /\ Top.kind \notin {"finalizer", "program"}
                     THEN Unwound(Front(@), Top.why) ELSE Front(@)]
    /\ IF Top.kind # "program" THEN UNCHANGED <<flags, ready>>
       ELSE IF Failed(Top)
       THEN flags' = [flags EXCEPT ![Top.inst] = NoFlags] /\ UNCHANGED ready
       ELSE ready' = ready \cup {Top.inst} /\ UNCHANGED flags
    /\ UNCHANGED ctl

EndFiber ==
    /\ ctl = Fiber /\ At("leave") /\ Len(Stack) = 1
    /\ frames' = [frames EXCEPT
           ![Fiber] = <<>>,
           ![Main] = IF Failed(Top) THEN Unwound(@, Top.why) ELSE @]
    /\ ctl' = Main
    /\ UNCHANGED <<flags, ready>>

Evaluate ==
    \/ \E i \in Instances : Call(i) \/ Import(i) \/ StartFiber(i)
    \/ \E c \in Contexts : SwitchTo(c)
    \/ \E why \in {"lang", "fatal"} : Raise(why)

Execute ==
    \/ Statement
    \/ Break
    \/ Continue
    \/ Return
    \/ \E kind \in {"block", "try"} : EnterBlock(kind)
    \/ \E kind \in LoopKinds : EnterLoop(kind)
    \/ EndOfBody
    \/ LoopHead
    \/ NextRound
    \/ Catch

Check == CheckProgram \/ CheckFunction \/ CheckBlock \/ CheckLoop

CleanUp == (\E i \in Instances : Finalize(i)) \/ LeaveFrame \/ EndFiber

ControlNext == Evaluate \/ Execute \/ Check \/ CleanUp

ControlSpec == ControlInit /\ [][ControlNext]_controlVars
-----------------------------------------------------------------------------
(* Every frame but the innermost waits where its callee was started: for a *)
(* statement, inside an expression or in the clean-up of its domain; the   *)
(* context that does not execute is inside an expression; and no program   *)
(* ends with a lang_error, interpret() reports it as an exception.         *)
ControlTypeOK ==
    /\ frames \in [Contexts -> Seq(Frame)]
    /\ ctl \in Contexts
    /\ flags \in [Instances -> [ret : BOOLEAN, brk : BOOLEAN, cont : BOOLEAN]]
    /\ ready \in SUBSET Instances
    /\ \A c \in Contexts : \A k \in DOMAIN frames[c] :
           LET f == frames[c][k]
           IN  /\ f.kind = "program" => f.why # "lang"
               /\ k = Len(frames[c]) /\ c # ctl => f.pc \in Evaluating
               /\ k < Len(frames[c]) =>
                      LET callee == frames[c][k + 1]
                      IN  f.pc \in CASE callee.kind = "finalizer" -> Cleaning
                                     [] callee.kind \in Bodies \ {"finalizer"} -> Evaluating
                                     [] OTHER -> {"check"}

(***************************************************************************)
(* A statement list that a `return`, `break` or `continue` is meant to     *)
(* leave executes no further statement, and its loop no further condition. *)
(* statement.cpp:42-43: "Execute a function body, translating C++          *)
(* exceptions and honoring early returns via the value stack."             *)
(***************************************************************************)
NothingRunsAfterLeaving ==
    \A c \in Contexts : \A k \in DOMAIN frames[c] :
        LET f == frames[c][k]
        IN  /\ f.pc \in {"body", "init", "cond"} => f.over = "no"
            /\ f.pc = "step" => f.over # "all"

(***************************************************************************)
(* The other way round: a statement list is left early, and a round cut    *)
(* short, only by a jump that was meant to; a flag that was left up by an  *)
(* earlier jump, or raised by another fiber or function of the instance,   *)
(* ends nothing (the tests of the flags in every run_impl()).              *)
(***************************************************************************)
LeavesOnlyWhatEnded ==
    \A c \in Contexts : \A k \in DOMAIN frames[c] :
        LET f == frames[c][k]
        IN  f.why = "flag" => f.over = (IF f.pc = "leave" THEN "all" ELSE "round")

(***************************************************************************)
(* No flag is up while an expression is evaluated or a statement begins,   *)
(* in any instance: that is when other fibers, functions and modules get   *)
(* to run and would take the flag for theirs (return_fcall, break_block    *)
(* and continue_block of instance_type are not kept per fiber).            *)
(***************************************************************************)
FlagsDownWhenEvaluating ==
    AtExpression => FlagsDown

(***************************************************************************)
(* Somebody will take every flag that is up: the function the `return` was *)
(* in, or a loop in that function, and no caller of it.  statement.cpp:981 *)
(* refuses a `return` that has no taker: "'return' used outside of a       *)
(* function"; codegen.cpp:688 a `break`: "not inside any loop".            *)
(***************************************************************************)
FlagsHaveTakers ==
    \A i \in Instances :
        LET b == BodyOf(Stack)
        IN  /\ flags[i].ret => Stack[b].kind \in Functions /\ Stack[b].inst = i
            /\ flags[i].brk \/ flags[i].cont =>
                   \E k \in b .. Len(Stack) :
                       Stack[k].kind \in Loops /\ Stack[k].inst = i

(* Only the jump that was meant to leaves a statement list, and its flags  *)
(* are down again whenever anything else can run (run_impl of every block  *)
(* statement).                                                             *)
ControlInv ==
    /\ ControlTypeOK
    /\ LeavesOnlyWhatEnded
    /\ FlagsDownWhenEvaluating
    /\ FlagsHaveTakers
=============================================================================
