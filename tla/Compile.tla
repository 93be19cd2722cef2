------------------------------ MODULE Compile ------------------------------
(***************************************************************************)
(* compile() as a transaction on the compiler, which all contexts of a     *)
(* process share (instance_type::compile(), sources/instance/instance.cpp; *)
(* compiler_type, include/covscript/impl/compiler.hpp).  The compiler is   *)
(* bound to one context at a time.  A static `import` compiles and runs a  *)
(* module while the importer is being compiled, a call of runtime.import() *)
(* while it runs; both may fail, and the second one may be survived.       *)
(*                                                                         *)
(* Of a program only its imports, which get their results in the order of  *)
(* the lines, and its blocks are kept: a line of a block is preprocessed   *)
(* where it stands and translated when the outermost block is closed.  The *)
(* module cache is ImportCache's.                                          *)
(***************************************************************************)
EXTENDS SequencesExt, Integers

CONSTANTS Runners,         \* the main program and the fibers of the process
          MainRunner,
          MaxPrograms,     \* bound: contexts ever made
          MaxWork,         \* bound: lines read, and imports, eval()s, build()s
                           \* and fibers of running code, all together
          YieldsInCompile  \* TRUE: modules yield while an importer compiles

ASSUME CompileAssumption ==
    /\ MainRunner \in Runners
    /\ MaxPrograms \in Nat \ {0} /\ MaxWork \in Nat
    /\ YieldsInCompile \in BOOLEAN

VARIABLES
    compiler,   \* its context, import_result_scopes, constant_pool, loop_depth
    programs,   \* the contexts made so far, 1 is the main one
    activities, \* runner -> its compile(), interpret() and eval() calls
    unwinding,  \* runner -> an exception is on its way out
    runner,     \* the one that executes
    built,      \* what build() returned: its arena, and that of its tokens
    work        \* how much of MaxWork has been done

compileVars == <<compiler, programs, activities, unwinding, runner, built, work>>

(* A token arena of context c: its own, its program's, an expression's.    *)
Unit(c, of) == [cxt |-> c, of |-> of]
NewProgram(c) ==
    [unit |-> Unit(c, "context"), transactions |-> 0, names |-> {},
     statements |-> <<>>, constants |-> {}, marked |-> {}]

CompileInit ==
    /\ compiler = [cxt |-> 1, scopes |-> <<>>, pool |-> <<>>, loops |-> 0]
    /\ programs = <<NewProgram(1)>>
    /\ activities = [r \in Runners |-> <<>>]
    /\ unwinding = [r \in Runners |-> FALSE]
    /\ runner = MainRunner
    /\ built = {}
    /\ work = 0
-----------------------------------------------------------------------------
Calls == activities[runner]
Now == Last(Calls)
Doing(what) == Calls # <<>> /\ ~ unwinding[runner] /\ Now.at = what
SetCalls(s) == activities' = [activities EXCEPT ![runner] = s]

(* import_result_scopes: push_import_result(), pop_import_result() for n   *)
(* statements, end_import_scope().                                         *)
Pushed(scopes, result) ==
    IF scopes = <<>> THEN << <<result>> >>
    ELSE Append(Front(scopes), Append(Last(scopes), result))

Pending(scopes) == IF scopes = <<>> THEN <<>> ELSE Last(scopes)

Popped(scopes, n) ==
    IF scopes = <<>> THEN <<>>
    ELSE Append(Front(scopes), SubSeq(Last(scopes), n + 1, Len(Last(scopes))))

EndedScope(scopes) == IF scopes = <<>> THEN <<>> ELSE Front(scopes)

(* restore_pool(): resize() drops constants, or makes up empty ones.       *)
NoConstant == [cxt |-> 0, line |-> 0]
Resized(pool, n) == [i \in 1 .. n |-> IF i <= Len(pool) THEN pool[i] ELSE NoConstant]

(* What compile() and eval() remember to restore: the arena of the context *)
(* and the binding, and compile() also the size of the pool, the loops and *)
(* the variables.                                                          *)
Activity(at, c, unit, names) ==
    [at |-> at, cxt |-> c, bound |-> compiler.cxt, unit |-> unit, names |-> names,
     base |-> Len(compiler.pool), loops |-> compiler.loops,
     line |-> 1, blocks |-> <<>>, waiting |-> <<>>]

(* compile() up to code_gen(), above the calls s.                          *)
BeginCompile(s, c, p) ==
    /\ compiler' = [compiler EXCEPT !.scopes = Append(@, <<>>), !.loops = 0, !.cxt = c]
    /\ programs' = [p EXCEPT ![c].unit = Unit(c, "program"), ![c].transactions = @ + 1]
    /\ SetCalls(Append(s, Activity("compile", c, p[c].unit, p[c].names)))
    /\ UNCHANGED <<unwinding, runner, built>>

(* The clean-up that both ends of compile() have in common.                *)
RestoredKeeping(f) == \* MUTANT: a scope is left behind
    [cxt |-> f.bound, scopes |-> compiler.scopes,
     pool |-> Resized(compiler.pool, f.base), loops |-> f.loops]

Restored(f) ==
    [cxt |-> f.bound, scopes |-> EndedScope(compiler.scopes),
     pool |-> Resized(compiler.pool, f.base), loops |-> f.loops]

RolledBack(f, p) ==
    [p EXCEPT ![f.cxt].unit = f.unit, ![f.cxt].names = f.names,
              ![f.cxt].transactions = @ - 1]

(* utilize_metadata() marks every constant of the pool.                    *)
Utilized(p) ==
    [c \in DOMAIN p |->
        [p[c] EXCEPT !.marked = @ \cup
            {l \in p[c].constants : [cxt |-> c, line |-> l] \in Range(compiler.pool)}]]

StartProgram ==
    /\ runner = MainRunner /\ Calls = <<>> /\ ~ unwinding[runner]
    /\ programs = <<NewProgram(1)>>
    /\ BeginCompile(<<>>, 1, programs)
    /\ UNCHANGED work

(* All lines are translated: the program can run.                          *)
EndCompile ==
    /\ Doing("compile") /\ Now.blocks = <<>>
    /\ compiler' = Restored(Now)
    /\ programs' = RolledBack(Now, Utilized(programs))
    /\ SetCalls(Append(Front(Calls), Activity("run", Now.cxt, Now.unit, {})))
    /\ UNCHANGED <<unwinding, runner, built, work>>
-----------------------------------------------------------------------------
(* A line of the program: its tokens are made in the arena of the context  *)
(* the compiler is bound to.  A block may be a loop.                       *)
Opens(isLoop) == IF isLoop THEN 1 ELSE 0
OpenLoops(blocks) == Cardinality({i \in DOMAIN blocks : blocks[i]})
NextLine == [Now EXCEPT !.line = @ + 1]
Spend == work < MaxWork /\ work' = work + 1
MayWrite == Doing("compile") /\ Spend

OpenBlock(isLoop) ==
    /\ MayWrite
    /\ SetCalls(Append(Front(Calls), [NextLine EXCEPT !.blocks = Append(@, isLoop)]))
    /\ compiler' = [compiler EXCEPT !.loops = @ + Opens(isLoop)]
    /\ UNCHANGED <<programs, unwinding, runner, built>>

(* The result for the waiting line is there (the preprocess() of imports   *)
(* and `using`): the names are defined for the rest of the compilation,    *)
(* and what was imported becomes a constant.                               *)
WaitsFor(f) == Last(f.waiting).line

Delivered(f, isImport) ==
    LET result == [cxt |-> f.cxt, line |-> WaitsFor(f)]
    IN  [compiler EXCEPT !.scopes = Pushed(@, result),
                         !.pool = IF isImport THEN Append(@, result) ELSE @]

Defined(f, p, isImport) ==
    [p EXCEPT ![f.cxt].names = @ \cup {WaitsFor(f)},
              ![f.cxt].constants = @ \cup {l \in {WaitsFor(f)} : isImport}]

(* translate() of the waiting lines: each takes the next result as its     *)
(* statement, and there may be none.                                       *)
StatementsOf(f, results) ==
    [i \in DOMAIN f.waiting |->
        [line |-> f.waiting[i].line, unit |-> f.waiting[i].unit, result |-> results[i]]]

TranslateWaiting(s, c, p) ==
    LET f == Last(s)
        results == Pending(c.scopes)
        enough == Len(f.waiting) <= Len(results)
    IN  /\ compiler' = [c EXCEPT !.scopes = Popped(@, Len(f.waiting)),
                                 !.loops = IF enough THEN @ - OpenLoops(f.blocks) ELSE @]
        /\ programs' = IF enough
                       THEN [p EXCEPT ![f.cxt].statements = @ \o StatementsOf(f, results)]
                       ELSE p
        /\ SetCalls(Append(Front(s), [f EXCEPT !.blocks = <<>>, !.waiting = <<>>]))
        /\ unwinding' = [unwinding EXCEPT ![runner] = ~ enough]

Deliver(s, p, isImport) ==
    LET f == Last(s)
    IN  IF f.blocks = <<>>
        THEN TranslateWaiting(s, Delivered(f, isImport), Defined(f, p, isImport))
        ELSE /\ compiler' = Delivered(f, isImport)
             /\ programs' = Defined(f, p, isImport)
             /\ SetCalls(s)
             /\ UNCHANGED unwinding

CloseBlock ==
    /\ Doing("compile") /\ Now.blocks # <<>>
    /\ IF Len(Now.blocks) = 1
       THEN TranslateWaiting(Calls, compiler, programs)
       ELSE /\ compiler' = [compiler EXCEPT !.loops = @ - Opens(Last(Now.blocks))]
            /\ SetCalls(Append(Front(Calls), [Now EXCEPT !.blocks = Front(@)]))
            /\ UNCHANGED <<programs, unwinding>>
    /\ UNCHANGED <<runner, built, work>>

WaitingLine ==
    [NextLine EXCEPT !.waiting =
        Append(@, [line |-> Now.line, unit |-> programs[compiler.cxt].unit])]

(* An import of a module that is cached, or of an extension, or `using`.   *)
Resolve(isImport) ==
    /\ MayWrite
    /\ Deliver(Append(Front(Calls), WaitingLine), programs, isImport)
    /\ UNCHANGED <<runner, built>>

(* create_subcontext() and compile() for a new module.                     *)
New == Len(programs) + 1
ImportNew ==
    /\ MayWrite /\ New <= MaxPrograms
    /\ BeginCompile(Append(Front(Calls), WaitingLine), New, Append(programs, NewProgram(New)))
-----------------------------------------------------------------------------
(* Running code, of a program, a fiber or an expression, may import, call  *)
(* runtime.build(), or a host function that calls eval().                  *)
Running == Doing("run") \/ Doing("fiber") \/ Doing("eval")
MayAct == Running /\ Spend

ImportRunning ==
    /\ MayAct /\ New <= MaxPrograms
    /\ BeginCompile(Calls, New, Append(programs, NewProgram(New)))

(* The constants of an expression stay in the pool.                        *)
ExpressionPool == Append(compiler.pool, [cxt |-> Now.cxt, line |-> 0])

BeginEval ==
    /\ MayAct
    /\ SetCalls(Append(Calls, Activity("eval", Now.cxt, programs[Now.cxt].unit, {})))
    /\ programs' = [programs EXCEPT ![Now.cxt].unit = Unit(Now.cxt, "expression")]
    /\ compiler' = [compiler EXCEPT !.cxt = Now.cxt, !.pool = ExpressionPool]
    /\ UNCHANGED <<unwinding, runner, built>>

(* build() gives its context a new arena and does not bind the compiler.   *)
Build ==
    /\ MayAct
    /\ LET arena == Unit(Now.cxt, "expression")
       IN  built' = built \cup {[arena |-> arena,
                                tokens |-> IF compiler.cxt = Now.cxt THEN arena
                                           ELSE programs[compiler.cxt].unit]}
    /\ compiler' = [compiler EXCEPT !.pool = ExpressionPool]
    /\ UNCHANGED <<programs, activities, unwinding, runner>>

(* A statement of the program: it defines what its line imported.          *)
RunStatement ==
    /\ Doing("run") /\ Now.line <= Len(programs[Now.cxt].statements)
    /\ LET s == programs[Now.cxt].statements[Now.line]
       IN  programs' = [programs EXCEPT ![s.result.cxt].names = @ \cup {s.result.line}]
    /\ SetCalls(Append(Front(Calls), NextLine))
    /\ UNCHANGED <<compiler, unwinding, runner, built, work>>

(* The end of an activity: of a module, whose importer goes on; of a fiber *)
(* and of the main program.                                                *)
EvalRestored(f) == [compiler EXCEPT !.cxt = f.bound]
UnitRestored(f) == [programs EXCEPT ![f.cxt].unit = f.unit]
Resumed(s) == IF s = <<>> THEN MainRunner ELSE runner

EndRun ==
    /\ Doing("run") /\ Now.line > Len(programs[Now.cxt].statements)
    /\ IF Len(Calls) > 1 /\ Calls[Len(Calls) - 1].at = "compile"
       THEN Deliver(Front(Calls), programs, TRUE)
       ELSE SetCalls(Front(Calls)) /\ UNCHANGED <<compiler, programs, unwinding>>
    /\ UNCHANGED <<runner, built, work>>

EndEval ==
    /\ Doing("eval")
    /\ compiler' = EvalRestored(Now) /\ programs' = UnitRestored(Now)
    /\ SetCalls(Front(Calls))
    /\ UNCHANGED <<unwinding, runner, built, work>>

EndFiber ==
    /\ Doing("fiber")
    /\ SetCalls(<<>>) /\ runner' = MainRunner
    /\ UNCHANGED <<compiler, programs, unwinding, built, work>>

(* A fiber starts, runs and yields where no compile() or eval() is left    *)
(* half way, unless YieldsInCompile.                                       *)
MaySwitch ==
    /\ Running
    /\ \/ YieldsInCompile
       \/ \A i \in DOMAIN Calls : Calls[i].at \in {"run", "fiber"}

StartFiber(r) ==
    /\ runner = MainRunner /\ MayAct /\ MaySwitch
    /\ activities[r] = <<>> /\ r # MainRunner
    /\ activities' = [activities EXCEPT ![r] = <<Activity("fiber", Now.cxt, Now.unit, {})>>]
    /\ runner' = r
    /\ UNCHANGED <<compiler, programs, unwinding, built>>

SwitchTo(r) ==
    /\ MaySwitch
    /\ r # runner /\ MainRunner \in {r, runner} /\ activities[r] # <<>>
    /\ runner' = r
    /\ UNCHANGED <<compiler, programs, activities, unwinding, built, work>>
-----------------------------------------------------------------------------
(* An exception ends the activities it passes.  runtime.import() catches   *)
(* what a module throws; a script may catch what eval() passes on.         *)
Throw ==
    /\ Calls # <<>> /\ ~ unwinding[runner]
    /\ unwinding' = [unwinding EXCEPT ![runner] = TRUE]
    /\ UNCHANGED <<compiler, programs, activities, runner, built, work>>

PassesOn(s) == s # <<>> /\ (Now.at = "eval" \/ Last(s).at = "compile")

Unwind ==
    /\ unwinding[runner]
    /\ LET s == Front(Calls)
       IN  /\ SetCalls(s)
           /\ runner' = Resumed(s)
           /\ \E on \in {PassesOn(s), PassesOn(s) /\ Last(s).at = "compile"} :
                  unwinding' = [unwinding EXCEPT ![runner] = on]
    /\ CASE Now.at = "compile" ->
              /\ compiler' = Restored(Now)
              /\ programs' = [RolledBack(Now, programs) EXCEPT ![Now.cxt].statements = <<>>]
         [] Now.at = "eval" ->
              compiler' = EvalRestored(Now) /\ programs' = UnitRestored(Now)
         [] OTHER -> UNCHANGED <<compiler, programs>>
    /\ UNCHANGED <<built, work>>

CompileNext ==
    \/ StartProgram \/ EndCompile
    \/ (\E isLoop \in BOOLEAN : OpenBlock(isLoop)) \/ CloseBlock
    \/ (\E isImport \in BOOLEAN : Resolve(isImport)) \/ ImportNew
    \/ ImportRunning \/ BeginEval \/ EndEval \/ Build
    \/ RunStatement \/ EndRun \/ EndFiber
    \/ (\E r \in Runners : StartFiber(r) \/ SwitchTo(r))
    \/ Throw \/ Unwind

CompileSpec == CompileInit /\ [][CompileNext]_compileVars
-----------------------------------------------------------------------------
Cxts == 1 .. MaxPrograms
Results == [cxt : 0 .. MaxPrograms, line : 0 .. MaxWork]
Units == [cxt : Cxts, of : {"context", "program", "expression"}]

CompileTypeOK ==
    /\ compiler \in [cxt : Cxts, scopes : Seq(Seq(Results)), pool : Seq(Results),
                     loops : Int]
    /\ \A c \in DOMAIN programs :
           /\ programs[c].unit \in Units
           /\ programs[c].transactions \in 0 .. 1
           /\ programs[c].marked \subseteq programs[c].constants
           /\ programs[c].names \cup programs[c].constants \subseteq 1 .. MaxWork
    /\ unwinding \in [Runners -> BOOLEAN]
    /\ runner \in Runners
    /\ work \in 0 .. MaxWork
    /\ built \subseteq [arena : Units, tokens : Units]
    /\ \A r \in Runners : unwinding[r] => activities[r] # <<>>

(* Whatever is compiled, run and thrown in the middle of it, the statement *)
(* of a line has the result of that line, belongs to the context being     *)
(* compiled, and its tokens are in the arena of that program.              *)
StatementsLandHome ==
    \A c \in DOMAIN programs : \A s \in Range(programs[c].statements) :
        /\ s.result = [cxt |-> c, line |-> s.line]
        /\ s.unit = Unit(c, "program")

(* The compiler serves the innermost compile(): its context, its loops and *)
(* its results; the program so far has a statement for every import that   *)
(* is not waiting in a block, in their order.                              *)
ServesTheInnermost ==
    Doing("compile") =>
        /\ compiler.cxt = Now.cxt
        /\ compiler.loops = OpenLoops(Now.blocks)
        /\ Pending(compiler.scopes) =
               [i \in DOMAIN Now.waiting |-> [cxt |-> Now.cxt, line |-> Now.waiting[i].line]]

(* A program runs with all its constants marked, and with the names that   *)
(* its statements have defined by then: compile() has taken back its own.  *)
RunsFromScratch ==
    Doing("run") =>
        LET p == programs[Now.cxt]
        IN  /\ p.constants = p.marked
            /\ p.names = {p.statements[i].line : i \in 1 .. (Now.line - 1)}

(* When nothing is being compiled, by whatever way that came about, the    *)
(* compiler and the contexts are as before, but for the constants of       *)
(* expressions.                                                            *)
NothingLeftBehind ==
    (\A r \in Runners : \A a \in Range(activities[r]) : a.at \in {"run", "fiber"}) =>
        /\ compiler.cxt = 1 /\ compiler.loops = 0 /\ compiler.scopes = <<>>
        /\ \A k \in Range(compiler.pool) : k.line = 0 /\ k.cxt # 0
        /\ \A c \in DOMAIN programs :
               programs[c].transactions = 0 /\ programs[c].unit = Unit(c, "context")

(* The shared compiler is handed over and returned completely.             *)
CompileInv ==
    /\ CompileTypeOK
    /\ StatementsLandHome
    /\ ServesTheInnermost
    /\ RunsFromScratch
    /\ NothingLeftBehind

(***************************************************************************)
(* type_ext.cpp:1851 says of build(): "Build into a fresh token arena; the *)
(* returned expression keeps it alive so the tree's tokens stay valid for  *)
(* as long as the var exists."  The tokens are in the arena it keeps.      *)
(***************************************************************************)
ExpressionsKeepTheirTokens == \A e \in built : e.tokens = e.arena
=============================================================================
