# TLA+ models of Covariant Script

Covariant Script is an interpreter for a dynamic language: a preprocessor, a
lexer, a parser and a code generator produce trees of statements, which run over
a storage of domains and values shared by reference, with modules, a REPL, a
debugger, fibers, futures, worker threads and C++ extensions around them. Much of
it rests on state that several parts share: fibers switch in the middle of library
calls, modules run code while they are being loaded, the REPL is re-entered by the
statements it runs, finalizers run wherever a variable dies, and the program
remembers where it found a name. That is what these modules are about.

Paths below are relative to `sources` for `.cpp` files, to `include/covscript` for
headers (`core.hpp`, `variable.hpp`, `components.hpp` are in its `core`), and to the
repository for everything else.

## 1. Inventory

| Component | Source | State it keeps | Operations | What makes it correct |
|---|---|---|---|---|
| Fiber scheduler | `system/unix/common.cpp`, `win32/common.cpp`, `fiber_context` in `core.hpp` | per fiber: state, wake-up time, skip count, `prev_ctx`, `resumer_process`; per thread: the chain; `current_process`; the instance's `fiber_stack` | create, create_native, resume, yield, sleep_for, entry, destruction | control, process and domains return to whom they belong; no early run, no oversleep; nothing dangles |
| Fiber futures | `system/common.cpp` | the fiber, the stored exception | wait, wait_for, get | get returns the task's result; calls return |
| Scope guards | `process_run_scope` in `core.hpp`, `fcall_guard` in `impl.hpp` | a saved process; a slot of a value stack | construct, destroy | each guard undoes what it did, on the same process |
| Module imports | `instance/instance.cpp` | `compiler->modules`, `subcontexts` | source_import, import | a failed module is not reachable; one copy of each |
| REPL, function store | `impl.hpp`, `instance.cpp`, `impl/runtime.hpp` | open blocks, loop depth, import scopes, arenas, snapshots; entries, transactions | run, interpret, reset_status, exec; add, begin, commit, rollback | balanced after every failure; a failed statement leaves no trace; bound lambdas stay alive |
| Storage | `impl/runtime.hpp`, `core.hpp` | domains, their identities, the cache in each `var_id`, the fiber's stack | add/remove domain, clear, rewind, add_var, get_var, snapshot | a cached slot is the variable a lookup by name finds |
| Statement execution | `instance/statement.cpp`, `impl/statement.hpp` | `return_fcall`, `break_block`, `continue_block` of the instance | run of each kind of statement | a flag ends the loop or call it was raised in |
| Processes, events, signals, worker threads | `core.hpp`, `covscript.cpp`, `type_ext.cpp`, `interpreter.cpp` | forks, run scopes, event handlers, signal flags; a `std::future` | fork, run scope, poll_event, exit, async, get | a signal is handled once, in a live process; an exit ends its own session |
| Lexer, preprocessor | `compiler/lexer.cpp` | none between calls | lex, preprocess | tokens agree with the text, statements know their lines |
| Parser, expression trees | `compiler/parser.cpp`, `components.hpp` | a tree of nodes with links back | kill_brackets, build_tree, gen_tree | the tree follows levels and associativity and stays a tree |
| Grammar, code generation, optimizer | `compiler/compiler.cpp`, `codegen.cpp` | blocks being collected, loop and function depths | match_grammar, translate, trim_expr, opt_expr | lines are read as written; folding preserves what a program does |
| Compilation as a whole | `instance.cpp`, `compiler.cpp` | constants, import FIFO, bound context, metadata | compile, build_ast | a failed compilation leaves the compiler as it was |
| Values | `variable.hpp`, `runtime.cpp` | reference counts, protection levels | copy, assign, constify, clone, swap, move | no alias of a copy; only a temporary is moved from |
| Allocator and stores | `components.hpp`, `variable.hpp` | per type: a pool of blocks; per value: a buffer in place or a block | acquire, release, copy, move, destroy | no block lent twice, none lost |
| Numbers | `components.hpp`, ranges in `core.hpp` | none | arithmetic, comparison, power, iteration | promotion is exact; ranges end |
| Containers | `type_ext.cpp`, `impl/type_ext.hpp` | elements, each a variable | literals, access, growth, insertion, conversion | keys are found; elements are detached |
| Structs, name spaces | `core.hpp`, `runtime.cpp` | member domains, parents, finalizers | construct, copy, finalize | inherited members are shared; one finalization, from the derived class to its base |
| Debugger | `debugger.cpp` | breakpoints, pending ones, step mode | break, remove, run, step, next, continue | stops where it should |
| CNI | `cni.hpp` | none | calls | — |
| Interpreter executable, session tables, system, console, dynamic linking, symbols, charsets, messages | `interpreter.cpp`, `covscript.cpp`, `system/*`, `symbols.hpp` | none, or the operating system's | calls | — |

How they interact: every script function call polls and uses `current_process`;
`resume` and `yield` rebind `current_process` and the instance's fiber stack;
`process_run_scope` rebinds `current_process` too; an import runs the module's
code, which may import, switch fibers or throw; the REPL compiles into the
function store and the storage that running statements use; futures call
`resume`, `sleep_for` and so switch in the middle of library code; removing a
domain destroys variables, and destroying a variable may run a finalizer, which is
a function of the script like any other; the code generator folds conditions with
the evaluator that the runtime uses.

Hard behaviours: nests of script and native fibers entered in any order; a fiber
driven by several futures; a guard that outlives a switch; an import that fails
inside a circular import, and is caught; a nested REPL statement that fails
between the commit and the end of the outer one; an identifier evaluated in a
domain that was cleared and filled again since; a finalizer that runs code while
the domain or the block it lives in is being given up; a signal that another
process takes; a loop up to the last integer. The full list, with lines and the
properties for each, is `hazards` in `PROJECT.json`.

One hazard has no property: a native fiber entered from a script fiber sees a null
`fiber_stack` (`system/unix/common.cpp:428`), and the documents do not say which
domains it should see. Another has one under a restriction only: the shared compiler
is bound to one context for the time of a run (`instance/instance.cpp:205`), also
while a module that is being imported yields. `YieldsInCompile = FALSE` excludes such
modules; with TRUE the statements of one module land in another.

Four hazards are real in the code, and the models go up to them and no further: the step
where it happens is there, and what a program does after it is not. They are

- a `resume()` whose own fiber loses its last handle while the call is pending
  (`Fiber`, outcome `"undefined"`): `fiber.resume` gets the handle by reference from a
  script variable (`type_ext.cpp:1729`), which the fiber itself may assign to; the pop
  at `system/unix/common.cpp:523` destroys it and lines 527-533 use it;
- a destructor whose code gets at the variable that is being destroyed (`Memory`,
  `reached`): the proxy can still be reached by its name (`variable.hpp:952-962`) and its
  dispatcher is still set (`variable.hpp:723-730`), so it is destroyed or released twice;
- a finalizer that makes the domain being cleared move, or be copied or replaced, by
  entering a function, compiling or rolling back (`Storage`, `intact`): `clear()` goes on
  with storage that is gone;
- a finalizer that evaluates an identifier while `safe_rewind()` destroys the globals
  (`Storage`, `Rewound`): it is cached again, and nothing invalidates it when its own
  variable goes. Here the model goes on, and the properties except these identifiers.

## 2. Plan

1. **Fibers** (`Coroutine`, `Fiber`, `FiberProofs`): done.
2. **Users of fibers** (`FiberFuture`, `FiberScope`, `FiberUserProofs`,
   `FiberThreads`): done; each composes with `Fiber` by EXTENDS, except
   `FiberThreads`, which looks at machine stacks only.
3. **Transactions of the interpreter** (`ImportCache`, `Repl`, `Compile`): done.
4. **Statement execution** (`Control`): done; the flags of the instance under
   calls, fibers, imports, exceptions and finalizers.
5. **Storage** (`Storage`, `StorageProofs`): done; the abstract specification of a
   cache is the lookup by name.
6. **Processes, events, signals and worker threads** (`Processes`): done, without
   fiber switches.
7. **Compile pipeline** (`Lexer`, `Brackets`, `Grammar`, `ExprTree`, `Optimizer`,
   `Codegen`): done, each against a reference definition of what it reads;
   `Compile` is what holds them together.
8. **Values and data** (`Values`, `Memory`, `MemoryProofs`, `Numeric`, `Structs`,
   `DataProofs`, `Containers`): done.
9. **Debugger** (`Debugger`, with proofs in `ControlProofs`): done.
10. **More proofs**: `Control` (`ControlProofs`), `FiberScope` for disciplined programs
    (in `FiberUserProofs`), `ImportCache` for one task, `Repl` and `Processes`
    (`SessionProofs`), `Values` (in `MemoryProofs`), `Compile` (`CompileProofs`), `Numeric`,
    `Structs` and `ExprTree` (`DataProofs`): done.

## 3. Modules

### Fibers

**`Coroutine`** is the abstract specification of fibers: a stack of activations,
each with the process it runs on.

**`Fiber`** is the scheduler. Contexts are the thread (`Main`) and the fibers;
`ctl` is the one the processor executes. `resume()` is `ResumeRejected`,
`ResumeSwitch`, `ResumeEarlyReturn`, `ResumeBackoffThread` or
`ResumeBackoffFiber`, after its branches; the half of it that runs after the
switch back belongs to the action that leaves (`SwitchOut` in `Yield`, `SleepFor`,
`Finish`), because nothing can happen in between. `BackoffDone` is the rest of a
`resume()` that slept. Guards come from the early returns, `SwapIn` and `SwapOut`
are `cs_swap_in` and `cs_swap_out`. Code between API calls is left open: a context
in its body may make any call, and may drop any handle (`Drop`): the chain keeps the fibers
on it alive, `held` is the others that have a handle. A `resume()` has no handle of its
own, so when it comes back to a fiber that only the chain had kept, or from a back-off
for one that was dropped, the outcome is `"undefined"` and `Next` stops (`Defined`). Time is what remains to each wake-up, in clock
ticks, with `TicksPerMs` ticks to the millisecond, so that rounding is modelled.

**`FiberFuture`** extends `Fiber` with futures; a call of `wait`, `wait_for` or
`get` is spread over several steps, because the fiber that makes it hands control
back in the middle. `FutNext` replaces `Next`: the steps of a context inside a
future call are those of the library's loop only. A future holds its fiber, and programs
hold their futures, so nothing is dropped here. The history `threwInto` is the future whose
call a task's exception came out of.

**`FiberScope`** extends `Fiber` with `process_run_scope` and `fcall_guard`.
`Disciplined` chooses between programs that switch only where `current_process` is
the fiber's own and all programs. A script that switches inside a
`process_run_scope` breaks `ScopeInstalls`: `docs/SDK.md:122` says of the guard that
it installs its process for the scope, while `cs_swap_in()` installs the fiber's own again
when it comes back (`system/unix/common.cpp:417`); run `fiber_scope_installs` shows it.
`ScopeInv` is checked for disciplined programs, as a part of run `runtime`.

**`FiberThreads`** has several OS threads with chains of their own and the one
static `global_ctx` of `resume()`.

### Running programs

**`ImportCache`** is the cache of modules: a task is a stack of imports in
progress; every load makes a namespace, so that two copies of a module can be told
apart. `FailImport` stands for an exception anywhere in the module's code; whether
the importer catches it is the choice of the next step.

**`Repl`** is class `repl` with the function store, the storage snapshots, the
import scopes and the arenas. A line is built and then interpreted; `before` is a
history variable. Lambdas and arenas are numbered and numbers are used again, so
that the model is finite although the program is not.

**`Control`** is the execution of statements. A frame stands for one activation of
a C++ function that runs a list of statements: `interpret()`, a function body, a
block (`if`, `else`, `case` and bare blocks test the flags in the same way), a
`try` or its `catch` body, a loop of each kind. `pc` says whether the frame is at
an expression, at the test of the flags after a statement, or emptying a domain.
Calls, imports, fiber switches and exceptions happen at expressions only
(`AtExpression`); `EndFiber` and `SwitchTo` reduce `resume()` and `yield()` to
their effect on control, the rest of which is `Fiber`. Exceptions are of two kinds:
`lang`, which `try` takes, and `fatal`, everything else. The ghost `over` marks, at
each `return`, `break` and `continue`, the frames it is meant to end. Two constants
open situations in which the code misbehaves: `JumpFinalizers` (a `finalize` method
runs while a jump is on its way; with FALSE finalizers run at all other scope ends)
and `ModuleReturns` (a module that a function imports executes `return` at top level).

**`Processes`** is the process tree, the run scopes each thread is in, and the
process-wide signal flags: a fork has as its parent the process of the nearest
script fiber, a scope may be entered only by a relative of the process on top, a
poll takes one flag and dispatches it from a fork up to its session, and what ends a
worker thread waits in its future. The ghost `owed` is the signals that no session
has seen yet.

**`Debugger`** is `cs_dbg`: breakpoints on lines and on functions, pending ones that
become breakpoints when the definition of their function runs, removal, and the
stepping state at every statement, call and return. The ghosts `asked` and `due` are
what the last command asked for and the breakpoint just passed. `TargetsAreShared`
lets a function get several breakpoints; removing one of them then removes the mark
that the others need (`debugger.cpp:271-280`). A second `run` in one session is
refused (`debugger.cpp:774`), so the model has one run.

### Variables and values

**`Storage`** is the domains of an instance with the cache in every `var_id`. An
identifier remembers the position of the domain, the slot in it and the identity of
the domain, and a domain takes a new identity when it gives its slots up. The
abstract specification is the lookup by name; `CacheAgrees` says that a cache whose
identity matches has its result. An identity is the place of the domain that has it, which keeps
the model finite: a new identity makes identifiers forget the old one. While a domain is
cleared its finalizers may do anything: enter functions, switch fibers, save and roll
back; so no operation waits for a `clear()` to end. The stack of domains is a vector, and
whether it moves when it grows is a choice of `Enter`. When that happens to the stack of a
domain in the middle of its `clear()`, `intact` becomes FALSE and the model stops. The rewind
of the globals (`safe_rewind()`, `core.hpp:1537`) is a step per variable; finalizers that
run in between may cache a global that is about to go, or is gone, which `Rewound` says.

**`Values`** is variables as handles on proxies with a reference count, a protection
level and a data version. Expressions put temporaries on a stack, the last share of a result is
marked movable, and `copy()` then takes it as it is. Two constants open
misbehaviour. `LinksResults`: a script links a variable to a movable result, and the
next copy of the variable is the variable itself, where `docs/SDK.md:179` promises a
detached one. `AssignsLambdas`: an assignment swaps the data of two lambdas, and
`self` then names the other one; copies do rebind it
(`unit_tests/test_regressions.cpp:1103`).

**`Memory`** is under it: the store of a value, in place or in a block, and the
block pool of the main thread, with a worker thread that has none. Copying or
destroying an object runs code of its own, which may do any of this to other
stores, so the operations of a thread are a stack; a copy may throw. It may also get at the
variable being destroyed (`Reach`), after which the model stops (`reached`). That two
threads do not write one variable is taken from `docs/SDK.md:132`.

**`Numeric`** is the integer and float numbers up to `MaxInt`, with the
promotion of each operation on overflow, comparison across the kinds, `pow` and the
iteration of ranges. The operators are compared with exact arithmetic on all
operands; a range is a small state machine, because its end is a liveness property.
A range that ends on a float beyond the integers never ends
(`core.hpp:1285-1302`); `MCEndPoints` has none.

**`Structs`** is construction along the parents, copying, overriding and
finalization. Slots and parts are names, with a tag that grows with each copy made on the
way, so that what two objects share can be seen. A parent that has a parent is copied
twice for one copy of the object, once for its members and once as the `parent` it
brings along (`core.hpp:1389-1398`): the copy then shares members with a parent that was
dropped, and its own parent has others. `InheritedMembersAreShared` leaves out these
(`IsCopy`, from the third class on); the finalizers of what is dropped are in the model.

**`Containers`** is arrays, hash sets and hash maps whose elements are variables.
What a call puts into a container is copied, and copies are detached. Two constants
open misbehaviour: `WritesKeys` (a script assigns to an element of a set or to a
key, which `foreach` hands out unprotected, `instance/statement.cpp:794`; the hash
then no longer finds it) and `GrowsBelow` (`a[-4] = 9` on an empty array fills the
new places with one and the same variable, `impl/type_ext.hpp:1357`).

### The compiler

Each module has the inputs of a stage built one character, token, operand or line
at a time, so that TLC enumerates all inputs up to the bounds; the invariants
compare the algorithm of the code with a reference definition of what it reads.

**`Lexer`**: the preprocessor line by line (annotations, `@begin` ... `@end`, the
numbering of lines), the characters of a line by the type of the token they are
in, and the split into statements. The tokens between `@begin` and `@end` get the number
of the last line of their block;
`StatementsKnowTheirLine`, a part of `LexerInv`, says that the line a statement is
reported at ends its text.

**`Brackets`**: the tokens of a line as nested lists, and the lists as calls,
indices, arrays and lambdas, with the refusals on the way. `CallsFollowOperands`
says which lines are accepted and what their parentheses are; the code refuses `f()(x)`,
though it accepts `f(1)(2)`. A line may begin with `var`, which stands for the keywords whose
declarations are marked one by one. At their commas the flags of the operand before are
kept (`compiler/parser.cpp:191-205`), so that in `var x = f, (a, b) = t` the second
parentheses are read as a call and the declaration is refused, which `check_define_var()` would
accept (`instance/instance.cpp:373`): `CommaKeepsCall` excepts exactly these lines. The
marks of other keywords (`for`, `function`, `struct`, `catch` and their like, lines
88-119) are left out.

**`Grammar`**: `match_grammar()` turns words into actions only where a whole line
fits a statement; a line that was written for a statement is read as that statement
(`ReadAsWritten`), names that are spelled like keywords included.

**`ExprTree`**: `build_tree()` and `gen_tree()` on the node level, with the links
back to the root, and the merge of trees. `a = b = c = d` is nested in an
order that is neither of the two (`compiler/parser.cpp:308-311`; the test at
`unit_tests/test_parser.cpp:115` has two assignments), so
`TreeFollowsLevels` states associativity for chains of up to two assignments.

**`Optimizer`**: `trim_expr()` and `opt_expr()`, with an evaluator that gives the
value, the writes and the exceptions of an expression before and after, for both
orders in which C++ may evaluate operands. `SelfInLists` lets `self` occur in
argument and parallel lists, where the code folds it (`compiler/compiler.cpp:483`).

**`Codegen`**: `translate()` collects blocks by their ends and folds constant
conditions, with the loop and function depths that decide whether a jump is
accepted. `AcceptsTheLanguage` compares what is accepted with a definition of
well-formed programs; `CodegenInv` says that folding drops only what cannot be
reached and that each jump still leaves the loop it is written in. `JumpsInUntil`
lets the body of `until true` have jumps: the loop is folded into a plain block
(`compiler/codegen.cpp:685-687`), which leaves them to the loop around it. `Fits`
leaves out a stray `else` directly in `while`, on which the compiler crashes; several
`catch` of one `try` are accepted and merged (`compiler/codegen.cpp:878`).

**`Compile`** is `instance_type::compile()` as a transaction on the compiler that all
contexts of a process share: the context it is bound to, the scopes with the results
of static imports, the pool of constants and the loop depth, and with each context
its token arena, its variables and its function transactions. An activity is a
`compile()`, an `interpret()`, a fiber or an `eval()` in progress, with what it will
restore. Of a program only imports and blocks are kept, a result is the line it was
made for, and names are one set without domains: a name is gone when the compilation
that defined it ends. A static import compiles and runs its module before the next
line is read; `runtime.import()` does so from running code and survives a failure.
An exception may come anywhere. The constants of `eval()` and `build()` stay in the
pool, as in the code. `build()` gives its context a new arena without binding the
compiler, which is a finding.

### Compositions

`FiberFuture` and `FiberScope` compose with `Fiber`. `MCRuntime` (which has
`FiberScope` as a part), `MCSession` (which has `Control` as a part) and `MCCompiler`
(which has `Compile`, and `Numeric`, because the compiler folds with the runtime's
arithmetic) are not compositions of behaviours: they put several modules into one run, and the first state chooses the
`part` that moves (`Only(p)`), so that each state graph is the union of its parts. The
other `MC*` modules only give values to constants and declare symmetry. Text, values
and messages are left out throughout, except where a property is about them.

Most properties are conjunctions of named parts. `SwitchesNest`: the running context
is on top of the chain, its domains are installed, nobody on the chain is early.
`ControlInv`: a list of statements is left only because it has ended or is meant to be
left, no flag is up where other code gets to run, every flag has a frame that takes
it. `ReplInv`: bound lambdas are alive, domains match blocks, statements are balanced,
arenas follow statements. `ImportInv`: nothing failed is reachable, there is one copy
of each module, no import is re-entered. `CompileInv`: the statement of a line has the
result and the tokens of that line, the compiler serves the innermost compilation, a
module runs with its own names and constants, a failure leaves nothing behind.
`StorageInv`: a cached slot is live and the one a lookup finds. `ValuesInv`: counts
are shares, only what is alone is movable, a `self` is its own lambda, literals stay
constant; `CopyIsDetached` is the promise to scripts. `NumericInv`: order, division,
conversion and power are exact, ranges visit what they should. `MemoryInv`: a block
has one place. `StructsInv`: inherited members are one slot, copies share none, each
part is finalized once while its parent is there. `ContainersInv`: keys are found,
elements are in one place. `ProcessesInv`: all that a thread runs belongs to one
session, no poll swallows a signal, an exit goes through the session's listeners.
`DebuggerInv`: a listed breakpoint stops the program, the program stops where a step
command says, a pending name is listed.

## 4. Runs

| Run | Instance | Shows |
|---|---|---|
| `fiber` | 2 script fibers, 1 native; sleeps of 0 and 2 ms at 2 ticks per ms | control, process and domains come back through any nesting; the back-off never oversleeps, nobody runs early, the finished stay finished; refinement of `Coroutine` |
| `fiber_future` | 2 fibers, a future each, sleeps and deadlines of 1 ms, fairness | when a future call may end early; whose exceptions a future keeps, and that it throws them; calls of the thread return |
| `compiler` | first lines of 4 characters, sources of 4 lines; rows of 6 tokens; all statement grammars; expressions of 4 operators at 3 levels; expressions of 2 wraps; programs of 5 lines; 3 contexts, a fiber, 4 lines and calls at run time in all; numbers of 4 bits with all pairs of operands | each stage reads what was written; nested and failing compilations return the compiler; the arithmetic it folds with is exact; integer ranges end |
| `runtime` | see below | caches, sharing, blocks, objects, elements and scope guards under any sequence of operations |
| `session` | see below | imports, REPL statements, processes and breakpoints leave behind what the next relies on; jumps end what they should and nothing else |

The parts of `runtime`: 2 names, an identifier and 2 domains; 5 proxies, 2 variables, a
literal, a lambda and 2 temporaries; 2
stores, 3 blocks, a pool of one and operations two deep; 3 classes, 2 variables and 4
objects; 6 cells, arrays of 2 and 5 calls; 2 script and a native fiber with 2 guards
each, disciplined. The parts of `session`: 1 program, 3
source modules, an extension and 4 loads; 2 open blocks, 3 nested statements and 4
slots; 2 threads and 3 processes, scopes 3 deep; 2 functions, 2 lines, 3 breakpoints
and calls 2 deep; the main program, a fiber and a module, 5 frames in all, with all kinds
of loops.

Bounds. Two script fibers and a native one are what a nest of every order of kinds
needs, the native one on top, in the middle or at the bottom; the chain is as long as
the number of fibers. Sleeps of 2 ms at 2 ticks per ms are the smallest with a wait
below, at and above `BusyWaitMin` and with a remainder that is lost in rounding.
`MaxSkip` is where counting on has no effect (`SkipAssumption`). Five frames give
`Control` the program, a loop in it, and a fiber with a function, a loop and a block; or
a function that imports a module with two nested statements. With the fifth frame the
loops are `for` only (`DeepLoopsAreFor`), which has every place of the other kinds. Four
loads allow a module to fail, to be loaded again, and two more around it. Three nested
statements give one that is neither outermost nor innermost; `Repl` has no bound on the
number of statements, `MaxTx` bounds the entries that failures leave behind. A cache can
go wrong with one identifier: its domain is rebuilt with the name elsewhere, above or
below another domain or on the fiber's stack, for which two names and two domains are
enough. Five proxies are two variables, the literal, the lambda and a value under way.
Integers of four bits (`MaxInt` = 7) have every overflow that those of 64 bits have; `T` = 2 keeps the unchecked product in range
as 2^30 does. A pool of one can be empty, full and overfull with three blocks, and depth
2 has an operation inside the construction or destruction of another value. Six cells
hold a container in a container with their elements. Three processes are a session, a
fork of it and a fork of that, or two sessions. Three breakpoints are two on one place
over time and another. Six tokens are what `f(x)[1]` needs. Four operators at three
levels, one of them an assignment, give every order of rising and falling levels around
an equal pair. Five lines are an `if` with an `else` and a jump, or a block in a block
with a statement. Three contexts are a module imported while another is, in the main
program; four lines and calls (`MaxWork`) are a block with two imports, the first of a
module that imports, or an `eval()` that imports a module and goes on.

Deadlock is checked in `fiber_future` only: elsewhere the programs may really stop (an `"undefined"` outcome in `Fiber`, a
module's `MaxLoads` or the end of the main program in `ImportCache` and `Control`, all
inputs having reached their length in `compiler`, the globals released or the last
call made in `runtime`, all fibers finished in `FiberThreads`).

Runs that violate a property document a difference between the code and what a
document or comment says of it:

| Run | What the code does |
|---|---|
| `future_get_result` | a future that once met a running fiber keeps that refusal; later `wait()` ends at once and `get()` throws although there is a result |
| `fiber_scope_installs` | a fiber that is switched out and in inside a `process_run_scope` is on its own process there, not on the one the scope installed |
| `import_erases_own` | with 2 programs, a failing import also erases what another fiber's import entered meanwhile; with one (`session`) the property holds |
| `control_finalizer` | a `finalize` method run on the way of a `return` clears its flag, and the function goes on after the block |
| `control_module_return` | a module imported by a function may `return` at top level; the flag stays up and cuts short the next function of the module |
| `build_tokens` | an expression that a module builds gets its tokens from the context the compiler is bound to, not from the arena it keeps |
| `fiber_threads_concurrent` | a fiber left on one thread can continue on the other thread's stack |

## 5. Fairness

`fiber_future` (`FairFutSpec`, for `ThreadCallsReturn`): the clock advances and library
code goes on: weak fairness of `FutTick`, `FutStep` and `BackoffDone`. A task's
function ends if it is given control again and again: strong fairness of
`FinishBody` for each fiber, because its control comes and goes. That is an
assumption on tasks, not on the runtime; without it nothing waits successfully for
anything. Fairness of the thread's own code is not assumed.

`compiler` (for `RangeEnds`): weak fairness of the step of a range. A `foreach` goes on
while its body ends; that is all the claim is about.

## 6. Proofs

Eight modules have theorems. They hold for every value of the constants that the
named assumptions of the modules allow; no run's bound is used except where it is a
constant of the module (a longest chain, a depth), which is then arbitrary.

**`FiberProofs`**, for any finite or infinite sets of fibers, any clock resolution and
any schedule parameters (`FiberAssumption`, `TimeAssumption`, `SkipAssumption`):

- `FiberInvariant`, and from it `TypeCorrect`, `ControlReturns`, `BindingsFollow`,
  `NothingDangles`, `BackoffBounded`, `SwitchesNested`: the invariants of run `fiber`;
- `FinishedFinal`: the action property;
- `ImplementsCoroutines`: the refinement of `Coroutine`.

The inductive invariant `FiberInv` is the conjunction of the checked invariants,
strengthened by two facts. `BindingsOnChain`: the saved processes belong to fibers
further down the chain, and a chain of native fibers only leaves the domain
pointer at the thread's; without it, nothing says what `SwapOut` restores when the
last fiber leaves. `HandlesAlive`: what code has a handle of is neither unborn nor
destroyed, so that only a fiber that exists is entered. `NothingDangles` says what the chain's
own handles are good for, whatever the program drops: the process, domains and contexts that pending
`resume()` calls go back to exist. Of the fiber that a `resume()` has just come back from
it says nothing; that is the outcome `"undefined"`. The step is
proved by what actions do to the switch state: entering (`SwitchInKeepsChain`),
leaving (`SwitchOutKeepsChain`) and neither (`NoSwitchKeepsChain`); and to the waits
(`EnterKeepsWait`, `LeaveKeepsWait`, `TickInv`). The back-off rests on
`WaitTimeBound` and on rounding down (`RoundDown`), the only arithmetic.

**`FiberUserProofs`** is about futures and scope guards. For futures it uses those step lemmas for `FutNext`, whose steps are steps of the
scheduler with a call's bookkeeping. Its invariant `FutIInv` adds to `FiberInv`: a
context that has lost control in the middle of a call either waits for `resume()` of
the call's own fiber or sleeps off the chain (`SuspendedCalls`), so that what `resume()`
throws into a call was thrown by that fiber (`ErrorIsTheTargets`); and the thread is
awake when it starts a call (`MainIsAwake`), which is where deadlines start.
`FutureCorrect` is `FutInv`; `GetThrowsTaskErrors` and `EarlyEndsAreRefusals` are the
two action properties of the run; `SwitchesNestInCalls` carries `SwitchesNest` over. That a kept exception of the task is never
replaced by a later refusal needs three more facts: no fiber is dropped
(`NothingDropped`), an exception is kept by the future it came out of or is just being
delivered to it (`ErrorsDelivered`), and a refused resume is of a fiber that runs
(`RefusedRuns`), so not of one that has ended.

**`StorageProofs`** (`StorageCorrect`): for any names, identifiers and number of
domains, a cached slot is live and, for a name that is declared once in sight, the one found by
name, but for the globals that `safe_rewind()` has destroyed already. The strengthening
(`StorageIInv`) says that a domain has as many slots as names unless it is being given up
(`DataSound`, and `SavedSound` for the domains that a transaction has saved, none of them in
the middle of its `clear()` as long as the model runs), that only
a domain with others below it is popped and only the globals are rewound, and that what an
identifier remembers is a live slot of its name or one of a global that `safe_rewind()` has
destroyed (`SlotSound`): each action either keeps the layout of a place or makes the identifiers forget it.

**`MemoryProofs`** (`MemoryCorrect`): for any stores, blocks, size of the pool and depth
of nesting, a block lent by the system is in exactly one place, as long as no destructor's
code gets at the variable it is destroying. `MemoryIInv` splits
that into `PoolOnce` (no block is twice in the pool), `Apart` (pool, stores and
operations share none) and `Lent` (what is lent has a place); the places are the halves
of operations on both threads' stacks.

It also proves `Values` (`ValuesCorrect`, `CopiesAreDetached`), for any proxies, finite
set of variables and number of operands, in scripts that link no variable to a result
and assign no lambda (`~LinksResults`, `~AssignsLambdas`; without these hypotheses a
copy may be the original, or `self` another lambda). `Counted` is the number of handles
on each proxy as a function; binding a variable, pushing and popping an operand add or
take one (`CountedBind`, `CountedPush`, `CountedPop`), and `Sound(px, n)` says that the
proxies `px` have the counts `n`, a marked one has one handle, and a lambda has itself
as `self`. Each operation of `cs_impl::any` keeps `Sound` for the counts it leaves
(`ShareSound` to `SwappedSound`), and a step is a few of them. `ValuesIInv` adds what a
count cannot say: what a variable holds is never marked (`HoldersAreSettled`), so a copy
takes only what no variable has, and a fresh copy has one handle.

**`ControlProofs`** (`ControlCorrect`, `NothingRunsLate`): for any modules, fibers, loops
and number of frames, a jump ends what it is meant to end. The invariant `ControlIInv`
has two cases. Either no flag is up and every frame of the running context is settled:
if a flag ended its list or its round, that was meant (`Quiet`). Or one flag of one
instance is up and on its way (`Jumping`): its taker is the frame of the nearest loop
or function, the frames below are settled, those above are blocks, and loops if
the flag is a `return`, and each of them tests the flags next or has just left
(`OnItsWay`). A context without control is always settled, at an expression, which is
why a switch cannot carry a flag elsewhere; `Nested` says what a frame waits for while the
next one runs, and that frames without a call between them share an instance. The
theorems assume `~JumpFinalizers` and `~ModuleReturns`: with either of them TRUE, the
runs `control_finalizer` and `control_module_return` violate what is proved.

It also proves the debugger (`DebuggerCorrect`), as long as no function gets several breakpoints
(`~TargetsAreShared`): the marks of functions are those of the breakpoints on them
(`MatchedIsListed`), a breakpoint by name waits for a function not yet defined and is
pending (`NamesWait`), records and their targets are unique (`RecordsAreUnique`), and the
stepping state is what the last command asked for (`StepIsAsked`).

The second part of `FiberUserProofs` (`ScopeCorrect`) is about scope guards, for any
fibers and depth of guards. What a guard restores depends on where it was opened, so the
invariant `ScopeIInv` says that each guard was opened on the process its outer guard
left (`GuardsNest`), that the context in control is on the process of its innermost one
(`ControlNests`), that a fiber without control has calls only, a native one none at all
(`OthersWait`), and that on the value stack of a process the slots of its own context
are below those of the one in control (`SlotsLayered`). The hypothesis is `Disciplined`:
with FALSE a native fiber may yield between a call and its return, and TLC shows how the
slots of two contexts then interleave on one stack, which violates `ScopeInv`.

**`CompileProofs`** (`CompileCorrect`), for any contexts, fibers and amount of work. What
holds when an activity goes on must follow from what was put aside beneath it, so the
invariant `CompileIInv` is about all calls on the stack of the runner in control.
`Chain` says of one thing that is put aside and back that the innermost call that sets
it determines what is in force, and that each call remembers what was set by the one
beneath it (`ChainPush`, `ChainPop`); it is used for the context the compiler is bound to
(`BindingOK`), its loop depth (`LoopsOK`) and the token arena of each context (`UnitOK`).
The scopes of import results belong to the `compile()` calls in their order, and one that
is not innermost waits for exactly one result (`ScopesOK`); what a `compile()` has found
in the pool has no imports, and its own imports stay in it until it is done (`PoolOK`); a
module is younger than its importer and runs right above it (`NestOK`); a context is
compiled or run once at a time, and only the runner in control compiles (`OwnersOK`). The
lemmas `Good...` say what entering, leaving and turning the last call does to all of
these, for any stack, and there is one `Step...` per action. The hypothesis is
`~YieldsInCompile`, the value of the run: with TRUE another runner may go on in the
middle of a `compile()`, and the compiler is bound to the wrong context
(`instance/instance.cpp:205`).

**`SessionProofs`** is about three components, which share lemmas on sequences:

- `ProcessesCorrect`, for any processes, threads and depth of run scopes. `Lineage` is
  the least set closed under parents, so no induction is needed: the invariant has a
  function from each process to its session (`Rooted`), the set of processes below one
  session is closed, and a scope is entered by relatives only, hence all that a thread
  is in has one root.
- `ImportsCorrect` and `ErasesOwn`, for any modules and number of loads, when one task
  imports (`Tasks = {t}`). The namespaces are numbered as they are made. An import in
  progress remembers the keys of what is older than it (`StackOK`), what it has loaded
  is known only to what was loaded from it (`EdgesOK`), and some closed set of namespaces
  has the cache and all the program holds, without a failed one (`ReachOK`, for a set `R`
  that the proof carries along): so a failure, which erases what is younger, leaves
  that set without them. With two tasks none of this is true, as run
  `import_erases_own` shows.
- `ReplCorrect` and `FailuresLeaveNoTrace`, for any depth of blocks and of statements
  that run statements, and any bound on the store. While a statement is compiled
  (`Recoverable`), the entries at its beginning are a prefix of the store, its
  transaction is the only one open and has exactly the slots after that prefix, the
  global domain is the one at its beginning, the innermost snapshot is of it, and neither
  it nor a running statement refers to a later slot; when nothing is compiled no
  snapshot has anything left to restore (`ReplTypes`). `StacksOK` relates the lengths of
  the stacks, `ArenaOK` the arena of each running statement to the saved ones. Fresh
  numbers (`FreshFn`, `FreshUnit`) exist because what is in use is finite
  (`FreshNumbers`).

**`DataProofs`** (`NumericCorrect`), for any largest integer, floats and ranges. The
invariant is only about ranges: an index is where the number of moves puts it
(`IntegerLoopAdvances`: a clamped index has passed its end; `MovesAreFew`: the counter of
the model does not reach its bound). The rest holds of any two operands:
`CompareIntFloat` is the order of halves (`IntAgainstFloat`), a truncated quotient and its
rest are determined by absolute values (`TruncDivOf`), `WouldOverflow` by divisions is
exact (`WouldOverflowIsExact`). `PowersAreExact` says that the loop of `int_pow()` computes
`Power`, the product of n factors: while nothing overflows, the result times the base to
the remaining exponent is the power, and the result is 1 or at least 2 from zero, so that
when a square does not fit the power cannot either, although the square is larger than
what the power before the last needs (`SquaringTurnInv`). Both the loop and `Power` are
recursive functions. The library's induction theorems take a predicate, which the
provers cannot instantiate, so `NatSetInduction` derives induction for a *set* of naturals
from the well-foundedness of `<` (`WFMin`), and `IterationIsDefined` derives from it that
a recursion has the function it describes.

Its second part (`StructsCorrect`) is about objects, for any number of classes. What is
dropped while an object is copied is a recursion over its classes; `CopyingDropsRightly`
says, by induction, that its finalizers run once, parents last, and for nothing that the
copy keeps, because the two copies of a parent have tags that part (`UnderApart`). The
invariant `StructsIInv` says that everything in an object bears the number of the object, and
that numbers are not used again. What is proved of inherited members is what
`InheritedMembersAreShared` says: in a copy of an object with three classes or more
(`IsCopy`), only of the second class and the base.

Its third part (`ExprTreeCorrect`, `TreeFollowsItsLevels`) is about the trees of the parser, for any operators,
levels and length of an expression. `IsUnder` says what a subtree is without a recursion,
the least set that holds a node and the children of its members, and `SubtreeOf` that
the model's `Subtree`, which adds children as often as there are nodes, is that set.
`Linked` is the shape of a tree; each of `tree_type`'s operations keeps it
(`InsertRootLinked`, `InsertChildLinked`, `EraseChildrenLinked`, `MergeLinked`,
`ReserveLinked`: what is deleted is closed under children, what stays is reached without
it). `StopIsLive` shows that the walk down the right edge ends: an edge without a stop
would be an injection of more numbers than there are nodes. `ExprTreeIInv` adds which
tokens are in the tree while it is read, so that a new node is new.

That the tree is the one the levels describe (`TreeFollowsItsLevels`) needs an invariant of
reading, `Read`: what is under what is what binds what (`Ranked`), the tokens are in order
(`Ordered`), and operands are leaves. Then the right edge is the operators that bind
everything after them (`EdgeIsWhatBinds`), all above the stop of the walk are looser than the
next operator (`WalkStops`), and the next one goes where it binds what is under it and is bound
by what is above it: above the stop (`AboveTheStop`), or beside it if both are
assignments (`BesideTheStop`, where the case of three assignments is excluded by
`ThreeAreNotFew`). The invariant of rewriting is `Whole`: until a token is deleted, the tree
has every link that was read and, where none was, at most links to the nodes of copies
(`Follows`); so a tree that consists of the tokens is the tree that was read, even after
copies have come and gone.

The definitions these proofs are about were written for them where that costs nothing:
`Lineage` (`Processes`) and `Closure` (`ImportCache`) are least closed sets and not
recursions, `Subtree` (`ExprTree`) is a recursive function on numbers,
`DomainsMatchBlocks` (`Repl`) and `OpenLoops` (`Compile`) count loops with `Cardinality`.

Model-checked only: liveness (`ThreadCallsReturn`, `RangeEnds`), which is out of the
prover's reach; the other stages of the compiler and `Containers`, most of them
recursive or compared with a recursive reference; `FiberThreads`, whose one run is a
violation.

## 7. Not modelled

`components` in `PROJECT.json` has the reason for each component. In short:

- The interpreter executable, system, console and dynamic linking are input, output
  and calls of the operating system; symbols, charsets, messages and the tables of the
  standard packages are data.
- CNI is templates that convert arguments when they are compiled; what a call passes and
  returns is in `Values`.
- The tables of symbols and charsets in the compiler; the metadata that `compile()`
  collects beyond constants; the search through the import path.
- Of the data types, the operators that each defines, strings, streams, time and the
  mathematical functions, which wrap the standard library; formatting and parsing.
- Plain declarations in the code generator; method binding and reflection.

Within the modelled parts: the exception of a task, which goes to whoever drives its
fiber, so that `get()` of another future of the fiber returns null
(`docs/Asynchronous.md:375` expects it to be rethrown); the stack memory of a fiber and
its limit; the leak of an unfinished fiber's frames (it is destroyed without unwinding,
which the model does too); the domains a native fiber sees; several threads in
one instance, which `docs/SDK.md` excludes; fiber switches inside run scopes of
related processes (`FiberScope` has the root process, `Processes` no switches);
listeners that scripts add to events; `@begin` ... `@end` of the REPL, which only collects
text; rounding of floats; the text of the debugger's commands and its evaluation of
expressions.
