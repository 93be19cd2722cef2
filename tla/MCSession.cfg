CONSTANTS
    \* ImportCache
    m1 = m1  m2 = m2  m3 = m3  x1 = x1  t1 = t1
    None = None
    Keys = {m1, m2, m3, x1}
    Extensions = {x1}
    Tasks = {t1}
    MaxLoads = 4
    \* Repl
    MaxBlocks = 2
    MaxNest = 3
    MaxFns = 4
    MaxTx = 5
    \* Processes
    Threads = {main, w}
    Procs = {p, q, r}
    NoProc = NoProc
    MainThread = main
    MaxChain = 3
    \* Debugger
    Funcs = {f, g}
    SourceLines = {l1, l2}
    MaxBreakpoints = 3
    MaxDepth = 2
    TargetsAreShared = FALSE
    \* Control
    Main = Main
    Fiber = Fiber
    Root = Root
    Lib = Lib
    Modules = {Lib}
    LoopKinds = {"while", "loop", "until", "for", "foreach", "iterate"}
    MaxFrames = 5
    JumpFinalizers = FALSE
    ModuleReturns = FALSE
SPECIFICATION MCSpec
SYMMETRY Symmetry
INVARIANTS
    ImportInv
    ReplInv
    ProcessesInv
    DebuggerInv
    ControlInv
    NothingRunsAfterLeaving
PROPERTIES
    ErasesOnlyItsOwn
    FailureLeavesNoTrace
\* A program may end; MaxLoads ends it at the latest.
CHECK_DEADLOCK FALSE
