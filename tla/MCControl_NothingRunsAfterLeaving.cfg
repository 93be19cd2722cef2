CONSTANTS
    Main = Main
    Fiber = Fiber
    Root = Root
    Lib = Lib
    Modules = {Lib}
    LoopKinds = {"while", "loop", "for", "foreach"}
    MaxFrames = 5
    JumpFinalizers = TRUE
    ModuleReturns = FALSE
SPECIFICATION ControlSpec
INVARIANTS
    NothingRunsAfterLeaving
\* The main program ends.
CHECK_DEADLOCK FALSE
