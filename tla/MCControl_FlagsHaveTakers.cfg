CONSTANTS
    Main = Main
    Fiber = Fiber
    Root = Root
    Lib = Lib
    Modules = {Lib}
    LoopKinds = {"while", "loop", "for", "foreach"}
    MaxFrames = 5
    JumpFinalizers = FALSE
    ModuleReturns = TRUE
SPECIFICATION ControlSpec
INVARIANTS
    FlagsHaveTakers
\* The main program ends.
CHECK_DEADLOCK FALSE
