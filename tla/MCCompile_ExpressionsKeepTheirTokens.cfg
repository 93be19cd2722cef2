CONSTANTS
    MainRunner = MainRunner
    aFiber = aFiber
    Runners = {MainRunner, aFiber}
    MaxPrograms = 3
    MaxWork = 4
    YieldsInCompile = FALSE
SPECIFICATION CompileSpec
INVARIANTS
    ExpressionsKeepTheirTokens
\* The main program ends.
CHECK_DEADLOCK FALSE
