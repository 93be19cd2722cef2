CONSTANTS
    s1 = s1
    s2 = s2
    n1 = n1
    Main = Main
    None = None
    ScriptFibers = {s1, s2}
    NativeFibers = {n1}
    SleepMs = {0, 2}
    TicksPerMs = 2
    BusyWaitMin = 2
    CoefNum = 3
    CoefDen = 4
    MaxSkip = 2
SPECIFICATION Spec
SYMMETRY Symmetry
INVARIANTS
    TypeOK
    SwitchesNest
    ReturnsToItsResumer
    ProcessFollowsContext
    NoDanglingBinding
    BackoffNeverOversleeps
PROPERTIES
    FinishedIsFinal
    CoroutineSpec
\* What follows the use of a dropped fiber is undefined.
CHECK_DEADLOCK FALSE
