CONSTANTS
    f1 = f1
    f2 = f2
    u1 = u1
    u2 = u2
    Main = Main
    None = None
    ScriptFibers = {f1, f2}
    NativeFibers = {}
    Futures = {u1, u2}
    Target <- MCTarget
    SleepMs = {1}
    WaitMs = {1}
    TicksPerMs = 1
    BusyWaitMin = 2
    CoefNum = 1
    CoefDen = 1
    MaxSkip = 1
SPECIFICATION FairFutSpec
INVARIANTS
    FutInv
PROPERTIES
    GetThrowsItsTasksError
    WaitEndsEarlyOnlyIfRefused
    ThreadCallsReturn
