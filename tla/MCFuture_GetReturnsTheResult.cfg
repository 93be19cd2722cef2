CONSTANTS
    f1 = f1
    f2 = f2
    u1 = u1
    u2 = u2
    Main = Main
    None = None
    ScriptFibers = {f1, f2}
    NativeFibers = {}
    Futures = {u1, u2}
    Target <- MCTarget
    SleepMs = {2}
    WaitMs = {}
    TicksPerMs = 1
    BusyWaitMin = 1
    CoefNum = 1
    CoefDen = 2
    MaxSkip = 2
SPECIFICATION FutSpec
PROPERTIES
    GetReturnsTheResult
