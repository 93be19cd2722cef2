CONSTANTS
    s1 = s1
    s2 = s2
    n1 = n1
    Main = Main
    None = None
    ScriptFibers = {s1, s2}
    NativeFibers = {n1}
    SleepMs = {}
    TicksPerMs = 1
    BusyWaitMin = 1
    CoefNum = 1
    CoefDen = 1
    MaxSkip = 1
    MaxNest = 2
    Disciplined = FALSE
SPECIFICATION ScopeSpec
SYMMETRY Symmetry
INVARIANTS
    ScopeInstalls
