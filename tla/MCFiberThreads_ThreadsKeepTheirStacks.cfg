CONSTANTS
    t1 = t1
    t2 = t2
    f1 = f1
    f2 = f2
    f3 = f3
    g1 = g1
    g2 = g2
    Threads = {t1, t2}
    Fibers = {f1, f2, f3, g1, g2}
    Home <- MCHome
    GlobalCtx = GlobalCtx
    None = None
SPECIFICATION Spec
INVARIANTS
    ThreadsKeepTheirStacks
\* Every fiber may have finished.
CHECK_DEADLOCK FALSE
