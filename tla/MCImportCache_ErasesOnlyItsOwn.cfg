CONSTANTS
    m1 = m1
    m2 = m2
    m3 = m3
    x1 = x1
    t1 = t1
    t2 = t2
    None = None
    Keys = {m1, m2, m3, x1}
    Extensions = {x1}
    Tasks = {t1, t2}
    MaxLoads = 4
SPECIFICATION ImportSpec
SYMMETRY Symmetry
PROPERTIES
    ErasesOnlyItsOwn
\* A program may end; MaxLoads ends it at the latest.
CHECK_DEADLOCK FALSE
