CONSTANTS
    p1 = p1  p2 = p2  p3 = p3  p4 = p4  p5 = p5
    s1 = s1  s2 = s2  b1 = b1  b2 = b2  b3 = b3
    x = x  y = y  h = h  g = g  i = i
    \* Storage
    Names = {x, y}
    Ids = {i}
    NameOf <- MCNameOf
    MaxDomains = 2
    \* Values
    Proxies = {p1, p2, p3, p4, p5}
    Vars = {x, y}
    Literal = Literal
    Lambda = Lambda
    Null = Null
    MaxTemps = 2
    LinksResults = FALSE
    AssignsLambdas = FALSE
    \* Memory
    MainThread = MainThread
    Worker = Worker
    Stores = {s1, s2}
    Blocks = {b1, b2, b3}
    BlockSize = 1
    None = None
    MaxDepth = 2
    \* Structs
    Owners = {h, g}
    Classes = 3
    DeclaredIn <- MCDeclaredIn
    MaxObjects = 4
    \* Containers
    Cells = {1, 2, 3, 4, 5, 6}
    MaxNumber = 1
    MaxItems = 2
    MaxCalls = 5
    WritesKeys = FALSE
    GrowsBelow = FALSE
SPECIFICATION MCSpec
INVARIANTS
    StorageInv
    ValuesInv
    CopyIsDetached
    MemoryInv
    StructsInv
    ContainersInv
    ScopeInv
\* A script ends: the globals are released, or a bound is reached.
CHECK_DEADLOCK FALSE
