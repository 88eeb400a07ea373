SPECIFICATION FairSpec
CONSTANTS
    x = x  y = y  s1 = s1
    Flow = {f1, f2}
    Main = {f1}
    Instance = {x, y}
    Scope = {Root, s1}
    Root = Root
    RequestScope = {p}
    Kernel = Kernel
    Area = {a1, a2}
    NoArea = NoArea
    NoInstance = NoInstance
    NoOwner = NoOwner
    Deps <- MCDeps
    Disposable = {x}
    Transient = {y}
    MaxDepth = 2
    Env = {"idle", "fork", "request", "reenter", "throw", "kernel"}
PROPERTY DisposeTerminates
CHECK_DEADLOCK FALSE
