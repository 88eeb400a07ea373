SPECIFICATION Spec
CONSTANTS
    x = x  y = y  s1 = s1
    Flow = {f1, f2}
    Main = {f1}
    Instance = {x, y}
    Scope = {Root}
    Root = Root
    RequestScope = {p}
    Kernel = Kernel
    Area = {a1, a2}
    NoArea = NoArea
    NoInstance = NoInstance
    NoOwner = NoOwner
    Deps <- MCDeps
    Disposable = {x, y}
    Transient = {y}
    MaxDepth = 3
    Env = {"idle", "reenter", "throw", "fork", "collect", "share", "request", "release", "kernel"}
SYMMETRY AreaSymmetry
INVARIANT TypeOK
INVARIANT DisposeOnce
INVARIANT DependentsFirst
INVARIANT DrainComplete
PROPERTY KeepsPromise
CHECK_DEADLOCK FALSE
