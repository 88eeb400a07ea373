SPECIFICATION Spec
CONSTANTS
    x = x  y = y  s1 = s1
    Flow = {f1}
    Main = {f1}
    Instance = {x, y}
    Scope = {Root, s1}
    Root = Root
    RequestScope = {}
    Kernel = Kernel
    Area = {a1, a2}
    NoArea = NoArea
    NoInstance = NoInstance
    NoOwner = NoOwner
    Deps <- MCDeps
    Disposable = {x, y}
    Transient = {y}
    MaxDepth = 2
    Env = {"idle"}
SYMMETRY AreaSymmetry
INVARIANT ScopeDisposesServices
CHECK_DEADLOCK FALSE
