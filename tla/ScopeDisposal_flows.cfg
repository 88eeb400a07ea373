SPECIFICATION Spec
CONSTANTS
    x = x  y = y  s1 = s1
    Flow = {f1, f2}
    Main = {f1, f2}
    Instance = {x, y}
    Scope = {Root, s1}
    Root = Root
    RequestScope = {}
    Kernel = Kernel
    Area = {a1, a2}
    NoArea = NoArea
    NoInstance = NoInstance
    NoOwner = NoOwner
    Deps <- MCDeps
    Disposable = {x, y}
    Transient = {y}
    MaxDepth = 2
    Env = {"idle", "share", "release", "kernel"}
SYMMETRY FlowSymmetry
INVARIANT DisposeOnce
INVARIANT DependentsFirst
INVARIANT IdleFlowArea
INVARIANT TrackedUntilDeactivated
INVARIANT KernelDeactivatesAll
INVARIANT LostInAbandonedArea
CHECK_DEADLOCK FALSE
