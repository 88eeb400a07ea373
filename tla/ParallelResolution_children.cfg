SPECIFICATION Spec
CONSTANTS
    single = single  scoped = scoped  trans = trans  inner = inner  s1 = s1  p = p
    Thread = {t1, t2}
    Scope = {Root, s1}
    Root = Root
    RequestScope = {}
    Child = {c1, c2}
    Cache = Cache
    NoLock = NoLock
    NoService = NoService
    Service = {trans}
    Lifetime <- MCLifetime
    Needs <- PlainNeeds
    Asks <- PlainAsks
    MaxSize = 2
    Env = {}
SYMMETRY ThreadSymmetry
INVARIANT TransientsGoWithScope
CHECK_DEADLOCK FALSE
