SPECIFICATION Spec
CONSTANTS
    single = single  scoped = scoped  trans = trans  inner = inner  s1 = s1  p = p
    Thread = {t1, t2}
    Scope = {Root, s1}
    Root = Root
    RequestScope = {p}
    Child = {c1, c2}
    Cache = Cache
    NoLock = NoLock
    NoService = NoService
    Service = {single, scoped, trans, inner}
    Lifetime <- MCLifetime
    Needs <- MCNeeds
    Asks <- MCAsks
    MaxSize = 2
    Env = {"inuse", "late", "callback"}
SYMMETRY ThreadSymmetry
INVARIANT TypeOK
INVARIANT OneInstance
INVARIANT StuckOnlyByMisuse
CHECK_DEADLOCK FALSE
