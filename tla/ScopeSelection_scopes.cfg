SPECIFICATION Spec
CONSTANTS
    c = c  a = a  b = b  t = t  s1 = s1  s2 = s2  f1 = f1  f2 = f2
    Flow = {f1, f2, g1, d1}
    Main = {f1, f2}
    RequestScope = {r1, r2}
    ServiceScope = {Root, s1, s2}
    Root = Root
    NoScope = NoScope
    Service = {c, a, b, t}
    Singleton = {c}
    Scoped = {a, b}
    Transient = {t}
    Factory = {t}
    Provider = Provider
    Deps <- MCDeps
    Detached = {d1}
SYMMETRY ScopeSymmetry
INVARIANT TypeOK
INVARIANT RequestKeepsScope
INVARIANT CurrentIsActive
INVARIANT HeldAlive
CHECK_DEADLOCK FALSE
