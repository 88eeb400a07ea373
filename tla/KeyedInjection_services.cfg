SPECIFICATION Spec
CONSTANTS
    A = A  B = B  C = C  D = D  k1 = k1  k2 = k2
    Type = {A, B, C, D}
    Key = {k1, k2}
    AnyKey = AnyKey
    NoKey = NoKey
    Registrations <- MCRegistrations
INVARIANT TypeOK
INVARIANT ToldNearestKey
INVARIANT ToldTheKey
INVARIANT MissingIsInvalid
CHECK_DEADLOCK FALSE
