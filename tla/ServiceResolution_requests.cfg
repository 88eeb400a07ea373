SPECIFICATION Spec
CONSTANTS
    Type = {T1}
    Key = {k1, k2}
    AnyKey = AnyKey
    NoKey = NoKey
    Thread = {th1, th2}
    MaxDescriptors = 3
    MaxNative = 1
    Ops = {"Get", "GetAll", "GetKeyed", "GetAllKeyed", "Plain"}
    NoRequest = NoRequest
SYMMETRY KeySymmetry
INVARIANT TypeOK
INVARIANT LastRegistrationWins
INVARIANT RegistrationOrderPreserved
INVARIANT AnyKeyCollection
INVARIANT LastKeyedRegistrationWins
INVARIANT OneBindingPerKey
INVARIANT PlainKeepsOwn
CHECK_DEADLOCK FALSE
