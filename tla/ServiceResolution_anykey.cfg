SPECIFICATION Spec
CONSTANTS
    Type = {T1}
    Key = {k1}
    AnyKey = AnyKey
    NoKey = NoKey
    Thread = {th1}
    MaxDescriptors = 2
    MaxNative = 0
    Ops = {"GetKeyed", "GetAllKeyed"}
    NoRequest = NoRequest
SYMMETRY KeySymmetry
INVARIANT AnyKeyNotReturned
CHECK_DEADLOCK FALSE
