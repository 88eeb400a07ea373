SPECIFICATION Spec
CONSTANTS
    Type = {T1}
    Key = {k1}
    AnyKey = AnyKey
    NoKey = NoKey
    Thread = {th1}
    MaxDescriptors = 2
    MaxNative = 0
    Ops = {"Get", "Plain"}
    NoRequest = NoRequest
SYMMETRY KeySymmetry
INVARIANT PlainGetsNoKey
CHECK_DEADLOCK FALSE
