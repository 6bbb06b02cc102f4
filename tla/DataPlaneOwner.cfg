SPECIFICATION Spec
CONSTANTS
    r1 = r1
    r2 = r2
    other = other
    Request <- FewRequest
    ForRoot <- FewForRoot
    Observers = 2
    Replaceable = {1}
    LogLimit = 1
INVARIANT PrimaryOwnsResponse
CHECK_DEADLOCK FALSE
