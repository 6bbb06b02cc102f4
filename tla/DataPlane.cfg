SPECIFICATION Spec
CONSTANTS
    r1 = r1
    r2 = r2
    other = other
    Request <- MCRequest
    ForRoot <- MCForRoot
    Observers = 2
    Replaceable = {1}
    LogLimit = 1
INVARIANTS TypeOK ObserversFollowPrimary ObserversFailOpen ReceiptBeforeReply RecordedOnce
PROPERTY EveryRequestAnswered
CHECK_DEADLOCK FALSE
