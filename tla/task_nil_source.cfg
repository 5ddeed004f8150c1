SPECIFICATION Spec
CONSTANTS
    leave = leave  t1 = t1
    N = 2
    Caller = {leave}
    RoomCaller = {leave}
    ReasonOf <- MCReasonOf
    Stuck = {}
    Event = {t1}
    Producer = {1}
    EventCap = 1
    NoOne = NoOne
    NoEvent = NoEvent
    NoReason = NoReason
INVARIANTS NoNilSource
CHECK_DEADLOCK FALSE
