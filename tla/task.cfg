SPECIFICATION RecordFairSpec
CONSTANTS
    leave = leave  talktime = talktime
    joined = joined  tool = tool  turn = turn
    N = 2
    Caller = {leave, talktime}
    RoomCaller = {leave}
    ReasonOf <- MCReasonOf
    Stuck = {1}
    Event = {turn, tool}
    Producer = {1}
    EventCap = 1
    EventKind <- MCEventKind
    maxAttempts = 2
    daily = FALSE
    Prior <- MCPrior
    Resume <- MCResume
    NoOne = NoOne
    NoEvent = NoEvent
    NoReason = NoReason
    NoCall = NoCall
INVARIANTS TypeOK NoSendOnClosed CallbacksInOrder CallEndedIsLast Recorded ResumeIsWellFormed
PROPERTIES ImplementsCallLife CallReported
CHECK_DEADLOCK FALSE
