SPECIFICATION FairSpec
CONSTANTS
    MaxRequests = 2
    MaxCalls = 2
INVARIANTS RequestHasResults OneLiveRun WordsOnce
PROPERTIES TurnClosed
CHECK_DEADLOCK FALSE
