SPECIFICATION PodFairSpec
CONSTANTS
    c1 = c1  c2 = c2
    Conv = {c1, c2}
    MaxSends = 2
    RemoteMayFail = TRUE
    NoConv = NoConv
    MaxCrashes = 1
    MaxSigterms = 2
INVARIANTS PodTypeOK OneCall PinnedDuringCall ReservedStaysPinned ServingIsRegistered
PROPERTIES Released ShutdownClearsMachine
CHECK_DEADLOCK FALSE
