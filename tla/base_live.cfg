SPECIFICATION FairSpec
CONSTANTS
    d1 = d1  d2 = d2  c1 = c1  e1 = e1  i1 = i1  i2 = i2  x1 = x1
    Frame = {d1, d2, e1, i1, x1}
    Kind <- MCKind
    Sender = {s1}
    SysCap = 1
    DataCap = 1
    ProcCap = 1
    FirstLoop = FirstLoop
    NoFrame = NoFrame
PROPERTIES EndTerminates InterruptHandled
CHECK_DEADLOCK FALSE
