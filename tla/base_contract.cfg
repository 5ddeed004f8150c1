SPECIFICATION Spec
CONSTANTS
    d1 = d1  d2 = d2  c1 = c1  e1 = e1  i1 = i1  i2 = i2  x1 = x1
    Frame = {d1, c1, e1, i1, i2}
    Kind <- MCKind
    Sender = {s1, s2}
    SysCap = 1
    DataCap = 1
    ProcCap = 2
    FirstLoop = FirstLoop
    NoFrame = NoFrame
INVARIANTS TypeOK NonInterruptibleSurvives SerialHandlers InterruptPurges PushBackFits EndIsLast
PROPERTIES ImplementsMailbox
CHECK_DEADLOCK FALSE
