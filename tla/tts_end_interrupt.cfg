SPECIFICATION FairSpec
CONSTANTS
    InboxCap = 1
    CmdCap = 1
    EvCap = 1
    Kinds = {"speak", "end"}
    MaxFrames = 2
    MaxTurns = 2
    MaxInterrupts = 1
    MaxDrops = 0
    NoFrame = NoFrame
    NoEvent = NoEvent
PROPERTIES EndForwarded
CHECK_DEADLOCK FALSE
