SPECIFICATION FairSpec
CONSTANTS
    InboxCap = 1
    CmdCap = 1
    EvCap = 1
    Kinds = {"start", "part", "text", "rend", "speak", "end", "other", "up"}
    MaxFrames = 3
    MaxTurns = 2
    MaxInterrupts = 0
    MaxDrops = 1
    NoFrame = NoFrame
    NoEvent = NoEvent
PROPERTIES EndForwarded TurnCloses
CHECK_DEADLOCK FALSE
