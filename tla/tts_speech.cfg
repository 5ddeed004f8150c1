SPECIFICATION Spec
CONSTANTS
    InboxCap = 1
    CmdCap = 1
    EvCap = 1
    Kinds = {"start", "text", "rend", "speak", "end"}
    MaxFrames = 3
    MaxTurns = 2
    MaxInterrupts = 1
    MaxDrops = 1
    NoFrame = NoFrame
    NoEvent = NoEvent
INVARIANTS NoStaleSpeech EndAfterSpeech WordsBeforeDone
CHECK_DEADLOCK FALSE
