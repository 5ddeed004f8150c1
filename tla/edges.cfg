SPECIFICATION EdgesFairSpec
CONSTANTS
    JoinRetries = 2
    SttAttempts = 2
    AudioCap = 1
    maxIdlePrompts = 2
    Calls <- MCCalls
INVARIANT OneConnection
PROPERTY CallEnds ReaderExits PromptsNeedSilence
