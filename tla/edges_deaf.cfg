SPECIFICATION EdgesFairSpec
CONSTANTS
    JoinRetries = 1
    SttAttempts = 1
    AudioCap = 1
    maxIdlePrompts = 1
    Calls <- MCDailySales
PROPERTY BrokenEndpointReleases
