SPECIFICATION RouterFairSpec
CONSTANTS
    Call = {c1, c2}
    Primary = {a}
    FallbackGroup = {f}
    ownFallback = a
    groupFallback = f
    MaxTriggers = 2
INVARIANT OnePollPerWindow
PROPERTY NextTurnAvoids PrimaryRecovers
