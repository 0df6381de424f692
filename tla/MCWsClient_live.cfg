SPECIFICATION FairSpec
CONSTANTS
    MaxMsgs = 3
    Joins = {2}
    QueueMax = 2
    Polls = {c1, c2}
    MaxDying = 1
    Xhr = TRUE
INVARIANTS NeverStranded NoMessageLost PollsOnlyBridge
PROPERTIES QueuedGetsOut
