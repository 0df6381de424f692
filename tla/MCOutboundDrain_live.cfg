SPECIFICATION FairDrainSpec
CONSTANTS
    QueueCap = 3
    BatchMax = 2
    MaxFrames = 4
INVARIANTS NothingLostInOrder DrainerOutlivesSession
PROPERTIES DrainerEnds
CHECK_DEADLOCK FALSE
