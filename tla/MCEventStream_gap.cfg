SPECIFICATION Spec
CONSTANTS
    Tabs = {t1}
    Producers = {p1}
    MaxEid = 3
    StreamCap = 3
    QueueCap = 3
    AckCap = 1
    XhrFallback = FALSE
    RedisFails = FALSE
INVARIANTS NoGapsAfterResume
