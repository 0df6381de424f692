SPECIFICATION Spec
CONSTANTS
    Tabs = {t1}
    Producers = {p1, p2}
    MaxEid = 3
    StreamCap = 2
    QueueCap = 2
    AckCap = 1
    XhrFallback = FALSE
    RedisFails = TRUE
INVARIANTS AtMostOnce AckNeverAhead
PROPERTIES FeedSpec
