SPECIFICATION FairSpec
CONSTANTS
    Tabs = {t1}
    Producers = {p1}
    MaxEid = 3
    StreamCap = 2
    QueueCap = 1
    AckCap = 1
    XhrFallback = TRUE
    RedisFails = TRUE
INVARIANTS HolesExplained
PROPERTIES LiveEventsArrive
