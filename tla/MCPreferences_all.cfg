SPECIFICATION Spec
CONSTANTS
    r1 = r1
    r2 = r2
    r3 = r3
    rest = rest
    gw = gw
    m = m
    n = n
    p = p
    q = q
    None = None
    Requests = {r1, r2, r3}
    Repos = {rest}
    Replicas = {gw}
    CacheOf <- OneProcess
    Items = {m, n, p, q}
    NotifItems = {m, n}
    InitialItems = {q}
    Profiles <- AllProfiles
    Starts = {"warm", "cold", "new"}
    Faults = {"flush", "get", "eval", "mongo"}
    MaxFaults = 1
SYMMETRY RequestSymmetry
INVARIANTS UniqueVersions NoLostUpdate DurableCatchesUp NotifConverges
CHECK_DEADLOCK FALSE
