SPECIFICATION FairSpec
CONSTANTS
    Workers = {w1, w2}
    DSNs = {d1, d2}
    Handles = {h1, h2, h3}
    None = None
    MaxFaults = 1
INVARIANTS
    PoolTypeOK
    CachedIsOpen
    NoLeak
    CleanShutdown
PROPERTIES
    EventuallyUsable
CHECK_DEADLOCK FALSE
