SPECIFICATION Spec
CONSTANTS
    Tenants = {t1, t2}
    Threads = {th1, th2}
    Places = {p1, p2}
    MaxCached = 1
    MaxPools = 3
SYMMETRY Symmetry
INVARIANTS
    CacheIsBounded
    NoPoolLeaks
    CachedIsOpen
    QuietEvictRefreshes
PROPERTY
    GivenWasCached
