SPECIFICATION FairSpec
CONSTANTS
    t1 = t1   t2 = t2
    k1 = k1   k2 = k2
    alpha = alpha   beta = beta
    e = e     f = f     g = g
    x = x     y = y
    key1 = key1   key2 = key2   key3 = key3
    None = None
    Tasks = {t1, t2}
    Kernels = {k1, k2}
    Abouts = {alpha, beta}
    Entries = {e, f, g}
    Scopes = {x, y}
    Keys = {key1, key2, key3}
    Host <- Apart
    Owner <- EntryOwner
    Commands <- Mixed
    Stored <- Before
    CacheLimit = 1
    MaxCalls = 3
INVARIANTS
    TypeOK
    FrontierIsExact
PROPERTIES
    ReviewedIsCurrent
    ConsistentIsFresh
    CallsAreAnswered
