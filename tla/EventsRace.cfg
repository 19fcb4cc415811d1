SPECIFICATION Spec
CONSTANTS
    t1 = t1   t2 = t2
    k1 = k1   k2 = k2
    a = a     b = b
    key1 = key1   key2 = key2
    d1 = d1   d2 = d2
    h1 = h1   h2 = h2
    None = None
    Tasks = {t1, t2}
    Kernels = {k1, k2}
    Abouts = {a, b}
    Keys = {key1, key2}
    Digests = {d1, d2}
    Hashes = {h1, h2}
    Store = "embedded"
    MayAbandon = FALSE
    Host <- TwoProcesses
    Commands <- RetriedCommands
    MaxAttempts = 2
INVARIANT
    AcceptedOnce
