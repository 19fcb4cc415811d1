SPECIFICATION Spec
CONSTANTS
    p1 = p1
    p2 = p2
    alpha = alpha
    beta = beta
    v1 = v1
    v2 = v2
    Procs = {p1, p2}
    Abouts = {alpha, beta}
    Versions = {v1, v2}
    VersionOf <- MCOneRelease
    None = None
    MinEntries = 0
    MaxEvents = 3
    MaxReplaced = 0
    MaxForgets = 0
INVARIANT
    BuiltIsCurrent
