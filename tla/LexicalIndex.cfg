SPECIFICATION Spec
CONSTANTS
    p1 = p1
    p2 = p2
    alpha = alpha
    beta = beta
    v1 = v1
    v2 = v2
    Procs = {p1, p2}
    Abouts = {alpha, beta}
    Versions = {v1, v2}
    VersionOf <- MCTwoReleases
    None = None
    MinEntries = 2
    MaxEvents = 3
    MaxReplaced = 1
    MaxForgets = 1
SYMMETRY Symmetry
INVARIANTS
    TypeOK
    BuiltIsCurrent
PROPERTIES
    AnswersAreWhole
