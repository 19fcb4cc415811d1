SPECIFICATION Spec
CONSTANTS
    p = p   q = q   t = t   w = w
    e1 = e1   e2 = e2   f1 = f1
    None = None
    Processes = {p, q}
    Tasks = {t, w}
    Host <- Apart
    Events = {e1, e2, f1}
    Branches = {{f1}}
    Relabels = TRUE
    OutsidersWait = TRUE
    MaxStamp = 3
    MaxOwned = 1
SYMMETRY Alike
INVARIANTS
    TypeOK
    GuardedIsMarked
    WritesOnEqualHistories
    RefusalsAreDeserved
PROPERTIES
    NothingIsOverwritten
    KeepsPromise
CHECK_DEADLOCK FALSE
