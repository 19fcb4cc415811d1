SPECIFICATION FairSpec
CONSTANTS
    agent = agent   person = person
    a = a   b = b   loom = loom   other = other
    focus = focus   overlays = overlays   off = off   on = on
    key1 = key1   key2 = key2   d1 = d1   d2 = d2
    None = None
    Abouts = {a}
    Facets = {focus, overlays}
    Settings = {off, on}
    Default = off
    Actors = {agent, person}
    Human = person
    Keys = {key1, key2}
    Digests = {d1, d2}
    Clients = {agent, person}
    Views = {loom, other}
    Intents <- PollIntents
    Prepared = {overlays}
    HistoryLimit = 1
    IdempotencyLimit = 1
    MayForget = TRUE
    MaxCalls = 4
INVARIANT
    NoNewsIsMissed
PROPERTY
    NewsArrives
