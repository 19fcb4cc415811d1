SPECIFICATION FairSpec
CONSTANTS
    s1 = s1   s2 = s2
    e1 = e1   e2 = e2   e3 = e3   e4 = e4
    n1 = n1   n2 = n2
    Servers = {s1, s2}
    Events = {e1, e2, e3, e4}
    EventOf <- MCEventOf
    Content <- MCContent
    Poison = {e3}
    Nodes = {n1, n2}
    Absent = Absent
    Placeholder = Placeholder
    NoMessage = NoMessage
    MaxFailures = 1
INVARIANTS
    TypeOK
    SettledIsApplied
    ConvergesToTheStream
PROPERTIES
    NodesStayMaterialized
    EventsAreSettled
CHECK_DEADLOCK FALSE
