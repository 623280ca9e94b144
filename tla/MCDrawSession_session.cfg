SPECIFICATION Spec
CONSTANTS
    p1 = p1
    p2 = p2
    c1 = c1
    d1 = d1
    d2 = d2
    Ports = {p1, p2}
    DefaultPort = p1
    External = External
    None = None
    MaxServers = 2
    MaxRecorders = 2
    MaxVisits = 1
    MaxDelay = 2
    Callers = {c1}
    Drawings = {d1, d2}
    Undecoded = {d2}
    Updates = {d2}
    MaxCalls = 3
    MaxFiles = 1
CHECK_DEADLOCK FALSE
INVARIANTS
    OwnServerAnswers
    ChunksKept
    SessionReplays
PROPERTIES
    BackoffHolds
