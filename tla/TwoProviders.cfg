SPECIFICATION Spec

CONSTANTS
    b1 = b1
    b2 = b2
    f1 = f1
    f2 = f2
    s1 = s1
    s2 = s2
    r1 = r1
    r2 = r2
    None = None
    Browsers <- TwoBrowsers
    Flows <- TwoFlows
    SessionIds <- TwoSessions
    Requests <- OneRequest
    MaxPending = 1

INVARIANTS
    ConnectionsKept
