SPECIFICATION Spec

CONSTANTS
    c1 = c1
    c2 = c2
    w1 = w1
    w2 = w2
    i1 = i1
    i2 = i2
    p1 = p1
    p2 = p2
    x = x
    y = y
    NoClient = NoClient
    NoImport = NoImport
    Clients <- OneClient
    Workers <- TwoWorkers
    Imports <- OneImport
    Playlists <- OnePlaylist
    Contents <- Reordered
    PageSize = 1
    MaxItems = 2
    ActiveLimits = {1}
    MaxAttempts = 3
    MaxErrors = 2
    MaxRateLimits = 0
    MaxDenied = 0
    MaxEdits = 2

SYMMETRY WorkerSymmetry

INVARIANTS
    TypeOK
    SnapshotFaithful
    CompletedHasSnapshot

PROPERTIES
    SnapshotImmutable
    SessionEndIsFinal

\* The system rests once the session is gone and the jobs are settled.
CHECK_DEADLOCK FALSE
