SPECIFICATION FairSpec

CONSTANTS
    c1 = c1
    c2 = c2
    w1 = w1
    w2 = w2
    i1 = i1
    i2 = i2
    p1 = p1
    p2 = p2
    x = x
    y = y
    NoClient = NoClient
    NoImport = NoImport
    Clients <- TwoClients
    Workers <- OneWorker
    Imports <- TwoImports
    Playlists <- TwoPlaylists
    Contents <- Single
    PageSize = 1
    MaxItems = 2
    ActiveLimits = {1, 2}
    MaxAttempts = 2
    MaxErrors = 1
    MaxRateLimits = 1
    MaxDenied = 1
    MaxEdits = 0

INVARIANTS
    OneActivePerPlaylist
    ActiveBounded

PROPERTIES
    JobsSettle
    EventuallyPublished

\* The system rests once the session is gone and the jobs are settled.
CHECK_DEADLOCK FALSE
