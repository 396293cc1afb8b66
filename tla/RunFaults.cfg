SPECIFICATION FairSpec

CONSTANTS
    w1 = w1
    w2 = w2
    a = a
    b = b
    p1 = p1
    p2 = p2
    Workers <- MCWorkers
    NoWorker = NoWorker
    Configured <- MCWorkers
    Tracks <- MCTracks
    Unavailable = Unavailable
    Previews <- OnePlan
    PlaylistIds <- MCPlaylists
    NoPlaylist = NoPlaylist
    SourceName <- PlainName
    MaxNameLen = 100
    Supported <- AllOperations
    MaxAttempts = 4
    MaxErrors = 3
    MaxRateLimits = 1
    MaxLate = 0
    MaxWithdrawn = 0

INVARIANTS
    TypeOK
    OnePlaylist
    NoExtraTracks
    SettledJobReported

PROPERTIES
    CompletionExact
    EventuallyCompleted

\* The system rests once the job is settled and the faults are spent.
CHECK_DEADLOCK FALSE
