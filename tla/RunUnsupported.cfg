SPECIFICATION Spec

CONSTANTS
    w1 = w1
    w2 = w2
    a = a
    b = b
    p1 = p1
    p2 = p2
    Workers <- MCWorkers
    NoWorker = NoWorker
    Configured = {w1}
    Tracks <- MCTracks
    Unavailable = Unavailable
    Previews <- SeveralPlans
    PlaylistIds <- MCPlaylists
    NoPlaylist = NoPlaylist
    SourceName <- PlainName
    MaxNameLen = 100
    Supported <- NoAppend
    MaxAttempts = 3
    MaxErrors = 0
    MaxRateLimits = 1
    MaxLate = 0
    MaxWithdrawn = 0

INVARIANTS
    SettledJobReported

\* The system rests once the job is settled and the faults are spent.
CHECK_DEADLOCK FALSE
