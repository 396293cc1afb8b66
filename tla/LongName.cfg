SPECIFICATION Spec

CONSTANTS
    w1 = w1
    w2 = w2
    a = a
    b = b
    p1 = p1
    p2 = p2
    Workers <- MCWorkers
    NoWorker = NoWorker
    Configured <- MCWorkers
    Tracks <- MCTracks
    Unavailable = Unavailable
    Previews <- OnePlan
    PlaylistIds <- MCPlaylists
    NoPlaylist = NoPlaylist
    SourceName <- LongName
    MaxNameLen = 100
    Supported <- AllOperations
    MaxAttempts = 3
    MaxErrors = 0
    MaxRateLimits = 0
    MaxLate = 0
    MaxWithdrawn = 0

INVARIANTS
    SettledJobReported

\* The system rests once the job is settled and the faults are spent.
CHECK_DEADLOCK FALSE
