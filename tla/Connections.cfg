SPECIFICATION FairSpec

CONSTANTS
    worker = worker
    api = api
    run1 = run1
    run2 = run2
    run3 = run3
    import = import
    request = request
    NoTask = NoTask
    Processes <- BothProcesses
    Tasks <- TheTasks
    Home <- TheHome
    Runs <- TheRuns
    Jobs <- TheJobs
    Apple <- ToApple
    PoolSize = 3
    MaxWorkers = 2
    MaxRotations = 2

INVARIANTS
    TypeOK
    RotationKept
    NoReplay
    PoolNotStalled

PROPERTIES
    Served
