SPECIFICATION FairSpec
CONSTANTS
    m = m
    n = n
    x = x
    NoTask = NoTask
    NrThreads = 2
    Mutexes <- OneMutex
    Locations <- OneLocation
    Objects <- MutexAndLocation
    MemoryOps = {"Store"}
    Atomicities = {FALSE}
    MaxCalls = 3
    Schedules <- SomeSchedules
    Strategies = {"Random"}
    EagerExit = TRUE
CHECK_DEADLOCK FALSE
INVARIANTS
    PoolInv
    RoundExclusive
    OnlyCurrentPerforms
    DoneMeansFinished
    RecordComplete
PROPERTIES
    RecordedTransitions
    FinishedForever
    ErrorReleases
