SPECIFICATION FairSpec
CONSTANTS
    m = m
    n = n
    x = x
    NoTask = NoTask
    NrThreads = 2
    Mutexes <- NoLocation
    Locations <- OneLocation
    Objects <- OneLocation
    MemoryOps = {"Store"}
    Atomicities = {FALSE}
    MaxCalls = 2
    Schedules <- NoSchedule
    Strategies = {"Random"}
    EagerExit = TRUE
CHECK_DEADLOCK FALSE
INVARIANTS
    JoinersEnabled
