SPECIFICATION FairSpec
CONSTANTS
    m = m
    n = n
    x = x
    NoTask = NoTask
    NrThreads = 2
    Mutexes <- TwoMutexes
    Locations <- OneLocation
    Objects <- AllObjects
    MemoryOps = {"Load", "Store"}
    Atomicities = {FALSE}
    MaxCalls = 4
    Schedules <- NoSchedule
    Strategies = {"Random"}
    EagerExit = FALSE
INVARIANTS
    TypeOK
    MutexMirrored
    GrantedNeverBlocks
    NoFailure
PROPERTIES
    ImplementsTurnTaking
