SPECIFICATION FairSpec
CONSTANTS
    m = m
    n = n
    x = x
    NoTask = NoTask
    NrThreads = 3
    Mutexes <- OneMutex
    Locations <- NoLocation
    Objects <- OneMutex
    MemoryOps = {}
    Atomicities = {FALSE}
    MaxCalls = 4
    Schedules <- NoneOrPreempting
    Strategies = {"Random", "NonPreemptive"}
    EagerExit = FALSE
INVARIANTS
    StatusAccurate
PROPERTIES
    NoPreemption
    Terminates
