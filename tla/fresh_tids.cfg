SPECIFICATION Spec
CONSTANTS
    m = m
    n = n
    NrThreads = 4
    Objects <- TwoMutexes
    Mutexes <- TwoMutexes
    NoTask = NoTask
    Programs <- RacingCreations
    Schedules <- NoSchedule
    Settings = {}
    Unsupported = {}
    NoProgram = NoProgram
    MaxCalls = 3
INVARIANT ReplayFollows
CHECK_DEADLOCK FALSE
