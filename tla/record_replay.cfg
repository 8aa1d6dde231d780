SPECIFICATION FairSpec
CONSTANTS
    m = m
    n = n
    NrThreads = 3
    Objects <- TwoMutexes
    Mutexes <- TwoMutexes
    NoTask = NoTask
    Programs <- SomePrograms
    Schedules <- SomeSchedules
    Settings = {"NonPreemptive"}
    Unsupported = {"script"}
    NoProgram = NoProgram
    MaxCalls = 4
INVARIANTS RecordReplayInv ReplayFollows ReplayOutcome ReturnsOwnRecord RunsWhatWasInstrumented
PROPERTIES ProcessEnds
CHECK_DEADLOCK FALSE
