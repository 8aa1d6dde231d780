SPECIFICATION Spec
CONSTANTS
    p = p
    q = q
    r = r
    NrThreads = 3
    Pids <- ThreePids
    ReusePids = TRUE
    MayFail = FALSE
    MaxCalls = 5
INVARIANT OwnTid
CHECK_DEADLOCK FALSE
