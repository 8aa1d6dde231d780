SPECIFICATION FairSpec
CONSTANTS
    p = p
    q = q
    r = r
    NrThreads = 3
    Pids <- ThreePids
    ReusePids = FALSE
    MayFail = TRUE
    MaxCalls = 5
INVARIANTS RegInv OwnTid JoinsItsThread NoFalseDeadlock DoneMeansEnded
PROPERTIES Ends
CHECK_DEADLOCK FALSE
