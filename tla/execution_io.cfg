SPECIFICATION FairSpec
CONSTANTS
    m = m
    NoTask = NoTask
    NoState = NoState
    CutState = CutState
    NrThreads = 2
    Objects <- OneObject
    States <- TwoStates
    Instructions <- SomeInstructions
    Statuses = {"DONE"}
    MaxTransitions = 2
INVARIANTS
    IOInv
    ExecutionsChained
    GoodReadIsComplete
    ReadIsPrefix
    WholeRecordIsRead
    LinesAreRead
PROPERTIES
    ReadEnds
