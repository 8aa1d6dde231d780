SPECIFICATION Spec
CONSTANTS
    Programs <- SomePrograms
    StartRoutine = "routine"
    StaticInitializer = "initializer"
CHECK_DEADLOCK FALSE
INVARIANTS
    ThreadInv
    AnnouncedIffPerformed
    CreatedIsRegisteredNext
    CallStackIsStack
    FinishedIffEnded
