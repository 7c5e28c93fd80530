SPECIFICATION FairSpec
CONSTANTS
    None = None
    urgent = urgent
    background = background
    Commands = {a, b}
    Direct = {b}
    Lanes = {background}
    Config <- OneLane
    DlqSize = 1
    MayPanic = FALSE
    StorageMayFail = FALSE
INVARIANTS
    ActiveCountsTasks
    StorageMatchesWork
    DeadLettersKept
PROPERTIES
    AcceptedIsAnswered
    ShutdownCompletes
