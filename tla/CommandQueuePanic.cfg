SPECIFICATION Spec
CONSTANTS
    None = None
    urgent = urgent
    background = background
    Commands = {a}
    Direct = {}
    Lanes = {background}
    Config <- OneLane
    DlqSize = 1
    MayPanic = TRUE
    StorageMayFail = FALSE
INVARIANTS
    ActiveCountsTasks
