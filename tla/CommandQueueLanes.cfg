SPECIFICATION Spec
CONSTANTS
    None = None
    urgent = urgent
    background = background
    Commands = {a, d}
    Direct = {d}
    Lanes = {urgent, background}
    Config <- TwoLanes
    DlqSize = 1
    MayPanic = TRUE
    StorageMayFail = TRUE
INVARIANTS
    TypeOK
    IdleLaneIsEmpty
    ShutdownCompleteIsFinal
    DrainWaitsForAll
