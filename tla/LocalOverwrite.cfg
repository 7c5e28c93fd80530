SPECIFICATION LocalSpec
CONSTANTS
    Nil = Nil
    Clients = {c, d}
    MaxMutations = 2
CHECK_DEADLOCK FALSE
INVARIANT
    AckedSurvives
