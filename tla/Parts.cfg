SPECIFICATION PartsSpec
CONSTANTS
    None = None
    Jobs = {j}
    Loops = {l1, l2}
    Callers = {r}
    MaxClaims = 2
    BackendErrors = TRUE
    Nil = Nil
    Clients = {c}
    MaxMutations = 3
    Unset = Unset
    Writers = {v, w}
    Stored = {a, b}
    Nobody = Nobody
    Takers = {t}
    max_commands = 2
    window = 3
    MaxClock = 6
    MaxGrants = 5
    Void = Void
    Envelopes = {e, f, g}
    num_partitions = 2
    ChannelSize = 1
    Priorities = {1, 2}
    MaxSequence = 3
    MaxArrivals = 4
    BasePriorities = {0, 3, 9}
    Deadline = 20
CHECK_DEADLOCK FALSE
INVARIANTS
    RegisteredIsWorkedOn
    AckedSurvives
    SnapshotOpens
    FileMatchesCache
    PermissionsKeepRate
    FifoWithinPriority
PROPERTIES
    ShutdownReturns
    PoolFinishes
    UrgencyGrows
