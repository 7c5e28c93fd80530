SPECIFICATION FairSpec
CONSTANTS
    None = None
    JobIds = {1, 2}
    DedupIds = {}
    RepeatKeys = {}
    Options <- LifecycleOptions
    Durations = {1}
    MaxTime = 1
    MaxClaims = 2
    MaxSeq = 2
INVARIANTS
    TypeOK
    LeaseConsistent
    RetentionHolds
PROPERTIES
    TokenNeverRevives
    RefinesLifecycle
    LeaseEventuallyEnds
