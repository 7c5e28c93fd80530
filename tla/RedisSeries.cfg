SPECIFICATION Spec
CONSTANTS
    None = None
    MarkerKey = MarkerKey
    d1 = d1
    k1 = k1
    JobIds = {1, 2, 3}
    DedupIds = {d1}
    RepeatKeys = {k1}
    Clients = {c1}
    Submissions <- SeriesJobs
    Flows = {}
    Batches = {}
    Operations = {"retry", "remove", "promote", "reschedule", "clean", "drain", "obliterate", "priority"}
    Limits = {}
    RateMax = 1
    Resubmits = FALSE
    Abandons = TRUE
    MaxClaims = 2
CHECK_DEADLOCK FALSE
INVARIANTS
    IndexAgreesWithState
    LockMeansActive
    RetryDecisionIsCurrent
    RepeatSingleOccurrence
    ParkedHasOwner
