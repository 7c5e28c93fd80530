SPECIFICATION FairSpec
CONSTANTS
    None = None
    MarkerKey = MarkerKey
    d1 = d1
    k1 = k1
    JobIds = {1, 2}
    DedupIds = {}
    RepeatKeys = {k1}
    Clients = {c1, c2}
    Submissions <- WakeupJobs
    Flows = {}
    Batches = {}
    Operations = {"block", "pause", "delay", "release", "renew", "remove_repeat"}
    Limits = {1}
    RateMax = 0
    Resubmits = FALSE
    Abandons = FALSE
    MaxClaims = 1
CHECK_DEADLOCK FALSE
INVARIANTS
    NoLostWakeup
PROPERTIES
    StalledIsRecovered
