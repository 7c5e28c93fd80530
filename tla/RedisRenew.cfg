SPECIFICATION Spec
CONSTANTS
    None = None
    MarkerKey = MarkerKey
    d1 = d1
    k1 = k1
    JobIds = {1, 2}
    DedupIds = {}
    RepeatKeys = {k1}
    Clients = {c1}
    Submissions <- WakeupJobs
    Flows = {}
    Batches = {}
    Operations = {"renew"}
    Limits = {}
    RateMax = 0
    Resubmits = FALSE
    Abandons = FALSE
    MaxClaims = 1
CHECK_DEADLOCK FALSE
INVARIANT
    RenewExtendsLease
