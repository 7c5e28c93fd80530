SPECIFICATION Spec
CONSTANTS
    None = None
    MarkerKey = MarkerKey
    d1 = d1
    k1 = k1
    JobIds = {1, 2, 3}
    DedupIds = {}
    RepeatKeys = {}
    Clients = {c1}
    Submissions = {}
    Flows <- ClosedFlows
    Batches <- ThirdChild
    Operations = {"remove", "children", "orphans"}
    Limits = {}
    RateMax = 0
    Resubmits = FALSE
    Abandons = FALSE
    MaxClaims = 3
CHECK_DEADLOCK FALSE
INVARIANTS
    IndexAgreesWithState
    NoStrandedParent
PROPERTIES
    CompleteOnlyAfterChildren
