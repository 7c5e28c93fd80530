SPECIFICATION Spec
CONSTANTS
    None = None
    JobIds = {1, 2}
    DedupIds = {d, e}
    RepeatKeys = {k}
    Options <- RepeatOptionSet
    Durations = {1}
    MaxTime = 1
    MaxClaims = 2
    MaxSeq = 3
INVARIANTS
    RepeatSingleOwner
    RepeatWithinLimit
PROPERTIES
    LatestDuplicateRuns
