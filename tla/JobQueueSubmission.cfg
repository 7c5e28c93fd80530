SPECIFICATION Spec
CONSTANTS
    None = None
    JobIds = {1, 2}
    DedupIds = {d}
    RepeatKeys = {}
    Options <- SubmissionOptions
    Durations = {1}
    MaxTime = 1
    MaxClaims = 1
    MaxSeq = 3
INVARIANTS
    WaitingOrderIsTotal
    DedupSingleOwner
PROPERTIES
    NoOvertaking
