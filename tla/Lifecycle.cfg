CONSTANTS
    Sources = {a, b}
    MeasCap = 1
    ReqCap = 1
    MaxRuns = 2
SPECIFICATION FairSpec
CHECK_DEADLOCK FALSE
INVARIANTS StoppedStaysDown ClearedByEvidence
PROPERTIES StoppedRestarts ShutdownCompletes
