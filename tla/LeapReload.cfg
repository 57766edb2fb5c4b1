CONSTANTS
    Object <- MCRenewed
    None = None
    Day = 2
    Slack = 1
    Horizon = 100
    LeapRequired = TRUE
    MaxTime = 3
    Seed = TRUE
    Checkpoint = 2
    MaxCrash = 1
SPECIFICATION Spec
INVARIANT SavedStateLoads
CHECK_DEADLOCK FALSE
