CONSTANTS
    Object <- MCObject
    None = None
    Day = 2
    Slack = 1
    Horizon = 100
    LeapRequired = TRUE
    MaxTime = 3
    Seed = FALSE
    Checkpoint = 2
    MaxCrash = 1
SPECIFICATION Spec
INVARIANTS ActivatedIsDurable ArmedInTable
PROPERTY Implements
CHECK_DEADLOCK FALSE
