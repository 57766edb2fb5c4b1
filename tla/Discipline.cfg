SPECIFICATION FairSpec
CONSTANTS
    a = a
    b = b
    None = None
    Sources <- MCSources
    Prefer = {}
    MinSurvivors = 1
    SettleUpdates = 2
    HoldoverMax = 0
    StepLimit = 2
    PanicAtStartup = TRUE
    Deadline = 1
INVARIANTS ServedIsTrusted TrustIsEarned SecondStepEvidence ReasonTellsWhy
PROPERTIES SilenceEndsService
CHECK_DEADLOCK FALSE
