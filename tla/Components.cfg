\* The drift file
CONSTANTS
    MaxOffers = 5
\* The leap boundary
    Object <- MCObject
    None = None
    Day = 4
    Slack = 1
    Horizon = 100
    LeapRequired = TRUE
    MaxTime = 10
    MaxGap = 2
\* Selection
    Inputs <- MCInputs
    MinSelected = 1
    ClusterMin = 3
    PPSGuard = 2
    AgreementFloor = 0
\* The phase loop
    Phases <- MCPhases
    Freqs <- MCFreqs
    MaxFrequency = 2
    MaxSlew = 2
    MaxTick = 1
    LogSpan = 1
    MaxMono = 3
\* The statistics recorder
    Days = {1, 3}
    KeepDays = 1
    SnapCap = 1
    PulseCap = 1
    MaxRows <- MCRows
    MaxFaults = 2
\* The control socket
    Daemons = {d1, d2}
    NoDaemon = none
    MaxWaiting = 1
    MaxStarts = 4
\* The responder
    Clients = {"peer", "any"}
    RequireKey <- MCRequire
    Keys = {"k"}
    NoKey = "nokey"
    Rate = 1
    Burst = 2
    MaxClients = 2
    KoD = TRUE
    KodInterval = 2
    IdleExpiry = 1
    Watched <- MCWatched
    MaxNow = 3
\* The distributor
    Listeners = {l1, l2}
    ExportKeys = {k1, k2}
    Global = all
    KeyInterval = 2
    KeyBurst = 1
    GlobalInterval = 1
    GlobalBurst = 2
    MaxTries = 2
    MaxClock = 2
\* The listener
    Addresses = {a1}
    Refresh = 2
    MaxWhen = 4
\* The seed schedule
    Floor = 2
    Daily = 3
    Jitter = 1
    MaxBackoff = 3
    RetryAfters = {3}
    MaxVersion = 2
    MaxSeedTime = 4
\* The fetch
    Tables = {"old", "new"}
    Size <- MCSize
    Date <- MCDate
    NoObject = "none"
    ChunkSize = 2
    MaxAttempts = 2
    MaxSent = 5
SPECIFICATION ComponentsSpec
CHECK_DEADLOCK FALSE
INVARIANTS DurableSuccess CloseDrains OfferLosesOne
INVARIANTS ArmedLeapNoticed LeapsOnce
INVARIANTS IntersectIsMarzullo MajorityRules PulseVouched
INVARIANTS AppliedIsExact PhaseChargedOnce
INVARIANTS PulseAccounted 
INVARIANTS SoleServer OneOwnerWithCache
INVARIANTS GrantsBounded PeerUnstarved ForgottenLast
INVARIANTS BudgetKept
INVARIANTS BroadcastRefused
INVARIANTS SeedFloor ValidatorsHeld
INVARIANTS ChunksInPlace
