\* One NTP source; clock steps and leap seconds, two discontinuities.
CONSTANTS
    NTPs = {n1}
    PPSs = {}
    NMEAs = {}
    QueueCap = 2
    Stages = 2
    StepEnabled = TRUE
    MaxWorld = 3
    NMEAMin = 2
SPECIFICATION Spec
INVARIANTS AcquiredInEpoch UnreportedInEpoch
