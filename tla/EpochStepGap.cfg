\* One NTP source and one step: a sample taken between finish and Reset.
CONSTANTS
    NTPs = {n1}
    PPSs = {}
    NMEAs = {}
    QueueCap = 1
    Stages = 2
    StepEnabled = TRUE
    MaxWorld = 2
    NMEAMin = 2
SPECIFICATION Spec
INVARIANTS OffsetInEpoch
