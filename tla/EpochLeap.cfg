\* One NTP source, leap seconds only ([step] limit = 0).
CONSTANTS
    NTPs = {n1}
    PPSs = {}
    NMEAs = {}
    QueueCap = 2
    Stages = 2
    StepEnabled = FALSE
    MaxWorld = 3
    NMEAMin = 2
SPECIFICATION Spec
INVARIANTS OffsetInEpoch
PROPERTIES ResetBeforeNextSample
