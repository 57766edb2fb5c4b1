\* One PPS source; clock steps and leap seconds; two discontinuities.
CONSTANTS
    NTPs = {}
    PPSs = {p1}
    NMEAs = {}
    QueueCap = 2
    Stages = 2
    StepEnabled = TRUE
    MaxWorld = 3
    NMEAMin = 2
SPECIFICATION Spec
INVARIANTS OneStrayPulse
