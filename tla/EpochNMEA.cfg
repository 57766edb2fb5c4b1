\* One NMEA source; clock steps and leap seconds, fair scheduling.
CONSTANTS
    NTPs = {}
    PPSs = {}
    NMEAs = {g1}
    QueueCap = 1
    Stages = 2
    StepEnabled = TRUE
    MaxWorld = 2
    NMEAMin = 2
SPECIFICATION FairSpec
PROPERTIES ResetTakenUp
