\* One NMEA source and one leap second: the first sentence after Reset.
CONSTANTS
    NTPs = {}
    PPSs = {}
    NMEAs = {g1}
    QueueCap = 2
    Stages = 2
    StepEnabled = FALSE
    MaxWorld = 2
    NMEAMin = 2
SPECIFICATION Spec
PROPERTIES ResetBeforeNextSample
