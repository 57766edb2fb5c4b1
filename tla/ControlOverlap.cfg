SPECIFICATION CtlSpec
CONSTANTS
    Daemons = {d1, d2}
    NoDaemon = none
    MaxWaiting = 1
    MaxStarts = 4
INVARIANTS OneClockOwner
CHECK_DEADLOCK FALSE
