SPECIFICATION FairSpec
CHECK_DEADLOCK FALSE
CONSTANTS
    Rounds = 1
    UseGps = TRUE
    QueueLen = 2
    MaxStops = 1
    MaxSignals = 1
    SlowHostapd = FALSE
    MaxSem = 1
PROPERTY GpsEndStopsProgram
PROPERTY CleanupFinishes
