SPECIFICATION FairSpec
CHECK_DEADLOCK FALSE
CONSTANTS
    Rounds = 2
    UseGps = FALSE
    QueueLen = 2
    MaxStops = 1
    MaxSignals = 0
    SlowHostapd = TRUE
    MaxSem = 1
INVARIANT TypeOK
INVARIANT NoLostWakeup
INVARIANT LastMessageStaysOnAir
PROPERTY Finishes
