SPECIFICATION Spec
CHECK_DEADLOCK FALSE
CONSTANTS
    Rounds = 1
    UseGps = FALSE
    QueueLen = 2
    MaxStops = 0
    MaxSignals = 0
    SlowHostapd = FALSE
    MaxSem = 2
INVARIANT ProcessedToTheEnd
