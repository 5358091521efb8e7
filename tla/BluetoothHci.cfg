SPECIFICATION FairSpec
CHECK_DEADLOCK FALSE
CONSTANTS
    Singles <- MCSingles
    PackRepeats = 2
    MaxPasses = 2
    MaxRuns = 2
    MaxSlips = 2
INVARIANT TypeOK
INVARIANT AnswersInStep
INVARIANT OffAfterClose
INVARIANT LeftoverEndsWithReset
INVARIANT LastSentIsOnAir
INVARIANT NothingStaleOnAir
PROPERTY RunEnds
PROPERTY ImplementsBroadcast
