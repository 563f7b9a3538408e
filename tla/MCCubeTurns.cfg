SPECIFICATION FairTurns
CONSTANTS
    Jobs <- SomeJobs
    MaxRanks = 4
INVARIANTS
    OrderlyTurns
    ChannelsOnce
PROPERTIES
    TurnsEnd
\* Ranks wait for ever for one that has left.
CHECK_DEADLOCK FALSE
