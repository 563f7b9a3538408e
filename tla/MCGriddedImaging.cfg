SPECIFICATION FairSpec
CONSTANTS
    Jobs <- SomeJobs
    MaxGroups = 2
    MaxPerGroup = 2
    MaxCycles = 2
INVARIANTS
    CollectivesMatch
PROPERTIES
    Terminates
    ImplementsCleaning
\* After a signal everybody waits for ever.
CHECK_DEADLOCK FALSE
