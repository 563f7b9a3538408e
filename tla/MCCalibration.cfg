SPECIFICATION FairSpec
CONSTANTS
    NWorkers = 3
    NCycles = 2
    Jobs <- SomeJobs
INVARIANTS
    IInv
PROPERTIES
    Terminates
    ImplementsSolving
\* Processes that disagree on the number of intervals wait for ever.
CHECK_DEADLOCK FALSE
