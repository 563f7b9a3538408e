SPECIFICATION FairReduction
CONSTANTS
    NWorkers = 6
    GroupCounts = {1, 2}
    Rounds = 2
INVARIANTS
    ReductionsApart
PROPERTIES
    ReductionEnds
    ImplementsGathering
