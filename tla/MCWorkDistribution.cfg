SPECIFICATION FairSpec
CONSTANTS
    w1 = w1
    w2 = w2
    w3 = w3
    Worker <- Workers
    UnitCount <- Counts
INVARIANTS
    IInv
    NothingLost
    AllocationOrder
    FramesMatch
    PassedMeansDistributed
PROPERTIES
    Terminates
    ImplementsDelivery
