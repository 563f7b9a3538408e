SPECIFICATION FairSpec
CONSTANTS
    w1 = w1
    w2 = w2
    w3 = w3
    Worker <- Workers
    UnitCount <- Counts
    NCycles = 2
    CanFail <- SomeFail
INVARIANTS
    SameCycle
PROPERTIES
    Terminates
    ImplementsSerial
