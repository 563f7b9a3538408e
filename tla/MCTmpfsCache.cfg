SPECIFICATION FairSpec
CONSTANTS
    w1 = w1
    w2 = w2
    w3 = w3
    f1 = f1
    f2 = f2
    Worker <- Workers
    Units <- SharedUnits
    CanFail = {"split", "image"}
INVARIANTS
    FlagsHaveOwners
    NothingLeftBehind
PROPERTIES
    Terminates
CHECK_DEADLOCK FALSE
