SPECIFICATION FairSpec
CONSTANTS
    c1 = c1
    c2 = c2
    c3 = c3
    c4 = c4
    c5 = c5
    c6 = c6
    c7 = c7
    NA = NA
    Worker = {1, 2, 3, 4}
    Units <- SomeEpochs
    Writer <- TwoWriters
    SingleSink = TRUE
    CanFail <- Tolerable
INVARIANTS
    WritersKnow
    NothingLeftBehind
PROPERTIES
    Terminates
    ImplementsAssembly
