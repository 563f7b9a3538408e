SPECIFICATION FairSpec
CONSTANTS
    NWorkers = 3
    NBeams = 2
    NChannels = 2
    NCycles = 2
    BeamIndex <- Feeds
    First <- Shares
    Qualities <- SomeQualities
    Debug = TRUE
INVARIANTS
    ModelsAnnounced
PROPERTIES
    Terminates
    ImplementsTable
