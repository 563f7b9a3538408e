SPECIFICATION FairSpec
CONSTANTS
    NWorkers = 3
    DataSets <- Sets
    Modes <- Extensions
    First <- Even
INVARIANTS
    InStep
PROPERTIES
    Terminates
    ImplementsSerial
