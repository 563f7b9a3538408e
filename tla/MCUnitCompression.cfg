SPECIFICATION Compression
CONSTANTS
    NChannels = 5
    DataSets = 2
    NoData = 0
    DataSet <- Sets
    UnitLists <- Lists
INVARIANTS
    KeptSoFar
    RunBecomesUnit
