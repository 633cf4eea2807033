SPECIFICATION FairSpec
CONSTANTS
    Threads <- MCThreads
    ReadMax = 9
    WriteCountMax = 9
    MaxDepth = 2
    MaxTaken = 2
    WriteUnderRead = FALSE
INVARIANTS
    MutualExclusion
    GuardsUnlockInOrder
    FreeWhenUnused
PROPERTIES
    WaiterProceeds
