SPECIFICATION KvSpec
CONSTANTS
    NSeqMax = 2
    SwaPad = 1
    NSwa = 2
    NUbatch = 1
    MaxPos = 4
    Layouts <- MCLayouts
    Batches <- MCBatches
    Ranges <- MCRanges
INVARIANTS
    CellsConsistent
    KeysMatchPositions
    PlannedSlotsFree
    
PROPERTIES
    VisibleIsKept
CHECK_DEADLOCK FALSE
