SPECIFICATION BridgeSpec
CONSTANTS
    t1 = t1
    t2 = t2
    t3 = t3
    ocr = ocr
    layout = layout
    None = None
    Threads <- MCThreads
    Bridges <- MCBridges
    Libraries <- MCLibraries
    LibraryOf <- MCLibraryOf
INVARIANTS
    UnlinkedOnlyByTheFlag
