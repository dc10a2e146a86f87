SPECIFICATION Spec
CONSTANTS
    q1 = q1
    q2 = q2
    NoTask = NoTask
    Requests <- MCRequests
    Shapes <- MCShapes
    NSlots = 2
    SleepIdle = TRUE
    NBatch = 3
    NCtx = 3
INVARIANTS
    ResultsEndOnce
    SlotsServeReaders
    DeferredHasWaker
    SampledFromOwnToken
    
PROPERTIES
    RequestsEnd
CHECK_DEADLOCK FALSE
