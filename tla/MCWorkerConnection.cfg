SPECIFICATION Spec
CONSTANTS
    r1 = r1
    r2 = r2
    None = None
    Requests <- MCRequests
    TaskIds <- MCTaskIds
    IdOf <- MCIdOf
    RespId = "resp"
    MaxFrames = 4
INVARIANTS
    PendingIsOwed
    ReturnedFutureIsTimed
PROPERTIES
    
    WrittenRequestSettles
    KeepsPromise
CHECK_DEADLOCK FALSE
