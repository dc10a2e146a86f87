SPECIFICATION Spec
CONSTANTS
    r1 = r1
    r2 = r2
    c1 = c1
    None = None
    Runnables <- MCRunnables
    Callables <- MCCallables
INVARIANTS
    NothingIsForgotten
PROPERTIES
    CancelledInQueueNeverRuns
    AcceptedFutureCompletes
CHECK_DEADLOCK FALSE
