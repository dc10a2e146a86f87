SPECIFICATION ProcessSpec
CONSTANTS
    w1 = w1
    w2 = w2
    g1 = g1
    i1 = i1
    None = None
    Workers <- MCWorkers
    Modes <- MCModes
    Goals <- MCGoals
    Imports <- MCImports
    MaxDetails = 1
INVARIANTS
    TerminatedIsStopped
    ExitIsClean
    QuietStatus
PROPERTIES
    ValidButForTheRace
    ExitCompletes
    JobsAreAnswered
CHECK_DEADLOCK FALSE
