SPECIFICATION Spec
CONSTANTS
    w1 = w1
    w2 = w2
    None = None
    Workers <- MCWorkers
    Modes <- MCModes
PROPERTY
    ValidTransitions
CHECK_DEADLOCK FALSE
