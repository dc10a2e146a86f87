SPECIFICATION Spec
CONSTANTS
    p1 = p1
    p2 = p2
    c1 = c1
    c2 = c2
    h1 = h1
    Hub = Hub
    None = None
    Publishers <- MCPublishers
    Connections <- MCConnections
    Handlers <- MCHandlers
SYMMETRY MCSymmetry
CONSTRAINT MCSecondStaysUp
CHECK_DEADLOCK FALSE
INVARIANTS
    FramesAreWhole
    PublishReachesAll
