SPECIFICATION Spec
CONSTANTS
    o1 = o1
    o2 = o2
    Ops <- OneTwo
    Shapes <- RadioShapes
    Mode <- Modes
    Targets <- TwoTargets
    MaxEvents = 2
SYMMETRY Symmetry
CHECK_DEADLOCK FALSE
INVARIANT QuiesceIsBoundary
INVARIANT CacheIsCurrent
INVARIANT SessionIsCurrent
