SPECIFICATION Spec
CONSTANTS
    Start <- Boundaries
    Capacity = 12
INVARIANT FramesInOrder
PROPERTY HandlerEnds
