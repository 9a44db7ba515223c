SPECIFICATION Spec
CONSTANTS
    Consumer = {c1, c2}
    Message = {m1, m2}
    Waiter = {w1}
    MaxBodies = 1
    MaxWire = 2
    None = None
SYMMETRY Interchangeable
CHECK_DEADLOCK FALSE
INVARIANTS HandedInOrder DroppedForCause EndedIsTold
PROPERTY EndedIsQuiet
