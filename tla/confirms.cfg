SPECIFICATION Spec
CONSTANTS
    Publish = {p1, p2, p3}
    Buffer = {b1, b2, b3}
    MaxSelects = 1
SYMMETRY Interchangeable
CHECK_DEADLOCK FALSE
INVARIANTS ListIsOrderly VerdictIsOwn BufferIsExclusive SettledAtRest
