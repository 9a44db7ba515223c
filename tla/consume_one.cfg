SPECIFICATION Spec
CONSTANTS
    Message = {m1, m2, m3}
    NoMessage = NoMessage
CHECK_DEADLOCK FALSE
INVARIANTS ConsumedIsGiven LeavesNothing
PROPERTY EndsWhenDue
