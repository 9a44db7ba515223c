SPECIFICATION Spec
CONSTANTS
    Call = {c1, c2}
    MaxChannel = 3
SYMMETRY Interchangeable
CHECK_DEADLOCK FALSE
INVARIANTS PendingIsHeld ReplyIsOwn StrandedForCause
