SPECIFICATION Spec
CONSTANTS
    Call = {c1, c2, c3, c4}
    Chan = {ch1, ch2, ch3}
    Number = {n1, n2}
    None = None
SYMMETRY Interchangeable
CHECK_DEADLOCK FALSE
INVARIANTS PendingIsHeld WritingIsLast AnswerIsOwn NeverStuck
PROPERTIES RejectedForCause OrderSpec
