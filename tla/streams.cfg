SPECIFICATION Spec
CONSTANTS
    MaxConsumer = 2
    MaxTag = 2
    None = None
CHECK_DEADLOCK FALSE
INVARIANTS ReaderIsServed YieldedInOrder SettledOnce
PROPERTY CancelEnds
