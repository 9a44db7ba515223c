SPECIFICATION Spec
CONSTANTS
    Subscription = {s1}
    MaxRetries = 2
    None = None
CHECK_DEADLOCK FALSE
INVARIANT EveryLossIsSeen
