SPECIFICATION Spec
CONSTANTS
    Subscription = {s1, s2}
    MaxRetries = 2
    None = None
CHECK_DEADLOCK FALSE
INVARIANTS NeverLeftDown SubscriptionsRecovered LeaksInRecoveryOnly StopCloses
PROPERTY Reconnects
