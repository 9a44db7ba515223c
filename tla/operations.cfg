SPECIFICATION MCSpec
CONSTANTS
    Op = {1, 2, 3}
    MaxChannel = 5
    MaxLoss = 1
    None = None
CHECK_DEADLOCK FALSE
INVARIANTS FailsForCause OneChannelEach OneHandle BlockedForCause
PROPERTIES TurnsSpec EverySettles
