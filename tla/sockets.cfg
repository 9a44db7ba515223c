SPECIFICATION Spec
CONSTANTS
    MaxSocket = 3
    None = None
CHECK_DEADLOCK FALSE
INVARIANTS OpenIsUsable NothingLeaks
PROPERTY CallsSettle
