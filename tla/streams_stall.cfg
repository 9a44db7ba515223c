SPECIFICATION Spec
CONSTANTS
    MaxConsumer = 2
    MaxTag = 1
    None = None
CHECK_DEADLOCK FALSE
PROPERTY ContinuesYielding
