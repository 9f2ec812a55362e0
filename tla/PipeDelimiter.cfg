CONSTANTS
    Sides = {"commands"}
    Delimiter = "$"
    Messages <- TextMessages
    Capacity = 9
    Buffer = 9
    MaxBacklog = 2
    MaxSent = 2
SPECIFICATION Spec
INVARIANTS
    HandledAsSent
CHECK_DEADLOCK FALSE
