CONSTANTS
    Calls = {c1, c2}
    NoCall = NoCall
    Turn = FALSE
    FirstPermission = "undetermined"
    AppKeeps = TRUE
    IncomingCalls = TRUE
    Unavailable = FALSE
    Challenges = FALSE
    MaxQueue = 2
    MaxRings = 1
    MaxRegistrations = 0
SPECIFICATION Spec
INVARIANT
    AnswerNeedsAccept
CHECK_DEADLOCK FALSE
