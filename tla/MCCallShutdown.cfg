CONSTANTS
    Calls = {c1}
    NoCall = NoCall
    Turn = TRUE
    FirstPermission = "undetermined"
    AppKeeps = TRUE
    IncomingCalls = TRUE
    Unavailable = FALSE
    Challenges = TRUE
    MaxQueue = 2
    MaxRings = 2
    MaxRegistrations = 1
    Registrar = FALSE
    MaxRequests = 2
SPECIFICATION ShutdownFairSpec
INVARIANTS
    StackOK
PROPERTIES
    HangUpReachesPeer
    PendingCancelSent
    EndedCallIsSeen
    UnlistenEndsCalls
CHECK_DEADLOCK FALSE
