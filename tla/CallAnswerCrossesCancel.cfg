CONSTANTS
    Calls = {c1}
    NoCall = NoCall
    Turn = FALSE
    FirstPermission = "granted"
    AppKeeps = TRUE
    IncomingCalls = FALSE
    Unavailable = FALSE
    Challenges = FALSE
    MaxQueue = 2
    MaxRings = 1
    MaxRegistrations = 0
SPECIFICATION FairSpec
PROPERTY
    HungUpCallEnds
CHECK_DEADLOCK FALSE
