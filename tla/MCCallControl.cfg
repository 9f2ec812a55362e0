CONSTANTS
    Calls = {c1, c2}
    NoCall = NoCall
    Turn = TRUE
    FirstPermission = "undetermined"
    AppKeeps = FALSE
    IncomingCalls = TRUE
    Unavailable = TRUE
    Challenges = TRUE
    MaxQueue = 2
    MaxRings = 1
    MaxRegistrations = 1
SPECIFICATION Spec
SYMMETRY CallSymmetry
INVARIANTS
    TypeOK
    BusyHasLiveCall
    DelegateIsCurrent
    HungUpStaysDown
    OpsTrackCalls
PROPERTIES
    OnlyLateEventsRevive
    OnlyChallengedCallsVanish
CHECK_DEADLOCK FALSE
