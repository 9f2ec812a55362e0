CONSTANTS
    Loops = {l1, l2, l3}
    NoLoop = NoLoop
    Registrar = TRUE
    CertDirMissing = FALSE
    CreateMayFail = TRUE
    MaxRequests = 3
SPECIFICATION BackgroundFairSpec
INVARIANTS
    TypeOK
    OneStack
    CountedMeansRunning
    RestartIsBacked
    TasksOK
    OnlyOverlappingUnlistensLeak
PROPERTIES
    ImplementsSingleStack
    RestartHonoured
    QuitEndsLoop
    CurrentTaskEnds
CHECK_DEADLOCK FALSE
