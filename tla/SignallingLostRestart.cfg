CONSTANTS
    Loops = {l1, l2}
    NoLoop = NoLoop
    Registrar = TRUE
    CertDirMissing = FALSE
    CreateMayFail = FALSE
    MaxRequests = 2
SPECIFICATION FairSpec
PROPERTY
    RequestedStackIsRestarted
CHECK_DEADLOCK FALSE
