CONSTANTS
    Loops = {l1, l2}
    NoLoop = NoLoop
    Registrar = FALSE
    CertDirMissing = FALSE
    CreateMayFail = TRUE
    MaxRequests = 3
SPECIFICATION FairSpec
PROPERTY
    UnlistenStopsSofia
CHECK_DEADLOCK FALSE
