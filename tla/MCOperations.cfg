CONSTANTS
    Addr = {a1, a2, a3}
    MaxOps = 3
    MaxRequests = 2
    MaxPending = 2
SPECIFICATION Spec
SYMMETRY AddrSymmetry
INVARIANTS
    TypeOK
    PendingNeedsLeftover
    NewestIsAuthenticated
    StuckInTheMiddle
    MediaReleased
PROPERTIES
    RegistrationsKept
    CallsKept
CHECK_DEADLOCK FALSE
