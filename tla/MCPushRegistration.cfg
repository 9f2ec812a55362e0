CONSTANTS
    Registrations = {r1, r2}
    Users = {u1, u2, u3}
    Clients = {u1, u2}
    Tokens = {t1, t2}
    NoToken = NoToken
    Sandboxes = {TRUE, FALSE}
    NoUser = NoUser
    MaxKills = 1
SPECIFICATION Spec
SYMMETRY PushSymmetry
INVARIANTS
    TypeOK
    NothingTwice
    DefaultsAreTrue
    OnlyBindingReportsLost
PROPERTIES
    SuccessMeansBound
CHECK_DEADLOCK FALSE
