SPECIFICATION Spec
CONSTANTS
    Workers = {w1, w2}
    Users = {u1, u2, u3}
    Sessions = {s1, s2}
    Bases = {n1, n2}
    Subjects = {i1}
    SessionTimeout = 1
    MaxSessionAge = 2
    Ops = {"setup", "login", "oidc", "logout", "request", "createUser", "deleteUser", "changePassword"}
    ForeignKeys = {TRUE, FALSE}
    Faults = {"db"}
    MaxTime = 0
    MaxRequests = 4
    MaxCrashes = 1
    None = None
CHECK_DEADLOCK FALSE
SYMMETRY Symmetry
INVARIANTS TypeOK AdminRemains SetupOnce
