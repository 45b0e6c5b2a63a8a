SPECIFICATION Spec
CONSTANTS
    Workers = {w1, w2}
    Users = {u1, u2}
    Sessions = {s1, s2}
    Bases = {n1}
    Subjects = {i1}
    SessionTimeout = 1
    MaxSessionAge = 2
    Ops = {"setup", "oidc", "logout", "request", "deleteUser"}
    ForeignKeys = {TRUE, FALSE}
    Faults = {}
    MaxTime = 3
    MaxRequests = 4
    MaxCrashes = 0
    None = None
CHECK_DEADLOCK FALSE
SYMMETRY Symmetry
INVARIANTS DeletedUsersRefused EndedSessionsRefused
PROPERTY JudgedInTime
