SPECIFICATION Spec
CONSTANTS
    Workers = {w1, w2}
    Boot = boot
    Ids = {p1, p2}
    Names = {"n1", "n2"}
    Issuers = {"i1", "i2"}
    Offers <- MCOffers
    Subjects = {s1}
    Tokens = {t1, t2}
    Codes = {c1, c2}
    TTL = 0
    Ops = {"create", "update", "delete", "login", "callback"}
    Faults = {"db"}
    MaxTime = 1
    MaxRequests = 3
    MaxCrashes = 1
    None = None
CHECK_DEADLOCK FALSE
SYMMETRY Symmetry
INVARIANTS TypeOK ResolvedCurrent OwnAccount
PROPERTY SpentRefused
