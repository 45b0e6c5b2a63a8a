SPECIFICATION Spec
CONSTANTS
    Workers = {w1, w2}
    Ifaces = {wg0}
    Peers = {p1, p2}
    Keys = {k1}
    Ports = {t1, t2}
    Links = {l1}
    Attrs = {a1}
    Preset = {}
    Ops = {"create", "import", "adopt", "delete", "updateIface", "sync", "addPeer", "start", "stop", "restart", "remove", "enable", "disable", "update", "setKey", "poll"}
    Faults = {"db", "net"}
    MaxRequests = 4
    MaxCrashes = 0
    None = None
CHECK_DEADLOCK FALSE
SYMMETRY Symmetry
INVARIANTS SyncExact
PROPERTY NoResurrection
