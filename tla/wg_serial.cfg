SPECIFICATION Spec
CONSTANTS
    Workers = {w1}
    Ifaces = {wg0, wg1}
    Peers = {p1, p2}
    Keys = {k1, k2}
    Ports = {t1}
    Links = {l1}
    Attrs = {a1}
    Preset = {}
    Ops = {"create", "import", "adopt", "delete", "updateIface", "sync", "addPeer", "start", "stop", "restart", "remove", "enable", "disable", "update", "setKey", "poll"}
    Faults = {"db", "net"}
    MaxRequests = 4
    MaxCrashes = 1
    None = None
CHECK_DEADLOCK FALSE
SYMMETRY SymmetryAll
INVARIANTS TypeOK NoOrphansUnshared PeersStayHome
PROPERTIES OnlyRestartRaisesDisabled ReconcilerImplemented
