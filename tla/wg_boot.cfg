SPECIFICATION FairSpec
CONSTANTS
    Workers = {w1}
    Ifaces = {wg0}
    Peers = {p1}
    Keys = {k1, k2}
    Ports = {t1}
    Links = {l1}
    Attrs = {a1}
    Preset = {wg0}
    Ops = {"create", "import", "adopt", "delete", "updateIface", "sync", "addPeer", "start", "stop", "restart", "remove", "enable", "disable", "update", "setKey", "poll"}
    Faults = {}
    MaxRequests = 4
    MaxCrashes = 2
    None = None
CHECK_DEADLOCK FALSE
PROPERTY BootRestores
