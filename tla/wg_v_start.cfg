SPECIFICATION Spec
CONSTANTS
    Workers = {w1}
    Ifaces = {wg0}
    Peers = {p1}
    Keys = {k1}
    Ports = {t1}
    Links = {l1}
    Attrs = {a1}
    Preset = {}
    Ops = {"create", "addPeer", "stop", "remove", "start"}
    Faults = {}
    MaxRequests = 5
    MaxCrashes = 0
    None = None
CHECK_DEADLOCK FALSE
INVARIANT StartedExact
