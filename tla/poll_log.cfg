SPECIFICATION Spec
CONSTANTS
    Peers = {p1}
    Ifaces = {wg0}
    Rx = {0}
    Threshold = 2
    Retention = 1
    ForeignKeys = {TRUE, FALSE}
    AlertChoices = {{"connected"}, {"connected", "disconnected"}}
    Faults = {"db"}
    MaxTime = 3
    MaxEvents = 3
    MaxCrashes = 1
    None = None
CHECK_DEADLOCK FALSE
INVARIANTS TypeOK LogAlternates DurationsTrue
PROPERTY AlertsAlternate
