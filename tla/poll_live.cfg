SPECIFICATION FairSpec
CONSTANTS
    Peers = {p1}
    Ifaces = {wg0}
    Rx = {0, 1}
    Threshold = 2
    Retention = 1
    ForeignKeys = {TRUE}
    AlertChoices = {{}}
    Faults = {}
    MaxTime = 3
    MaxEvents = 1
    MaxCrashes = 1
    None = None
CHECK_DEADLOCK FALSE
PROPERTIES DisconnectNoticed ExpiredLogsGo KickServed
