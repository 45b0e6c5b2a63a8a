SPECIFICATION Spec
CONSTANTS
    Tabs = {t1, t2}
    Alerter = alerter
    va = va
    vb = vb
    Values = {va, vb}
    Default = dflt
    Configs <- MCConfigs
    Stored <- MCStored
    Edits <- MCEdits
    Lists <- MCLists
    MaxFailures = 1
    MaxRequests = 3
    None = None
    Torn = Torn
CHECK_DEADLOCK FALSE
SYMMETRY Symmetry
INVARIANTS TypeOK RemovalHolds
PROPERTIES RegisterImplemented EditKeepsRest EveryAddressTried
