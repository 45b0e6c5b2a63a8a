SPECIFICATION Spec
CONSTANTS
    Ifaces <- MCIfaces
    Paths <- MCPaths
    Entries <- MCEntries
    None = None
    MaxActs = 2
    MaxCalls = 2
    MaxFails = 1
    MaxExpiries = 1
CHECK_DEADLOCK FALSE
INVARIANTS TypeOK TimerOfView
PROPERTIES RedirectKept DraftKept LogsSettle
