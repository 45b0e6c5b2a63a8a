SPECIFICATION Spec
CONSTANTS
    Tabs = {t1, t2}
    p1 = p1
    p2 = p2
    p3 = p3
    Ids = {p1, p2, p3}
    ByteBase = 4
    Subnets <- MCSubnets
    Foreign = {11}
    Picks = {None, 6, 11}
    NetChoices <- MCNetChoices
    Names = {"b", "c"}
    Existing <- MCExisting
    Hooks <- MCHooks
    MaxRequests = 2
    MaxPeers = 3
    None = None
CHECK_DEADLOCK FALSE
SYMMETRY Symmetry
INVARIANTS TypeOK Unique ConfRoundTrip
PROPERTIES SuggestsLowestFree EditKeepsRow
