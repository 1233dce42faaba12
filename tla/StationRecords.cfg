SPECIFICATION TrailSpec
CONSTANTS
    None = None
    s1 = s1
    s2 = s2
    c1 = c1
    c2 = c2
    Stations = {s1}
    Numbers = {1}
    Connections = {c1}
    StationOf <- OneStation
    Workers = {w1}
    Calls <- TrailCalls
    Starts = {1}
    TxnId <- Colliding
    Samples = {"a", "b", "c"}
    InitStation <- AllUnknown
    InitConnector <- NoConnectors
    AdminStations = {}
    AdminConnectors = {}
    QuietStations = {s1}
INVARIANTS
    TrailTypeOK
    ChangesRecorded
    ReportsKeepOrder
    SamplesStoredOnce
CHECK_DEADLOCK FALSE
