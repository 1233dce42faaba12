SPECIFICATION TrailSpec
CONSTANTS
    None = None
    s1 = s1
    s2 = s2
    c1 = c1
    c2 = c2
    Stations = {s1}
    Numbers = {1}
    Connections = {c1}
    StationOf <- OneStation
    Workers = {w1}
    Calls <- ReportCalls
    Starts = {1}
    TxnId <- Colliding
    Samples = {}
    InitStation <- AllOnline
    InitConnector <- NoConnectors
    AdminStations = {}
    AdminConnectors = {}
    QuietStations = {s1}
INVARIANTS
    HistoryEndsInRow
CHECK_DEADLOCK FALSE
