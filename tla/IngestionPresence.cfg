SPECIFICATION FairSpec
CONSTANTS
    None = None
    s1 = s1
    s2 = s2
    c1 = c1
    c2 = c2
    Stations = {s1}
    Numbers = {1}
    Connections = {c1}
    StationOf <- OneStation
    Workers = {w1}
    Calls <- PresenceCalls
    Starts = {1}
    TxnId <- Colliding
    Samples = {"a"}
    InitStation <- AllUnknown
    InitConnector <- NoConnectors
    AdminStations = {s1}
    AdminConnectors = {}
    QuietStations = {s1}
PROPERTIES
    SilentGoesOffline
    HeartbeatsRestore
CHECK_DEADLOCK FALSE
