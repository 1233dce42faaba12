SPECIFICATION Spec
CONSTANTS
    None = None
    s1 = s1
    s2 = s2
    c1 = c1
    c2 = c2
    Stations = {s1, s2}
    Numbers = {1}
    Connections = {c1, c2}
    StationOf <- EachItsStation
    Workers = {}
    Calls <- SessionCalls
    Starts = {1, 2}
    TxnId <- Colliding
    Samples = {}
    InitStation <- AllOnline
    InitConnector <- NoConnectors
    AdminStations = {}
    AdminConnectors <- FirstConnector
    QuietStations = {}
INVARIANTS
    TypeOK
    StartsMatchSessions
    ToldIsDurable
    SessionsAgree
    ReportsNeverRefused
PROPERTIES
    KeepsCharge
CHECK_DEADLOCK FALSE
