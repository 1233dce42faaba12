SPECIFICATION FairSpec
CONSTANTS
    None = None
    Station = s1
    Runs = {1, 2}
    Numbers = {1}
    Scenarios <- AllScenarios
INVARIANTS
    TypeOK
    ConnectedMeansOpen
    CompletedRunsClosed
PROPERTIES
    RunsEnd
CHECK_DEADLOCK FALSE
