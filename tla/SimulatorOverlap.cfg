SPECIFICATION Spec
CONSTANTS
    None = None
    Station = s1
    Runs = {1, 2}
    Numbers = {1}
    Scenarios <- HappyPath
INVARIANTS
    OneSessionPerConnector
CHECK_DEADLOCK FALSE
