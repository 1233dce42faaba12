SPECIFICATION Spec
CONSTANTS
    None = None
    Workers = {w1}
    Events = {1, 2, 3}
    Tracked = {1, 2}
    MaxAttempts = 2
    BatchLimit = 2
    AdminEvents = {1}
    AgingEvents = {1, 2}
INVARIANTS
    TypeOK
    LockPair
    ProcessedMeansMarked
PROPERTIES
    AckLandsOnDeadLetter
    KeepsContract
CHECK_DEADLOCK FALSE
