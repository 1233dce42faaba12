SPECIFICATION FairSpec
CONSTANTS
    None = None
    Workers = {w1, w2}
    Events = {1, 2}
    Tracked = {1}
    MaxAttempts = 2
    BatchLimit = 1
    AdminEvents = {}
    AgingEvents = {1}
INVARIANTS
    LockPair
    ProcessedMeansMarked
    ClaimsRecoverable
    ClaimExclusive
PROPERTIES
    EventsSettle
CHECK_DEADLOCK FALSE
