SPECIFICATION ListingSpec
CONSTANTS
    None = None
    Workers = {}
    Events = {1, 2, 3, 4}
    Tracked = {1, 2, 3, 4}
    MaxAttempts = 2
    BatchLimit = 1
    AdminEvents = {}
    AgingEvents = {}
    Deliveries = {d1, d2}
    Backends = {b1, b2}
    Limit = 2
INVARIANTS
    ListingTypeOK
    AcceptedOnce
    AnsweredIsStored
    ListedComplete
CHECK_DEADLOCK FALSE
