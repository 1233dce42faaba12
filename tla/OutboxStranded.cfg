SPECIFICATION Spec
CONSTANTS
    None = None
    Workers = {w1}
    Events = {1}
    Tracked = {1}
    MaxAttempts = 3
    BatchLimit = 1
    AdminEvents = {1}
    AgingEvents = {1}
INVARIANTS
    ClaimsRecoverable
CHECK_DEADLOCK FALSE
