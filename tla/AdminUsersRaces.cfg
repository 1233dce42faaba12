SPECIFICATION Spec
CONSTANTS
    None = None
    Users = {u1, u2, u3}
    Backends = {b1, b2}
    Removable = {u1, u2}
    Raisable = {u3}
INVARIANTS
    TypeOK
    AdminRemains
    CountHolds
PROPERTIES
    ChangesLand
CHECK_DEADLOCK FALSE
