CONSTANTS
    Clients = {c1, c2}
    Brokers = {b1, b2}
    MaxSessions = 2
    MaxCrashes = 1
    Nobody = Nobody
    Stale = Stale
SPECIFICATION Spec
SYMMETRY Symmetry
INVARIANTS
    OneManager
    EndpointIsCurrent
    SessionsBounded
PROPERTY SharedManagerSpec
CHECK_DEADLOCK FALSE
