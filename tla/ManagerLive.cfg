CONSTANTS
    Clients = {c1, c2}
    Brokers = {b1}
    MaxSessions = 1
    MaxCrashes = 1
    Nobody = Nobody
    Stale = Stale
SPECIFICATION FairSpec
PROPERTIES
    ManagerRetires
    SearchFindsManager
CHECK_DEADLOCK FALSE
