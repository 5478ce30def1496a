CONSTANTS
    Clients = {c1}
    Ports = {p1}
    Addrs = {1, 2}
    IPv4 = {1}
    OutputCapacity = 1
    StartCapacity = 1
    MaxSpawns = 2
SPECIFICATION FairSpec
INVARIANTS
    PortsOfRunningConnector
    SessionOnCurrentConnector
PROPERTIES
    ForwardingConnectorKept
    LostConnectorCloses
    OpenRequestsServed
    ConnectorReplaced
CHECK_DEADLOCK FALSE
