SPECIFICATION Spec
CONSTANTS
    Servers = {s1, s2}
    Controllers = {c1, c2}
    MaxEvents = 3
INVARIANTS
    OneServer
    LaunchConfigured
    HostKeyStable
PROPERTIES
    StopMeansStopped
    
SYMMETRY Symmetry
CHECK_DEADLOCK FALSE
