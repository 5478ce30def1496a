\* Two servers, two owned processes at a time.
SPECIFICATION FairSpec
CONSTANTS
    Servers = {s1, s2}
    Procs = {p1, p2}
    Nobody = Nobody
    MaxFaults = 1
INVARIANTS OneOwnedHost ExitMeansGone HostedIsConfigured
PROPERTIES OrphansDie HostConverges StatusFollowsProcess
CHECK_DEADLOCK FALSE
