\* A session channel, with and without a custom handler.
SPECIFICATION FairSpec
CONSTANTS
    CustomHandlers = {TRUE, FALSE}
    WantsPty = TRUE
    LateSubsystem = FALSE
    Widths = {80, 65536}
    MaxChunks = 1
    MaxResizes = 2
INVARIANTS WireOrdered OutputBeforeStatus TerminalFollowsClient
PROPERTIES StatusReported WindsDown
CHECK_DEADLOCK FALSE
