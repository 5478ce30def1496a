\* A client that goes away while its terminal is silent.
SPECIFICATION FairSpec
CONSTANTS
    CustomHandlers = {FALSE}
    WantsPty = TRUE
    LateSubsystem = FALSE
    Widths = {80}
    MaxChunks = 1
    MaxResizes = 0
PROPERTIES TerminalWindsDown
CHECK_DEADLOCK FALSE
