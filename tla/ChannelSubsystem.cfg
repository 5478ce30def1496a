\* A subsystem request on a channel that runs a process.
SPECIFICATION Spec
CONSTANTS
    CustomHandlers = {FALSE}
    WantsPty = FALSE
    LateSubsystem = TRUE
    Widths = {80}
    MaxChunks = 1
    MaxResizes = 0
INVARIANTS FinishSendsEof
CHECK_DEADLOCK FALSE
