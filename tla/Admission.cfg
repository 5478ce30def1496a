\* The startup cap and the grace timer: three connections, one permit.
SPECIFICATION FairSpec
CONSTANTS
    Conns = {c1, c2, c3}
    MaxStartups = 1
    GraceLimited = TRUE
    Users = {u1}
    NoUser = NoUser
    Configs <- PasswordAndHook
INVARIANTS StartupsBounded
PROPERTIES LoginEnds QueueAdvances
CHECK_DEADLOCK FALSE
