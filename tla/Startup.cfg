\* From files of up to two lines and up to two options to the logins.
SPECIFICATION StartupSpec
CONSTANTS
    Texts <- UpToTwoLines
    CommandLines <- UpToTwoFlags
    MaxSeconds = 3599
    MaxLabels = 1
    Conns = {c1}
    MaxStartups = 0
    GraceLimited = FALSE
    Users = {"u1", "u2"}
    NoUser = NoUser
    Configs = {}
INVARIANTS ConfigAsDescribed LoginsAsDescribed OffersAgree
CHECK_DEADLOCK FALSE
