\* Two writers, three days of two ticks, two files kept.
SPECIFICATION FairSpec
CONSTANTS
    Writers = {w1, w2}
    Nobody = Nobody
    Keep = 2
    DayLength = 2
    MaxTime = 5
    MaxLines = 4
    MaxCrashes = 1
INVARIANTS ShownIsPrefix
PROPERTIES LineKept FollowerCatchesUp
CHECK_DEADLOCK FALSE
