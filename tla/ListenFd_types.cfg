CONSTANTS
    Fds = {3, 5}
    Types = {{"in"}, {"out"}, {"err"}}
    MAX_NR_LISTEN_FD = 2
    QLen = 1
    Sensible = TRUE
    ClosesEarly = FALSE
    MaxUsed = 3
    MaxReady = 2
    MaxPosts = 1
SPECIFICATION FairSpec
INVARIANTS
    CountsRight
PROPERTIES
    ReadyTold
CHECK_DEADLOCK TRUE
