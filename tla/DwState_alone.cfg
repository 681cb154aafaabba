CONSTANTS
    a = a
    b = b
    owner = owner
    NoThread = NoThread
    Threads = {a, b}
    Owner = owner
    Posters = {owner}
    Quitters = {}
    Empties = TRUE
    IsDesktop = TRUE
    MaxPosts = 3
    MaxLoops = 2
    Interval = 2
    IdleTicks = 1
    MaxLag = 3
SPECIFICATION FairSpec
PROPERTIES
    TimeoutsSpaced
    TimeoutServed
CHECK_DEADLOCK FALSE
