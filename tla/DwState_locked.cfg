CONSTANTS
    a = a
    b = b
    owner = owner
    NoThread = NoThread
    Threads = {a, b}
    Owner = owner
    Posters = {a, b, owner}
    Quitters = {a, owner}
    Empties = FALSE
    IsDesktop = FALSE
    MaxPosts = 3
    MaxLoops = 2
    Interval = 2
    IdleTicks = 1
    MaxLag = 3
SPECIFICATION Spec
INVARIANTS
    PostCovered
    QuitBalance
CHECK_DEADLOCK FALSE
