CONSTANTS
    Owner = owner
    NoThread = NoThread
    NoWindow = NoWindow
    w1 = w1
    w2 = w2
    Windows = {w1, w2}
    Threads = {a, b}
    MainOf <- TwoMains
    Posts <- FewPosts
    Calls <- LoopCalls
    Senders = {b}
    Notifiers = {}
    Posters = {a}
    Quitters = {}
    Painters = {b}
    Discarded = {w1}
    Timed = {}
    Hosted = {}
    QLen = 3
    MaxSends = 3
    MaxNest = 1
    MaxIdle = 1
SPECIFICATION FairSpec
PROPERTIES
    PostsServed
    SyncReturns
    PaintServed
CHECK_DEADLOCK TRUE
