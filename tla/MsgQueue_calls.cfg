CONSTANTS
    Owner = owner
    NoThread = NoThread
    NoWindow = NoWindow
    w1 = w1
    w2 = w2
    Windows = {w1, w2}
    Threads = {a, b}
    MainOf <- TwoMains
    Posts <- RingPosts
    Calls <- MixedCalls
    Senders = {}
    Notifiers = {}
    Posters = {a}
    Quitters = {b, owner}
    Painters = {a, b}
    Discarded = {w1}
    Timed = {w1}
    Hosted = {}
    QLen = 3
    MaxSends = 3
    MaxNest = 1
    MaxIdle = 1
SPECIFICATION Spec
INVARIANTS
    OneOfASort
    PaintCover
    QuitBalance
    NoLostWakeup
PROPERTIES
    FifoSpec
CHECK_DEADLOCK TRUE
