CONSTANTS
    a = a
    b = b
    c = c
    d = d
    NoThread = NoThread
    Threads = {a, b, c, d}
    Plain = {d}
    SendsTo <- ForwardSends
    PostsTo <- ForwardPosts
    MaxCalls = 6
SPECIFICATION FairSpec
INVARIANTS
    OneAnswer
PROPERTIES
    CallsSpec
    SendsReturn
    PostsReturn
CHECK_DEADLOCK FALSE
