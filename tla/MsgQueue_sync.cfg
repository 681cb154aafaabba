CONSTANTS
    Owner = owner
    NoThread = NoThread
    NoWindow = NoWindow
    w1 = w1
    w2 = w2
    Windows = {w1, w2}
    Threads = {a, b}
    MainOf <- OneMain
    Posts <- FewPosts
    Calls <- LoopCalls
    Senders = {a, b}
    Notifiers = {owner}
    Posters = {owner}
    Quitters = {}
    Painters = {}
    Discarded = {w1}
    Timed = {}
    Hosted = {w1}
    QLen = 3
    MaxSends = 3
    MaxNest = 2
    MaxIdle = 1
SPECIFICATION Spec
INVARIANTS
    FlagsCover
    SyncServed
PROPERTIES
    WokenOnce
    
CHECK_DEADLOCK TRUE
