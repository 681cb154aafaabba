CONSTANTS
    t1 = t1
    t2 = t2
    t3 = t3
    w1 = w1
    w2 = w2
    Ids = {t1, t2, t3}
    WindowOf <- TwoWindows
    Intervals = {1, 2}
    Callbacks = {t1}
    DEF_NR_TIMERS = 2
    SetAgain = FALSE
    SetInCallback = TRUE
    MaxNest = 1
    MaxTicks = 4
SPECIFICATION Spec
INVARIANTS
    BitsHaveTimers
    CountRight
    NotEarly
    ServedInTurn
