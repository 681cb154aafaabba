CONSTANTS
    main = main
    other = other
    button = button
    left = left
    right = right
    NULL = NULL
    MainWins = {main, other}
    Ctrls = {button}
    MainOf <- MCMainOf
    Buttons = {left, right}
    LEFT = left
    ImeWnd = other
    Orderly = TRUE
    MaxPending = 2
SPECIFICATION FairSpec
INVARIANTS
    RefsLive
    MouseFreed
    SameLocked
PROPERTIES
    CaptureEnds
CHECK_DEADLOCK TRUE
