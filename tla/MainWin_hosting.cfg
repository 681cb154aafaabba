CONSTANTS
    r = r
    a = a
    d = d
    e = e
    NULL = NULL
    Windows = {r, a, d, e}
    Dialogs = {d, e}
    Careless = {}
    MaxDepth = 3
    Busied = {a}
SPECIFICATION Spec
INVARIANTS
    HostingKept
    RootLast
    NoTrace
    OwnersBack
CHECK_DEADLOCK TRUE
