CONSTANTS
    a = a
    b = b
    i = i
    c = c
    Mains = {a, b, i}
    Tools = {}
    Ctrls = {c}
    MainOf <- OfA
    Types <- TwoTypes
    TypeOf <- ImeAbove
    MaxNr <- Enough
    NrSpecial = 2
    NrSlots = 5
    Ime = {i}
    Desktop = Desktop
    NULL = NULL
    Switched = {a, b}
    Careless = {}
SPECIFICATION Spec
INVARIANTS
    ListsRight
    ActiveKnows
PROPERTIES
    StackSpec
CHECK_DEADLOCK TRUE
