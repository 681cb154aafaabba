CONSTANTS
    main = main
    button = button
    panel = panel
    glass = glass
    owner = owner
    other = other
    c1 = c1
    c2 = c2
    Windows = {main, button, panel, glass}
    Preorder <- ThreeControls
    Parent <- InMain
    Transparent = {glass}
    Visible = {main, button, panel, glass}
    Cells = {c1, c2}
    Covers <- Overlap
    Painter = owner
    Others = {other}
    Targets <- PanelByOther
    NoWindow = NoWindow
    MaxCalls = 3
SPECIFICATION FairPaintSpec
INVARIANTS
    NothingLeft
    ShownRight
PROPERTIES
    Repainted
CHECK_DEADLOCK FALSE
