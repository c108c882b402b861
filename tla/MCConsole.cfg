CONSTANTS
    Glyphs = {"x", "y"}
    Colours = {"normal", "other"}
    A_NORMAL = "normal"
    LINES = 2
    COLS = 3
    TabStop = 2
    MaxOps = 9
SPECIFICATION Spec
INVARIANTS TypeOK ShowsText LastBeforeCursor
PROPERTIES WritesOnScreen
CHECK_DEADLOCK FALSE
