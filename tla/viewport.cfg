CONSTANTS
    v1 = v1
    v2 = v2
    v3 = v3
    None = None
    Views <- MCViews
    Areas <- MCAreas
    Widths <- MCWidths
    Scrolls <- MCScrolls
    OutputX = 0
    OutputWidth = 1920
    OutputHeight = 1080
    Gap = 10
    MaxEdits = 2
SPECIFICATION Spec
INVARIANTS TypeOK FittedOnScreen
PROPERTIES ScrolledClear JustEnough WidthsCycle SwipeSettles
SYMMETRY Symmetry
