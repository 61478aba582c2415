SPECIFICATION Spec
CONSTANTS
    v1 = v1
    v2 = v2
    Views = {v1, v2, v3}
    Workspaces = {0, 1}
    NoView = NoView
    Foreign = Foreign
    Dialogs <- NoDialogs
    FullscreenViews = {}
    Remapped = {v1, v2, v3}
INVARIANTS
    TypeOK
    PlacedOnce
    NoEmptyColumn
    FocusStackSound
    FocusedHoldsKeyboard
PROPERTY
    ImplementsPlacement
CHECK_DEADLOCK FALSE
