SPECIFICATION Spec
CONSTANTS
    v1 = v1
    v2 = v2
    Views = {v1, v2}
    Workspaces = {0, 1}
    NoView = NoView
    Foreign = Foreign
    Dialogs <- OneDialog
    FullscreenViews = {v1, v2}
    Remapped = {v2}
INVARIANTS
    FullscreenSound
    FullscreenOwned
CHECK_DEADLOCK FALSE
