CONSTANTS
    v1 = v1
    v2 = v2
    w1 = w1
    w2 = w2
    None = None
    Views <- MCViews
    X11 <- MCX11
    Floating <- MCFloating
    Workspaces <- MCWorkspaces
    MaxSpeed = 2
SPECIFICATION Spec
INVARIANTS TypeOK GrabbedViewThere ScrollHasFingers
PROPERTY ResizeRestores
