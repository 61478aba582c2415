CONSTANTS
    v1 = v1
    v2 = v2
    s1 = s1
    s2 = s2
    s3 = s3
    c1 = c1
    c2 = c2
    None = None
    Views <- MCViews
    Surfaces <- MCSurfaces
    Clients <- MCClients
    ClientOf <- MCClientOf
    LayersOf <- MCLayersOf
SPECIFICATION Spec
INVARIANTS TypeOK FocusedLayerThere FocusedLayerHoldsKeyboard TopmostHasFocus ExclusiveKeepsOut
PROPERTY KeyboardReturns
