CONSTANTS
    Keyboards = {k1, k2}
    None = None
    Numerals <- MCNumerals
    LowerCase <- MCLowerCase
    Keysyms <- MCKeysyms
    HeldModifiers <- MCHeldModifiers
    Presses <- MCPresses
    VTKeys <- MCVTKeys
    Lines <- MCLines
    Rebinding = FALSE
SPECIFICATION Spec
INVARIANTS TypeOK NeverThrows
PROPERTIES LockHolds ImplementsChords
SYMMETRY Symmetry
