SPECIFICATION Spec
CONSTANTS
    Caps <- MCCaps
    Depth = 3
    MaxRuns = 3
INVARIANTS
    TypeOK
    NeverOutOfOrder
    Contained
    CapsWithin
    TopLayerWins
    OnlyOverlayLeaks
    FilesLeftForAReason
PROPERTY NoWayBack
