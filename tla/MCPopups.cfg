SPECIFICATION EitherSpec
CONSTANTS
    w1 = w1
    w2 = w2
    panel = panel
    q1 = q1
    q2 = q2
    q3 = q3
    NoSurface = NoSurface
    Windows <- Apps
    LayerSurfaces <- Panels
    PopupSurfaces <- ThreePopups
    Positioners <- Both
    Sizes <- ThreeSizes
    NoSize <- Empty
SYMMETRY Symmetry
INVARIANTS
    TypeOK
    TreesKept
    Answered
    Settled
PROPERTIES
    DeadLeaveTrees
