SPECIFICATION LayersSpec
CONSTANTS
    p1 = p1
    p2 = p2
    w1 = w1
    w2 = w2
    NoSurface = NoSurface
    NoEdge = NoEdge
    LayerSurfaces <- Panels
    Toplevels <- Apps
    Edges <- TwoEdges
    Levels <- FourLevels
    Zones = {1}
    MaxStaged = 1
SYMMETRY Symmetry
ACTION_CONSTRAINT Small
INVARIANTS
    LayersTypeOK
    ReservationsMatch
    ShownFits
