SPECIFICATION OrientationSpec
CONSTANTS
    landscape = landscape
    w = w
    Portrait = Portrait
    None = None
    Flat = Flat
    Orientations <- TwoOrientations
    Toplevels <- OneToplevel
PROPERTY LockedKeepsOrientation
