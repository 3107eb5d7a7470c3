SPECIFICATION OrientationSpec
CONSTANTS
    landscape = landscape
    w = w
    Portrait = Portrait
    None = None
    Flat = Flat
    Orientations <- TwoOrientations
    Toplevels <- OneToplevel
ACTION_CONSTRAINT FewStaged
INVARIANTS
    OrientationTypeOK
    NeverFrozen
    OrientationsAgree
PROPERTIES
    SeenSwitchApplied
    RotationDrawn
