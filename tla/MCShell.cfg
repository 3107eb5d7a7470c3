SPECIFICATION Spec
CONSTANTS
    home = home
    o2 = o2
    x2 = x2
    NoWindow = NoWindow
    Windows <- AllWindows
    HomeWindows <- HomeOnly
    X11Windows <- X11Only
    OverlayWindows <- OverlayOnly
    MaxStaged = 1
    MaxParents = 1
    MaxId = 2
ACTION_CONSTRAINT OneOther
INVARIANTS
    TypeOK
    PendingHasTimer
PROPERTIES
    ViewHasWindow
    LockKept
