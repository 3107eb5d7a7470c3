SPECIFICATION Spec
CONSTANTS
    home = home
    x2 = x2
    w3 = w3
    w4 = w4
    NoWindow = NoWindow
    Windows <- AllWindows
    HomeWindows <- HomeOnly
    X11Windows <- X11Only
    MaxStaged = 2
    MaxParents = 2
    MaxId = 4
SYMMETRY Symmetry
ACTION_CONSTRAINT StaysBatchedOrMany
INVARIANTS
    TypeOK
    WellFormed
PROPERTIES
    DeadReaped
    ActiveLayoutKept
    WindowsKept
    PendingReached
