SPECIFICATION Spec
CONSTANTS
    xdg = xdg
    x11 = x11
    NoSize = NoSize
    Windows <- Both
    X11Windows <- X11Only
    Sizes = {1, 2}
    MaxSent = 1
INVARIANTS
    TypeOK
    CommitsKept
PROPERTIES
    ResizedTogether
    Converges
