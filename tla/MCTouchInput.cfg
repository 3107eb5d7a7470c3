SPECIFICATION TouchSpec
CONSTANTS
    s0 = s0
    s1 = s1
    left = left
    middle = middle
    app = app
    Slots <- BothSlots
    HasPointer = TRUE
    PointerSlot = s0
    NoSlot = NoSlot
    Places <- HandleAndMiddle
    HandlePlaces <- LeftEnd
    Steep <- SteepPairs
    NoPlace = NoPlace
    Surfaces <- JustApp
    NoSurface = NoSurface
    DenyFocus <- None
    Inhibiting <- None
    UserGestures <- SwipeDown
    MaxEvents = 1
    MaxTaps = 2
INVARIANTS
    TouchTypeOK
    TouchesEnd
    VelocityEnds
