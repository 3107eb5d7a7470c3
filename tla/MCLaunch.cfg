SPECIFICATION Spec
CONSTANTS
    p1 = p1
    p2 = p2
    w1 = w1
    home = home
    x11 = x11
    odd = odd
    cx = cx
    codd = codd
    kw = kw
    kx = kx
    card = card
    None = None
    Nameless = Nameless
    Home = Home
    HomeWindow = HomeWindow
    Processes <- AllProcesses
    Toplevels <- AllWindows
    Applications <- AllApplications
    X11Applications <- OnlyX11
    HomeApplication = home
    Commands <- TwoCommands
    ApplicationOf <- CommandApplication
    Keys <- TwoKeys
    KeyOf <- CommandKey
    Cards = {card}
    Hints <- TwoHints
    Files <- TwoFiles
    Valid <- ValidNames
    MatchedBy <- Matching
CONSTRAINT Uncrossed
SYMMETRY Symmetry
INVARIANTS
    TypeOK
    OwnGroup
PROPERTIES
    NotStartedTwice
    NamesSurvive
