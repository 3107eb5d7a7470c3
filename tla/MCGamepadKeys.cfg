SPECIFICATION Spec
CONSTANTS
    home = home
    game = game
    x = x
    dpadLeft = dpadLeft
    lb = lb
    pageUp = pageUp
    q = q
    vt = vt
    Apps <- TwoApps
    NoApp = NoApp
    SystemApps <- JustHome
    InhibitingApps <- JustGame
    Axes <- OneAxis
    Buttons <- OneButton
    Triggers <- OneTrigger
    KeyOf <- PadKeyOf
    KeyboardKeys <- TypedKeys
    VtKeys <- JustVt
    BtnMode = BtnMode
    Bindings <- UserBindings
    MaxLeaked = 2
INVARIANTS
    TypeOK
    MappingFollowsPad
    KeysHaveSource
