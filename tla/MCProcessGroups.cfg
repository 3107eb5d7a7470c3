SPECIFICATION GroupsSpec
CONSTANTS
    home = home
    nav = nav
    a = a
    a2 = a2
    b = b
    gh = gh
    ga = ga
    gb = gb
    NoWindow = NoWindow
    NoGroup = NoGroup
    Windows <- FiveWindows
    Groups <- ThreeGroups
    GroupOf <- GroupPerApplication
    RoleOf <- SystemRoles
    Delay = 2
INVARIANTS
    GroupsTypeOK
    FocusedKept
PROPERTY FocusedResumes
