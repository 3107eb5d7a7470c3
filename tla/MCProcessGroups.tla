-------------------------- MODULE MCProcessGroups --------------------------
(* Home and two applications with process groups of their own, and two      *)
(* windows without a group: the second one of an application, and that of   *)
(* the navigation, which was not launched from here.                        *)
EXTENDS ProcessGroups, TLC

CONSTANTS home, nav, a, a2, b, gh, ga, gb

FiveWindows == {home, nav, a, a2, b}
ThreeGroups == {gh, ga, gb}
GroupPerApplication ==
    home :> gh @@ nav :> NoGroup @@ a :> ga @@ a2 :> NoGroup @@ b :> gb
SystemRoles ==
    home :> "home" @@ nav :> "nav" @@ a :> "none" @@ a2 :> "none" @@ b :> "none"
============================================================================
