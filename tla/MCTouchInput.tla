---------------------------- MODULE MCTouchInput ----------------------------
(* The instance of TouchInput for TLC: the gesture handle, and the screen   *)
(* above it, whose middle starts a gesture of the user.                     *)
EXTENDS TouchInput

CONSTANTS s0, s1, left, middle, app

BothSlots == {s0, s1}
HandleAndMiddle == {left, middle}
LeftEnd == {left}
SteepPairs == {<<left, middle>>, <<middle, left>>}
JustApp == {app}
None == {}
SwipeDown == {[start |-> middle, end |-> left, apps |-> {app, NoSurface}]}
=============================================================================
