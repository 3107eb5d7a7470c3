------------------------------ MODULE MCLaunch ------------------------------
(* The instance of Launch for TLC: home, which is a Wayland application, and  *)
(* two X11 applications, one of them with a class that is no pattern; a      *)
(* command for each of those, one card; home's window and another.           *)
EXTENDS Launch, TLC

CONSTANTS p1, p2, w1, home, x11, odd, cx, codd, kw, kx, card

AllProcesses == {Home, p1, p2}
AllWindows == {HomeWindow, w1}
AllApplications == {home, x11, odd}
OnlyX11 == {x11, odd}
TwoCommands == {cx, codd}
CommandApplication == cx :> x11 @@ codd :> odd
TwoKeys == {kw, kx}
CommandKey == cx :> kx @@ codd :> kw
TwoHints == {{}, {x11}}

\* The empty pattern matches every name.
ValidNames == {home, x11, Nameless}
Matching == [n \in ValidNames |-> IF n = Nameless THEN AllApplications ELSE {n}]

\* Nothing, and what launches that crossed leave: a name of another application, and
\* the empty one.
TwoFiles == {Unlearned, [Unlearned EXCEPT ![kx] = odd, ![card] = Nameless]}

\* Of a session whose launches crossed only the file is of interest.
Uncrossed == ~crossed

Symmetry == Permutations({p1, p2})
=============================================================================
