------------------------------ MODULE MCShell ------------------------------
(* The instance of Shell for TLC: the home window and one other, which is   *)
(* either an overlay or a window of an X11 client.                          *)
EXTENDS Shell

CONSTANTS home, o2, x2

AllWindows == {home, o2, x2}
HomeOnly == {home}
OverlayOnly == {o2}
X11Only == {x2}

\* At most one of the two others is ever created.
OneOther == ~({o2, x2} \subseteq wm'.ls.created)
============================================================================
