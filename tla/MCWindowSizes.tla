--------------------------- MODULE MCWindowSizes ---------------------------
(* An instance of WindowSizes for TLC: a toplevel and an XWayland window. *)
EXTENDS WindowSizes

CONSTANTS xdg, x11

Both == {xdg, x11}
X11Only == {x11}
============================================================================
