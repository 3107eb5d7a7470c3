--------------------------- MODULE MCOrientation ---------------------------
(* The instance of Orientation for TLC: two orientations, one toplevel.     *)
EXTENDS Orientation, TLC

CONSTANTS landscape, w

TwoOrientations == {Portrait, landscape}
OneToplevel == {w}

\* Frames do not add to what is staged: only handlers are cut off.
FewStaged == Cardinality(loop'.staged) <= 2
============================================================================
