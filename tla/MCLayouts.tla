----------------------------- MODULE MCLayouts -----------------------------
(* The instance of Layouts for TLC: a home window, an X11 window and two    *)
(* more.  Batches of two staged changes, and two parents, are allowed with  *)
(* home and the X11 window, one of each with home and the other two.        *)
EXTENDS Layouts, TLC

CONSTANTS home, x2, w3, w4

AllWindows == {home, x2, w3, w4}
HomeOnly == {home}
X11Only == {x2}

BatchedOrMany ==
    \/ ls.created \subseteq {home, x2}
    \/ ls.created \subseteq {home, w3, w4} /\ Len(ls.staged) <= 1 /\ Len(ls.parents) <= 1

StaysBatchedOrMany == BatchedOrMany'

\* The two windows without a role are interchangeable.
Symmetry == Permutations({w3, w4})
============================================================================
