------------------------------ MODULE MCPopups ------------------------------
(* The instance of Popups and Placement for TLC.  Trees and locations share    *)
(* nothing the properties are about, so a behaviour is about one of them: two  *)
(* toplevels, a panel and three popups, or one popup with an anchor rectangle  *)
(* of size 1 at two places on either axis, and popups and parents of three     *)
(* sizes.                                                                      *)
EXTENDS Popups, Placement, TLC

CONSTANTS w1, w2, panel, q1, q2, q3

Apps == {w1, w2}
Panels == {panel}
ThreePopups == {q1, q2, q3}

Symmetry == Permutations(Apps) \cup Permutations(ThreePopups)

Across == [base : {-1, 2}, extent : {1}, anchor : {-1, 1}, gravity : {-1, 1},
           size : {2}, flip : BOOLEAN, slide : BOOLEAN]
Down == [base : {-1, 1}, extent : {1}, anchor : {1}, gravity : {1},
         size : {2}, flip : {TRUE}, slide : BOOLEAN]

Both == {[axis \in Axes |-> IF axis = "x" THEN a ELSE d] : a \in Across, d \in Down}

Square(n) == [axis \in Axes |-> n]
Empty == Square(0)
ThreeSizes == {Empty, Square(2), [Square(4) EXCEPT !["y"] = 3]}

VARIABLE part     \* what the behaviour is about

Begin ==
    /\ Init
    /\ Unplaced
    /\ part \in {"trees", "locations"}
    /\ part = "trees" => /\ positioner = CHOOSE p \in Both : TRUE
                         /\ parent = Empty
                         /\ ~nested

Step ==
    /\ UNCHANGED part
    /\ \/ part = "trees" /\ Next /\ UNCHANGED placingVars
       \/ part = "locations" /\ PlacingNext /\ UNCHANGED vars

EitherSpec == Begin /\ [][Step]_<<part, vars, placingVars>>
============================================================================
