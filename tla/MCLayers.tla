----------------------------- MODULE MCLayers ------------------------------
(* The instance of Layers for TLC: two panels, two toplevels, two edges.    *)
EXTENDS Layers, TLC

CONSTANTS p1, p2, w1, w2

Panels == {p1, p2}
Apps == {w1, w2}
FourLevels == {"background", "bottom", "top", "overlay"}
TwoEdges == {"top", "left"}

\* The three levels below "overlay" differ in what the overview shows only.
TwoKinds == \A l \in LayerSurfaces : layer'[l].level \in {"none", "background", "overlay"}

\* Without a zone the edge does not matter.
OneAnchor == \A l \in LayerSurfaces : layer'[l].zone < 0 => layer'[l].anchor = NoEdge

Small == TwoKinds /\ OneAnchor

Symmetry == Permutations(Panels) \cup Permutations(Apps)
============================================================================
