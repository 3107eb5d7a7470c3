------------------------------- MODULE Popups -------------------------------
(***************************************************************************)
(* Popups of toplevels and layer surfaces.  A popup is an orphan until its *)
(* first commit, which puts it below its parent in the tree of a window    *)
(* that may show it, or dismisses it; `popup_destroyed` takes it out       *)
(* again.  Trees belong to windows and go away with them.                  *)
(*                                                                         *)
(* Of the layouts there is only what popups depend on: which windows are   *)
(* in layouts, and which of them in the active one.  Any update may change *)
(* both in any way, which covers what module Layouts does.  A surface is a *)
(* popup once.  Layer surfaces are there all the time.  X11 windows have   *)
(* no popups.                                                              *)
(***************************************************************************)
EXTENDS Integers, FiniteSets, SequencesExt

CONSTANTS
    Windows,           \* the toplevels clients may create
    LayerSurfaces,     \* the layer surfaces
    PopupSurfaces,     \* the popups clients may create
    NoSurface          \* no parent

ASSUME PopupsAssumption ==
    /\ PopupSurfaces \cap (Windows \cup LayerSurfaces) = {}
    /\ Windows \cap LayerSurfaces = {}
    /\ NoSurface \notin Windows \cup LayerSurfaces \cup PopupSurfaces

VARIABLES
    window,       \* where every toplevel is, see Place
    popup,        \* the popups as their clients know them, see Popup
    orphans,      \* orphan_popups
    children      \* the vector `popups` of every surface in a tree

vars == <<window, popup, orphans, children>>

\* Not there yet, in the active layout, in another layout, in no layout any more.
Place == {"new", "active", "hidden", "gone"}

Surfaces == Windows \cup LayerSurfaces \cup PopupSurfaces

\* committed: a first commit was made; configured: the initial configure was
\* sent; dismissed: popup_done was sent.
Popup == [status : {"new", "alive", "dead"}, parent : Surfaces \cup {NoSurface},
          committed : BOOLEAN, configured : BOOLEAN, dismissed : BOOLEAN]

NewPopup == [status |-> "new", parent |-> NoSurface, committed |-> FALSE,
             configured |-> FALSE, dismissed |-> FALSE]

Init ==
    /\ window = [w \in Windows |-> "new"]
    /\ popup = [p \in PopupSurfaces |-> NewPopup]
    /\ orphans = <<>>
    /\ children = [s \in Surfaces |-> <<>>]

----------------------------------------------------------------------------
(* Trees. *)

Active == {w \in Windows : window[w] = "active"}

\* layouts.windows().
InLayouts == {w \in Windows : window[w] \in {"active", "hidden"}}

\* The popups that are in the vectors of some surfaces.
Below(ch, set) == UNION {Range(ch[s]) : s \in set}

\* What is in the trees of some surfaces, themselves included: no popup that could
\* be left out with all that is below the ones that stay.
Trees(ch, roots) ==
    LET closed == {set \in SUBSET PopupSurfaces : Below(ch, roots \cup set) \subseteq set}
    IN  roots \cup {p \in PopupSurfaces : \A set \in closed : p \in set}

Held == Trees(children, InLayouts \cup LayerSurfaces)

\* Slip: the trees of windows that are dropped stay.
DroppingNothing(ch, roots) == ch

\* A window or popup that is dropped is dropped with its tree.
Dropping(ch, roots) ==
    [s \in Surfaces |-> IF s \in Trees(ch, roots) THEN ch[s] ELSE <<>>]

\* Vec::swap_remove.
SwapRemove(seq, i) ==
    IF i = Len(seq) THEN Front(seq) ELSE [Front(seq) EXCEPT ![i] = Last(seq)]

\* Slip: what is above a dead popup goes with it.
BelowDead(seq, dead) ==
    LET i == SelectInSeq(seq, LAMBDA q : q \in dead)
    IN  IF i = 0 THEN seq ELSE SubSeq(seq, 1, i - 1)

\* The loop of refresh_popups over one vector, from the last to the first.
Without(seq, dead) ==
    LET run[n \in 0..Len(seq)] ==
          IF n = 0 THEN seq
          ELSE LET i == Len(seq) + 1 - n
               IN  IF seq[i] \in dead THEN SwapRemove(run[n - 1], i) ELSE run[n - 1]
    IN  run[Len(seq)]

\* Slip: the popups of popups are not looked at.
RefreshedAtTop(ch, dead) ==
    Dropping([s \in Surfaces |-> IF s \in InLayouts THEN Without(ch[s], dead) ELSE ch[s]],
             InLayouts \cup LayerSurfaces)

\* Windows::refresh_popups: the trees of the windows in layouts, and no others.
Refreshed(ch, dead) ==
    LET trees == Trees(ch, InLayouts)
    IN  Dropping([s \in Surfaces |-> IF s \in trees THEN Without(ch[s], dead) ELSE ch[s]],
                 InLayouts \cup LayerSurfaces)

----------------------------------------------------------------------------
(* The requests of clients. *)

\* new_popup.  The parent of a layer's popup is named later.
AddPopup(p, parent) ==
    /\ popup[p].status = "new"
    /\ popup' = [popup EXCEPT ![p].status = "alive", ![p].parent = parent]
    /\ orphans' = Append(orphans, p)
    /\ UNCHANGED <<window, children>>

\* zwlr_layer_surface.get_popup.
GetPopup(l, p) ==
    /\ popup[p].status = "alive"
    /\ popup[p].parent = NoSurface
    /\ ~popup[p].committed
    /\ popup' = [popup EXCEPT ![p].parent = l]
    /\ UNCHANGED <<window, orphans, children>>

\* add_popup finds the surface in the active layout or in a layer.
Adopts(s) == s \in Trees(children, Active \cup LayerSurfaces)

OrphansWithout(p) ==
    IF p \notin Range(orphans) THEN orphans
    ELSE SwapRemove(orphans, SelectInSeq(orphans, LAMBDA q : q = p))

\* Slip: the popups of layers are not configured.
ConfiguredInWindows(p) == p \in Trees(children', InLayouts)

\* popup_surface_commit configures what it finds in a tree, in any layout.
Configures(p) == p \in Trees(children', InLayouts \cup LayerSurfaces)

\* orphan_surface_commit, then popup_surface_commit.  The surface of an orphan may
\* be committed when the popup is dead.
Commit(p) ==
    LET orphan == p \in Range(orphans)
        parent == popup[p].parent
        adopted == orphan /\ Adopts(parent)
    IN  /\ popup[p].status = "alive" \/ orphan
        /\ orphans' = OrphansWithout(p)
        /\ children' = IF adopted THEN [children EXCEPT ![parent] = Append(@, p)]
                                  ELSE children
        /\ popup' = IF popup[p].status = "dead" THEN popup
             ELSE [popup EXCEPT
                    ![p].committed = TRUE,
                    ![p].configured = @ \/ Configures(p),
                    ![p].dismissed = @ \/ (orphan /\ parent # NoSurface /\ ~adopted)]
        /\ UNCHANGED window

\* popup_destroyed, when the client destroys the popup or is gone; whether smithay
\* forgets the parent is left open.
Destroy(p) ==
    /\ popup[p].status = "alive"
    /\ \E parent \in {popup[p].parent, NoSurface} :
         popup' = [popup EXCEPT ![p] = [NewPopup EXCEPT !.status = "dead",
                                                        !.parent = parent]]
    /\ children' = Refreshed(children, {q \in PopupSurfaces : popup'[q].status = "dead"})
    /\ UNCHANGED <<window, orphans>>

\* A toplevel is created; its layout is activated by an update.
AddWindow(w) ==
    /\ window[w] = "new"
    /\ window' = [window EXCEPT ![w] = "hidden"]
    /\ UNCHANGED <<popup, orphans, children>>

\* An update applies what was staged and reaps toplevels, with their trees.
ChangeLayouts(active, reaped) ==
    /\ window' = [w \in Windows |-> IF w \notin InLayouts THEN window[w]
                                    ELSE IF w \in reaped THEN "gone"
                                    ELSE IF w \in active THEN "active" ELSE "hidden"]
    /\ children' = Dropping(children, InLayouts' \cup LayerSurfaces)
    /\ UNCHANGED <<popup, orphans>>

\* Surfaces a client can make the parent of a popup right away.
PossibleParents ==
    InLayouts \cup {p \in PopupSurfaces : popup[p].status = "alive"}

Next ==
    \/ \E p \in PopupSurfaces, parent \in PossibleParents \cup {NoSurface} :
         AddPopup(p, parent)
    \/ \E l \in LayerSurfaces, p \in PopupSurfaces : GetPopup(l, p)
    \/ \E p \in PopupSurfaces : Commit(p)
    \/ \E p \in PopupSurfaces : Destroy(p)
    \/ \E w \in Windows : AddWindow(w)
    \/ \E active \in SUBSET InLayouts, reaped \in SUBSET InLayouts :
         Cardinality(active) <= 2 /\ ChangeLayouts(active, reaped)

Spec == Init /\ [][Next]_vars
----------------------------------------------------------------------------
(* Properties. *)

\* The variables have their types, and only what is in a tree has children.
TypeOK ==
    /\ window \in [Windows -> Place]
    /\ popup \in [PopupSurfaces -> Popup]
    /\ orphans \in Seq(PopupSurfaces)
    /\ children \in [Surfaces -> Seq(PopupSurfaces)]
    /\ \A s \in Surfaces \ Held : children[s] = <<>>

\* A popup is an orphan or in one place of one tree, or neither.
PlacedOnce ==
    /\ \A s, t \in Surfaces : \A i \in DOMAIN children[s], j \in DOMAIN children[t] :
         children[s][i] = children[t][j] => s = t /\ i = j
    /\ IsInjective(orphans)
    /\ Range(orphans) \cap UNION {Range(children[s]) : s \in Surfaces} = {}

\* A client that commits a popup with a parent is answered, with a configure it
\* can draw for or with popup_done: it does not wait for ever, whether its parent
\* is an orphan itself, was never shown, has died or is in another layout.
Answered ==
    \A p \in PopupSurfaces :
        popup[p].status = "alive" /\ popup[p].committed /\ popup[p].parent # NoSurface
          => popup[p].configured \/ popup[p].dismissed

\* A parent that is gone: destroyed, or in no layout any more.
Gone(s) ==
    \/ s \in PopupSurfaces /\ popup[s].status = "dead"
    \/ s \in Windows /\ window[s] = "gone"

\* A popup that was configured stays in the tree of its window as long as all it
\* is below of lives, whichever siblings die and whatever becomes of the layouts.
NotLost ==
    \A p \in PopupSurfaces :
        /\ popup[p].status = "alive" /\ popup[p].configured
        /\ ~Gone(popup[p].parent)
        /\ popup[p].parent \in Held
        => p \in Range(children[popup[p].parent])

\* However orphans and popups are adopted, swapped, reaped and dropped with their
\* windows: no popup is drawn and touched in two places, and none is lost with
\* another one.
TreesKept == PlacedOnce /\ NotLost

\* After the death of a popup no dead one is left in the tree of a window, also
\* not one that died as an orphan and was adopted by a late commit.
DeadLeaveTrees ==
    [][ \A p \in PopupSurfaces : Destroy(p) =>
          \A q \in Trees(children', InLayouts) \cap PopupSurfaces :
             popup'[q].status = "alive" ]_vars

============================================================================
