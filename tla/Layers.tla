------------------------------- MODULE Layers -------------------------------
(***************************************************************************)
(* Layer surfaces (panels, overlays, backgrounds): the space they reserve  *)
(* at the edges of the output, and the sizes everybody else has because of *)
(* it.  `ExclusiveSpace` holds one reservation per edge, shared by all     *)
(* layer surfaces; a commit or a death changes it, and `resize_visible`    *)
(* resizes what the pending view shows.                                    *)
(*                                                                         *)
(* A size is modelled by what it depends on: the space that was left out   *)
(* of the output, per edge, when the size was last computed.  The gesture  *)
(* handle has no height (output/mod.rs:22), so `size` and `wm_size` agree. *)
(* Toplevels are in layouts of their own, are no overlays and do not die:  *)
(* module Shell has their deaths, splits, the focus and the other views,   *)
(* in which resize_visible does what it does in the workspace.  When a     *)
(* transaction is applied is left open: see Shell and WindowSizes.         *)
(***************************************************************************)
EXTENDS Integers, SequencesExt

CONSTANTS
    LayerSurfaces,     \* the layer surfaces clients may create
    Toplevels,         \* the toplevels clients may create
    NoSurface,
    Edges,             \* edges of the output
    NoEdge,            \* an anchor that reserves nothing: corners, the center
    Levels,            \* background, bottom, top and overlay
    Zones,             \* sizes of exclusive zones, in output coordinates
    MaxStaged          \* bound: staged switches of the active layout

\* ExclusiveZone::Neutral and DontCare; Exclusive(n) is n.
Neutral == -1
DontCare == -2

ASSUME LayersAssumption ==
    /\ NoSurface \notin LayerSurfaces \cup Toplevels
    /\ LayerSurfaces \cap Toplevels = {}
    /\ NoEdge \notin Edges
    /\ {"background", "bottom", "overlay"} \subseteq Levels
    /\ "none" \notin Levels
    /\ Zones \subseteq Nat
    /\ MaxStaged \in Nat

VARIABLES
    layer,        \* the layer surfaces that exist, see Layer
    space,        \* ExclusiveSpace: who reserved how much at each edge
    fit,          \* the space every surface was last sized for, see Fit
    open,         \* toplevels that were created
    visible,      \* toplevels with the visible flag
    active,       \* the toplevel of the active layout
    staged,       \* toplevels whose layouts were activated since the last update
    view,         \* what is on screen
    pending,      \* the view of the transaction, or NoView
    contested     \* history: edges where two live surfaces had a zone at once

layouts == <<open, visible, active, staged>>
views == <<view, pending>>
layersVars == <<layer, space, fit, open, visible, active, staged, view,
          pending, contested>>

Surfaces == LayerSurfaces \cup Toplevels

\* `level` is the list the surface was put in; anchor and zone are those the
\* compositor has recorded.  Clients do not move a surface to another level.  A
\* destroyed surface stays listed until the next update, but nothing below looks
\* at it again.
Layer == [level : Levels, anchor : Edges \cup {NoEdge},
          zone : Zones \cup {Neutral, DontCare}]
NoLayer == [level |-> "none", anchor |-> NoEdge, zone |-> Neutral]

Reservation == [level : Levels, reserved : Zones \cup {0}]

\* An amount of space left out at each edge.
Insets == [Edges -> Zones \cup {0}]
NoInsets == [e \in Edges |-> 0]

\* Misfit is history: the surface has a size that it may keep although it is not
\* the one for what is shown next, because of how the view or the layout changed.
Misfit == [e \in Edges |-> -1]
Fit == [Surfaces -> Insets \cup {Misfit}]

View(kind, window) == [kind |-> kind, window |-> window]
Workspace == View("workspace", NoSurface)
Fullscreen(w) == View("fullscreen", w)
Lock == View("lock", NoSurface)
LockSurface == View("lock surface", NoSurface)
NoView == View("none", NoSurface)

Views == {Workspace, Lock, LockSurface} \cup {Fullscreen(w) : w \in Toplevels}

LayersInit ==
    /\ layer = [l \in LayerSurfaces |-> NoLayer]
    /\ space = [e \in Edges |-> [level |-> "background", reserved |-> 0]]
    /\ fit = [s \in Surfaces |-> Misfit]
    /\ open = {}
    /\ visible = {}
    /\ active = NoSurface
    /\ staged = <<>>
    /\ view = Workspace
    /\ pending = NoView
    /\ contested = {}

----------------------------------------------------------------------------
(* Reading the state. *)

PendingView == IF pending = NoView THEN view ELSE pending

PendingActive == IF staged = <<>> THEN active ELSE Last(staged)

Live(layers, l) == layers[l] # NoLayer

\* available() and available_fullscreen(), as what they leave out.
Available(sp) == [e \in Edges |-> sp[e].reserved]

AvailableFullscreen(sp) ==
    [e \in Edges |-> IF sp[e].level = "overlay" THEN sp[e].reserved ELSE 0]

\* The live surfaces with a zone at an edge.
Claims(layers, e) ==
    {l \in LayerSurfaces :
        Live(layers, l) /\ layers[l].anchor = e /\ layers[l].zone >= 0}

----------------------------------------------------------------------------
(* ExclusiveSpace. *)

\* Slip: a zone is added to the one at the edge.
ReserveOnTop(sp, anchor, zone, level) ==
    [e \in Edges |-> IF e = anchor /\ zone >= 0
                     THEN [level |-> level, reserved |-> sp[e].reserved + zone] ELSE sp[e]]

\* update; only an exclusive zone says something.
Reserve(sp, anchor, zone, level) ==
    [e \in Edges |-> IF e = anchor /\ zone >= 0
                     THEN [level |-> level, reserved |-> zone] ELSE sp[e]]

\* reset.
Release(sp, l) ==
    IF layer[l].zone < 0 THEN sp ELSE Reserve(sp, layer[l].anchor, 0, "bottom")

\* Slip: the old zone is not given back.
RezoneKeeping(sp, l, anchor, zone) == Reserve(sp, anchor, zone, layer[l].level)

\* update_layer_state.
Rezone(sp, l, anchor, zone) ==
    Reserve(Release(sp, l), anchor, zone, layer[l].level)

----------------------------------------------------------------------------
(* Sizes. *)

\* set_dimensions skips what is dead or not visible.
Sized(f, layers, targets, insets) ==
    [s \in Surfaces |->
        IF s \in targets /\ (IF s \in LayerSurfaces THEN Live(layers, s) ELSE s \in visible)
        THEN insets ELSE f[s]]

\* update_dimensions: only neutral layers keep clear of the reserved space.
Placed(f, layers, which, sp) ==
    LET neutral == {l \in which : layers[l].zone = Neutral}
    IN  Sized(Sized(f, layers, neutral, Available(sp)), layers, which \ neutral, NoInsets)

\* Slip: layers are not placed again.
ResizeToplevels(f, layers, sp, v) ==
    CASE v.kind = "fullscreen" ->
           Sized(f, layers, {v.window}, AvailableFullscreen(sp))
      [] v.kind = "lock surface" -> [s \in Surfaces |-> Misfit]
      [] OTHER -> Sized(f, layers, {PendingActive} \ {NoSurface}, Available(sp))

\* resize_visible, with v as the pending view.
ResizeVisible(f, layers, sp, v) ==
    CASE v.kind = "fullscreen" ->
           Placed(Sized(f, layers, {v.window}, AvailableFullscreen(sp)),
                  layers, {l \in LayerSurfaces : layers[l].level = "overlay"}, sp)
      [] v.kind = "lock surface" -> [s \in Surfaces |-> Misfit]
      [] OTHER ->
           Placed(Sized(f, layers, {PendingActive} \ {NoSurface}, Available(sp)),
                  layers, LayerSurfaces, sp)

\* After a change of the space, and only then.
ResizeIfChanged(f, layers, sp) ==
    IF sp = space THEN f ELSE ResizeVisible(f, layers, sp, PendingView)

----------------------------------------------------------------------------
(* Layer surfaces. *)

\* Where two live surfaces have a zone, and until none has one there.
Contested(layers) ==
    {e \in Edges : \/ \E k, l \in Claims(layers, e) : k # l
                   \/ e \in contested /\ Claims(layers, e) # {}}

AddLayer(l, level) ==
    /\ ~Live(layer, l)
    /\ layer' = [layer EXCEPT ![l] = [NoLayer EXCEPT !.level = level]]
    /\ UNCHANGED <<space, fit, layouts, views, contested>>

\* surface_commit: the state the client has committed is recorded, the surface
\* is placed, and the others are if the space has changed.
CommitLayer(l, anchor, zone) ==
    /\ Live(layer, l)
    /\ layer' = [layer EXCEPT ![l].anchor = anchor, ![l].zone = zone]
    /\ space' = Rezone(space, l, anchor, zone)
    /\ fit' = ResizeIfChanged(Placed(fit, layer', {l}, space'), layer', space')
    /\ contested' = Contested(layer')
    /\ UNCHANGED <<layouts, views>>

\* reap_layer, when the client destroys the surface or is gone.
DestroyLayer(l) ==
    /\ Live(layer, l)
    /\ layer' = [layer EXCEPT ![l] = NoLayer]
    /\ space' = Release(space, l)
    /\ fit' = ResizeIfChanged([fit EXCEPT ![l] = Misfit], layer', space')
    /\ contested' = Contested(layer')
    /\ UNCHANGED <<layouts, views>>

----------------------------------------------------------------------------
(* Toplevels. *)

\* create and set_active size a toplevel for the workspace, whatever the view.
Entered(w, v) == [fit EXCEPT ![w] = IF v = Fullscreen(w) THEN Misfit ELSE Available(space)]

\* A new toplevel goes fullscreen at once, without a transaction.
AddToplevel(w) ==
    /\ w \notin open
    /\ Len(staged) < MaxStaged
    /\ open' = open \cup {w}
    /\ visible' = visible \cup {w}
    /\ staged' = Append(staged, w)
    /\ view' = Fullscreen(w)
    /\ fit' = Entered(w, Fullscreen(w))
    /\ UNCHANGED <<layer, space, active, pending, contested>>

\* focus_app, and what else activates a layout.
Activate(w) ==
    /\ w \in open
    /\ Len(staged) < MaxStaged
    /\ visible' = visible \cup {w}
    /\ staged' = Append(staged, w)
    /\ fit' = Entered(w, PendingView)
    /\ UNCHANGED <<layer, space, open, active, views, contested>>

\* set_view: only `unlock` takes a lock back.
Switched(v) == IF PendingView \in {Lock, LockSurface} THEN pending ELSE v

SwitchAndResize(v) ==
    /\ pending' = Switched(v)
    /\ fit' = ResizeVisible(fit, layer, space, IF pending' = NoView THEN view ELSE pending')
    /\ UNCHANGED <<layer, space, layouts, view, contested>>

FullscreenRequest(w) == w \in open /\ SwitchAndResize(Fullscreen(w))

\* unfullscreen, and a swipe out of fullscreen.
LeaveFullscreen == view.kind = "fullscreen" /\ SwitchAndResize(Workspace)

----------------------------------------------------------------------------
(* The session lock, which hides layers and toplevels. *)

LockSession ==
    /\ pending' = Switched(Lock)
    /\ UNCHANGED <<layer, space, fit, layouts, view, contested>>

SetLockSurface ==
    /\ PendingView \in {Lock, LockSurface}
    /\ IF pending = NoView THEN view' = LockSurface /\ pending' = pending
                           ELSE pending' = LockSurface /\ view' = view
    /\ UNCHANGED <<layer, space, fit, layouts, contested>>

\* Nothing is resized on the way back.
Unlock ==
    /\ PendingView \in {Lock, LockSurface}
    /\ pending' = Workspace
    /\ fit' = [s \in Surfaces |-> Misfit]
    /\ UNCHANGED <<layer, space, layouts, view, contested>>

----------------------------------------------------------------------------
(* Frames. *)

\* The active toplevel before the i-th staged switch.
Before(i) == IF i = 1 THEN active ELSE staged[i - 1]

\* The staged switches one after the other: each leaves the toplevel before.
SwitchLayouts ==
    LET switches == {i \in 1..Len(staged) : staged[i] # Before(i)}
    IN  /\ active' = PendingActive
        /\ visible' = visible \ {Before(i) : i \in switches}
        /\ staged' = <<>>
        /\ UNCHANGED open

\* update_transaction once it applies.
Update ==
    /\ view' = PendingView
    /\ pending' = NoView
    /\ SwitchLayouts
    /\ UNCHANGED <<layer, space, fit, contested>>

LayersNext ==
    \/ \E l \in LayerSurfaces, level \in Levels : AddLayer(l, level)
    \/ \E l \in LayerSurfaces, anchor \in Edges \cup {NoEdge},
          zone \in Zones \cup {Neutral, DontCare} : CommitLayer(l, anchor, zone)
    \/ \E l \in LayerSurfaces : DestroyLayer(l)
    \/ \E w \in Toplevels : AddToplevel(w)
    \/ \E w \in Toplevels : Activate(w)
    \/ \E w \in Toplevels : FullscreenRequest(w)
    \/ LeaveFullscreen
    \/ LockSession
    \/ SetLockSurface
    \/ Unlock
    \/ Update

LayersSpec == LayersInit /\ [][LayersNext]_layersVars
----------------------------------------------------------------------------
(* Properties. *)

\* The variables have their types.
LayersTypeOK ==
    /\ layer \in [LayerSurfaces -> Layer \cup {NoLayer}]
    /\ space \in [Edges -> Reservation]
    /\ fit \in Fit
    /\ open \subseteq Toplevels
    /\ visible \subseteq open
    /\ active \in open \cup {NoSurface}
    /\ staged \in Seq(open)
    /\ view \in Views
    /\ pending \in Views \cup {NoView}
    /\ contested \subseteq Edges

\* No space stays reserved for a surface that is gone, has moved to another
\* edge or has given up its zone: what is reserved at an edge is the zone of a
\* live surface that is anchored there, on the level of that surface.
ReservationsOwned ==
    \A e \in Edges : space[e].reserved > 0 =>
        \E l \in Claims(layer, e) : space[e] = [level |-> layer[l].level,
                                               reserved |-> layer[l].zone]

\* A surface that is alone at its edge has its zone reserved, whichever others
\* come, go and move around; once two had a zone at an edge, the reservation of
\* one may be lost with the other.
SoleZoneReserved ==
    \A e \in Edges \ contested : \A l \in Claims(layer, e) :
        space[e] = [level |-> layer[l].level, reserved |-> layer[l].zone]

\* Zones and reservations belong together, whichever panels share an edge, move
\* between edges, change their zones and go away.
ReservationsMatch == ReservationsOwned /\ SoleZoneReserved

\* What is on screen, and the space it should leave out.
Shown ==
    CASE view = Workspace ->
           ({active} \cap visible) \cup {l \in LayerSurfaces : Live(layer, l)}
      [] view.kind = "fullscreen" ->
           ({view.window} \cap visible)
             \cup {l \in LayerSurfaces : Live(layer, l) /\ layer[l].level = "overlay"}
      [] OTHER -> {}

ExpectedInsets(s) ==
    CASE s \in Toplevels /\ view = Workspace -> Available(space)
      [] s \in Toplevels /\ view # Workspace -> AvailableFullscreen(space)
      [] s \in LayerSurfaces ->
           IF layer[s].zone = Neutral THEN Available(space) ELSE NoInsets

\* When nothing is pending, every surface on screen has the size that the space
\* reserved by now leaves it, also if that changed under another view or before
\* another layout was activated.  Not covered: what an unlock brings back, zones
\* that change behind a lock surface, new windows and windows that are activated
\* while they are fullscreen.
ShownFits ==
    pending = NoView /\ staged = <<>> =>
        \A s \in Shown : fit[s] \in {Misfit, ExpectedInsets(s)}

============================================================================
