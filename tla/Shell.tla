------------------------------- MODULE Shell -------------------------------
(***************************************************************************)
(* The window manager, `struct Windows` (src/shell/windows/mod.rs): the    *)
(* view on screen, the view transaction, the transaction timer, and the    *)
(* handlers that combine them with the layout operations of LayoutOps.     *)
(* Wayland and X11 requests, IPC messages, touch input and frames call the *)
(* handlers in any order; each runs to its end on the event loop.          *)
(*                                                                         *)
(* `wm` is a record:                                                       *)
(*   ls       the layout state, see LayoutOps                              *)
(*   view     what is on screen                                            *)
(*   pending  `transaction`: the view it leads to, NoPendingView when it   *)
(*            holds none, NoTransaction when there is no transaction       *)
(*   timer    age of TRANSACTION_START: "idle" is 0, "fresh" up to 100 ms, *)
(*            "aging" up to 1000 ms, "expired" more                        *)
(* `unacked` holds the windows that keep a transaction waiting: resized,   *)
(* not blacklisted, and no commit since that acked the new size.           *)
(***************************************************************************)
EXTENDS LayoutOps, FiniteSets

CONSTANTS
    OverlayWindows,   \* windows with id jolly-nav, or matching the role nav
    MaxStaged,        \* bound: staged layout transactions
    MaxParents,       \* bound: length of parent_layouts
    MaxId             \* bound: layout ids handed out

ASSUME ShellAssumption == /\ OverlayWindows \subseteq Windows \ X11Windows
                          /\ MaxStaged \in Nat
                          /\ MaxParents \in Nat
                          /\ MaxId \in Nat

VARIABLES wm, unacked

vars == <<wm, unacked>>

View(kind, window) == [kind |-> kind, window |-> window]

Workspace == View("workspace", NoWindow)
Overview == View("overview", NoWindow)
Fullscreen(w) == View("fullscreen", w)
DragAndDrop(w) == View("dnd", w)
Lock(surface) == View("lock", surface)

NoTransaction == View("no transaction", NoWindow)
NoPendingView == View("no view", NoWindow)

\* A lock surface is a window of its own that is in no layout.
LockSurfaces == [visible : BOOLEAN, sized : BOOLEAN]

Views == {Workspace, Overview} \cup {Fullscreen(w) : w \in Windows}
           \cup {DragAndDrop(w) : w \in Windows}
           \cup {Lock(s) : s \in LockSurfaces \cup {NoWindow}}

Init == /\ wm = [ls |-> InitialLayouts, view |-> Workspace,
                 pending |-> NoTransaction, timer |-> "idle"]
        /\ unacked = {}

----------------------------------------------------------------------------
(* Helpers of the handlers, from a `wm` to a `wm`. *)

\* Slip: a transaction without a view is taken for one.
PendingViewUnwrapped(m) == IF m.pending = NoTransaction THEN m.view ELSE m.pending

PendingView(m) ==
    IF m.pending \in {NoTransaction, NoPendingView} THEN m.view ELSE m.pending

StartTimer(m) == IF m.timer = "idle" THEN [m EXCEPT !.timer = "fresh"] ELSE m

\* Slip: any handler may replace a pending lock.
SetViewUnchecked(m, view) ==
    IF view.kind = "overview"
    THEN [m EXCEPT !.view = view,
                   !.pending = IF @ = NoTransaction THEN @ ELSE NoPendingView]
    ELSE [StartTimer(m) EXCEPT !.pending = view]

\* Nothing but `unlock` may take a pending lock back; the overview needs no
\* transaction and discards the pending view.
SetView(m, view) ==
    IF PendingView(m).kind = "lock" THEN m
    ELSE IF view.kind = "overview"
    THEN [m EXCEPT !.view = view,
                   !.pending = IF @ = NoTransaction THEN @ ELSE NoPendingView]
    ELSE [StartTimer(m) EXCEPT !.pending = view]

\* Layout operations start the timer when they stage something.
SetLayouts(m, ls) ==
    LET changed == [m EXCEPT !.ls = ls]
    IN  IF ls.staged = m.ls.staged THEN changed ELSE StartTimer(changed)

Activate(m, position, clearParents) ==
    SetLayouts(m, SetActive(m.ls, position, clearParents))

\* The way back from a window that is gone.
GoHome(m) == Activate(m, PrimaryOf(HomeOrFirst(m.ls)), TRUE)

\* Windows `resize_visible` looks at; a lock surface is not among them.
ResizedVisibly(m) ==
    LET view == PendingView(m)
    IN  CASE view.kind = "fullscreen" -> {view.window}
          [] view.kind = "lock" -> {}
          [] OTHER -> WindowsOf(PendingActive(m.ls))

\* set_dimensions skips dead and hidden windows; of the others, those that get
\* a new size hold the transaction up, unless they are blacklisted.
Become(m, resized) ==
    LET able == (resized \cap m.ls.visible) \ m.ls.dead
    IN  /\ wm' = m
        /\ \E waiting \in SUBSET able : unacked' = (unacked \ able) \cup waiting

PositionOf(w) ==
    CHOOSE p \in [index : DOMAIN wm.ls.layouts, secondary : BOOLEAN] :
        WindowAt(wm.ls, p) = w

SiblingsOf(w) == WindowsOf(LayoutAt(wm.ls, PositionOf(w).index))

Open == Owned(wm.ls)

CanStage == Len(wm.ls.staged) < MaxStaged

CanSplit ==
    wm.ls.nextId
      + Cardinality({k \in DOMAIN wm.ls.staged : wm.ls.staged[k].kind # "active"})
      <= MaxId

CanPushParent == Len(wm.ls.parents) < MaxParents

----------------------------------------------------------------------------
(* Requests of clients. *)

\* An overlay need not be known by its id when its toplevel is created.
Add(w, knownAsOverlay) ==
    /\ CanStage /\ CanSplit /\ CanPushParent
    /\ w \notin wm.ls.created \cup X11Windows
    /\ knownAsOverlay => w \in OverlayWindows
    /\ LET created == Create([wm.ls EXCEPT !.created = @ \cup {w}], w)
           added == SetLayouts(wm, [created EXCEPT !.focus = w])
       IN  Become([added EXCEPT !.view = IF knownAsOverlay THEN Workspace
                                                           ELSE Fullscreen(w)],
                  {w})

AddX11(w) ==
    /\ CanStage /\ CanSplit /\ CanPushParent
    /\ w \in X11Windows \ wm.ls.created
    /\ LET created == Create([wm.ls EXCEPT !.created = @ \cup {w}], w)
           added == SetLayouts(wm, [created EXCEPT !.focus = w])
       IN  Become([added EXCEPT !.view = Fullscreen(w),
                                !.pending = IF @ = NoTransaction THEN @
                                            ELSE NoPendingView], {w})

\* A commit acks the last configure or not; a commit of an overlay that is only
\* now known as one leaves fullscreen.
Commit(w) ==
    /\ w \in Open
    /\ LET switched == SetView(wm, Workspace)
       IN  IF w \in OverlayWindows /\ wm.view.kind = "fullscreen"
           THEN Become(switched, ResizedVisibly(switched))
           ELSE wm' = wm /\ unacked' = unacked \ {w}

FullscreenRequest(w) ==
    /\ w \in Open \ X11Windows
    /\ LET switched == SetView(wm, Fullscreen(w))
       IN  Become(switched, ResizedVisibly(switched))

LeaveFullscreen(m) ==
    LET switched == SetView(m, Workspace) IN Become(switched, ResizedVisibly(switched))

UnfullscreenRequest(w) == /\ wm.view = Fullscreen(w)
                          /\ w \notin X11Windows
                          /\ LeaveFullscreen(wm)

\* toplevel_destroyed: leave its fullscreen, let its sibling grow.
ReapXdg(w) ==
    /\ w \in Open \ X11Windows
    /\ LET died == [wm EXCEPT !.ls.dead = @ \cup {w}]
           left == IF wm.view = Fullscreen(w) THEN SetView(died, Workspace) ELSE died
           resized == IF wm.view = Fullscreen(w) THEN ResizedVisibly(left) ELSE {}
       IN  Become(StartTimer(left), resized \cup SiblingsOf(w))

\* The X server destroyed a window.
MarkDeadX11(w) ==
    /\ w \in Open \cap X11Windows
    /\ wm.view = Fullscreen(w) => CanStage
    /\ LET died == StartTimer([wm EXCEPT !.ls.dead = @ \cup {w}])
           left == GoHome([died EXCEPT !.pending = Workspace])
       IN  IF wm.view = Fullscreen(w)
           THEN Become(left, WindowsOf(PendingActive(left.ls)))
           ELSE Become(died, {})

\* An unmapped window stays on screen, invisible, while home gets active.
HandleUnmapX11(w) ==
    /\ w \in Open \cap X11Windows
    /\ wm.view = Fullscreen(w) => CanStage
    /\ LET hidden == StartTimer([wm EXCEPT !.ls.visible = @ \ {w}])
           left == GoHome(hidden)
       IN  IF wm.view = Fullscreen(w)
           THEN Become(left, WindowsOf(PendingActive(left.ls)))
           ELSE Become(hidden, {})

HandleMapX11(w) ==
    /\ w \in Open \cap X11Windows
    /\ Become([wm EXCEPT !.ls.visible = @ \cup {w}, !.view = Fullscreen(w)], {})

\* raise: xdg-activation from the focused client.
Raise(w) ==
    /\ CanStage
    /\ w \in Open
    /\ Become(Activate(wm, PositionOf(w), FALSE), SiblingsOf(w))

----------------------------------------------------------------------------
(* The session lock. *)

\* The lock's only way in.
LockSession ==
    LET locked == SetView(wm, Lock(NoWindow)) IN wm' = locked /\ UNCHANGED unacked

\* The lock's way out, also while it is only pending.
Unlock == Become([StartTimer(wm) EXCEPT !.pending = Workspace], {})

\* set_dimensions, on the one window that is not in a layout.
SetDimensions(surface) ==
    IF surface.visible THEN [surface EXCEPT !.sized = TRUE] ELSE surface

SetLockSurface ==
    /\ PendingView(wm).kind = "lock"
    /\ LET lock == Lock(SetDimensions([visible |-> FALSE, sized |-> FALSE]))
       IN  wm' = IF wm.pending.kind = "lock" THEN [wm EXCEPT !.pending = lock]
                                             ELSE [wm EXCEPT !.view = lock]
    /\ UNCHANGED unacked

----------------------------------------------------------------------------
(* IPC messages. *)

FocusedApp(m, w) ==
    LET position == PositionOf(w)
        overlay == LayoutAt(m.ls, position.index).primary \in OverlayWindows
        pushed == [m EXCEPT !.ls = PushActiveToParent(@)]
        raised == Activate(pushed, position, FALSE)
    IN  IF ~overlay THEN Activate(m, position, TRUE)
        ELSE IF m.view.kind = "fullscreen" THEN SetView(raised, Workspace) ELSE raised

FocusApp(w) ==
    /\ CanStage /\ CanPushParent
    /\ w \in Open
    /\ LET m == FocusedApp(wm, w)
       IN  Become(m, SiblingsOf(w) \cup ResizedVisibly(m))

\* Hide the focused application: back to the parent, else to the registered
\* home, else to the first of several layouts, else to none.
HideApp(w, homeRegistered) ==
    /\ CanStage
    /\ w \in Open
    /\ wm.ls.focus = w
    /\ LET left == IF wm.view = Fullscreen(w) THEN SetView(wm, Workspace) ELSE wm
           homeAt == IF homeRegistered THEN HomeIndex(wm.ls) ELSE 0
           target == IF ParentIndex(wm.ls) # 0 THEN ParentIndex(wm.ls)
                     ELSE IF homeAt # 0 THEN homeAt
                     ELSE IF Len(wm.ls.layouts) <= 1 THEN 0 ELSE 1
           hidden == Activate(left, PrimaryOf(target), TRUE)
       IN  Become(hidden, ResizedVisibly(left) \cup WindowsOf(LayoutAt(wm.ls, target)))

\* toggle_app on another application than the focused one focuses it.
ToggleApp(w, homeRegistered) ==
    \/ HideApp(w, homeRegistered)
    \/ wm.ls.focus # w /\ FocusApp(w)

\* Kill every window that matches; nothing starts the timer.
CloseApp(ws) ==
    /\ ws # {}
    /\ ws \subseteq Open
    /\ Become([wm EXCEPT !.ls.dead = @ \cup ws], {})

----------------------------------------------------------------------------
(* Touch input. *)

\* set_focus: a touch on a window of the view, or on a layer surface.
Touch(w) ==
    /\ \/ w = NoWindow
       \/ wm.view.kind = "workspace" /\ w \in WindowsOf(ActiveLayout(wm.ls))
       \/ wm.view.kind = "fullscreen" /\ w = wm.view.window
    /\ wm' = [wm EXCEPT !.ls.focus = w]
    /\ UNCHANGED unacked

\* on_double_tap on the gesture handle.
DoubleTap(step) ==
    /\ CanStage
    /\ wm.view.kind = "workspace"
    /\ wm.ls.layouts # <<>>
    /\ LET m == SetLayouts(wm, CycleActive(wm.ls, step))
       IN  Become(m, WindowsOf(LayoutAt(wm.ls, Last(m.ls.staged).position.index)))

\* A swipe on the gesture handle of the workspace.
OpenOverview ==
    /\ wm.view.kind = "workspace"
    /\ wm.ls.layouts # <<>>
    /\ Become(SetView(wm, Overview), {})

\* A tap on a window of the overview.
TapWindow(w) ==
    /\ CanStage
    /\ wm.view.kind = "overview"
    /\ w \in Open
    /\ Become(SetView(Activate(wm, PositionOf(w), TRUE), Workspace), SiblingsOf(w))

\* A tap beside the windows, or a swipe that does not open the overview.
LeaveOverview ==
    /\ wm.view.kind = "overview"
    /\ Become(SetView(wm, Workspace), {})

\* A swipe that is taken back.
StayInOverview ==
    /\ wm.view.kind = "overview"
    /\ Become(SetView(wm, Overview), {})

\* A swipe out of the overview.
MinimizeAll ==
    /\ CanStage
    /\ wm.view.kind = "overview"
    /\ Become(SetView(Activate(wm, NoPosition, TRUE), Workspace), {})

\* A swipe up out of fullscreen.
SwipeFromFullscreen == wm.view.kind = "fullscreen" /\ LeaveFullscreen(wm)

\* A window dragged out of the overview is killed while a frame is drawn.
DragClosed(w) ==
    /\ wm.view.kind = "overview"
    /\ w \in Open
    /\ Become(StartTimer([wm EXCEPT !.ls.dead = @ \cup {w}]), SiblingsOf(w))

\* The hold timer of the overview; the window may have changed place since.
StartDnd(w) ==
    /\ wm.view.kind = "overview"
    /\ w \in Open
    /\ Become(SetView(wm, DragAndDrop(w)), {})

\* on_drag_release: a window that is no longer in a layout is dropped nowhere.
DropPrimary ==
    /\ CanStage /\ CanSplit
    /\ wm.view.kind = "dnd"
    /\ wm.view.window \in Open
    /\ LET w == wm.view.window
           m == SetView(SetLayouts(wm, SetPrimary(wm.ls, PositionOf(w))), Workspace)
       IN  Become(m, SiblingsOf(w))

DropSecondary ==
    /\ CanStage /\ CanSplit
    /\ wm.view.kind = "dnd"
    /\ wm.view.window \in Open
    /\ LET w == wm.view.window
           m == SetView(SetLayouts(wm, SetSecondary(wm.ls, PositionOf(w))), Workspace)
       IN  Become(m, SiblingsOf(w) \cup WindowsOf(ActiveLayout(wm.ls)))

DropOutside ==
    /\ wm.view.kind = "dnd"
    /\ Become(SetView(wm, Overview), {})

----------------------------------------------------------------------------
(* Frames. *)

\* A fullscreen window that died or lost its place gives way to the parent of
\* the layout that is active now, else to home or the first layout.
FixViewAfterReap(m) ==
    LET left == [m EXCEPT !.view = Workspace]
    IN  IF \/ m.view.kind # "fullscreen"
           \/ m.view.window \in Owned(m.ls) \ m.ls.dead
        THEN m
        ELSE IF ParentIndex(m.ls) # 0
        THEN Activate(left, PrimaryOf(ParentIndex(m.ls)), TRUE)
        ELSE GoHome(left)

CloseOverviewWhenEmpty(m) ==
    IF m.ls.layouts = <<>> /\ m.view.kind \in {"overview", "dnd", "fullscreen"}
    THEN [m EXCEPT !.view = Workspace]
    ELSE m

ApplyLayouts(m) == [m EXCEPT !.ls = ApplyTransaction(@)]

\* The window transactions are applied with the layouts; what is staged now
\* was staged by fix_view_after_reap.
Applied(m) ==
    LET resized == IF m.ls.staged = <<>> THEN {} ELSE WindowsOf(PendingActive(m.ls))
        able == (resized \cap m.ls.visible) \ m.ls.dead
    IN  wm' = m /\ unacked' \in SUBSET able

Overdue ==
    \/ wm.timer = "expired"
    \/ wm.timer = "aging" /\ PendingView(wm).kind = "lock"

\* Every participant is ready; a lock waits for its surface.
Ready ==
    /\ PendingView(wm) # Lock(NoWindow)
    /\ unacked \cap Open \subseteq wm.ls.dead

\* update_transaction while no timer runs.
UpdateIdle ==
    /\ wm.timer = "idle"
    /\ Applied(FixViewAfterReap(CloseOverviewWhenEmpty(ApplyLayouts(wm))))

\* Slip: the view is not checked against the layouts that were just applied.
UpdateWithoutFix ==
    /\ wm.timer # "idle"
    /\ Overdue \/ Ready
    /\ LET switched == [wm EXCEPT !.timer = "idle", !.pending = NoTransaction,
                                  !.view = PendingView(wm)]
       IN  Applied(CloseOverviewWhenEmpty(ApplyLayouts(switched)))

\* Slip: the timer is cleared last, whatever the fix has staged.
UpdateClearingLast ==
    /\ wm.timer # "idle"
    /\ Overdue \/ Ready
    /\ LET switched == [wm EXCEPT !.pending = NoTransaction, !.view = PendingView(wm)]
           fixed == FixViewAfterReap(ApplyLayouts(switched))
       IN  Applied([CloseOverviewWhenEmpty(fixed) EXCEPT !.timer = "idle"])

\* update_transaction once the transaction is ready or overdue.
UpdateTransaction ==
    /\ wm.timer # "idle"
    /\ Overdue \/ Ready
    /\ LET switched == [wm EXCEPT !.timer = "idle", !.pending = NoTransaction,
                                  !.view = PendingView(wm)]
       IN  Applied(CloseOverviewWhenEmpty(FixViewAfterReap(ApplyLayouts(switched))))

Update == UpdateIdle \/ UpdateTransaction

Tick ==
    /\ wm.timer \in {"fresh", "aging"}
    /\ wm' = [wm EXCEPT !.timer = IF @ = "fresh" THEN "aging" ELSE "expired"]
    /\ UNCHANGED unacked

Next ==
    \/ \E w \in Windows, known \in BOOLEAN : Add(w, known)
    \/ \E w \in Windows : AddX11(w)
    \/ \E w \in Windows : Commit(w)
    \/ \E w \in Windows : FullscreenRequest(w)
    \/ \E w \in Windows : UnfullscreenRequest(w)
    \/ \E w \in Windows : ReapXdg(w)
    \/ \E w \in Windows : MarkDeadX11(w)
    \/ \E w \in Windows : HandleUnmapX11(w)
    \/ \E w \in Windows : HandleMapX11(w)
    \/ \E w \in Windows : Raise(w)
    \/ LockSession
    \/ Unlock
    \/ SetLockSurface
    \/ \E w \in Windows, registered \in BOOLEAN : ToggleApp(w, registered)
    \/ \E ws \in SUBSET Windows : CloseApp(ws)
    \/ \E w \in WindowOrNone : Touch(w)
    \/ \E step \in {-1, 1} : DoubleTap(step)
    \/ OpenOverview
    \/ \E w \in Windows : TapWindow(w)
    \/ LeaveOverview
    \/ StayInOverview
    \/ MinimizeAll
    \/ SwipeFromFullscreen
    \/ \E w \in Windows : DragClosed(w)
    \/ \E w \in Windows : StartDnd(w)
    \/ DropPrimary
    \/ DropSecondary
    \/ DropOutside
    \/ Update
    \/ Tick

Spec == Init /\ [][Next]_vars
----------------------------------------------------------------------------
(* Properties. *)

\* The state of the window manager has its type.
TypeOK ==
    /\ wm \in [ls : LayoutState, view : Views,
               pending : Views \cup {NoTransaction, NoPendingView},
               timer : {"idle", "fresh", "aging", "expired"}]
    /\ unacked \subseteq Windows

\* Nothing waits for a timer that does not run: whatever is staged, pending or
\* not acked by its client has started the transaction timer, also what
\* fix_view_after_reap stages while update_transaction clears the timer.
PendingHasTimer ==
    \/ wm.ls.staged # <<>>
    \/ wm.pending # NoTransaction
    \/ unacked # {}
    => wm.timer # "idle"

\* After an update the view has the windows it needs, whichever view was pending
\* and whoever died or moved while it was: the fullscreen view shows a window that
\* lives in a layout, and without any window there is no overview or drag and
\* drop, which have no way out but touching a window.
ViewHasWindow ==
    [][ \/ /\ wm'.view.kind = "fullscreen"
             => wm'.view.window \in Owned(wm'.ls) \ wm'.ls.dead
           /\ wm'.ls.layouts = <<>> => wm'.view.kind \in {"workspace", "lock"}
        \/ ~Update ]_vars

\* A request that writes the view without set_view.
WritesView(w) ==
    \/ \E known \in BOOLEAN : Add(w, known)
    \/ AddX11(w)
    \/ MarkDeadX11(w)
    \/ HandleMapX11(w)

\* A session that is locked, or about to be, stays so until `unlock`, whatever
\* is tapped, focused, toggled, closed or drawn, new and X11 windows aside; and a
\* lock whose surface is late takes effect only at the deadline that is its own.
LockKept ==
    [][ /\ PendingView(wm).kind = "lock" /\ PendingView(wm)'.kind # "lock"
             => Unlock \/ \E w \in Windows : WritesView(w)
        /\ wm.pending = Lock(NoWindow) /\ Update
             => wm.timer \in {"aging", "expired"} ]_vars

----------------------------------------------------------------------------
(* What comments of the code say and the code does not do. *)

\* mod.rs:941, "Set lock surface size.": a lock surface is told its size.
LockSurfaceSized ==
    wm.view.kind = "lock" => wm.view.window = NoWindow \/ wm.view.window.sized

============================================================================
