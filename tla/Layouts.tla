------------------------------ MODULE Layouts ------------------------------
(***************************************************************************)
(* The layouts of the window manager under every order of the calls its    *)
(* handlers make: windows that are added, activated, cycled through,       *)
(* dropped as primary or secondary, and die, while the staged changes wait *)
(* for `apply_transaction`.  When the changes are applied is left open:    *)
(* module Shell models the transaction timer that decides it.              *)
(***************************************************************************)
EXTENDS LayoutOps, FiniteSets

CONSTANTS
    MaxStaged,     \* bound: staged transactions
    MaxParents,    \* bound: length of parent_layouts
    MaxId          \* bound: layout ids handed out

ASSUME BoundsAssumption == /\ MaxStaged \in Nat
                           /\ MaxParents \in Nat
                           /\ MaxId \in Nat

VARIABLE ls        \* a layout state, see LayoutOps

vars == <<ls>>

Init == ls = InitialLayouts

CanStage == Len(ls.staged) < MaxStaged

\* Every staged split may hand out one more id.
CanSplit ==
    ls.nextId + Cardinality({k \in DOMAIN ls.staged : ls.staged[k].kind # "active"})
      <= MaxId

OccupiedPositions ==
    {p \in [index : DOMAIN ls.layouts, secondary : BOOLEAN] :
        WindowAt(ls, p) # NoWindow}

----------------------------------------------------------------------------
(* The calls of the handlers. *)

\* Windows::add, and add_x11 which also marks the new window visible.
Add(w) ==
    /\ CanStage
    /\ w \notin ls.created
    /\ CanSplit
    /\ Len(ls.parents) < MaxParents
    /\ LET s == Create([ls EXCEPT !.created = @ \cup {w}], w)
       IN  ls' = [s EXCEPT !.focus = w,
                           !.visible = IF w \in X11Windows THEN @ \cup {w} ELSE @]

\* A tap in the overview or focus_app (clearing the parents), or `raise`.
Activate(p, clearParents) ==
    /\ CanStage
    /\ ls' = SetActive(ls, p, clearParents)

\* toggle_app and dying X11 windows go to a layout whatever it holds.
SwitchTo(i) ==
    /\ CanStage
    /\ ls' = SetActive(ls, PrimaryOf(i), TRUE)

\* toggle_app with a single layout, or a swipe out of the overview.
ActivateNone ==
    /\ CanStage
    /\ ls' = SetActive(ls, NoPosition, TRUE)

\* focus_app on the navigation overlay.
FocusOverlay(p) ==
    /\ CanStage
    /\ Len(ls.parents) < MaxParents
    /\ ls' = SetActive(PushActiveToParent(ls), p, FALSE)

\* IPC DebugFocus does not check the index it is given.
DebugFocus(i, secondary) ==
    /\ CanStage
    /\ ls' = SetActive(ls, [index |-> i, secondary |-> secondary], TRUE)

\* A double tap on the gesture handle.
Cycle(step) ==
    /\ CanStage
    /\ ls' = CycleActive(ls, step)

\* A window dragged out of the overview is dropped on either half.
DropPrimary(p) ==
    /\ CanStage
    /\ CanSplit
    /\ ls' = SetPrimary(ls, p)

DropSecondary(p) ==
    /\ CanStage
    /\ CanSplit
    /\ ls' = SetSecondary(ls, p)

\* Clients destroy their windows, or close_app kills every match at once.
Die(ws) ==
    /\ ws # {}
    /\ ls' = [ls EXCEPT !.dead = @ \cup ws]

\* The end of update_transaction.
Apply == ls' = ApplyTransaction(ls)

Next ==
    \/ \E w \in Windows : Add(w)
    \/ \E p \in OccupiedPositions, clear \in BOOLEAN : Activate(p, clear)
    \/ \E i \in DOMAIN ls.layouts : SwitchTo(i)
    \/ ActivateNone
    \/ \E p \in OccupiedPositions : FocusOverlay(p)
    \/ \E i \in 1..(Len(ls.layouts) + 1), sec \in BOOLEAN : DebugFocus(i, sec)
    \/ \E step \in {-1, 1} : Cycle(step)
    \/ \E p \in OccupiedPositions : DropPrimary(p)
    \/ \E p \in OccupiedPositions : DropSecondary(p)
    \/ \E ws \in SUBSET (Owned(ls) \ ls.dead) : Die(ws)
    \/ Apply

Spec == Init /\ [][Next]_vars
----------------------------------------------------------------------------
(* Properties. *)

\* The layout state has its type.
TypeOK == ls \in LayoutState

\* A window sits in one slot of one layout.  `Layout::resize` and `reap`
\* borrow both slots of a layout mutably at once, and every lookup takes the
\* first match, so a window that `swap`, `take` or `push` left in two places
\* would stop the compositor or be closed twice.
UniqueOwnership ==
    \A i, j \in DOMAIN ls.layouts : \A a, b \in BOOLEAN :
        /\ Occupant(ls.layouts[i], a) # NoWindow
        /\ Occupant(ls.layouts[i], a) = Occupant(ls.layouts[j], b)
        => i = j /\ a = b

\* No layout is left without windows: not by moving its only window away, not
\* by the deaths that hit both of its slots.
NoEmptyLayout == \A i \in DOMAIN ls.layouts : WindowsOf(ls.layouts[i]) # {}

\* The layouts partition the windows that are not overlays, whichever tiling
\* gestures and deaths come together: no window twice, no layout for nothing.
WellFormed == UniqueOwnership /\ NoEmptyLayout

\* Applying leaves no dead window in any slot, whatever was moved around first.
DeadReaped == [][Apply => Owned(ls)' \cap ls.dead = {}]_vars

\* Layouts whose last window has died.
Emptied(s) ==
    {i \in DOMAIN s.layouts : WindowsOf(Survivor(s.layouts[i], s.dead)) = {}}

LiveWindows(s) == Owned(s) \ s.dead

\* When nothing is staged and at most one layout before the active one died,
\* reaping moves the active index along with its layout.
SurvivorStaysActive ==
    [][ /\ Apply
        /\ ls.staged = <<>>
        /\ ls.active \in DOMAIN ls.layouts \ Emptied(ls)
        /\ Cardinality({i \in Emptied(ls) : i < ls.active}) <= 1
        => WindowsOf(ActiveLayout(ls'))
             = WindowsOf(ActiveLayout(ls)) \ ls.dead ]_vars

\* When the active layout dies and no layout before it does, the layout it was
\* created from becomes active again, if that one is still there.
ParentRestored ==
    [][ /\ Apply
        /\ ls.staged = <<>>
        /\ ls.active \in Emptied(ls)
        /\ \A i \in Emptied(ls) : ls.active <= i
        /\ ls.parents # <<>>
        /\ IndexOfId(ls, Last(ls.parents)) \notin Emptied(ls) \cup {0}
        => ActiveLayout(ls').id = Last(ls.parents) ]_vars

\* Whatever dies around the active layout, or with it, the user ends where the
\* parents say; not when a layout before it and the active one die at once.
ActiveLayoutKept == SurvivorStaysActive /\ ParentRestored

\* A staged move to the secondary slot after the active layout was given up.
GivenUpBeforeMove ==
    \E i, j \in DOMAIN ls.staged :
        /\ i < j
        /\ ls.staged[i].kind = "active"
        /\ ls.staged[i].position.index \notin DOMAIN ls.layouts
        /\ ls.staged[j].kind = "secondary"

\* But for that case, applying drops no live window, in whatever order windows
\* were split off, swapped, replaced and reaped.
WindowsKept ==
    [][ Apply /\ ~GivenUpBeforeMove
        => LiveWindows(ls) \subseteq Owned(ls)' ]_vars

\* Staged activations lead where `pending_active` says, unless something died
\* meanwhile: focus and sizes were chosen for that layout.
PendingReached ==
    [][ /\ Apply
        /\ \A k \in DOMAIN ls.staged :
             /\ ls.staged[k].kind = "active"
             /\ ls.staged[k].position.index \in {0} \cup DOMAIN ls.layouts
        /\ Owned(ls) \cap ls.dead = {}
        => ActiveLayout(ls') = PendingActive(ls) ]_vars

============================================================================
