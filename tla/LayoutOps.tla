----------------------------- MODULE LayoutOps -----------------------------
(***************************************************************************)
(* The operations of `struct Layouts` (src/shell/windows/layout.rs) as     *)
(* operators from a layout state to a layout state.  Handlers of the       *)
(* compositor call several of them in a row, so modules that model such    *)
(* handlers compose these operators; module Layouts turns each of them     *)
(* into an action.                                                         *)
(*                                                                         *)
(* A layout state is a record:                                             *)
(*   layouts  the sequence of layouts, in overview order                   *)
(*   active   index of the active layout, 0 for `None`                     *)
(*   staged   the layout transactions that wait for the next apply         *)
(*   parents  `parent_layouts`: ids of the layouts to come back to         *)
(*   focus    the focused window (a weak pointer in the code)              *)
(*   nextId   NEXT_LAYOUT_ID                                               *)
(*   visible  the windows whose `visible` flag is set                      *)
(*   created  the windows that were ever added                             *)
(*   dead     the windows that were killed or whose client is gone         *)
(* Indices start at 1 here and at 0 in the code; ids are those of the code.*)
(***************************************************************************)
EXTENDS Integers, SequencesExt

CONSTANTS
    Windows,       \* the windows clients may ever map
    NoWindow,      \* `None` for an Option<Rc<RefCell<Window>>>
    HomeWindows,   \* windows titled JollyPad-Desktop or with id jolly-home
    X11Windows     \* windows of XWayland clients

ASSUME WindowsAssumption == /\ NoWindow \notin Windows
                            /\ HomeWindows \subseteq Windows
                            /\ X11Windows \subseteq Windows

WindowOrNone == Windows \cup {NoWindow}

Layout == [primary : WindowOrNone, secondary : WindowOrNone, id : Nat]

\* DEFAULT_LAYOUT: what `active()` answers when no layout is active.
DefaultLayout == [primary |-> NoWindow, secondary |-> NoWindow, id |-> 0]

\* Index 0 stands for a `None` position.
Position == [index : Nat, secondary : BOOLEAN]

NoPosition == [index |-> 0, secondary |-> FALSE]

PrimaryOf(i) == [index |-> i, secondary |-> FALSE]

Transaction == [kind : {"active", "primary", "secondary"}, position : Position]

LayoutState == [layouts : Seq(Layout), active : Nat, staged : Seq(Transaction),
                parents : Seq(Nat), focus : WindowOrNone, nextId : Nat \ {0},
                visible : SUBSET Windows, created : SUBSET Windows,
                dead : SUBSET Windows]

InitialLayouts == [layouts |-> <<>>, active |-> 0, staged |-> <<>>,
                   parents |-> <<>>, focus |-> NoWindow, nextId |-> 1,
                   visible |-> {}, created |-> {}, dead |-> {}]

----------------------------------------------------------------------------
(* Reading a layout state. *)

Occupant(layout, secondary) ==
    IF secondary THEN layout.secondary ELSE layout.primary

WindowsOf(layout) == {layout.primary, layout.secondary} \ {NoWindow}

LayoutAt(s, i) == IF i \in DOMAIN s.layouts THEN s.layouts[i] ELSE DefaultLayout

WindowAt(s, position) ==
    Occupant(LayoutAt(s, position.index), position.secondary)

ActiveLayout(s) == LayoutAt(s, s.active)

Owned(s) == UNION {WindowsOf(s.layouts[i]) : i \in DOMAIN s.layouts}

\* `position` of an iterator: the first index in a set, or none.
First(indices) ==
    IF indices = {} THEN 0
    ELSE CHOOSE i \in indices : \A j \in indices : i <= j

IndexOfId(s, id) == First({i \in DOMAIN s.layouts : s.layouts[i].id = id})

HomeIndex(s) ==
    First({i \in DOMAIN s.layouts : s.layouts[i].primary \in HomeWindows})

\* What a staged transaction makes of the layout those before it lead to.
PendingStep(s, layout, t) ==
    LET window == WindowAt(s, t.position)
    IN  IF t.position.index \notin {0} \cup DOMAIN s.layouts THEN layout
        ELSE CASE t.kind = "active" -> LayoutAt(s, t.position.index)
               [] t.kind = "primary" -> [layout EXCEPT !.primary = window]
               [] t.kind = "secondary" -> [layout EXCEPT !.secondary = window]

PendingRun(s) ==
    LET run[n \in 0..Len(s.staged)] ==
          IF n = 0 THEN ActiveLayout(s) ELSE PendingStep(s, run[n - 1], s.staged[n])
    IN  run

\* The layout the staged transactions lead to, before any of them is applied.
PendingActive(s) == PendingRun(s)[Len(s.staged)]

----------------------------------------------------------------------------
(* Staging changes. *)

Stage(s, kind, position) ==
    [s EXCEPT !.staged = Append(@, [kind |-> kind, position |-> position])]

\* Slip: `enter` without the check for `None`.
EnterWindowUnchecked(s, window) ==
    [s EXCEPT !.focus = window, !.visible = @ \cup {window}]

\* Focus a window and send it `enter`, when there is one.
EnterWindow(s, window) ==
    IF window = NoWindow THEN s
    ELSE [s EXCEPT !.focus = window, !.visible = @ \cup {window}]

PushActiveToParent(s) ==
    IF ActiveLayout(s).id = DefaultLayout.id THEN s
    ELSE [s EXCEPT !.parents = Append(@, ActiveLayout(s).id)]

\* Only the window at the position is focused and entered, not its sibling.
SetActive(s, position, clearParents) ==
    LET unfocused == [s EXCEPT !.focus = NoWindow]
        entered == EnterWindow(unfocused, WindowAt(s, position))
        cleared == IF clearParents THEN [entered EXCEPT !.parents = <<>>]
                                   ELSE entered
    IN  Stage(cleared, "active", PrimaryOf(position.index))

\* Layout::new, pushed at the end.
AppendLayout(s, window) ==
    [s EXCEPT !.layouts = Append(@, [primary |-> window, secondary |-> NoWindow,
                                     id |-> s.nextId]),
              !.nextId = @ + 1]

Create(s, window) ==
    LET added == AppendLayout(PushActiveToParent(s), window)
    IN  SetActive(added, PrimaryOf(Len(added.layouts)), FALSE)

\* Without an active layout the first step goes to the first layout.
CycleActive(s, step) ==
    LET count == Len(s.layouts)
        target == IF s.active = 0 THEN 0 ELSE (s.active - 1 + step) % count
    IN  IF count = 0 THEN s ELSE SetActive(s, PrimaryOf(target + 1), TRUE)

SetPrimary(s, position) ==
    IF position.index \notin DOMAIN s.layouts THEN s
    ELSE IF s.layouts[position.index].secondary = NoWindow
         THEN SetActive(s, position, TRUE)
         ELSE Stage(EnterWindow(s, WindowAt(s, position)), "primary", position)

SetSecondary(s, position) ==
    IF position.index \notin DOMAIN s.layouts THEN s
    ELSE IF ActiveLayout(s).primary = NoWindow
         THEN SetPrimary(s, position)
         ELSE Stage(EnterWindow(s, WindowAt(s, position)), "secondary", position)

----------------------------------------------------------------------------
(* Applying staged changes. *)

LeaveActive(s) == [s EXCEPT !.visible = @ \ WindowsOf(ActiveLayout(s))]

ApplySetActive(s, index) ==
    IF index = s.active THEN s ELSE [LeaveActive(s) EXCEPT !.active = index]

\* The secondary window of the layout at `index` gets a layout of its own.
SplitSecondary(s, index) ==
    LET window == s.layouts[index].secondary
    IN  IF window = NoWindow THEN s
        ELSE AppendLayout([s EXCEPT !.layouts[index].secondary = NoWindow], window)

ApplyPrimary(s, position) ==
    LET split == SplitSecondary(s, position.index)
    IN  IF WindowAt(s, position) = NoWindow THEN s
        ELSE [LeaveActive(split) EXCEPT
                !.active = IF position.secondary THEN Len(split.layouts)
                                                 ELSE position.index]

\* Slip: a secondary is read from its layout and not taken out of it.
TakeWindowKeeping(s, position) ==
    LET from == s.layouts[position.index]
    IN  [s EXCEPT !.layouts[position.index] =
                      [from EXCEPT !.primary = Occupant(from, ~position.secondary)]]

\* The window leaves its layout; its sibling, if any, is the primary from now on.
TakeWindow(s, position) ==
    LET from == s.layouts[position.index]
        sibling == Occupant(from, ~position.secondary)
    IN  [s EXCEPT !.layouts[position.index] =
                      [from EXCEPT !.primary = sibling, !.secondary = NoWindow],
                  !.visible = IF position.secondary THEN @ ELSE @ \ {sibling}]

\* Slip: the booted secondary is dropped.
PutSecondaryDropping(s, index, window) ==
    [s EXCEPT !.layouts[index].secondary = window]

\* The booted secondary, if any, gets a layout of its own.
PutSecondary(s, index, window) ==
    LET placed == [s EXCEPT !.layouts[index].secondary = window]
        booted == s.layouts[index].secondary
    IN  IF booted = NoWindow THEN placed ELSE AppendLayout(placed, booted)

\* With no active layout a window that was alone is taken and put nowhere.
ApplySecondary(s, position) ==
    LET window == WindowAt(s, position)
        taken == TakeWindow(s, position)
        last == Len(s.layouts) + 1
        opened == [taken EXCEPT !.layouts = Append(@, DefaultLayout),
                                !.active = last]
    IN  IF window = NoWindow THEN s
        ELSE IF s.active \in DOMAIN s.layouts
             THEN PutSecondary(taken, s.active, window)
        ELSE IF taken.layouts[position.index].primary = NoWindow
             THEN [taken EXCEPT !.active = position.index]
             ELSE PutSecondary(opened, last, window)

ApplyStaged(s, t) ==
    CASE t.kind = "active" -> ApplySetActive(s, t.position.index)
      [] t.kind = "primary" -> ApplyPrimary(s, t.position)
      [] t.kind = "secondary" -> ApplySecondary(s, t.position)

\* Slip: staged transactions are applied from the last to the first.
StagedRunReversed(s) ==
    LET run[n \in 0..Len(s.staged)] ==
          IF n = 0 THEN s
          ELSE ApplyStaged(run[n - 1], s.staged[Len(s.staged) + 1 - n])
    IN  run

\* The states the loop over the staged transactions goes through.
StagedRun(s) ==
    LET run[n \in 0..Len(s.staged)] ==
          IF n = 0 THEN s ELSE ApplyStaged(run[n - 1], s.staged[n])
    IN  run

\* Slip: the secondary that takes a dead primary's place may be dead as well.
SurvivorUnchecked(layout, dead) ==
    IF layout.primary \in dead
    THEN [layout EXCEPT !.primary = layout.secondary, !.secondary = NoWindow]
    ELSE [layout EXCEPT !.secondary = IF @ \in dead THEN NoWindow ELSE @]

\* A layout without its dead windows: a secondary takes a dead primary's place.
Survivor(layout, dead) ==
    LET secondary == IF layout.secondary \in dead THEN NoWindow
                                                  ELSE layout.secondary
    IN  IF layout.primary \in dead
        THEN [layout EXCEPT !.primary = secondary, !.secondary = NoWindow]
        ELSE [layout EXCEPT !.secondary = secondary]

\* Slip: the index of the active layout is not moved along.
ReapLayoutFixedIndex(r, i, layout) ==
    IF WindowsOf(layout) # {}
    THEN [r EXCEPT !.kept = Append(@, layout)]
    ELSE [r EXCEPT !.clear = @ \/ i = r.active]

\* One round of the `retain_mut` closure, at index `i`.
ReapLayout(r, i, layout) ==
    IF WindowsOf(layout) # {}
    THEN [r EXCEPT !.kept = Append(@, layout)]
    ELSE IF i < r.active THEN [r EXCEPT !.active = @ - 1]
    ELSE IF i = r.active THEN [r EXCEPT !.clear = TRUE]
    ELSE r

\* The states `retain_mut` goes through: layouts kept so far, active index
\* (compared with each original index while it is being decremented), and
\* whether the active layout was found dead.
ReapRun(s) ==
    LET run[n \in 0..Len(s.layouts)] ==
          IF n = 0 THEN [kept |-> <<>>, active |-> s.active, clear |-> FALSE]
          ELSE ReapLayout(run[n - 1], n, Survivor(s.layouts[n], s.dead))
    IN  run

\* The layout to come back to when there is no parent: home, else the first.
HomeOrFirst(s) ==
    IF HomeIndex(s) # 0 THEN HomeIndex(s)
    ELSE IF s.layouts = <<>> THEN 0 ELSE 1

ParentIndex(s) ==
    IF s.parents = <<>> THEN 0 ELSE IndexOfId(s, Last(s.parents))

\* The active layout died: back to its parent, else home, else the first.
RestoreParent(s) ==
    IF ParentIndex(s) # 0
    THEN [s EXCEPT !.active = ParentIndex(s), !.parents = Front(@)]
    ELSE [s EXCEPT !.active = HomeOrFirst(s), !.parents = <<>>]

Reap(s) ==
    LET end == ReapRun(s)[Len(s.layouts)]
        reaped == [s EXCEPT !.layouts = end.kept, !.active = end.active]
    IN  IF end.clear THEN RestoreParent(reaped) ELSE reaped

ApplyTransaction(s) ==
    Reap([StagedRun(s)[Len(s.staged)] EXCEPT !.staged = <<>>])
============================================================================
