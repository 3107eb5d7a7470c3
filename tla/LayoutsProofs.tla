--------------------------- MODULE LayoutsProofs ---------------------------
(***************************************************************************)
(* The theorems about Layouts, for any windows and bounds; what they need  *)
(* of the operations is proved in LayoutOpsProofs.                         *)
(***************************************************************************)
EXTENDS Layouts, LayoutOpsProofs

----------------------------------------------------------------------------
(* The theorems.                                                            *)

\* Windows in layouts were created, so a window that is added is in none: this
\* is what makes the ownership of windows inductive.  A staged move has a layout
\* to move to, which is what keeps the window when it is applied.
IInv == Valid(ls) /\ NoneEmpty(ls.layouts) /\ MovesHaveActive(ls)

LEMMA InitIInv == Init => IInv
<1> SUFFICES ASSUME Init PROVE IInv
  OBVIOUS
<1>1. /\ ls = InitialLayouts
      /\ <<>> \in Seq(Layout) /\ <<>> \in Seq(Transaction) /\ <<>> \in Seq(Nat)
  BY DEF Init
<1>2. ls \in LayoutState /\ ls.layouts = <<>> /\ ls.staged = <<>>
  BY <1>1 DEF InitialLayouts, LayoutState, WindowOrNone
<1> QED
  BY <1>2 DEF IInv, Valid, Disjoint, Within, NoneEmpty, MovesHaveActive

\* Steps that leave the layouts and the created windows alone.
LEMMA SameStep ==
    ASSUME IInv, ls' \in LayoutState, SameLayouts(ls, ls'), MovesHaveActive(ls')
    PROVE  IInv'
BY DEF IInv, Valid, SameLayouts

LEMMA AddStep ==
    ASSUME IInv, NEW w \in Windows, Add(w)
    PROVE  IInv'
<1> DEFINE s == Create([ls EXCEPT !.created = @ \cup {w}], w)
           seen == IF w \in X11Windows THEN s.visible \cup {w} ELSE s.visible
           t == [s EXCEPT !.focus = w, !.visible = seen]
<1>1. w \notin ls.created /\ ls' = t
  BY DEF Add
<1>2. Valid(s) /\ NoneEmpty(s.layouts) /\ MovesHaveActive(s)
  BY <1>1, CreateLemma, CreateMoves DEF IInv
<1> HIDE DEF s
<1>3. /\ t \in LayoutState /\ t.layouts = s.layouts /\ t.created = s.created
      /\ t.staged = s.staged /\ t.active = s.active
  <2>1. seen \in SUBSET Windows /\ w \in WindowOrNone
    BY <1>2 DEF Valid, LayoutState, WindowOrNone
  <2> HIDE DEF seen
  <2> QED
    BY <1>2, <2>1 DEF Valid, LayoutState
<1> HIDE DEF t
<1> QED
  BY <1>1, <1>2, <1>3 DEF IInv, Valid, MovesHaveActive

LEMMA ActivateStep ==
    ASSUME IInv, NEW p \in Position, NEW clear \in BOOLEAN,
           ls' = SetActive(ls, p, clear)
    PROVE  IInv'
<1>1. ls' \in LayoutState /\ SameLayouts(ls, ls')
  BY SetActiveLemma DEF IInv, Valid
<1>2. MovesHaveActive(ls')
  BY SetActiveMoves DEF IInv, Valid
<1> QED
  BY <1>1, <1>2, SameStep

LEMMA FocusOverlayStep ==
    ASSUME IInv, NEW p \in Position, FocusOverlay(p)
    PROVE  IInv'
<1> DEFINE pushed == PushActiveToParent(ls)
<1>1. ls' = SetActive(pushed, p, FALSE)
  BY DEF FocusOverlay
<1>2. /\ pushed \in LayoutState /\ SameLayouts(ls, pushed)
      /\ MovesHaveActive(pushed)
  BY PushActiveToParentLemma, PushMoves DEF IInv, Valid
<1> HIDE DEF pushed
<1>3. /\ ls' \in LayoutState /\ SameLayouts(pushed, ls')
      /\ MovesHaveActive(ls')
  BY <1>1, <1>2, SetActiveLemma, SetActiveMoves
<1>4. SameLayouts(ls, ls')
  BY <1>2, <1>3 DEF SameLayouts
<1> QED
  BY <1>3, <1>4, SameStep

LEMMA CycleStep ==
    ASSUME IInv, NEW step \in {-1, 1}, Cycle(step)
    PROVE  IInv'
BY CycleActiveLemma, CycleActiveMoves, SameStep DEF Cycle, IInv, Valid

LEMMA DropStep ==
    ASSUME IInv, NEW p \in Position, DropPrimary(p) \/ DropSecondary(p)
    PROVE  IInv'
<1>1. CASE DropPrimary(p)
  BY <1>1, SetPrimaryLemma, SetPrimaryMoves, SameStep DEF DropPrimary, IInv, Valid
<1>2. CASE DropSecondary(p)
  BY <1>2, SetSecondaryLemma, SetSecondaryMoves, SameStep
     DEF DropSecondary, IInv, Valid
<1> QED
  BY <1>1, <1>2

LEMMA DieStep ==
    ASSUME IInv, NEW ws \in SUBSET (Owned(ls) \ ls.dead), Die(ws)
    PROVE  IInv'
<1>1. ls \in LayoutState /\ ws \subseteq Windows
  <2>1. ls \in LayoutState /\ Owned(ls) \subseteq ls.created
    BY DEF IInv, Valid, Within, Owned
  <2> QED
    BY <2>1 DEF LayoutState
<1>2. /\ ls' \in LayoutState /\ ls'.layouts = ls.layouts
      /\ ls'.created = ls.created /\ ls'.staged = ls.staged /\ ls'.active = ls.active
  BY <1>1 DEF Die, LayoutState
<1> QED
  BY <1>2 DEF IInv, Valid, MovesHaveActive

\* Whatever Apply does, no dead window and no empty layout is left.
LEMMA ApplyStep ==
    ASSUME IInv, Apply
    PROVE  IInv' /\ Owned(ls)' \cap ls.dead = {}
<1>1. /\ Valid(ls')
      /\ NoneEmpty(ls'.layouts)
      /\ Within(ls'.layouts, ls.created \ ls.dead)
      /\ ls'.staged = <<>>
  BY ApplyTransactionLemma DEF IInv, Apply
<1> QED
  BY <1>1 DEF IInv, Owned, Within, MovesHaveActive

LEMMA PositionsLemma ==
    ASSUME IInv
    PROVE  /\ OccupiedPositions \subseteq Position
           /\ NoPosition \in Position
           /\ \A i \in Nat : PrimaryOf(i) \in Position
           /\ \A i \in Nat, b \in BOOLEAN : [index |-> i, secondary |-> b] \in Position
           /\ DOMAIN ls.layouts \subseteq Nat
           /\ Len(ls.layouts) \in Nat
<1>1. ls.layouts \in Seq(Layout)
  BY DEF IInv, Valid, LayoutState
<1>2. DOMAIN ls.layouts \subseteq Nat /\ Len(ls.layouts) \in Nat
  BY <1>1
<1> QED
  BY <1>2 DEF OccupiedPositions, Position, NoPosition, PrimaryOf

LEMMA NextIInv == IInv /\ [Next]_vars => IInv'
<1> SUFFICES ASSUME IInv, [Next]_vars PROVE IInv'
  OBVIOUS
<1> USE PositionsLemma
<1>1. ASSUME NEW w \in Windows, Add(w) PROVE IInv'
  BY <1>1, AddStep
<1>2. ASSUME NEW p \in OccupiedPositions, NEW clear \in BOOLEAN, Activate(p, clear)
      PROVE  IInv'
  BY <1>2, ActivateStep DEF Activate
<1>3. ASSUME NEW i \in DOMAIN ls.layouts, SwitchTo(i) PROVE IInv'
  <2>1. PrimaryOf(i) \in Position /\ ls' = SetActive(ls, PrimaryOf(i), TRUE)
    BY <1>3 DEF SwitchTo
  <2> QED
    BY <2>1, ActivateStep
<1>4. ASSUME ActivateNone PROVE IInv'
  BY <1>4, ActivateStep DEF ActivateNone
<1>5. ASSUME NEW p \in OccupiedPositions, FocusOverlay(p) PROVE IInv'
  BY <1>5, FocusOverlayStep
<1>6. ASSUME NEW i \in 1..(Len(ls.layouts) + 1), NEW b \in BOOLEAN, DebugFocus(i, b)
      PROVE  IInv'
  <2> DEFINE p == [index |-> i, secondary |-> b]
  <2>1. p \in Position /\ ls' = SetActive(ls, p, TRUE)
    BY <1>6 DEF DebugFocus
  <2> HIDE DEF p
  <2> QED
    BY <2>1, ActivateStep
<1>7. ASSUME NEW step \in {-1, 1}, Cycle(step) PROVE IInv'
  BY <1>7, CycleStep
<1>8. ASSUME NEW p \in OccupiedPositions, DropPrimary(p) \/ DropSecondary(p)
      PROVE  IInv'
  BY <1>8, DropStep
<1>9. ASSUME NEW ws \in SUBSET (Owned(ls) \ ls.dead), Die(ws) PROVE IInv'
  BY <1>9, DieStep
<1>10. ASSUME Apply PROVE IInv'
  BY <1>10, ApplyStep
<1>11. CASE UNCHANGED vars
  BY <1>11 DEF IInv, vars
<1> QED
  BY <1>1, <1>2, <1>3, <1>4, <1>5, <1>6, <1>7, <1>8, <1>9, <1>10, <1>11 DEF Next

LEMMA SpecIInv == Spec => []IInv
BY InitIInv, NextIInv, PTL DEF Spec

----------------------------------------------------------------------------

\* The layout state keeps its type, with any windows and any number of staged
\* transactions, parents and layout ids.
THEOREM TypeCorrect == Spec => []TypeOK
<1>1. IInv => TypeOK
  BY DEF IInv, Valid, TypeOK
<1> QED
  BY <1>1, SpecIInv, PTL

\* A window sits in one slot of one layout, however windows are split off,
\* taken, booted and reaped.
THEOREM OneSlotPerWindow == Spec => []UniqueOwnership
<1>1. IInv => UniqueOwnership
  <2> SUFFICES ASSUME IInv,
                      NEW i \in DOMAIN ls.layouts, NEW j \in DOMAIN ls.layouts,
                      NEW a \in BOOLEAN, NEW b \in BOOLEAN,
                      Occupant(ls.layouts[i], a) # NoWindow,
                      Occupant(ls.layouts[i], a) = Occupant(ls.layouts[j], b)
               PROVE  i = j /\ a = b
    BY DEF UniqueOwnership
  <2>1. /\ Occupant(ls.layouts[i], a) \in WindowsOf(ls.layouts[i])
        /\ Occupant(ls.layouts[j], b) \in WindowsOf(ls.layouts[j])
    BY DEF Occupant, WindowsOf
  <2>2. i = j
    BY <2>1 DEF IInv, Valid, Disjoint
  <2>3. ls.layouts[i].primary = ls.layouts[i].secondary
          => ls.layouts[i].primary = NoWindow
    BY DEF IInv, Valid, Disjoint
  <2>4. a = b
    BY <2>2, <2>3 DEF Occupant
  <2> QED
    BY <2>2, <2>4
<1> QED
  BY <1>1, SpecIInv, PTL

\* No layout is ever without windows.
THEOREM LayoutsHoldWindows == Spec => []NoEmptyLayout
<1>1. IInv => NoEmptyLayout
  BY DEF IInv, NoneEmpty, NoEmptyLayout
<1> QED
  BY <1>1, SpecIInv, PTL

\* The layouts are well formed whatever batches of changes are applied.
THEOREM LayoutsWellFormed == Spec => []WellFormed
BY OneSlotPerWindow, LayoutsHoldWindows, PTL DEF WellFormed

\* Applying a transaction leaves no dead window in any slot.
THEOREM DeadWindowsLeave == Spec => DeadReaped
<1>1. IInv /\ [Next]_vars => [Apply => Owned(ls)' \cap ls.dead = {}]_vars
  BY ApplyStep
<1> QED
  BY <1>1, SpecIInv, PTL DEF Spec, DeadReaped

\* Applying drops no live window, in whatever order windows were split off, taken
\* and booted, unless the layouts were given up before a move.
THEOREM LiveWindowsAreKept == Spec => WindowsKept
<1>1. ASSUME IInv, Apply, ~GivenUpBeforeMove
      PROVE  LiveWindows(ls) \subseteq Owned(ls)'
  <2>1. Valid(ls) /\ MovesHaveActive(ls) /\ NotGivenUp(ls)
    BY <1>1 DEF IInv, GivenUpBeforeMove, NotGivenUp
  <2>2. ASSUME NEW w \in LiveWindows(ls) PROVE w \in Owned(ls')
    <3>1. w \in Windows \ ls.dead /\ Placed(w, ls.layouts)
      BY <2>1, <2>2 DEF LiveWindows, Owned, Placed, Valid, Within, LayoutState
    <3>2. Placed(w, ls'.layouts)
      BY <1>1, <2>1, <3>1, ApplyKeepsLive DEF Apply
    <3> QED
      BY <3>2 DEF Owned, Placed
  <2> QED
    BY <2>2 DEF Owned
<1>2. IInv /\ [Next]_vars
        => [Apply /\ ~GivenUpBeforeMove => LiveWindows(ls) \subseteq Owned(ls)']_vars
  BY <1>1
<1> QED
  BY <1>2, SpecIInv, PTL DEF Spec, WindowsKept

\* Staged activations end in the layout that focus and sizes were chosen for,
\* unless something died meanwhile.
THEOREM PendingIsActive == Spec => PendingReached
<1> DEFINE Undisturbed ==
             /\ \A k \in DOMAIN ls.staged :
                  /\ ls.staged[k].kind = "active"
                  /\ ls.staged[k].position.index \in {0} \cup DOMAIN ls.layouts
             /\ Owned(ls) \cap ls.dead = {}
<1>1. ASSUME IInv, Apply, Undisturbed
      PROVE  ActiveLayout(ls') = PendingActive(ls)
  <2>1. Valid(ls) /\ NoneEmpty(ls.layouts) /\ OnlyActivations(ls)
    BY <1>1 DEF IInv, OnlyActivations
  <2>2. \A i \in DOMAIN ls.layouts : WindowsOf(ls.layouts[i]) \cap ls.dead = {}
    BY <1>1 DEF Owned
  <2> QED
    BY <1>1, <2>1, <2>2, PendingIsReached DEF Apply
<1>2. IInv /\ [Next]_vars
        => [Apply /\ Undisturbed => ActiveLayout(ls') = PendingActive(ls)]_vars
  BY <1>1
<1> QED
  BY <1>2, SpecIInv, PTL DEF Spec, PendingReached

\* What outlives a layout has the windows of it that live.
LEMMA SurvivorWindows ==
    ASSUME IInv, NEW i \in DOMAIN ls.layouts
    PROVE  WindowsOf(Survivor(ls.layouts[i], ls.dead)) = WindowsOf(ls.layouts[i]) \ ls.dead
<1>1. /\ ls.layouts[i] \in Layout /\ ls.dead \in SUBSET Windows
      /\ ls.layouts[i].primary = ls.layouts[i].secondary
           => ls.layouts[i].primary = NoWindow
  BY DEF IInv, Valid, LayoutState, Disjoint
<1> QED
  BY <1>1, SurvivorLemma

LEMMA SurvivorStays ==
    ASSUME IInv, Apply, ls.staged = <<>>,
           ls.active \in DOMAIN ls.layouts \ Emptied(ls),
           Cardinality({i \in Emptied(ls) : i < ls.active}) <= 1
    PROVE  WindowsOf(ActiveLayout(ls')) = WindowsOf(ActiveLayout(ls)) \ ls.dead
<1> DEFINE before == {i \in Emptied(ls) : i < ls.active}
<1>1. /\ Valid(ls) /\ ls.active \in Nat \ {0} /\ ls.active \in DOMAIN ls.layouts
      /\ DOMAIN ls.layouts \subseteq Nat \ {0} /\ ~Gone(ls, ls.active)
      /\ Emptied(ls) = {i \in DOMAIN ls.layouts : Gone(ls, i)}
  BY DEF IInv, Valid, LayoutState, Emptied, Gone
<1>2. ls' = Reap(ls)
  BY <1>1, ApplyNothingStaged DEF Apply
<1>3. PICK gone \in Nat :
        /\ gone < ls.active
        /\ \A i \in DOMAIN ls.layouts : i < ls.active => (Gone(ls, i) <=> i = gone)
  <2>1. CASE before = {}
    <3>1. \A i \in DOMAIN ls.layouts : i < ls.active => (Gone(ls, i) <=> i = 0)
      BY <1>1, <2>1
    <3> QED
      BY <1>1, <3>1
  <2>2. CASE before # {}
    <3>1. PICK gone \in before : TRUE
      BY <2>2
    <3>2. before \in SUBSET (0..ls.active) /\ Cardinality(before) <= 1
      BY <1>1
    <3>3. \A i \in before : i = gone
      BY <1>1, <3>2, AtMostOne
    <3>4. gone \in Nat /\ gone < ls.active /\ Gone(ls, gone)
      BY <1>1, <3>1
    <3>5. \A i \in DOMAIN ls.layouts : i < ls.active => (Gone(ls, i) <=> i = gone)
      BY <1>1, <3>3, <3>4
    <3> QED
      BY <3>4, <3>5
  <2> QED
    BY <2>1, <2>2
<1>4. ActiveLayout(ls') = Survivor(ActiveLayout(ls), ls.dead)
  BY <1>1, <1>2, <1>3, ActiveIsKept
<1>5. ActiveLayout(ls) = ls.layouts[ls.active]
  BY <1>1 DEF ActiveLayout, LayoutAt
<1> QED
  BY <1>1, <1>4, <1>5, SurvivorWindows

LEMMA ParentIsRestored ==
    ASSUME IInv, Apply, ls.staged = <<>>,
           ls.active \in Emptied(ls), \A i \in Emptied(ls) : ls.active <= i,
           ls.parents # <<>>,
           IndexOfId(ls, Last(ls.parents)) \notin Emptied(ls) \cup {0}
    PROVE  ActiveLayout(ls').id = Last(ls.parents)
<1> DEFINE id == Last(ls.parents)
           found == {i \in DOMAIN ls.layouts : ls.layouts[i].id = id}
           m == IndexOfId(ls, id)
<1>1. /\ Valid(ls) /\ DOMAIN ls.layouts \subseteq Nat
      /\ Emptied(ls) = {i \in DOMAIN ls.layouts : Gone(ls, i)}
  BY DEF IInv, Valid, LayoutState, Emptied, Gone
<1>2. ls' = Reap(ls)
  BY <1>1, ApplyNothingStaged DEF Apply
<1>3. m \in DOMAIN ls.layouts /\ ls.layouts[m].id = id /\ ~Gone(ls, m)
  <2>1. m = First(found) /\ found \in SUBSET Nat
    BY <1>1 DEF IndexOfId
  <2>2. found # {}
    BY <2>1 DEF First
  <2>3. m \in found
    BY <2>1, <2>2, FirstLemma
  <2> QED
    BY <1>1, <2>3
<1> HIDE DEF m, found
<1> QED
  BY <1>1, <1>2, <1>3, ParentComesBack

\* The active layout outlives the layouts around it, and gives way to the one it
\* was created from when it dies.
THEOREM ActiveLayoutIsKept == Spec => ActiveLayoutKept
<1> DEFINE Survives ==
             /\ ls.staged = <<>>
             /\ ls.active \in DOMAIN ls.layouts \ Emptied(ls)
             /\ Cardinality({i \in Emptied(ls) : i < ls.active}) <= 1
           Dies ==
             /\ ls.staged = <<>>
             /\ ls.active \in Emptied(ls)
             /\ \A i \in Emptied(ls) : ls.active <= i
             /\ ls.parents # <<>>
             /\ IndexOfId(ls, Last(ls.parents)) \notin Emptied(ls) \cup {0}
<1>1. IInv /\ [Next]_vars
        => [Apply /\ Survives
              => WindowsOf(ActiveLayout(ls')) = WindowsOf(ActiveLayout(ls)) \ ls.dead]_vars
  BY SurvivorStays
<1>2. IInv /\ [Next]_vars
        => [Apply /\ Dies => ActiveLayout(ls').id = Last(ls.parents)]_vars
  BY ParentIsRestored
<1>3. Spec => SurvivorStaysActive
  BY <1>1, SpecIInv, PTL DEF Spec, SurvivorStaysActive
<1>4. Spec => ParentRestored
  BY <1>2, SpecIInv, PTL DEF Spec, ParentRestored
<1> QED
  BY <1>3, <1>4 DEF ActiveLayoutKept
============================================================================
