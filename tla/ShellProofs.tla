---------------------------- MODULE ShellProofs ----------------------------
(***************************************************************************)
(* Proofs about Shell, for any windows and bounds.  A handler is a chain   *)
(* of helpers from a `wm` to a `wm`; each helper keeps a window manager    *)
(* with its types (Good), and what is said of the timer and of the lock is *)
(* followed along the chain.                                               *)
(*                                                                         *)
(* PendingHasTimer is inductive together with Good: a helper that stages   *)
(* or sets a pending view starts the timer, and only an update, which      *)
(* leaves nothing behind, stops it.  That the layouts are disjoint is part *)
(* of Good because the proofs about `apply_transaction` need it.           *)
(***************************************************************************)
EXTENDS Shell, LayoutOpsProofs

Timers == {"idle", "fresh", "aging", "expired"}

Managers == [ls : LayoutState, view : Views,
             pending : Views \cup {NoTransaction, NoPendingView}, timer : Timers]

Good(m) == m \in Managers /\ Valid(m.ls)

Running(m) == m.timer # "idle"

\* What is staged or pending has a timer.
Timed(m) == m.ls.staged # <<>> \/ m.pending # NoTransaction => Running(m)

Locked(m) == PendingView(m).kind = "lock"

SameViews(m, l) == l.view = m.view /\ l.pending = m.pending

IInv ==
    /\ Good(wm)
    /\ Timed(wm)
    /\ unacked \subseteq Windows
    /\ unacked # {} => Running(wm)

\* What every step but an unlock and a new window has to show.
Step == IInv' /\ (Locked(wm) => Locked(wm'))

----------------------------------------------------------------------------
(* Views. *)

LEMMA ViewsLemma ==
    /\ Workspace \in Views /\ Workspace.kind = "workspace"
    /\ Overview \in Views /\ Overview.kind = "overview"
    /\ \A w \in Windows : /\ Fullscreen(w) \in Views /\ Fullscreen(w).kind = "fullscreen"
                          /\ Fullscreen(w).window = w
                          /\ DragAndDrop(w) \in Views /\ DragAndDrop(w).kind = "dnd"
    /\ \A s \in LockSurfaces \cup {NoWindow} :
          Lock(s) \in Views /\ Lock(s).kind = "lock"
BY DEF Views, Workspace, Overview, Fullscreen, DragAndDrop, Lock, View

LEMMA KindsLemma ==
    ASSUME NEW v \in Views
    PROVE  /\ v.kind \in {"workspace", "overview", "fullscreen", "dnd", "lock"}
           /\ v.kind = "fullscreen" => v.window \in Windows
           /\ v # NoTransaction /\ v # NoPendingView
<1>1. \E kind \in {"workspace", "overview", "fullscreen", "dnd", "lock"} : \E w :
        v = View(kind, w) /\ (kind = "fullscreen" => w \in Windows)
  BY DEF Views, Workspace, Overview, Fullscreen, DragAndDrop, Lock
<1> PICK kind \in {"workspace", "overview", "fullscreen", "dnd", "lock"} : \E w :
           v = View(kind, w) /\ (kind = "fullscreen" => w \in Windows)
  BY <1>1
<1>2. PICK w : v = View(kind, w) /\ (kind = "fullscreen" => w \in Windows)
  OBVIOUS
<1>3. v.kind = kind /\ v.window = w
  BY <1>2 DEF View
<1>4. NoTransaction.kind = "no transaction" /\ NoPendingView.kind = "no view"
  BY DEF NoTransaction, NoPendingView, View
<1> QED BY <1>2, <1>3, <1>4

LEMMA PendingViewLemma ==
    ASSUME NEW m, Good(m)
    PROVE  PendingView(m) \in Views
BY DEF Good, Managers, PendingView

\* The pending view of a window manager without a transaction is its view.
LEMMA PendingSet ==
    ASSUME NEW m, Good(m)
    PROVE  /\ m.pending \in Views => PendingView(m) = m.pending
           /\ m.pending = NoTransaction => PendingView(m) = m.view
           /\ m.pending = NoPendingView => PendingView(m) = m.view
BY KindsLemma DEF PendingView

----------------------------------------------------------------------------
(* Helpers. *)

LEMMA WithLs ==
    ASSUME NEW m, Good(m), NEW ls, Valid(ls)
    PROVE  LET l == [m EXCEPT !.ls = ls]
           IN  Good(l) /\ SameViews(m, l) /\ l.ls = ls /\ l.timer = m.timer
BY DEF Good, Managers, SameViews, Valid

LEMMA WithView ==
    ASSUME NEW m, Good(m), NEW view \in Views
    PROVE  LET l == [m EXCEPT !.view = view]
           IN  /\ Good(l) /\ l.view = view
               /\ l.pending = m.pending /\ l.ls = m.ls /\ l.timer = m.timer
BY DEF Good, Managers

LEMMA WithPending ==
    ASSUME NEW m, Good(m), NEW pending \in Views \cup {NoTransaction, NoPendingView}
    PROVE  LET l == [m EXCEPT !.pending = pending]
           IN  /\ Good(l) /\ l.pending = pending
               /\ l.view = m.view /\ l.ls = m.ls /\ l.timer = m.timer
BY DEF Good, Managers

LEMMA StartTimerLemma ==
    ASSUME NEW m, Good(m)
    PROVE  LET l == StartTimer(m)
           IN  Good(l) /\ Running(l) /\ SameViews(m, l) /\ l.ls = m.ls
BY DEF Good, Managers, Timers, StartTimer, Running, SameViews

LEMMA SetViewLemma ==
    ASSUME NEW m, Good(m), NEW view \in Views
    PROVE  LET l == SetView(m, view)
           IN  /\ Good(l) /\ l.ls = m.ls
               /\ Timed(m) => Timed(l)
               /\ Running(m) => Running(l)
               /\ Locked(m) => l = m
               /\ ~Locked(m) /\ view.kind # "overview" => Running(l)
<1>1. CASE Locked(m)
  BY <1>1 DEF SetView, Locked
<1>2. CASE ~Locked(m) /\ view.kind = "overview"
  <2> DEFINE pending == IF m.pending = NoTransaction THEN NoTransaction ELSE NoPendingView
             shown == [m EXCEPT !.view = view]
             l == [shown EXCEPT !.pending = pending]
  <2>1. SetView(m, view) = [m EXCEPT !.view = view, !.pending = pending]
    BY <1>2 DEF SetView, Locked
  <2>2. pending \in Views \cup {NoTransaction, NoPendingView}
    OBVIOUS
  <2>3. [m EXCEPT !.view = view, !.pending = pending] = l
    OBVIOUS
  <2>4. /\ Good(shown) /\ shown.pending = m.pending
        /\ shown.ls = m.ls /\ shown.timer = m.timer
    BY WithView
  <2> HIDE DEF shown
  <2>5. Good(l) /\ l.pending = pending /\ l.ls = shown.ls /\ l.timer = shown.timer
    BY <2>2, <2>4, WithPending
  <2> HIDE DEF l
  <2>6. Timed(m) => Timed(l)
    BY <2>4, <2>5 DEF Timed, Running
  <2>7. Running(m) => Running(l)
    BY <2>4, <2>5 DEF Running
  <2> QED BY <1>2, <2>1, <2>3, <2>4, <2>5, <2>6, <2>7
<1>3. CASE ~Locked(m) /\ view.kind # "overview"
  <2> DEFINE started == StartTimer(m)
             l == [started EXCEPT !.pending = view]
  <2>1. SetView(m, view) = l
    BY <1>3 DEF SetView, Locked
  <2>2. Good(started) /\ Running(started) /\ started.ls = m.ls
    BY StartTimerLemma
  <2> HIDE DEF started
  <2>3. Good(l) /\ l.ls = started.ls /\ l.timer = started.timer
    BY <2>2, WithPending
  <2> HIDE DEF l
  <2>4. Running(l) /\ Timed(l)
    BY <2>2, <2>3 DEF Timed, Running
  <2> QED BY <1>3, <2>1, <2>2, <2>3, <2>4
<1> QED BY <1>1, <1>2, <1>3

\* Setting layouts starts the timer when something was staged.
LEMMA SetLayoutsLemma ==
    ASSUME NEW m, Good(m), NEW ls, Valid(ls)
    PROVE  LET l == SetLayouts(m, ls)
           IN  /\ Good(l) /\ SameViews(m, l) /\ l.ls = ls
               /\ Running(m) => Running(l)
               /\ ls.staged # m.ls.staged => Running(l)
<1> DEFINE changed == [m EXCEPT !.ls = ls]
<1>1. Good(changed) /\ SameViews(m, changed) /\ changed.ls = ls /\ changed.timer = m.timer
  BY WithLs
<1>2. SetLayouts(m, ls)
        = IF ls.staged = m.ls.staged THEN changed ELSE StartTimer(changed)
  BY DEF SetLayouts
<1> HIDE DEF changed
<1>3. /\ Good(StartTimer(changed)) /\ Running(StartTimer(changed))
      /\ SameViews(changed, StartTimer(changed)) /\ StartTimer(changed).ls = changed.ls
  BY <1>1, StartTimerLemma
<1> QED BY <1>1, <1>2, <1>3 DEF SameViews, Running

LEMMA ActivateManager ==
    ASSUME NEW m, Good(m), NEW p \in Position, NEW clear \in BOOLEAN
    PROVE  LET l == Activate(m, p, clear)
           IN  /\ Good(l) /\ Running(l) /\ SameViews(m, l)
               /\ SameLayouts(m.ls, l.ls)
<1> DEFINE ls == SetActive(m.ls, p, clear)
<1>1. m.ls \in LayoutState /\ Valid(m.ls)
  BY DEF Good, Valid
<1>2. ls \in LayoutState /\ SameLayouts(m.ls, ls) /\ ls.staged # m.ls.staged
  BY <1>1, SetActiveLemma, SetActiveGrows
<1>3. Activate(m, p, clear) = SetLayouts(m, ls)
  BY DEF Activate
<1> HIDE DEF ls
<1>4. Valid(ls)
  BY <1>1, <1>2 DEF Valid, SameLayouts
<1> QED BY <1>2, <1>3, <1>4, SetLayoutsLemma

LEMMA PrimaryPosition ==
    ASSUME NEW i \in Nat
    PROVE  PrimaryOf(i) \in Position
BY DEF PrimaryOf, Position

LEMMA GoHomeLemma ==
    ASSUME NEW m, Good(m)
    PROVE  LET l == GoHome(m)
           IN  /\ Good(l) /\ Running(l) /\ SameViews(m, l)
               /\ SameLayouts(m.ls, l.ls)
<1>1. HomeOrFirst(m.ls) \in Nat
  BY IndexLemma DEF Good, Valid
<1> QED BY <1>1, PrimaryPosition, ActivateManager DEF GoHome

\* A window in a layout has a position.
LEMMA PositionOfLemma ==
    ASSUME Good(wm), NEW w \in Open
    PROVE  /\ PositionOf(w) \in Position
           /\ PositionOf(w).index \in DOMAIN wm.ls.layouts
<1> DEFINE Positions == [index : DOMAIN wm.ls.layouts, secondary : BOOLEAN]
<1>1. wm.ls.layouts \in Seq(Layout)
  BY DEF Good, Valid, LayoutState
<1>2. PICK i \in DOMAIN wm.ls.layouts : w \in WindowsOf(wm.ls.layouts[i])
  BY DEF Open, Owned
<1>3. \E p \in Positions : WindowAt(wm.ls, p) = w
  <2>1. CASE w = wm.ls.layouts[i].primary
    <3>1. [index |-> i, secondary |-> FALSE] \in Positions
          /\ WindowAt(wm.ls, [index |-> i, secondary |-> FALSE]) = w
      BY <2>1 DEF WindowAt, LayoutAt, Occupant
    <3> QED BY <3>1
  <2>2. CASE w = wm.ls.layouts[i].secondary
    <3>1. [index |-> i, secondary |-> TRUE] \in Positions
          /\ WindowAt(wm.ls, [index |-> i, secondary |-> TRUE]) = w
      BY <2>2 DEF WindowAt, LayoutAt, Occupant
    <3> QED BY <3>1
  <2> QED BY <1>2, <2>1, <2>2 DEF WindowsOf
<1>4. PositionOf(w) \in Positions
  BY <1>3 DEF PositionOf
<1>5. DOMAIN wm.ls.layouts \subseteq Nat
  BY <1>1
<1> QED BY <1>4, <1>5 DEF Position

----------------------------------------------------------------------------
(* The end of a handler. *)

LEMMA BecomeRunning ==
    ASSUME IInv, NEW m, Good(m), Running(m), NEW resized, Become(m, resized)
    PROVE  IInv' /\ wm' = m
<1> DEFINE able == (resized \cap m.ls.visible) \ m.ls.dead
<1>1. PICK waiting \in SUBSET able : unacked' = (unacked \ able) \cup waiting
  BY DEF Become
<1>2. able \subseteq Windows
  BY DEF Good, Valid, LayoutState
<1> HIDE DEF able
<1>3. wm' = m
  BY DEF Become
<1> QED BY <1>1, <1>2, <1>3 DEF IInv, Timed, Running

LEMMA BecomeQuiet ==
    ASSUME IInv, NEW m, Good(m), Timed(m), Running(wm) => Running(m), Become(m, {})
    PROVE  IInv' /\ wm' = m
<1>1. wm' = m /\ unacked' = unacked
  BY DEF Become
<1> QED BY <1>1 DEF IInv, Timed, Running

LEMMA UntouchedWindows ==
    ASSUME IInv, NEW m, Good(m), Timed(m), Running(wm) => Running(m), wm' = m,
           unacked' \subseteq unacked
    PROVE  IInv'
BY DEF IInv, Timed, Running

LEMMA LockedLemma ==
    ASSUME NEW m, Good(m), NEW l, Good(l), SameViews(m, l)
    PROVE  Locked(m) <=> Locked(l)
BY DEF Locked, PendingView, SameViews

LEMMA FocusLemma ==
    ASSUME NEW s, Valid(s), NEW w \in WindowOrNone
    PROVE  LET t == [s EXCEPT !.focus = w] IN Valid(t) /\ t.staged = s.staged
BY DEF Valid, LayoutState

LEMMA VisibleLemma ==
    ASSUME NEW s, Valid(s), NEW ws \in SUBSET Windows
    PROVE  LET t == [s EXCEPT !.visible = ws] IN Valid(t) /\ t.staged = s.staged
BY DEF Valid, LayoutState

\* Windows that die.
LEMMA DeadLemma ==
    ASSUME NEW m, Good(m), NEW ws \in SUBSET Windows
    PROVE  LET l == [m EXCEPT !.ls.dead = @ \cup ws]
           IN  /\ Good(l) /\ SameViews(m, l) /\ l.timer = m.timer
               /\ l.ls.staged = m.ls.staged
<1> DEFINE ls == [m.ls EXCEPT !.dead = @ \cup ws]
           l == [m EXCEPT !.ls = ls]
<1>1. Valid(ls) /\ ls.staged = m.ls.staged
  BY DEF Good, Valid, LayoutState
<1>2. [m EXCEPT !.ls.dead = @ \cup ws] = l
  BY DEF Good, Managers
<1> HIDE DEF ls
<1>3. Good(l) /\ SameViews(m, l) /\ l.ls = ls /\ l.timer = m.timer
  BY <1>1, WithLs
<1> HIDE DEF l
<1> QED BY <1>1, <1>2, <1>3

\* A handler that ends with a running timer.
LEMMA RunningStep ==
    ASSUME IInv, NEW m, Good(m), Running(m), NEW resized, Become(m, resized),
           Locked(wm) => Locked(m)
    PROVE  Step
BY BecomeRunning DEF Step

\* A change of the view and what it resizes: a locked session resizes nothing.
LEMMA SwitchStep ==
    ASSUME IInv, NEW m, Good(m), Timed(m), SameViews(wm, m), Running(wm) => Running(m),
           NEW view \in Views, view.kind # "overview",
           NEW resized,
           Locked(m) /\ ~Running(m) => resized = {},
           Become(SetView(m, view), resized)
    PROVE  Step
<1> DEFINE l == SetView(m, view)
<1>1. /\ Good(l) /\ (Locked(m) => l = m) /\ (~Locked(m) => Running(l))
      /\ (Running(m) => Running(l)) /\ Timed(l)
  BY SetViewLemma
<1>2. Become(l, resized)
  OBVIOUS
<1> HIDE DEF l
<1>3. Locked(wm) <=> Locked(m)
  BY LockedLemma DEF IInv
<1>4. CASE Running(l)
  <2>1. IInv' /\ wm' = l
    BY <1>1, <1>2, <1>4, BecomeRunning
  <2> QED BY <2>1, <1>1, <1>3 DEF Step
<1>5. CASE ~Running(l)
  <2>1. resized = {} /\ l = m
    BY <1>1, <1>5
  <2>2. IInv' /\ wm' = l
    BY <1>1, <1>2, <2>1, BecomeQuiet
  <2> QED BY <2>1, <2>2, <1>3 DEF Step
<1> QED BY <1>4, <1>5

LEMMA ResizedVisiblyLemma ==
    ASSUME NEW m, Locked(m)
    PROVE  ResizedVisibly(m) = {}
BY DEF ResizedVisibly, Locked

\* resize_visible after a change of the view.
LEMMA LeaveStep ==
    ASSUME IInv, NEW view \in Views, view.kind # "overview",
           Become(SetView(wm, view), ResizedVisibly(SetView(wm, view)))
    PROVE  Step
<1>1. Good(wm) /\ Timed(wm) /\ SameViews(wm, wm)
  BY DEF IInv, SameViews
<1>2. Locked(wm) => ResizedVisibly(SetView(wm, view)) = {}
  BY <1>1, SetViewLemma, ResizedVisiblyLemma
<1> QED BY <1>1, <1>2, SwitchStep

----------------------------------------------------------------------------
(* Requests of clients. *)

LEMMA AddStep ==
    ASSUME IInv, NEW w \in Windows, NEW known \in BOOLEAN, Add(w, known)
    PROVE  IInv'
<1> DEFINE created == Create([wm.ls EXCEPT !.created = @ \cup {w}], w)
           focused == [created EXCEPT !.focus = w]
           added == SetLayouts(wm, focused)
           view == IF known THEN Workspace ELSE Fullscreen(w)
           m == [added EXCEPT !.view = view]
<1>1. w \notin wm.ls.created /\ Become(m, {w})
  BY DEF Add
<1>2. Good(wm) /\ Valid(wm.ls) /\ w \in WindowOrNone
  BY DEF IInv, Good, WindowOrNone
<1>3. Valid(created) /\ created.staged # wm.ls.staged
  BY <1>1, <1>2, CreateLemma
<1> HIDE DEF created
<1>4. Valid(focused) /\ focused.staged # wm.ls.staged
  BY <1>2, <1>3, FocusLemma
<1> HIDE DEF focused
<1>5. Good(added) /\ Running(added)
  BY <1>2, <1>4, SetLayoutsLemma
<1>6. view \in Views
  BY ViewsLemma
<1> HIDE DEF added, view
<1>7. Good(m) /\ Running(m)
  BY <1>5, <1>6, WithView DEF Running
<1> HIDE DEF m
<1> QED BY <1>1, <1>7, BecomeRunning

LEMMA AddX11Step ==
    ASSUME IInv, NEW w \in Windows, AddX11(w)
    PROVE  IInv'
<1> DEFINE created == Create([wm.ls EXCEPT !.created = @ \cup {w}], w)
           focused == [created EXCEPT !.focus = w]
           added == SetLayouts(wm, focused)
           pending == IF added.pending = NoTransaction THEN NoTransaction
                      ELSE NoPendingView
           shown == [added EXCEPT !.view = Fullscreen(w)]
           m == [shown EXCEPT !.pending = pending]
<1>1. w \notin wm.ls.created /\ Become(m, {w})
  BY DEF AddX11
<1>2. Good(wm) /\ Valid(wm.ls) /\ w \in WindowOrNone
  BY DEF IInv, Good, WindowOrNone
<1>3. Valid(created) /\ created.staged # wm.ls.staged
  BY <1>1, <1>2, CreateLemma
<1> HIDE DEF created
<1>4. Valid(focused) /\ focused.staged # wm.ls.staged
  BY <1>2, <1>3, FocusLemma
<1> HIDE DEF focused
<1>5. Good(added) /\ Running(added)
  BY <1>2, <1>4, SetLayoutsLemma
<1> HIDE DEF added
<1>6. Good(shown) /\ Running(shown)
  BY <1>5, ViewsLemma, WithView DEF Running
<1> HIDE DEF shown
<1>7. Good(m) /\ Running(m)
  BY <1>6, WithPending DEF Running
<1> HIDE DEF m
<1> QED BY <1>1, <1>7, BecomeRunning

LEMMA CommitStep ==
    ASSUME IInv, NEW w \in Windows, Commit(w)
    PROVE  Step
<1>1. CASE w \in OverlayWindows /\ wm.view.kind = "fullscreen"
  <2>1. Become(SetView(wm, Workspace), ResizedVisibly(SetView(wm, Workspace)))
    BY <1>1 DEF Commit
  <2>2. Workspace \in Views /\ Workspace.kind # "overview"
    BY ViewsLemma
  <2> QED BY <2>1, <2>2, LeaveStep
<1>2. CASE ~(w \in OverlayWindows /\ wm.view.kind = "fullscreen")
  <2>1. wm' = wm /\ unacked' \subseteq unacked
    BY <1>2 DEF Commit
  <2> QED BY <2>1 DEF Step, IInv, Timed, Running
<1> QED BY <1>1, <1>2

LEMMA FullscreenStep ==
    ASSUME IInv, NEW w \in Windows, FullscreenRequest(w)
    PROVE  Step
<1>1. Become(SetView(wm, Fullscreen(w)), ResizedVisibly(SetView(wm, Fullscreen(w))))
  BY DEF FullscreenRequest
<1>2. Fullscreen(w) \in Views /\ Fullscreen(w).kind # "overview"
  BY ViewsLemma
<1> QED BY <1>1, <1>2, LeaveStep

LEMMA UnfullscreenStep ==
    ASSUME IInv, LeaveFullscreen(wm)
    PROVE  Step
<1>1. Become(SetView(wm, Workspace), ResizedVisibly(SetView(wm, Workspace)))
  BY DEF LeaveFullscreen
<1>2. Workspace \in Views /\ Workspace.kind # "overview"
  BY ViewsLemma
<1> QED BY <1>1, <1>2, LeaveStep

\* A window dies, and the timer runs.
LEMMA DiedLemma ==
    ASSUME Good(wm), NEW ws \in SUBSET Windows
    PROVE  LET died == [wm EXCEPT !.ls.dead = @ \cup ws]
               l == StartTimer(died)
           IN  /\ Good(died) /\ SameViews(wm, died)
               /\ Good(l) /\ Running(l) /\ SameViews(wm, l)
<1> DEFINE died == [wm EXCEPT !.ls.dead = @ \cup ws]
           l == StartTimer(died)
<1>1. Good(died) /\ SameViews(wm, died)
  BY DeadLemma
<1> HIDE DEF died
<1>2. Good(l) /\ Running(l) /\ SameViews(died, l)
  BY <1>1, StartTimerLemma
<1> HIDE DEF l
<1>3. SameViews(wm, l)
  BY <1>1, <1>2 DEF SameViews
<1> QED BY <1>1, <1>2, <1>3 DEF died, l

LEMMA ReapXdgStep ==
    ASSUME IInv, NEW w \in Windows, ReapXdg(w)
    PROVE  Step
<1> DEFINE died == [wm EXCEPT !.ls.dead = @ \cup {w}]
           left == IF wm.view = Fullscreen(w) THEN SetView(died, Workspace) ELSE died
           resized == IF wm.view = Fullscreen(w) THEN ResizedVisibly(left) ELSE {}
           l == StartTimer(left)
<1>1. Become(l, resized \cup SiblingsOf(w))
  BY DEF ReapXdg
<1>2. Good(wm)
  BY DEF IInv
<1>3. Good(died) /\ SameViews(wm, died)
  BY <1>2, DiedLemma
<1> HIDE DEF died
<1>4. Locked(wm) <=> Locked(died)
  BY <1>2, <1>3, LockedLemma
<1>5. Good(left) /\ (Locked(wm) => Locked(left))
  BY <1>3, <1>4, SetViewLemma, ViewsLemma
<1> HIDE DEF left, resized
<1>6. Good(l) /\ Running(l) /\ SameViews(left, l)
  BY <1>5, StartTimerLemma
<1> HIDE DEF l
<1>7. Locked(wm) => Locked(l)
  BY <1>5, <1>6, LockedLemma
<1> QED BY <1>1, <1>6, <1>7, RunningStep

LEMMA MarkDeadStep ==
    ASSUME IInv, NEW w \in Windows, MarkDeadX11(w)
    PROVE  IInv'
<1> DEFINE died == StartTimer([wm EXCEPT !.ls.dead = @ \cup {w}])
           switched == [died EXCEPT !.pending = Workspace]
           left == GoHome(switched)
<1>1. IF wm.view = Fullscreen(w)
      THEN Become(left, WindowsOf(PendingActive(left.ls)))
      ELSE Become(died, {})
  BY DEF MarkDeadX11
<1>2. Good(died) /\ Running(died)
  BY DiedLemma DEF IInv
<1> HIDE DEF died
<1>3. Good(switched)
  BY <1>2, WithPending, ViewsLemma
<1> HIDE DEF switched
<1>4. Good(left) /\ Running(left)
  BY <1>3, GoHomeLemma
<1> HIDE DEF left
<1>5. CASE wm.view = Fullscreen(w)
  BY <1>1, <1>4, <1>5, BecomeRunning
<1>6. CASE wm.view # Fullscreen(w)
  BY <1>1, <1>2, <1>6, BecomeRunning
<1> QED BY <1>5, <1>6

\* Windows that are shown or hidden.
LEMMA ShownLemma ==
    ASSUME Good(wm), NEW ws \in SUBSET Windows
    PROVE  LET l == [wm EXCEPT !.ls.visible = ws]
           IN  /\ Good(l) /\ SameViews(wm, l) /\ l.timer = wm.timer
               /\ l.ls.staged = wm.ls.staged
<1> DEFINE ls == [wm.ls EXCEPT !.visible = ws]
           l == [wm EXCEPT !.ls = ls]
<1>1. Valid(ls) /\ ls.staged = wm.ls.staged
  BY VisibleLemma DEF Good
<1>2. [wm EXCEPT !.ls.visible = ws] = l
  BY DEF Good, Managers
<1> HIDE DEF ls
<1>3. Good(l) /\ SameViews(wm, l) /\ l.ls = ls /\ l.timer = wm.timer
  BY <1>1, WithLs
<1> HIDE DEF l
<1> QED BY <1>1, <1>2, <1>3

LEMMA UnmapStep ==
    ASSUME IInv, NEW w \in Windows, HandleUnmapX11(w)
    PROVE  Step
<1> DEFINE less == [wm EXCEPT !.ls.visible = wm.ls.visible \ {w}]
           hidden == StartTimer(less)
           left == GoHome(hidden)
<1>0. [wm EXCEPT !.ls.visible = @ \ {w}] = less
  BY DEF IInv, Good, Managers
<1>1. IF wm.view = Fullscreen(w)
      THEN Become(left, WindowsOf(PendingActive(left.ls)))
      ELSE Become(hidden, {})
  BY <1>0 DEF HandleUnmapX11
<1>2. Good(wm) /\ wm.ls.visible \ {w} \in SUBSET Windows
  BY DEF IInv, Good, Valid, LayoutState
<1>3. Good(less) /\ SameViews(wm, less)
  BY <1>2, ShownLemma
<1> HIDE DEF less
<1>4. Good(hidden) /\ Running(hidden) /\ SameViews(less, hidden)
  BY <1>3, StartTimerLemma
<1> HIDE DEF hidden
<1>5. Good(left) /\ Running(left) /\ SameViews(hidden, left)
  BY <1>4, GoHomeLemma
<1> HIDE DEF left
<1>6. (Locked(wm) => Locked(hidden)) /\ (Locked(wm) => Locked(left))
  BY <1>2, <1>3, <1>4, <1>5, LockedLemma
<1>7. CASE wm.view = Fullscreen(w)
  BY <1>1, <1>5, <1>6, <1>7, RunningStep
<1>8. CASE wm.view # Fullscreen(w)
  BY <1>1, <1>4, <1>6, <1>8, RunningStep
<1> QED BY <1>7, <1>8

LEMMA MapStep ==
    ASSUME IInv, NEW w \in Windows, HandleMapX11(w)
    PROVE  IInv'
<1> DEFINE more == [wm EXCEPT !.ls.visible = wm.ls.visible \cup {w}]
           m == [more EXCEPT !.view = Fullscreen(w)]
<1>0. [wm EXCEPT !.ls.visible = @ \cup {w}, !.view = Fullscreen(w)] = m
  BY DEF IInv, Good, Managers
<1>1. Become(m, {})
  BY <1>0 DEF HandleMapX11
<1>2. Good(wm) /\ wm.ls.visible \cup {w} \in SUBSET Windows
  BY DEF IInv, Good, Valid, LayoutState
<1>3. /\ Good(more) /\ SameViews(wm, more) /\ more.timer = wm.timer
      /\ more.ls.staged = wm.ls.staged
  BY <1>2, ShownLemma
<1> HIDE DEF more
<1>4. /\ Good(m) /\ m.pending = more.pending /\ m.ls = more.ls
      /\ m.timer = more.timer
  BY <1>3, WithView, ViewsLemma
<1> HIDE DEF m
<1>5. Timed(m) /\ (Running(wm) => Running(m))
  BY <1>3, <1>4 DEF IInv, Timed, Running, SameViews
<1> QED BY <1>1, <1>4, <1>5, BecomeQuiet

LEMMA RaiseStep ==
    ASSUME IInv, NEW w \in Windows, Raise(w)
    PROVE  Step
<1> DEFINE m == Activate(wm, PositionOf(w), FALSE)
<1>1. Become(m, SiblingsOf(w)) /\ w \in Open
  BY DEF Raise
<1>2. Good(wm)
  BY DEF IInv
<1>3. Good(m) /\ Running(m) /\ SameViews(wm, m)
  BY <1>1, <1>2, PositionOfLemma, ActivateManager
<1> HIDE DEF m
<1> QED BY <1>1, <1>2, <1>3, LockedLemma, RunningStep

----------------------------------------------------------------------------
(* The session lock. *)

\* A step that resizes nothing.
LEMMA QuietStep ==
    ASSUME IInv, NEW m, Good(m), Timed(m), Running(wm) => Running(m),
           Locked(wm) => Locked(m), wm' = m, unacked' = unacked
    PROVE  Step
BY UntouchedWindows DEF Step

LEMMA ViewStep ==
    ASSUME IInv, NEW view \in Views, wm' = SetView(wm, view), unacked' = unacked
    PROVE  Step
<1> DEFINE m == SetView(wm, view)
<1>1. /\ Good(m) /\ Timed(m) /\ (Running(wm) => Running(m))
      /\ (Locked(wm) => m = wm)
  BY SetViewLemma DEF IInv
<1> HIDE DEF m
<1>2. wm' = m
  BY DEF m
<1> QED BY <1>1, <1>2, QuietStep

LEMMA UnlockStep ==
    ASSUME IInv, Unlock
    PROVE  IInv'
<1> DEFINE started == StartTimer(wm)
           m == [started EXCEPT !.pending = Workspace]
<1>1. Become(m, {})
  BY DEF Unlock
<1>2. Good(started) /\ Running(started)
  BY StartTimerLemma DEF IInv
<1> HIDE DEF started
<1>3. Good(m) /\ Running(m)
  BY <1>2, WithPending, ViewsLemma DEF Running
<1> HIDE DEF m
<1> QED BY <1>1, <1>3, BecomeRunning

LEMMA SetLockSurfaceStep ==
    ASSUME IInv, SetLockSurface
    PROVE  Step
<1> DEFINE lock == Lock(SetDimensions([visible |-> FALSE, sized |-> FALSE]))
           waiting == [wm EXCEPT !.pending = lock]
           shown == [wm EXCEPT !.view = lock]
<1>1. lock \in Views /\ lock.kind = "lock"
  <2>1. SetDimensions([visible |-> FALSE, sized |-> FALSE]) \in LockSurfaces
    BY DEF SetDimensions, LockSurfaces
  <2> QED BY <2>1, ViewsLemma
<1>2. /\ Good(wm) /\ Timed(wm) /\ Locked(wm) /\ unacked' = unacked
      /\ wm' = IF wm.pending.kind = "lock" THEN waiting ELSE shown
  BY DEF IInv, SetLockSurface, Locked
<1> HIDE DEF lock
<1>3. CASE wm.pending.kind = "lock"
  <2>1. /\ Good(waiting) /\ waiting.pending = lock /\ waiting.view = wm.view
        /\ waiting.ls = wm.ls /\ waiting.timer = wm.timer
    BY <1>1, <1>2, WithPending
  <2>2. wm.pending # NoTransaction
    <3>1. NoTransaction.kind = "no transaction"
      BY DEF NoTransaction, View
    <3> QED BY <1>3, <3>1
  <2> HIDE DEF waiting
  <2>3. Locked(waiting)
    BY <1>1, <2>1, PendingSet DEF Locked
  <2>4. Timed(waiting) /\ (Running(wm) => Running(waiting))
    BY <1>2, <2>1, <2>2 DEF Timed, Running
  <2> QED BY <1>2, <1>3, <2>1, <2>3, <2>4, QuietStep
<1>4. CASE wm.pending.kind # "lock"
  <2>1. /\ Good(shown) /\ shown.view = lock /\ shown.pending = wm.pending
        /\ shown.ls = wm.ls /\ shown.timer = wm.timer
    BY <1>1, <1>2, WithView
  <2>2. wm.pending \in {NoTransaction, NoPendingView}
    BY <1>2, <1>4, PendingSet DEF Locked, Good, Managers
  <2> HIDE DEF shown
  <2>3. Locked(shown)
    BY <1>1, <2>1, <2>2, PendingSet DEF Locked
  <2>4. Timed(shown) /\ (Running(wm) => Running(shown))
    BY <1>2, <2>1 DEF Timed, Running
  <2> QED BY <1>2, <1>4, <2>1, <2>3, <2>4, QuietStep
<1> QED BY <1>3, <1>4

----------------------------------------------------------------------------
(* IPC messages. *)

\* A change of the view of a window manager whose timer runs.
LEMMA RunningViewStep ==
    ASSUME IInv, NEW m, Good(m), Running(m), Locked(wm) => Locked(m),
           NEW resized, Become(SetView(m, Workspace), resized)
    PROVE  Step
<1> DEFINE l == SetView(m, Workspace)
<1>1. Good(l) /\ Running(l) /\ (Locked(m) => l = m)
  BY SetViewLemma, ViewsLemma
<1>2. Become(l, resized)
  OBVIOUS
<1> HIDE DEF l
<1> QED BY <1>1, <1>2, RunningStep

LEMMA FocusAppStep ==
    ASSUME IInv, NEW w \in Windows, FocusApp(w)
    PROVE  Step
<1> DEFINE p == PositionOf(w)
           focused == FocusedApp(wm, w)
           ls == PushActiveToParent(wm.ls)
           pushed == [wm EXCEPT !.ls = ls]
           raised == Activate(pushed, p, FALSE)
           alone == Activate(wm, p, TRUE)
<1>1. Become(focused, SiblingsOf(w) \cup ResizedVisibly(focused)) /\ w \in Open
  BY DEF FocusApp
<1>2. Good(wm) /\ wm.ls \in LayoutState
  BY DEF IInv, Good, Valid
<1>3. p \in Position
  BY <1>1, <1>2, PositionOfLemma
<1>4. Valid(ls)
  BY <1>2, PushActiveToParentLemma DEF Good, Valid, SameLayouts
<1>5. focused \in {alone, raised, SetView(raised, Workspace)}
  BY <1>2 DEF FocusedApp, Good, Managers
<1> HIDE DEF focused, ls, p
<1>6. Good(pushed) /\ SameViews(wm, pushed)
  BY <1>2, <1>4, WithLs
<1> HIDE DEF pushed
<1>7. Good(raised) /\ Running(raised) /\ SameViews(pushed, raised)
  BY <1>3, <1>6, ActivateManager
<1>8. Good(alone) /\ Running(alone) /\ SameViews(wm, alone)
  BY <1>2, <1>3, ActivateManager
<1> HIDE DEF raised, alone
<1>9. (Locked(wm) => Locked(raised)) /\ (Locked(wm) => Locked(alone))
  BY <1>2, <1>6, <1>7, <1>8, LockedLemma
<1>10. CASE focused = alone
  BY <1>1, <1>8, <1>9, <1>10, RunningStep
<1>11. CASE focused = raised
  BY <1>1, <1>7, <1>9, <1>11, RunningStep
<1>12. CASE focused = SetView(raised, Workspace)
  BY <1>1, <1>7, <1>9, <1>12, RunningViewStep
<1> QED BY <1>5, <1>10, <1>11, <1>12

LEMMA HideAppStep ==
    ASSUME IInv, NEW w \in Windows, NEW registered \in BOOLEAN, HideApp(w, registered)
    PROVE  Step
<1> DEFINE left == IF wm.view = Fullscreen(w) THEN SetView(wm, Workspace) ELSE wm
           homeAt == IF registered THEN HomeIndex(wm.ls) ELSE 0
           target == IF ParentIndex(wm.ls) # 0 THEN ParentIndex(wm.ls)
                     ELSE IF homeAt # 0 THEN homeAt
                     ELSE IF Len(wm.ls.layouts) <= 1 THEN 0 ELSE 1
           hidden == Activate(left, PrimaryOf(target), TRUE)
<1>1. Become(hidden, ResizedVisibly(left) \cup WindowsOf(LayoutAt(wm.ls, target)))
  BY DEF HideApp
<1>2. Good(wm) /\ wm.ls \in LayoutState
  BY DEF IInv, Good, Valid
<1>3. HomeIndex(wm.ls) \in Nat
  <2>1. {i \in DOMAIN wm.ls.layouts : wm.ls.layouts[i].primary \in HomeWindows}
          \in SUBSET Nat
    BY <1>2 DEF LayoutState
  <2> QED BY <2>1, FirstLemma DEF HomeIndex
<1>4. target \in Nat
  BY <1>2, <1>3, IndexLemma
<1>5. Good(left) /\ (Locked(wm) => Locked(left))
  BY <1>2, SetViewLemma, ViewsLemma
<1> HIDE DEF left, target
<1>6. Good(hidden) /\ Running(hidden) /\ SameViews(left, hidden)
  BY <1>4, <1>5, PrimaryPosition, ActivateManager
<1> HIDE DEF hidden
<1>7. Locked(wm) => Locked(hidden)
  BY <1>5, <1>6, LockedLemma
<1> QED BY <1>1, <1>6, <1>7, RunningStep

LEMMA CloseAppStep ==
    ASSUME IInv, NEW ws \in SUBSET Windows, CloseApp(ws)
    PROVE  Step
<1> DEFINE m == [wm EXCEPT !.ls.dead = @ \cup ws]
<1>1. Become(m, {})
  BY DEF CloseApp
<1>2. Good(wm)
  BY DEF IInv
<1>3. /\ Good(m) /\ SameViews(wm, m) /\ m.timer = wm.timer
      /\ m.ls.staged = wm.ls.staged
  BY <1>2, DeadLemma
<1> HIDE DEF m
<1>4. Timed(m) /\ (Running(wm) => Running(m))
  BY <1>3 DEF IInv, Timed, Running, SameViews
<1>5. Locked(wm) => Locked(m)
  BY <1>2, <1>3, LockedLemma
<1>6. IInv' /\ wm' = m
  BY <1>1, <1>3, <1>4, BecomeQuiet
<1> QED BY <1>5, <1>6 DEF Step

----------------------------------------------------------------------------
(* Touch input. *)

LEMMA TouchStep ==
    ASSUME IInv, NEW w \in WindowOrNone, Touch(w)
    PROVE  Step
<1> DEFINE ls == [wm.ls EXCEPT !.focus = w]
           m == [wm EXCEPT !.ls = ls]
<1>1. Good(wm) /\ Timed(wm)
  BY DEF IInv
<1>2. [wm EXCEPT !.ls.focus = w] = m
  BY <1>1 DEF Good, Managers
<1>3. wm' = m /\ unacked' = unacked
  BY <1>2 DEF Touch
<1>4. Valid(ls) /\ ls.staged = wm.ls.staged
  BY <1>1, FocusLemma DEF Good
<1> HIDE DEF ls
<1>5. Good(m) /\ SameViews(wm, m) /\ m.ls = ls /\ m.timer = wm.timer
  BY <1>1, <1>4, WithLs
<1> HIDE DEF m
<1>6. Timed(m) /\ (Running(wm) => Running(m))
  BY <1>1, <1>4, <1>5 DEF Timed, Running, SameViews
<1> QED BY <1>1, <1>3, <1>5, <1>6, LockedLemma, QuietStep

LEMMA DoubleTapStep ==
    ASSUME IInv, NEW step \in {-1, 1}, DoubleTap(step)
    PROVE  Step
<1> DEFINE ls == CycleActive(wm.ls, step)
           m == SetLayouts(wm, ls)
<1>1. /\ wm.ls.layouts # <<>>
      /\ Become(m, WindowsOf(LayoutAt(wm.ls, Last(m.ls.staged).position.index)))
  BY DEF DoubleTap
<1>2. Good(wm) /\ wm.ls \in LayoutState
  BY DEF IInv, Good, Valid
<1>3. Valid(ls) /\ ls.staged # wm.ls.staged
  BY <1>1, <1>2, CycleActiveLemma, CycleActiveGrows DEF Good, Valid, SameLayouts
<1> HIDE DEF ls
<1>4. Good(m) /\ Running(m) /\ SameViews(wm, m)
  BY <1>2, <1>3, SetLayoutsLemma
<1> HIDE DEF m
<1> QED BY <1>1, <1>2, <1>4, LockedLemma, RunningStep

\* Activate a window or none, and leave the overview.
LEMMA ActivateAndLeaveStep ==
    ASSUME IInv, NEW p \in Position, NEW resized,
           Become(SetView(Activate(wm, p, TRUE), Workspace), resized)
    PROVE  Step
<1> DEFINE m == Activate(wm, p, TRUE)
<1>1. Good(wm)
  BY DEF IInv
<1>2. Good(m) /\ Running(m) /\ SameViews(wm, m)
  BY <1>1, ActivateManager
<1>3. Become(SetView(m, Workspace), resized)
  OBVIOUS
<1> HIDE DEF m
<1> QED BY <1>1, <1>2, <1>3, LockedLemma, RunningViewStep

LEMMA TapWindowStep ==
    ASSUME IInv, NEW w \in Windows, TapWindow(w)
    PROVE  Step
<1>1. /\ w \in Open
      /\ Become(SetView(Activate(wm, PositionOf(w), TRUE), Workspace), SiblingsOf(w))
  BY DEF TapWindow
<1>2. PositionOf(w) \in Position
  BY <1>1, PositionOfLemma DEF IInv
<1> QED BY <1>1, <1>2, ActivateAndLeaveStep

LEMMA MinimizeAllStep ==
    ASSUME IInv, MinimizeAll
    PROVE  Step
<1>1. Become(SetView(Activate(wm, NoPosition, TRUE), Workspace), {})
  BY DEF MinimizeAll
<1>2. NoPosition \in Position
  BY DEF NoPosition, Position
<1> QED BY <1>1, <1>2, ActivateAndLeaveStep

\* A change of the view that resizes nothing.
LEMMA BecomeViewStep ==
    ASSUME IInv, NEW view \in Views, Become(SetView(wm, view), {})
    PROVE  Step
<1>1. wm' = SetView(wm, view) /\ unacked' = unacked
  BY DEF Become
<1> QED BY <1>1, ViewStep

LEMMA OverviewStep ==
    ASSUME IInv, OpenOverview \/ StayInOverview \/ LeaveOverview \/ DropOutside
    PROVE  Step
<1>1. Become(SetView(wm, Overview), {}) \/ Become(SetView(wm, Workspace), {})
  BY DEF OpenOverview, StayInOverview, LeaveOverview, DropOutside
<1> QED BY <1>1, ViewsLemma, BecomeViewStep

LEMMA StartDndStep ==
    ASSUME IInv, NEW w \in Windows, StartDnd(w)
    PROVE  Step
<1>1. Become(SetView(wm, DragAndDrop(w)), {})
  BY DEF StartDnd
<1> QED BY <1>1, ViewsLemma, BecomeViewStep

LEMMA DragClosedStep ==
    ASSUME IInv, NEW w \in Windows, DragClosed(w)
    PROVE  Step
<1> DEFINE died == [wm EXCEPT !.ls.dead = @ \cup {w}]
           m == StartTimer(died)
<1>1. Become(m, SiblingsOf(w))
  BY DEF DragClosed
<1>2. Good(wm)
  BY DEF IInv
<1>3. Good(m) /\ Running(m) /\ SameViews(wm, m)
  BY <1>2, DiedLemma
<1> HIDE DEF m
<1> QED BY <1>1, <1>2, <1>3, LockedLemma, RunningStep

\* Dropping a window stages its move.
LEMMA DropStep ==
    ASSUME IInv, DropPrimary \/ DropSecondary
    PROVE  Step
<1> DEFINE w == wm.view.window
           p == PositionOf(w)
<1> PICK ls \in {SetPrimary(wm.ls, p), SetSecondary(wm.ls, p)} :
           \E resized : Become(SetView(SetLayouts(wm, ls), Workspace), resized)
  BY DEF DropPrimary, DropSecondary
<1>1. PICK resized : Become(SetView(SetLayouts(wm, ls), Workspace), resized)
  OBVIOUS
<1>2. Good(wm) /\ wm.ls \in LayoutState /\ w \in Open
  BY DEF IInv, Good, Valid, DropPrimary, DropSecondary
<1>3. p \in Position /\ p.index \in DOMAIN wm.ls.layouts
  BY <1>2, PositionOfLemma
<1> HIDE DEF p
<1>4. Valid(ls) /\ ls.staged # wm.ls.staged
  <2>1. /\ SetPrimary(wm.ls, p) \in LayoutState
        /\ SameLayouts(wm.ls, SetPrimary(wm.ls, p))
        /\ SetSecondary(wm.ls, p) \in LayoutState
        /\ SameLayouts(wm.ls, SetSecondary(wm.ls, p))
    BY <1>2, <1>3, SetPrimaryLemma, SetSecondaryLemma
  <2>2. ls.staged # wm.ls.staged
    BY <1>1, <1>2, <1>3, DropGrows
  <2>3. ls \in LayoutState /\ SameLayouts(wm.ls, ls)
    BY <1>1, <2>1
  <2> QED BY <1>2, <2>2, <2>3 DEF Good, Valid, SameLayouts
<1> DEFINE m == SetLayouts(wm, ls)
<1>5. Good(m) /\ Running(m) /\ SameViews(wm, m)
  BY <1>2, <1>4, SetLayoutsLemma
<1>6. Become(SetView(m, Workspace), resized)
  BY <1>1
<1> HIDE DEF m
<1> QED BY <1>2, <1>5, <1>6, LockedLemma, RunningViewStep

----------------------------------------------------------------------------
(* Frames. *)

LEMMA TickStep ==
    ASSUME IInv, Tick
    PROVE  Step
<1> DEFINE age == IF wm.timer = "fresh" THEN "aging" ELSE "expired"
           m == [wm EXCEPT !.timer = age]
<1>1. wm' = m /\ unacked' = unacked
  BY DEF Tick
<1>2. /\ Good(m) /\ Running(m) /\ SameViews(wm, m)
  BY DEF IInv, Good, Managers, Timers, Running, SameViews
<1> HIDE DEF m
<1>3. Timed(m) /\ Good(wm)
  BY <1>2 DEF Timed, IInv
<1> QED BY <1>1, <1>2, <1>3, LockedLemma, QuietStep

\* A window manager whose view is fullscreen shows a window that lives in a layout.
ShowsLiving(m) ==
    m.view.kind = "fullscreen" => m.view.window \in Owned(m.ls) \ m.ls.dead

LEMMA FixLemma ==
    ASSUME NEW m, Good(m), m.ls.staged = <<>>, m.pending = NoTransaction
    PROVE  LET l == FixViewAfterReap(m)
           IN  /\ Good(l) /\ Timed(l) /\ l.pending = NoTransaction
               /\ l.ls.layouts = m.ls.layouts
               /\ l.view \in {m.view, Workspace}
               /\ ShowsLiving(l)
               /\ m.view.kind = "lock" => l = m
<1> DEFINE l == FixViewAfterReap(m)
           left == [m EXCEPT !.view = Workspace]
           parent == Activate(left, PrimaryOf(ParentIndex(m.ls)), TRUE)
           home == GoHome(left)
<1>1. CASE m.view.kind = "fullscreen" => m.view.window \in Owned(m.ls) \ m.ls.dead
  <2>1. l = m
    BY <1>1 DEF FixViewAfterReap
  <2> QED BY <1>1, <2>1 DEF Timed, ShowsLiving
<1>2. CASE ~(m.view.kind = "fullscreen" => m.view.window \in Owned(m.ls) \ m.ls.dead)
  <2>1. l \in {parent, home}
    BY <1>2 DEF FixViewAfterReap
  <2> HIDE DEF l
  <2>2. Good(left) /\ left.view = Workspace /\ left.pending = NoTransaction
        /\ left.ls = m.ls
    BY ViewsLemma, WithView
  <2>3. ParentIndex(m.ls) \in Nat
    BY IndexLemma DEF Good, Valid
  <2> HIDE DEF left
  <2>4. Good(parent) /\ Running(parent) /\ SameViews(left, parent)
        /\ SameLayouts(left.ls, parent.ls)
    BY <2>2, <2>3, PrimaryPosition, ActivateManager
  <2>5. Good(home) /\ Running(home) /\ SameViews(left, home)
        /\ SameLayouts(left.ls, home.ls)
    BY <2>2, GoHomeLemma
  <2> HIDE DEF parent, home
  <2>6. Good(l) /\ Running(l) /\ SameViews(left, l) /\ SameLayouts(left.ls, l.ls)
    BY <2>1, <2>4, <2>5
  <2>7. /\ l.pending = NoTransaction /\ l.view = Workspace
        /\ l.ls.layouts = m.ls.layouts
    BY <2>2, <2>6 DEF SameViews, SameLayouts
  <2> QED BY <1>2, <2>6, <2>7, ViewsLemma DEF Timed, ShowsLiving, l
<1> QED BY <1>1, <1>2

\* Without a layout nothing but the workspace or a lock is shown.
NeverStranded(m) == m.ls.layouts = <<>> => m.view.kind \in {"workspace", "lock"}

LEMMA CloseOverviewLemma ==
    ASSUME NEW m, Good(m)
    PROVE  LET l == CloseOverviewWhenEmpty(m)
           IN  /\ Good(l) /\ l.ls = m.ls /\ l.pending = m.pending
               /\ l.timer = m.timer
               /\ l.view \in {m.view, Workspace}
               /\ NeverStranded(l)
               /\ m.view.kind = "lock" => l = m
<1> DEFINE left == [m EXCEPT !.view = Workspace]
<1>1. CASE m.ls.layouts = <<>> /\ m.view.kind \in {"overview", "dnd", "fullscreen"}
  <2>1. CloseOverviewWhenEmpty(m) = left
    BY <1>1 DEF CloseOverviewWhenEmpty
  <2>2. /\ Good(left) /\ left.view = Workspace /\ left.pending = m.pending
        /\ left.ls = m.ls /\ left.timer = m.timer
    BY ViewsLemma, WithView
  <2> HIDE DEF left
  <2> QED BY <1>1, <2>1, <2>2, ViewsLemma DEF NeverStranded
<1>2. CASE ~(m.ls.layouts = <<>> /\ m.view.kind \in {"overview", "dnd", "fullscreen"})
  <2>1. CloseOverviewWhenEmpty(m) = m
    BY <1>2 DEF CloseOverviewWhenEmpty
  <2>2. m.view \in Views
    BY DEF Good, Managers
  <2> QED BY <1>2, <2>1, <2>2, KindsLemma DEF NeverStranded
<1> QED BY <1>1, <1>2

LEMMA ApplyLayoutsLemma ==
    ASSUME NEW m, Good(m)
    PROVE  LET l == ApplyLayouts(m)
           IN  /\ Good(l) /\ SameViews(m, l) /\ l.timer = m.timer
               /\ l.ls.staged = <<>>
<1> DEFINE ls == ApplyTransaction(m.ls)
           l == [m EXCEPT !.ls = ls]
<1>1. ApplyLayouts(m) = l
  BY DEF ApplyLayouts, Good, Managers
<1>2. Valid(ls) /\ ls.staged = <<>>
  BY ApplyTransactionLemma DEF Good
<1> HIDE DEF ls
<1>3. Good(l) /\ SameViews(m, l) /\ l.ls = ls /\ l.timer = m.timer
  BY <1>2, WithLs
<1> HIDE DEF l
<1> QED BY <1>1, <1>2, <1>3

\* What an update leaves behind has a timer, and a window where the view needs one.
Settled(m) == Good(m) /\ Timed(m) /\ ShowsLiving(m) /\ NeverStranded(m)

LEMMA AppliedLemma ==
    ASSUME NEW m, Settled(m), Applied(m)
    PROVE  IInv' /\ wm' = m
<1> DEFINE resized == IF m.ls.staged = <<>> THEN {} ELSE WindowsOf(PendingActive(m.ls))
           able == (resized \cap m.ls.visible) \ m.ls.dead
<1>1. wm' = m /\ unacked' \subseteq able
  BY DEF Applied
<1>2. able \subseteq Windows
  BY DEF Settled, Good, Valid, LayoutState
<1>3. m.ls.staged = <<>> => able = {}
  OBVIOUS
<1> HIDE DEF able
<1>4. unacked' # {} => Running(m)
  BY <1>1, <1>3 DEF Settled, Timed
<1> QED BY <1>1, <1>2, <1>4 DEF Settled, IInv, Timed, Running

LEMMA UpdateIdleStep ==
    ASSUME IInv, UpdateIdle
    PROVE  Step /\ ShowsLiving(wm') /\ NeverStranded(wm')
<1> DEFINE applied == ApplyLayouts(wm)
           closed == CloseOverviewWhenEmpty(applied)
           m == FixViewAfterReap(closed)
<1>1. Applied(m) /\ ~Running(wm)
  BY DEF UpdateIdle, Running
<1>2. Good(wm) /\ wm.pending = NoTransaction
  BY <1>1 DEF IInv, Timed
<1>3. Good(applied) /\ SameViews(wm, applied) /\ applied.ls.staged = <<>>
  BY <1>2, ApplyLayoutsLemma
<1> HIDE DEF applied
<1>4. /\ Good(closed) /\ closed.ls = applied.ls /\ closed.pending = NoTransaction
      /\ NeverStranded(closed)
      /\ closed.view \in Views
      /\ applied.view.kind = "lock" => closed = applied
  BY <1>2, <1>3, CloseOverviewLemma DEF SameViews, Good, Managers
<1> HIDE DEF closed
<1>5. /\ Good(m) /\ Timed(m) /\ m.pending = NoTransaction
      /\ m.ls.layouts = closed.ls.layouts
      /\ m.view \in {closed.view, Workspace}
      /\ ShowsLiving(m)
      /\ closed.view.kind = "lock" => m = closed
  BY <1>3, <1>4, FixLemma
<1> HIDE DEF m
<1>6. Settled(m)
  BY <1>4, <1>5, ViewsLemma DEF Settled, NeverStranded
<1>7. IInv' /\ wm' = m
  BY <1>1, <1>6, AppliedLemma
<1>8. Locked(wm) => Locked(m)
  BY <1>2, <1>3, <1>4, <1>5, PendingSet DEF SameViews, Locked
<1> QED BY <1>6, <1>7, <1>8 DEF Step, Settled

LEMMA UpdateTransactionStep ==
    ASSUME IInv, UpdateTransaction
    PROVE  Step /\ ShowsLiving(wm') /\ NeverStranded(wm')
<1> DEFINE shown == [wm EXCEPT !.view = PendingView(wm)]
           taken == [shown EXCEPT !.pending = NoTransaction]
           switched == [taken EXCEPT !.timer = "idle"]
           applied == ApplyLayouts(switched)
           fixed == FixViewAfterReap(applied)
           m == CloseOverviewWhenEmpty(fixed)
<1>1. Good(wm) /\ PendingView(wm) \in Views
  BY PendingViewLemma DEF IInv
<1>2. [wm EXCEPT !.timer = "idle", !.pending = NoTransaction, !.view = PendingView(wm)]
        = switched
  BY <1>1 DEF Good, Managers
<1>3. Applied(m)
  BY <1>2 DEF UpdateTransaction
<1>4. Good(shown) /\ shown.view = PendingView(wm)
  BY <1>1, WithView
<1> HIDE DEF shown
<1>5. Good(taken) /\ taken.view = PendingView(wm) /\ taken.pending = NoTransaction
  BY <1>4, WithPending
<1> HIDE DEF taken
<1>6. /\ Good(switched) /\ switched.view = PendingView(wm)
      /\ switched.pending = NoTransaction
  BY <1>5 DEF Good, Managers, Timers
<1> HIDE DEF switched
<1>7. /\ Good(applied) /\ applied.view = PendingView(wm)
      /\ applied.pending = NoTransaction /\ applied.ls.staged = <<>>
  BY <1>6, ApplyLayoutsLemma DEF SameViews
<1> HIDE DEF applied
<1>8. /\ Good(fixed) /\ Timed(fixed) /\ fixed.pending = NoTransaction
      /\ ShowsLiving(fixed)
      /\ applied.view.kind = "lock" => fixed = applied
  BY <1>7, FixLemma
<1> HIDE DEF fixed
<1>9. /\ Good(m) /\ m.ls = fixed.ls /\ m.pending = fixed.pending
      /\ m.timer = fixed.timer
      /\ m.view \in {fixed.view, Workspace}
      /\ NeverStranded(m)
      /\ fixed.view.kind = "lock" => m = fixed
  BY <1>8, CloseOverviewLemma
<1> HIDE DEF m
<1>10. Settled(m)
  BY <1>8, <1>9, ViewsLemma DEF Settled, Timed, Running, ShowsLiving
<1>11. IInv' /\ wm' = m
  BY <1>3, <1>10, AppliedLemma
<1>12. Locked(wm) => Locked(m)
  BY <1>1, <1>7, <1>8, <1>9, PendingSet DEF Locked
<1> QED BY <1>10, <1>11, <1>12 DEF Step, Settled

----------------------------------------------------------------------------
(* Theorems. *)

LEMMA InitIInv == Init => IInv
<1> SUFFICES ASSUME Init PROVE IInv
  OBVIOUS
<1>1. Valid(InitialLayouts) /\ InitialLayouts.staged = <<>>
  BY DEF InitialLayouts, Valid, LayoutState, Layout, Transaction, Disjoint, Within,
         WindowOrNone
<1>2. /\ wm.ls = InitialLayouts /\ wm.pending = NoTransaction
      /\ unacked = {}
  BY DEF Init
<1>3. wm \in Managers
  <2>1. InitialLayouts \in LayoutState
    BY <1>1 DEF Valid
  <2> QED BY <2>1, ViewsLemma DEF Init, Managers, Timers
<1> QED BY <1>1, <1>2, <1>3 DEF IInv, Good, Timed, Running

\* A step that may take the session out of the lock.
Exception == Unlock \/ \E w \in Windows : WritesView(w)

LEMMA NextStep ==
    ASSUME IInv, Next
    PROVE  IInv' /\ (~Exception => Step)
<1>1. ASSUME NEW w \in Windows, NEW known \in BOOLEAN, Add(w, known)
      PROVE  IInv' /\ Exception
  BY <1>1, AddStep DEF Exception, WritesView
<1>2. ASSUME NEW w \in Windows, AddX11(w) PROVE IInv' /\ Exception
  BY <1>2, AddX11Step DEF Exception, WritesView
<1>3. ASSUME NEW w \in Windows, MarkDeadX11(w) PROVE IInv' /\ Exception
  BY <1>3, MarkDeadStep DEF Exception, WritesView
<1>4. ASSUME NEW w \in Windows, HandleMapX11(w) PROVE IInv' /\ Exception
  BY <1>4, MapStep DEF Exception, WritesView
<1>5. ASSUME Unlock PROVE IInv' /\ Exception
  BY <1>5, UnlockStep DEF Exception
<1>6. ASSUME NEW w \in Windows, Commit(w) PROVE Step
  BY <1>6, CommitStep
<1>7. ASSUME NEW w \in Windows, FullscreenRequest(w) PROVE Step
  BY <1>7, FullscreenStep
<1>8. ASSUME NEW w \in Windows, UnfullscreenRequest(w) PROVE Step
  BY <1>8, UnfullscreenStep DEF UnfullscreenRequest
<1>9. ASSUME NEW w \in Windows, ReapXdg(w) PROVE Step
  BY <1>9, ReapXdgStep
<1>10. ASSUME NEW w \in Windows, HandleUnmapX11(w) PROVE Step
  BY <1>10, UnmapStep
<1>11. ASSUME NEW w \in Windows, Raise(w) PROVE Step
  BY <1>11, RaiseStep
<1>12. ASSUME LockSession PROVE Step
  BY <1>12, ViewsLemma, ViewStep DEF LockSession
<1>13. ASSUME SetLockSurface PROVE Step
  BY <1>13, SetLockSurfaceStep
<1>14. ASSUME NEW w \in Windows, NEW registered \in BOOLEAN, ToggleApp(w, registered)
       PROVE  Step
  BY <1>14, HideAppStep, FocusAppStep DEF ToggleApp
<1>15. ASSUME NEW ws \in SUBSET Windows, CloseApp(ws) PROVE Step
  BY <1>15, CloseAppStep
<1>16. ASSUME NEW w \in WindowOrNone, Touch(w) PROVE Step
  BY <1>16, TouchStep
<1>17. ASSUME NEW step \in {-1, 1}, DoubleTap(step) PROVE Step
  BY <1>17, DoubleTapStep
<1>18. ASSUME OpenOverview \/ LeaveOverview \/ StayInOverview \/ DropOutside PROVE Step
  BY <1>18, OverviewStep
<1>19. ASSUME NEW w \in Windows, TapWindow(w) PROVE Step
  BY <1>19, TapWindowStep
<1>20. ASSUME MinimizeAll PROVE Step
  BY <1>20, MinimizeAllStep
<1>21. ASSUME SwipeFromFullscreen PROVE Step
  BY <1>21, UnfullscreenStep DEF SwipeFromFullscreen
<1>22. ASSUME NEW w \in Windows, DragClosed(w) PROVE Step
  BY <1>22, DragClosedStep
<1>23. ASSUME NEW w \in Windows, StartDnd(w) PROVE Step
  BY <1>23, StartDndStep
<1>24. ASSUME DropPrimary \/ DropSecondary PROVE Step
  BY <1>24, DropStep
<1>25. ASSUME Update PROVE Step
  BY <1>25, UpdateIdleStep, UpdateTransactionStep DEF Update
<1>26. ASSUME Tick PROVE Step
  BY <1>26, TickStep
<1>27. Step => IInv'
  BY DEF Step
<1> QED
  BY <1>1, <1>2, <1>3, <1>4, <1>5, <1>6, <1>7, <1>8, <1>9, <1>10, <1>11, <1>12,
     <1>13, <1>14, <1>15, <1>16, <1>17, <1>18, <1>19, <1>20, <1>21, <1>22, <1>23,
     <1>24, <1>25, <1>26, <1>27, Zenon DEF Next

LEMMA InductiveInvariant == Spec => []IInv
<1>1. IInv /\ [Next]_vars => IInv'
  <2>1. ASSUME IInv, UNCHANGED vars PROVE IInv'
    BY <2>1 DEF vars, IInv
  <2> QED BY <2>1, NextStep
<1> QED BY <1>1, InitIInv, PTL DEF Spec

\* Whatever the handlers do to the window manager, in any order, it has its type.
THEOREM TypeCorrect == Spec => []TypeOK
<1>1. IInv => TypeOK
  BY DEF IInv, TypeOK, Good, Managers, Timers
<1> QED BY <1>1, InductiveInvariant, PTL

\* No transaction is forgotten: what is staged, pending or waited for has started
\* the transaction timer, and no handler but the update that applies everything
\* stops it, so `update_transaction` always comes to an end.
THEOREM TransactionsHaveTimer == Spec => []PendingHasTimer
<1>1. IInv => PendingHasTimer
  BY DEF IInv, PendingHasTimer, Timed, Running
<1> QED BY <1>1, InductiveInvariant, PTL

\* Whichever view was pending and whoever died meanwhile, `update_transaction`
\* never leaves a fullscreen view without a living window, nor the overview or
\* drag and drop without any window.
THEOREM UpdatesShowWindows == Spec => ViewHasWindow
<1> DEFINE Shows ==
      \/ /\ wm'.view.kind = "fullscreen"
              => wm'.view.window \in Owned(wm'.ls) \ wm'.ls.dead
         /\ wm'.ls.layouts = <<>> => wm'.view.kind \in {"workspace", "lock"}
      \/ ~Update
<1>1. ASSUME IInv PROVE Shows
  <2>1. ASSUME Update PROVE ShowsLiving(wm') /\ NeverStranded(wm')
    BY <1>1, <2>1, UpdateIdleStep, UpdateTransactionStep DEF Update
  <2> QED BY <2>1 DEF ShowsLiving, NeverStranded
<1>2. IInv /\ [Next]_vars => [Shows]_vars
  BY <1>1
<1> QED BY <1>2, InductiveInvariant, PTL DEF Spec, ViewHasWindow

\* A session that is locked, or about to be, stays so until `unlock`, the four
\* requests aside that write the view themselves; and a lock without a surface
\* takes effect at its own deadline only.
THEOREM LockIsKept == Spec => LockKept
<1> DEFINE Kept ==
      /\ PendingView(wm).kind = "lock" /\ PendingView(wm)'.kind # "lock"
           => Unlock \/ \E w \in Windows : WritesView(w)
      /\ wm.pending = Lock(NoWindow) /\ Update
           => wm.timer \in {"aging", "expired"}
<1>1. ASSUME IInv, Next
      PROVE  PendingView(wm).kind = "lock" /\ PendingView(wm)'.kind # "lock"
               => Unlock \/ \E w \in Windows : WritesView(w)
  <2>1. Step => (PendingView(wm).kind = "lock" => PendingView(wm)'.kind = "lock")
    BY DEF Step, Locked, PendingView
  <2> QED BY <1>1, <2>1, NextStep DEF Exception
<1>2. ASSUME IInv, wm.pending = Lock(NoWindow), Update
      PROVE  wm.timer \in {"aging", "expired"}
  <2>1. /\ wm.pending \in Views /\ PendingView(wm) = Lock(NoWindow)
        /\ wm.pending # NoTransaction
    BY <1>2, ViewsLemma, PendingSet, KindsLemma DEF IInv
  <2>2. wm.timer # "idle"
    BY <1>2, <2>1 DEF IInv, Timed, Running
  <2>3. Overdue
    BY <1>2, <2>1, <2>2 DEF Update, UpdateIdle, UpdateTransaction, Ready
  <2> QED BY <2>3 DEF Overdue
<1>3. IInv /\ [Next]_vars => [Kept]_vars
  <2> SUFFICES ASSUME IInv, Next PROVE Kept
    OBVIOUS
  <2> QED BY <1>1, <1>2
<1> QED BY <1>3, InductiveInvariant, PTL DEF Spec, LockKept

============================================================================
