-------------------------- MODULE LayoutOpsProofs --------------------------
(***************************************************************************)
(* What the operations of LayoutOps preserve, for layout states of any     *)
(* size; the proofs about Layouts and Shell rest on it.  The operations    *)
(* that stage changes leave the layouts alone, `create` appends a layout   *)
(* for a window that is in none, and `apply_transaction` keeps layouts     *)
(* disjoint in each round of both of its loops.  A live window and the     *)
(* active layout are then followed through those rounds: neither is lost,  *)
(* and the last staged activation whose layout survives is reached.        *)
(***************************************************************************)
EXTENDS LayoutOps, FiniteSetTheorems, WellFoundedInduction, TLAPS

----------------------------------------------------------------------------
(* The loops of `apply_transaction` are functions on 0..n.                 *)

\* A nonempty set of natural numbers has a least element.
LEMMA LeastElement ==
    ASSUME NEW T \in SUBSET Nat, T # {}
    PROVE  \E m \in T : \A k \in T : m <= k
<1> DEFINE D == {0..n : n \in T}
<1>1. D \subseteq FiniteSubsetsOf(Nat)
  <2>1. \A n \in T : IsFiniteSet(0..n) /\ (0..n) \subseteq Nat
    BY FS_Interval
  <2> QED
    BY <2>1 DEF FiniteSubsetsOf
<1>2. D # {}
  OBVIOUS
<1>3. PICK x \in D : \A y \in D : <<y, x>> \notin StrictSubsetOrdering(Nat)
  BY <1>1, <1>2, FS_StrictSubsetOrderingWellFounded, WFMin
<1>4. PICK m \in T : x = 0..m
  OBVIOUS
<1>5. ASSUME NEW k \in T PROVE m <= k
  <2>1. <<0..k, 0..m>> \notin StrictSubsetOrdering(Nat)
    BY <1>3, <1>4
  <2>2. IsFiniteSet(0..m) /\ IsFiniteSet(0..k)
    BY FS_Interval
  <2>3. ASSUME k < m PROVE FALSE
    <3>1. (0..k) \in SUBSET Nat /\ (0..m) \in SUBSET Nat /\ (0..k) \subseteq (0..m)
      BY <2>3
    <3>2. m \in 0..m /\ m \notin 0..k
      BY <2>3
    <3> QED
      BY <2>1, <2>2, <3>1, <3>2 DEF StrictSubsetOrdering, FiniteSubsetsOf
  <2> QED
    BY <2>3
<1> QED
  BY <1>5

\* What holds before a loop of n rounds and is kept by each round always holds.
LEMMA LoopInvariant ==
    ASSUME NEW n \in Nat, NEW good \in SUBSET (0..n),
           0 \in good,
           \A k \in 1..n : k - 1 \in good => k \in good
    PROVE  \A k \in 0..n : k \in good
<1> DEFINE bad == (0..n) \ good
<1>1. SUFFICES ASSUME bad # {} PROVE FALSE
  OBVIOUS
<1>2. bad \in SUBSET Nat
  OBVIOUS
<1>3. PICK m \in bad : \A k \in bad : m <= k
  BY <1>1, <1>2, LeastElement
<1>4. m \in 1..n /\ m - 1 \in 0..n /\ m - 1 \notin bad
  BY <1>3
<1> QED
  BY <1>3, <1>4

\* After the last round.
LEMMA LoopInduction ==
    ASSUME NEW n \in Nat, NEW good \in SUBSET (0..n),
           0 \in good,
           \A k \in 1..n : k - 1 \in good => k \in good
    PROVE  n \in good
<1>1. \A k \in 0..n : k \in good
  BY LoopInvariant
<1> QED
  BY <1>1

\* The run of the loop over the staged transactions.
IsStagedRun(run, s, n) ==
    run = [k \in 0..n |-> IF k = 0 THEN s ELSE ApplyStaged(run[k - 1], s.staged[k])]

LEMMA StagedRunExists ==
    ASSUME NEW s, NEW n \in Nat
    PROVE  \E run : IsStagedRun(run, s, n)
<1> DEFINE bad == {k \in Nat : ~ \E run : IsStagedRun(run, s, k)}
<1>1. SUFFICES ASSUME bad # {} PROVE FALSE
  OBVIOUS
<1>2. PICK m \in bad : \A k \in bad : m <= k
  BY <1>1, LeastElement
<1>3. m # 0
  <2>1. IsStagedRun([k \in 0..0 |-> s], s, 0)
    BY DEF IsStagedRun
  <2> QED
    BY <2>1
<1>4. PICK p : IsStagedRun(p, s, m - 1)
  BY <1>2, <1>3
<1> DEFINE q == [k \in 0..m |-> IF k = 0 THEN s ELSE ApplyStaged(p[k - 1], s.staged[k])]
<1>5. \A k \in 0..(m - 1) : q[k] = p[k]
  BY <1>3, <1>4 DEF IsStagedRun
<1>6. IsStagedRun(q, s, m)
  <2>1. ASSUME NEW k \in 0..m, k # 0 PROVE q[k - 1] = p[k - 1]
    <3>1. k - 1 \in 0..(m - 1)
      BY <2>1
    <3> HIDE DEF q
    <3> QED
      BY <1>5, <3>1
  <2>2. q = [k \in 0..m |-> IF k = 0 THEN s ELSE ApplyStaged(q[k - 1], s.staged[k])]
    BY <2>1
  <2> HIDE DEF q
  <2> QED
    BY <2>2 DEF IsStagedRun
<1> QED
  BY <1>6

LEMMA StagedRunLemma ==
    ASSUME NEW s, Len(s.staged) \in Nat
    PROVE  /\ StagedRun(s)[0] = s
           /\ \A k \in 1..Len(s.staged) :
                StagedRun(s)[k] = ApplyStaged(StagedRun(s)[k - 1], s.staged[k])
<1> DEFINE n == Len(s.staged)
           run == StagedRun(s)
<1>1. IsStagedRun(run, s, n)
  BY StagedRunExists, Zenon DEF StagedRun, IsStagedRun
<1>2. n \in Nat
  OBVIOUS
<1> HIDE DEF n, run
<1>3. \A k \in 0..n : run[k] = IF k = 0 THEN s
                             ELSE ApplyStaged(run[k - 1], s.staged[k])
  BY <1>1, Zenon DEF IsStagedRun
<1>4. /\ 0 \in 0..n
      /\ \A k \in 1..n : k \in 0..n /\ k # 0
  BY <1>2
<1> QED
  BY <1>3, <1>4, Zenon DEF n, run

\* The run of the loop over the layouts.
IsReapRun(run, s, n) ==
    run = [k \in 0..n |->
             IF k = 0 THEN [kept |-> <<>>, active |-> s.active, clear |-> FALSE]
             ELSE ReapLayout(run[k - 1], k, Survivor(s.layouts[k], s.dead))]

LEMMA ReapRunExists ==
    ASSUME NEW s, NEW n \in Nat
    PROVE  \E run : IsReapRun(run, s, n)
<1> DEFINE first == [kept |-> <<>>, active |-> s.active, clear |-> FALSE]
           round(r, k) == ReapLayout(r, k, Survivor(s.layouts[k], s.dead))
           bad == {k \in Nat : ~ \E run : IsReapRun(run, s, k)}
<1>1. SUFFICES ASSUME bad # {} PROVE FALSE
  OBVIOUS
<1>2. PICK m \in bad : \A k \in bad : m <= k
  BY <1>1, LeastElement
<1>3. \A run, k :
        IsReapRun(run, s, k) <=>
          run = [i \in 0..k |-> IF i = 0 THEN first ELSE round(run[i - 1], i)]
  BY DEF IsReapRun
<1> HIDE DEF first, round
<1>4. m # 0
  <2> DEFINE run == [i \in 0..0 |-> first]
  <2>1. run = [i \in 0..0 |-> IF i = 0 THEN first ELSE round(run[i - 1], i)]
    OBVIOUS
  <2> HIDE DEF run
  <2>2. IsReapRun(run, s, 0)
    BY <1>3, <2>1
  <2> QED
    BY <2>2
<1>5. PICK p : IsReapRun(p, s, m - 1)
  BY <1>2, <1>4
<1> DEFINE q == [k \in 0..m |-> IF k = 0 THEN first ELSE round(p[k - 1], k)]
<1>6. \A k \in 0..(m - 1) : q[k] = p[k]
  BY <1>3, <1>4, <1>5
<1>7. IsReapRun(q, s, m)
  <2>1. ASSUME NEW k \in 0..m, k # 0 PROVE q[k - 1] = p[k - 1]
    <3>1. k - 1 \in 0..(m - 1)
      BY <2>1
    <3> HIDE DEF q
    <3> QED
      BY <1>6, <3>1
  <2>2. q = [k \in 0..m |-> IF k = 0 THEN first ELSE round(q[k - 1], k)]
    BY <2>1
  <2> HIDE DEF q
  <2> QED
    BY <1>3, <2>2
<1> QED
  BY <1>7

LEMMA ReapRunLemma ==
    ASSUME NEW s, Len(s.layouts) \in Nat
    PROVE  /\ ReapRun(s)[0] = [kept |-> <<>>, active |-> s.active, clear |-> FALSE]
           /\ \A k \in 1..Len(s.layouts) :
                ReapRun(s)[k] = ReapLayout(ReapRun(s)[k - 1], k,
                                           Survivor(s.layouts[k], s.dead))
<1> DEFINE n == Len(s.layouts)
           run == ReapRun(s)
<1>1. IsReapRun(run, s, n)
  BY ReapRunExists, Zenon DEF ReapRun, IsReapRun
<1>2. n \in Nat
  OBVIOUS
<1> HIDE DEF n, run
<1>3. \A k \in 0..n : run[k] = IF k = 0 THEN [kept |-> <<>>, active |-> s.active, clear |-> FALSE]
                             ELSE ReapLayout(run[k - 1], k, Survivor(s.layouts[k], s.dead))
  BY <1>1, Zenon DEF IsReapRun
<1>4. /\ 0 \in 0..n
      /\ \A k \in 1..n : k \in 0..n /\ k # 0
  BY <1>2
<1> QED
  BY <1>3, <1>4, Zenon DEF n, run

----------------------------------------------------------------------------
(* Reading a layout state gives layouts and windows.                       *)

LEMMA ReadLemma ==
    ASSUME NEW s \in LayoutState, NEW i, NEW b \in BOOLEAN
    PROVE  /\ LayoutAt(s, i) \in Layout
           /\ LayoutAt(s, i).id \in Nat
           /\ Occupant(LayoutAt(s, i), b) \in WindowOrNone
<1>1. s.layouts \in Seq(Layout) /\ DefaultLayout \in Layout
  BY DEF LayoutState, DefaultLayout, Layout, WindowOrNone
<1>2. LayoutAt(s, i) \in Layout
  BY <1>1 DEF LayoutAt
<1> QED
  BY <1>2 DEF Layout, Occupant

LEMMA WindowAtLemma ==
    ASSUME NEW s \in LayoutState, NEW p \in Position
    PROVE  WindowAt(s, p) \in WindowOrNone
BY ReadLemma DEF WindowAt, Position

\* `First` finds an index of the set, when there is one.
LEMMA FirstLemma ==
    ASSUME NEW indices \in SUBSET Nat
    PROVE  /\ First(indices) \in Nat
           /\ indices # {} => First(indices) \in indices
<1>1. CASE indices = {}
  BY <1>1 DEF First
<1>2. CASE indices # {}
  <2>1. \E i \in indices : \A j \in indices : i <= j
    BY <1>2, LeastElement
  <2>2. First(indices) \in indices
    BY <1>2, <2>1 DEF First
  <2> QED
    BY <2>2
<1> QED
  BY <1>1, <1>2

----------------------------------------------------------------------------
(* Operations that stage changes leave the layouts alone.                  *)

\* What staging leaves alone: everything but staged, parents, focus, visible.
SameLayouts(s, t) ==
    /\ t.layouts = s.layouts
    /\ t.active = s.active
    /\ t.nextId = s.nextId
    /\ t.created = s.created
    /\ t.dead = s.dead

LEMMA StageLemma ==
    ASSUME NEW s \in LayoutState, NEW p \in Position,
           NEW kind \in {"active", "primary", "secondary"}
    PROVE  /\ Stage(s, kind, p) \in LayoutState
           /\ SameLayouts(s, Stage(s, kind, p))
           /\ Stage(s, kind, p).parents = s.parents
           /\ Stage(s, kind, p).staged = Append(s.staged, [kind |-> kind, position |-> p])
<1> DEFINE t == [kind |-> kind, position |-> p]
<1>1. t \in Transaction
  BY DEF Transaction
<1> HIDE DEF t
<1>2. Append(s.staged, t) \in Seq(Transaction)
  BY <1>1 DEF LayoutState
<1> QED
  BY <1>2 DEF Stage, SameLayouts, LayoutState, t

LEMMA EnterWindowLemma ==
    ASSUME NEW s \in LayoutState, NEW w \in WindowOrNone
    PROVE  /\ EnterWindow(s, w) \in LayoutState
           /\ SameLayouts(s, EnterWindow(s, w))
           /\ EnterWindow(s, w).staged = s.staged
           /\ EnterWindow(s, w).parents = s.parents
BY DEF EnterWindow, SameLayouts, LayoutState, WindowOrNone

LEMMA PushActiveToParentLemma ==
    ASSUME NEW s \in LayoutState
    PROVE  /\ PushActiveToParent(s) \in LayoutState
           /\ SameLayouts(s, PushActiveToParent(s))
           /\ PushActiveToParent(s).staged = s.staged
<1>1. ActiveLayout(s).id \in Nat
  BY ReadLemma DEF ActiveLayout
<1>2. Append(s.parents, ActiveLayout(s).id) \in Seq(Nat)
  BY <1>1 DEF LayoutState
<1> QED
  BY <1>2 DEF PushActiveToParent, SameLayouts, LayoutState

LEMMA SetActiveLemma ==
    ASSUME NEW s \in LayoutState, NEW p \in Position, NEW clear \in BOOLEAN
    PROVE  /\ SetActive(s, p, clear) \in LayoutState
           /\ SameLayouts(s, SetActive(s, p, clear))
           /\ SetActive(s, p, clear).parents \in {s.parents, <<>>}
           /\ SetActive(s, p, clear).staged
                = Append(s.staged, [kind |-> "active", position |-> PrimaryOf(p.index)])
<1> DEFINE unfocused == [s EXCEPT !.focus = NoWindow]
           entered == EnterWindow(unfocused, WindowAt(s, p))
           cleared == IF clear THEN [entered EXCEPT !.parents = <<>>] ELSE entered
<1>1. unfocused \in LayoutState /\ SameLayouts(s, unfocused)
      /\ unfocused.staged = s.staged /\ unfocused.parents = s.parents
  BY DEF LayoutState, SameLayouts, WindowOrNone
<1>0. WindowAt(s, p) \in WindowOrNone
  BY WindowAtLemma
<1> HIDE DEF unfocused
<1>2. entered \in LayoutState /\ SameLayouts(s, entered)
      /\ entered.staged = s.staged /\ entered.parents = s.parents
  BY <1>0, <1>1, EnterWindowLemma DEF SameLayouts
<1> HIDE DEF entered
<1>3. cleared \in LayoutState /\ SameLayouts(s, cleared)
      /\ cleared.staged = s.staged /\ cleared.parents \in {s.parents, <<>>}
  <2>1. CASE clear
    <3>1. cleared = [entered EXCEPT !.parents = <<>>]
      BY <2>1
    <3> HIDE DEF cleared
    <3>2. <<>> \in Seq(Nat)
      OBVIOUS
    <3>3. cleared \in LayoutState
      BY <1>2, <3>1, <3>2 DEF LayoutState
    <3> QED
      BY <1>2, <3>1, <3>3 DEF LayoutState, SameLayouts
  <2>2. CASE ~clear
    BY <1>2, <2>2
  <2> QED
    BY <2>1, <2>2
<1> HIDE DEF cleared
<1>4. PrimaryOf(p.index) \in Position
  BY DEF PrimaryOf, Position
<1>5. SetActive(s, p, clear) = Stage(cleared, "active", PrimaryOf(p.index))
  BY DEF SetActive, cleared, entered, unfocused
<1> DEFINE result == Stage(cleared, "active", PrimaryOf(p.index))
<1>6. /\ result \in LayoutState
      /\ SameLayouts(cleared, result)
      /\ result.parents = cleared.parents
      /\ result.staged = Append(cleared.staged,
                                [kind |-> "active", position |-> PrimaryOf(p.index)])
  BY <1>3, <1>4, StageLemma
<1> HIDE DEF result
<1>7. SameLayouts(s, result)
  BY <1>3, <1>6 DEF SameLayouts
<1>8. SetActive(s, p, clear) = result
  BY <1>5 DEF result
<1> QED
  BY <1>3, <1>6, <1>7, <1>8

LEMMA CycleActiveLemma ==
    ASSUME NEW s \in LayoutState, NEW step \in {-1, 1}
    PROVE  /\ CycleActive(s, step) \in LayoutState
           /\ SameLayouts(s, CycleActive(s, step))
<1> DEFINE count == Len(s.layouts)
           target == IF s.active = 0 THEN 0 ELSE (s.active - 1 + step) % count
           p == PrimaryOf(target + 1)
<1>1. count \in Nat /\ s.active \in Nat
  BY DEF LayoutState
<1>2. CASE count = 0
  <2>1. CycleActive(s, step) = s
    BY <1>2 DEF CycleActive
  <2> QED
    BY <2>1 DEF SameLayouts
<1>3. CASE count # 0
  <2>1. target \in Nat
    BY <1>1, <1>3
  <2> HIDE DEF target
  <2>2. p \in Position
    BY <2>1 DEF PrimaryOf, Position
  <2>3. CycleActive(s, step) = SetActive(s, p, TRUE)
    BY <1>3 DEF CycleActive, target
  <2> HIDE DEF p
  <2> QED
    BY <2>2, <2>3, SetActiveLemma
<1> QED
  BY <1>2, <1>3

LEMMA EnterAndStageLemma ==
    ASSUME NEW s \in LayoutState, NEW p \in Position,
           NEW kind \in {"primary", "secondary"}
    PROVE  LET t == Stage(EnterWindow(s, WindowAt(s, p)), kind, p)
           IN  t \in LayoutState /\ SameLayouts(s, t)
<1> DEFINE entered == EnterWindow(s, WindowAt(s, p))
<1>1. entered \in LayoutState /\ SameLayouts(s, entered)
  BY WindowAtLemma, EnterWindowLemma
<1>2. kind \in {"active", "primary", "secondary"}
  OBVIOUS
<1> HIDE DEF entered
<1> DEFINE t == Stage(entered, kind, p)
<1>3. t \in LayoutState /\ SameLayouts(entered, t)
  BY <1>1, <1>2, StageLemma
<1> HIDE DEF t
<1>4. SameLayouts(s, t)
  BY <1>1, <1>3 DEF SameLayouts
<1> QED
  BY <1>3, <1>4 DEF t, entered

LEMMA SetPrimaryLemma ==
    ASSUME NEW s \in LayoutState, NEW p \in Position
    PROVE  SetPrimary(s, p) \in LayoutState /\ SameLayouts(s, SetPrimary(s, p))
<1>1. CASE SetPrimary(s, p) = s
  BY <1>1 DEF SameLayouts
<1>2. CASE SetPrimary(s, p) = SetActive(s, p, TRUE)
  BY <1>2, SetActiveLemma
<1>3. CASE SetPrimary(s, p) = Stage(EnterWindow(s, WindowAt(s, p)), "primary", p)
  BY <1>3, EnterAndStageLemma
<1> QED
  BY <1>1, <1>2, <1>3 DEF SetPrimary

LEMMA SetSecondaryLemma ==
    ASSUME NEW s \in LayoutState, NEW p \in Position
    PROVE  SetSecondary(s, p) \in LayoutState /\ SameLayouts(s, SetSecondary(s, p))
<1>1. CASE SetSecondary(s, p) = s
  BY <1>1 DEF SameLayouts
<1>2. CASE SetSecondary(s, p) = SetPrimary(s, p)
  BY <1>2, SetPrimaryLemma
<1>3. CASE SetSecondary(s, p) = Stage(EnterWindow(s, WindowAt(s, p)), "secondary", p)
  BY <1>3, EnterAndStageLemma
<1> QED
  BY <1>1, <1>2, <1>3 DEF SetSecondary

----------------------------------------------------------------------------
(* Layouts that share no window.                                           *)

\* Two slots, of one layout or of two, never hold the same window.
Disjoint(layouts) ==
    /\ \A i \in DOMAIN layouts :
         layouts[i].primary = layouts[i].secondary => layouts[i].primary = NoWindow
    /\ \A i, j \in DOMAIN layouts :
         i # j => WindowsOf(layouts[i]) \cap WindowsOf(layouts[j]) = {}

Within(layouts, ws) == \A i \in DOMAIN layouts : WindowsOf(layouts[i]) \subseteq ws

\* A layout fits where no other layout has one of its windows.
Fits(layout, layouts, i, ws) ==
    /\ layout \in Layout
    /\ layout.primary = layout.secondary => layout.primary = NoWindow
    /\ \A j \in DOMAIN layouts \ {i} : WindowsOf(layout) \cap WindowsOf(layouts[j]) = {}
    /\ WindowsOf(layout) \subseteq ws

LEMMA AppendFits ==
    ASSUME NEW layouts \in Seq(Layout), NEW ws, NEW layout,
           Disjoint(layouts), Within(layouts, ws),
           Fits(layout, layouts, 0, ws)
    PROVE  LET longer == Append(layouts, layout)
           IN  longer \in Seq(Layout) /\ Disjoint(longer) /\ Within(longer, ws)
<1> DEFINE longer == Append(layouts, layout)
           last == Len(layouts) + 1
<1>1. /\ longer \in Seq(Layout)
      /\ DOMAIN longer = 1..last
      /\ DOMAIN layouts = 1..(last - 1)
      /\ longer[last] = layout
      /\ \A i \in DOMAIN layouts : longer[i] = layouts[i]
      /\ last \in Nat
  BY DEF Fits
<1> HIDE DEF longer, last
<1>2. \A i \in DOMAIN longer : i = last \/ (i \in DOMAIN layouts /\ i # 0)
  BY <1>1
<1>3. \A i \in DOMAIN longer :
        longer[i].primary = longer[i].secondary => longer[i].primary = NoWindow
  BY <1>1, <1>2 DEF Disjoint, Fits
<1>4. \A i, j \in DOMAIN longer :
        i # j => WindowsOf(longer[i]) \cap WindowsOf(longer[j]) = {}
  BY <1>1, <1>2 DEF Disjoint, Fits
<1>5. Within(longer, ws)
  BY <1>1, <1>2 DEF Within, Fits
<1> QED
  BY <1>1, <1>3, <1>4, <1>5 DEF Disjoint, longer

LEMMA ReplaceFits ==
    ASSUME NEW layouts \in Seq(Layout), NEW ws, NEW i \in DOMAIN layouts, NEW layout,
           Disjoint(layouts), Within(layouts, ws),
           Fits(layout, layouts, i, ws)
    PROVE  LET replaced == [layouts EXCEPT ![i] = layout]
           IN  /\ replaced \in Seq(Layout) /\ Len(replaced) = Len(layouts)
               /\ Disjoint(replaced) /\ Within(replaced, ws)
<1> DEFINE replaced == [layouts EXCEPT ![i] = layout]
<1>1. /\ replaced \in Seq(Layout)
      /\ Len(replaced) = Len(layouts)
      /\ DOMAIN replaced = DOMAIN layouts
      /\ replaced[i] = layout
      /\ \A j \in DOMAIN layouts \ {i} : replaced[j] = layouts[j]
  BY DEF Fits
<1> HIDE DEF replaced
<1>2. \A j \in DOMAIN replaced :
        replaced[j].primary = replaced[j].secondary => replaced[j].primary = NoWindow
  BY <1>1 DEF Disjoint, Fits
<1>3. \A j, k \in DOMAIN replaced :
        j # k => WindowsOf(replaced[j]) \cap WindowsOf(replaced[k]) = {}
  BY <1>1 DEF Disjoint, Fits
<1>4. Within(replaced, ws)
  BY <1>1 DEF Within, Fits
<1> QED
  BY <1>1, <1>2, <1>3, <1>4 DEF Disjoint, replaced

----------------------------------------------------------------------------
(* Applying staged changes keeps layouts disjoint.                         *)

Valid(s) ==
    s \in LayoutState /\ Disjoint(s.layouts) /\ Within(s.layouts, s.created)

\* What applying a staged transaction leaves alone.
SameQueues(s, t) ==
    /\ t.staged = s.staged
    /\ t.parents = s.parents
    /\ t.focus = s.focus
    /\ t.created = s.created
    /\ t.dead = s.dead

LEMMA WithLayouts ==
    ASSUME NEW s \in LayoutState, NEW layouts \in Seq(Layout),
           Disjoint(layouts), Within(layouts, s.created)
    PROVE  LET t == [s EXCEPT !.layouts = layouts]
           IN  Valid(t) /\ SameQueues(s, t) /\ t.layouts = layouts
BY DEF Valid, SameQueues, LayoutState

LEMMA ActivateLemma ==
    ASSUME NEW s, Valid(s), NEW i \in Nat
    PROVE  LET t == [s EXCEPT !.active = i]
           IN  Valid(t) /\ SameQueues(s, t) /\ t.layouts = s.layouts
BY DEF Valid, SameQueues, LayoutState

LEMMA LeaveActiveLemma ==
    ASSUME NEW s, Valid(s)
    PROVE  /\ Valid(LeaveActive(s)) /\ SameQueues(s, LeaveActive(s))
           /\ LeaveActive(s).layouts = s.layouts
BY DEF Valid, SameQueues, LayoutState, LeaveActive

LEMMA AppendLayoutLemma ==
    ASSUME NEW s, Valid(s), NEW w \in s.created, w # NoWindow,
           \A j \in DOMAIN s.layouts : w \notin WindowsOf(s.layouts[j])
    PROVE  LET t == AppendLayout(s, w)
           IN  /\ Valid(t) /\ SameQueues(s, t)
               /\ Len(t.layouts) = Len(s.layouts) + 1
               /\ \A i \in DOMAIN s.layouts : t.layouts[i] = s.layouts[i]
               /\ WindowsOf(t.layouts[Len(t.layouts)]) = {w}
<1> DEFINE layout == [primary |-> w, secondary |-> NoWindow, id |-> s.nextId]
           longer == Append(s.layouts, layout)
<1>1. Fits(layout, s.layouts, 0, s.created)
  BY DEF Fits, Valid, LayoutState, Layout, WindowOrNone, WindowsOf
<1>2. s.layouts \in Seq(Layout)
  BY DEF Valid, LayoutState
<1>3. WindowsOf(layout) = {w}
  BY DEF WindowsOf
<1> HIDE DEF layout
<1>4. longer \in Seq(Layout) /\ Disjoint(longer) /\ Within(longer, s.created)
  BY <1>1, <1>2, AppendFits DEF Valid
<1>5. /\ Len(longer) = Len(s.layouts) + 1
      /\ \A i \in DOMAIN s.layouts : longer[i] = s.layouts[i]
      /\ longer[Len(longer)] = layout
  BY <1>1, <1>2 DEF Fits
<1> HIDE DEF longer
<1>6. AppendLayout(s, w) = [s EXCEPT !.layouts = longer, !.nextId = s.nextId + 1]
  BY DEF AppendLayout, longer, layout
<1> DEFINE next == s.nextId + 1
           t == [s EXCEPT !.layouts = longer, !.nextId = next]
<1>7. t \in LayoutState /\ t.layouts = longer /\ SameQueues(s, t)
  <2>1. s \in LayoutState /\ next \in Nat \ {0}
    BY DEF Valid, LayoutState
  <2> HIDE DEF next
  <2> QED
    BY <1>4, <2>1 DEF LayoutState, SameQueues
<1> HIDE DEF t
<1>8. Valid(t)
  BY <1>4, <1>7 DEF Valid, SameQueues
<1>9. AppendLayout(s, w) = t
  BY <1>6 DEF t
<1> QED
  BY <1>3, <1>5, <1>7, <1>8, <1>9

LEMMA ReplaceLemma ==
    ASSUME NEW s, Valid(s), NEW i \in DOMAIN s.layouts, NEW layout,
           Fits(layout, s.layouts, i, s.created)
    PROVE  LET t == [s EXCEPT !.layouts[i] = layout]
           IN  /\ Valid(t) /\ SameQueues(s, t)
               /\ t.layouts = [s.layouts EXCEPT ![i] = layout]
               /\ Len(t.layouts) = Len(s.layouts)
<1> DEFINE replaced == [s.layouts EXCEPT ![i] = layout]
<1>1. s.layouts \in Seq(Layout) /\ s \in LayoutState
  BY DEF Valid, LayoutState
<1>2. /\ replaced \in Seq(Layout) /\ Len(replaced) = Len(s.layouts)
      /\ Disjoint(replaced) /\ Within(replaced, s.created)
  BY <1>1, ReplaceFits DEF Valid
<1>3. [s EXCEPT !.layouts[i] = layout] = [s EXCEPT !.layouts = replaced]
  BY <1>1 DEF LayoutState
<1> HIDE DEF replaced
<1>4. LET t == [s EXCEPT !.layouts = replaced]
      IN  Valid(t) /\ SameQueues(s, t) /\ t.layouts = replaced
  BY <1>1, <1>2, WithLayouts
<1> QED
  BY <1>2, <1>3, <1>4 DEF replaced

\* A position without a layout is one without a window.
LEMMA OccupiedLemma ==
    ASSUME NEW s, Valid(s), NEW p \in Position, WindowAt(s, p) # NoWindow
    PROVE  p.index \in DOMAIN s.layouts
BY DEF WindowAt, LayoutAt, Occupant, DefaultLayout

LEMMA ApplySetActiveLemma ==
    ASSUME NEW s, Valid(s), NEW i \in Nat
    PROVE  LET t == ApplySetActive(s, i)
           IN  Valid(t) /\ SameQueues(s, t) /\ t.layouts = s.layouts
<1>1. CASE i = s.active
  BY <1>1 DEF ApplySetActive, SameQueues
<1>2. CASE i # s.active
  <2> DEFINE left == LeaveActive(s)
  <2>1. Valid(left) /\ SameQueues(s, left) /\ left.layouts = s.layouts
    BY LeaveActiveLemma
  <2>2. ApplySetActive(s, i) = [left EXCEPT !.active = i]
    BY <1>2 DEF ApplySetActive
  <2> HIDE DEF left
  <2> QED
    BY <2>1, <2>2, ActivateLemma DEF SameQueues
<1> QED
  BY <1>1, <1>2

LEMMA SplitSecondaryLemma ==
    ASSUME NEW s, Valid(s), NEW i \in DOMAIN s.layouts
    PROVE  LET t == SplitSecondary(s, i)
           IN  Valid(t) /\ SameQueues(s, t)
<1> DEFINE window == s.layouts[i].secondary
           layout == [s.layouts[i] EXCEPT !.secondary = NoWindow]
           alone == [s EXCEPT !.layouts[i] = layout]
<1>0. s \in LayoutState /\ s.layouts \in Seq(Layout) /\ s.layouts[i] \in Layout
  BY DEF Valid, LayoutState
<1>1. CASE window = NoWindow
  BY <1>0, <1>1 DEF SplitSecondary, SameQueues
<1>2. CASE window # NoWindow
  <2>1. Fits(layout, s.layouts, i, s.created) /\ window \notin WindowsOf(layout)
    BY <1>0, <1>2 DEF Fits, Valid, Disjoint, Within, WindowsOf, Layout, WindowOrNone
  <2>2. window \in WindowsOf(s.layouts[i]) /\ window \in s.created
    BY <1>2 DEF WindowsOf, Valid, Within
  <2>3. SplitSecondary(s, i) = AppendLayout(alone, window)
    BY <1>0, <1>2 DEF SplitSecondary, LayoutState
  <2> HIDE DEF layout
  <2>4. /\ Valid(alone) /\ SameQueues(s, alone)
        /\ alone.layouts = [s.layouts EXCEPT ![i] = layout]
        /\ Len(alone.layouts) = Len(s.layouts)
    BY <2>1, ReplaceLemma
  <2> HIDE DEF alone
  <2>5. \A j \in DOMAIN alone.layouts : window \notin WindowsOf(alone.layouts[j])
    BY <1>0, <2>1, <2>2, <2>4 DEF Valid, Disjoint
  <2> DEFINE t == AppendLayout(alone, window)
  <2>6. /\ Valid(t) /\ SameQueues(alone, t)
        /\ Len(t.layouts) = Len(alone.layouts) + 1
    BY <1>2, <2>2, <2>4, <2>5, AppendLayoutLemma, ZenonT(30) DEF SameQueues
  <2> HIDE DEF t
  <2>7. SameQueues(s, t)
    BY <1>0, <2>4, <2>6 DEF SameQueues
  <2> QED
    BY <2>3, <2>6, <2>7 DEF t
<1> QED
  BY <1>1, <1>2

LEMMA ApplyPrimaryLemma ==
    ASSUME NEW s, Valid(s), NEW p \in Position
    PROVE  LET t == ApplyPrimary(s, p)
           IN  Valid(t) /\ SameQueues(s, t)
<1> DEFINE split == SplitSecondary(s, p.index)
           left == LeaveActive(split)
           index == IF p.secondary THEN Len(split.layouts) ELSE p.index
           t == [left EXCEPT !.active = index]
<1>1. CASE WindowAt(s, p) = NoWindow
  BY <1>1 DEF ApplyPrimary, SameQueues, Valid, LayoutState
<1>2. CASE WindowAt(s, p) # NoWindow
  <2>1. ApplyPrimary(s, p) = t
    BY <1>2 DEF ApplyPrimary
  <2>2. Valid(split) /\ SameQueues(s, split)
    BY <1>2, OccupiedLemma, SplitSecondaryLemma
  <2> HIDE DEF split
  <2>3. Valid(left) /\ SameQueues(split, left) /\ left.layouts = split.layouts
    BY <2>2, LeaveActiveLemma
  <2>4. index \in Nat
    <3>1. split.layouts \in Seq(Layout) /\ p.index \in Nat
      BY <2>2 DEF Valid, LayoutState, Position
    <3> QED
      BY <3>1
  <2> HIDE DEF left, index
  <2>5. Valid(t) /\ SameQueues(left, t) /\ t.layouts = left.layouts
    BY <2>3, <2>4, ActivateLemma
  <2> HIDE DEF t
  <2>6. SameQueues(s, t)
    BY <2>2, <2>3, <2>5 DEF SameQueues
  <2> QED
    BY <2>1, <2>5, <2>6
<1> QED
  BY <1>1, <1>2

Unplaced(w, layouts) == \A i \in DOMAIN layouts : w \notin WindowsOf(layouts[i])

\* A window that is taken is in no layout any more.
LEMMA TakeWindowLemma ==
    ASSUME NEW s, Valid(s), NEW p \in Position, WindowAt(s, p) # NoWindow
    PROVE  LET t == TakeWindow(s, p)
           IN  /\ Valid(t) /\ SameQueues(s, t) /\ Len(t.layouts) = Len(s.layouts)
               /\ t.active = s.active
               /\ Unplaced(WindowAt(s, p), t.layouts)
<1> DEFINE i == p.index
           from == s.layouts[i]
           window == WindowAt(s, p)
           sibling == Occupant(from, ~p.secondary)
           layout == [from EXCEPT !.primary = sibling, !.secondary = NoWindow]
           seen == IF p.secondary THEN s.visible ELSE s.visible \ {sibling}
           moved == [s EXCEPT !.layouts[i] = layout]
           t == [moved EXCEPT !.visible = seen]
<1>0. i \in DOMAIN s.layouts
  BY OccupiedLemma
<1>1. /\ s \in LayoutState /\ s.layouts \in Seq(Layout) /\ from \in Layout
      /\ p.secondary \in BOOLEAN
  BY <1>0 DEF Valid, LayoutState, Position
<1>2. window = Occupant(from, p.secondary)
  BY <1>0 DEF WindowAt, LayoutAt
<1>3. /\ Fits(layout, s.layouts, i, s.created)
      /\ window \notin WindowsOf(layout)
      /\ window \in WindowsOf(from)
  <2>1. CASE p.secondary
    BY <1>0, <1>1, <1>2, <2>1
       DEF Occupant, Fits, Valid, Disjoint, Within, WindowsOf, Layout, WindowOrNone
  <2>2. CASE ~p.secondary
    BY <1>0, <1>1, <1>2, <2>2
       DEF Occupant, Fits, Valid, Disjoint, Within, WindowsOf, Layout, WindowOrNone
  <2> QED
    BY <1>1, <2>1, <2>2
<1>4. seen \in SUBSET Windows
  BY <1>1 DEF LayoutState
<1>5. TakeWindow(s, p) = t
  BY <1>1 DEF TakeWindow, LayoutState
<1> HIDE DEF layout, seen, window
<1>6. /\ Valid(moved) /\ SameQueues(s, moved)
      /\ moved.layouts = [s.layouts EXCEPT ![i] = layout]
      /\ Len(moved.layouts) = Len(s.layouts)
  BY <1>0, <1>3, ReplaceLemma
<1>7. moved.active = s.active
  BY <1>1 DEF LayoutState
<1>8. Unplaced(window, moved.layouts)
  BY <1>0, <1>1, <1>3, <1>6 DEF Unplaced, Valid, Disjoint
<1> HIDE DEF moved
<1>9. /\ t \in LayoutState /\ t.layouts = moved.layouts /\ SameQueues(moved, t)
      /\ t.active = moved.active
  BY <1>4, <1>6 DEF LayoutState, SameQueues, Valid
<1> HIDE DEF t
<1>10. Valid(t)
  BY <1>6, <1>9 DEF Valid, SameQueues
<1>11. SameQueues(s, t)
  BY <1>6, <1>9 DEF SameQueues
<1> QED
  BY <1>5, <1>6, <1>7, <1>8, <1>9, <1>10, <1>11 DEF window

LEMMA PutSecondaryLemma ==
    ASSUME NEW s, Valid(s), NEW i \in DOMAIN s.layouts,
           NEW w \in s.created, w # NoWindow, Unplaced(w, s.layouts)
    PROVE  LET t == PutSecondary(s, i, w)
           IN  Valid(t) /\ SameQueues(s, t)
<1> DEFINE booted == s.layouts[i].secondary
           layout == [s.layouts[i] EXCEPT !.secondary = w]
           placed == [s EXCEPT !.layouts[i] = layout]
<1>1. /\ s \in LayoutState /\ s.layouts \in Seq(Layout) /\ s.layouts[i] \in Layout
      /\ w \in Windows
  BY DEF Valid, LayoutState
<1>2. /\ Fits(layout, s.layouts, i, s.created)
      /\ booted # NoWindow => booted \notin WindowsOf(layout)
                              /\ booted \in WindowsOf(s.layouts[i])
  <2>1. /\ layout.primary = s.layouts[i].primary /\ layout.secondary = w
        /\ layout \in Layout
    BY <1>1 DEF Layout, WindowOrNone
  <2>2. w \notin WindowsOf(s.layouts[i])
    BY DEF Unplaced
  <2>3. layout.primary # layout.secondary
    BY <2>1, <2>2 DEF WindowsOf
  <2>4. WindowsOf(layout) \subseteq WindowsOf(s.layouts[i]) \cup {w}
    BY <2>1 DEF WindowsOf
  <2>5. \A j \in DOMAIN s.layouts \ {i} :
          WindowsOf(layout) \cap WindowsOf(s.layouts[j]) = {}
    BY <2>4 DEF Valid, Disjoint, Unplaced
  <2>6. WindowsOf(layout) \subseteq s.created
    BY <2>4 DEF Valid, Within
  <2>7. booted # NoWindow => booted \notin WindowsOf(layout)
                             /\ booted \in WindowsOf(s.layouts[i])
    BY <2>1, <2>2 DEF Valid, Disjoint, WindowsOf
  <2> HIDE DEF layout
  <2> QED
    BY <2>1, <2>3, <2>5, <2>6, <2>7 DEF Fits
<1>3. PutSecondary(s, i, w) = IF booted = NoWindow THEN placed
                              ELSE AppendLayout(placed, booted)
  BY <1>1 DEF PutSecondary, LayoutState
<1> HIDE DEF layout
<1>4. /\ Valid(placed) /\ SameQueues(s, placed)
      /\ placed.layouts = [s.layouts EXCEPT ![i] = layout]
      /\ Len(placed.layouts) = Len(s.layouts)
  BY <1>2, ReplaceLemma
<1> HIDE DEF placed
<1>5. CASE booted = NoWindow
  BY <1>1, <1>3, <1>4, <1>5
<1>6. CASE booted # NoWindow
  <2>1. booted \in placed.created
    BY <1>2, <1>4, <1>6 DEF SameQueues, Valid, Within
  <2>2. \A j \in DOMAIN placed.layouts : booted \notin WindowsOf(placed.layouts[j])
    BY <1>1, <1>2, <1>4, <1>6 DEF Valid, Disjoint
  <2> HIDE DEF booted
  <2> DEFINE t == AppendLayout(placed, booted)
  <2>3. /\ Valid(t) /\ SameQueues(placed, t)
        /\ Len(t.layouts) = Len(placed.layouts) + 1
    BY <1>4, <1>6, <2>1, <2>2, AppendLayoutLemma
  <2> HIDE DEF t
  <2>4. SameQueues(s, t)
    BY <1>1, <1>4, <2>3 DEF SameQueues
  <2>5. PutSecondary(s, i, w) = t
    BY <1>3, <1>6 DEF t
  <2> QED
    BY <2>3, <2>4, <2>5
<1> QED
  BY <1>5, <1>6

\* The empty layout that is opened when no layout is active.
LEMMA OpenLayoutLemma ==
    ASSUME NEW s, Valid(s), NEW last, last = Len(s.layouts) + 1
    PROVE  LET t == [s EXCEPT !.layouts = Append(@, DefaultLayout), !.active = last]
           IN  /\ Valid(t) /\ SameQueues(s, t) /\ Len(t.layouts) = last
               /\ \A w \in Windows : Unplaced(w, s.layouts) => Unplaced(w, t.layouts)
<1> DEFINE longer == Append(s.layouts, DefaultLayout)
<1>1. s \in LayoutState /\ s.layouts \in Seq(Layout) /\ last \in Nat
  BY DEF Valid, LayoutState
<1>2. Fits(DefaultLayout, s.layouts, 0, s.created) /\ WindowsOf(DefaultLayout) = {}
  BY DEF Fits, DefaultLayout, Layout, WindowsOf, WindowOrNone
<1>3. longer \in Seq(Layout) /\ Disjoint(longer) /\ Within(longer, s.created)
  BY <1>1, <1>2, AppendFits DEF Valid
<1>4. /\ Len(longer) = last
      /\ \A i \in DOMAIN longer :
           (i \in DOMAIN s.layouts /\ longer[i] = s.layouts[i]) \/ longer[i] = DefaultLayout
  <2>1. DefaultLayout \in Layout
    BY <1>2 DEF Fits
  <2> QED
    BY <1>1, <2>1
<1> HIDE DEF longer
<1>5. \A w \in Windows : Unplaced(w, s.layouts) => Unplaced(w, longer)
  BY <1>2, <1>4 DEF Unplaced
<1> DEFINE t == [s EXCEPT !.layouts = longer, !.active = last]
<1>6. t \in LayoutState /\ t.layouts = longer /\ SameQueues(s, t)
  BY <1>1, <1>3 DEF LayoutState, SameQueues
<1>7. [s EXCEPT !.layouts = Append(@, DefaultLayout), !.active = last] = t
  BY DEF longer
<1> HIDE DEF t
<1>8. Valid(t)
  BY <1>3, <1>6 DEF Valid, SameQueues
<1> QED
  BY <1>4, <1>5, <1>6, <1>7, <1>8

LEMMA ApplySecondaryLemma ==
    ASSUME NEW s, Valid(s), NEW p \in Position
    PROVE  LET t == ApplySecondary(s, p)
           IN  Valid(t) /\ SameQueues(s, t)
<1> DEFINE window == WindowAt(s, p)
           taken == TakeWindow(s, p)
           last == Len(s.layouts) + 1
           opened == [taken EXCEPT !.layouts = Append(@, DefaultLayout),
                                   !.active = last]
           result == ApplySecondary(s, p)
<1>1. /\ s \in LayoutState /\ Len(s.layouts) \in Nat
      /\ DOMAIN s.layouts = 1..Len(s.layouts)
  BY DEF Valid, LayoutState
<1>2. CASE window = NoWindow
  BY <1>1, <1>2 DEF ApplySecondary, SameQueues
<1>3. CASE window # NoWindow
  <2>1. window \in s.created /\ window \in Windows
    <3>1. window \in WindowsOf(s.layouts[p.index])
      BY <1>3, OccupiedLemma DEF WindowAt, LayoutAt, Occupant, WindowsOf
    <3>2. window \in s.created
      BY <1>3, <3>1, OccupiedLemma DEF Valid, Within
    <3> QED
      BY <1>1, <3>2 DEF LayoutState
  <2>2. /\ Valid(taken) /\ SameQueues(s, taken)
        /\ Len(taken.layouts) = Len(s.layouts)
        /\ Unplaced(window, taken.layouts)
    BY <1>3, TakeWindowLemma
  <2>3. result = IF s.active \in DOMAIN s.layouts
                 THEN PutSecondary(taken, s.active, window)
                 ELSE IF taken.layouts[p.index].primary = NoWindow
                 THEN [taken EXCEPT !.active = p.index]
                 ELSE PutSecondary(opened, last, window)
    BY <1>3 DEF ApplySecondary
  <2> HIDE DEF result, taken, window, last
  <2>4. DOMAIN taken.layouts = DOMAIN s.layouts /\ window \in taken.created
    BY <1>1, <2>1, <2>2 DEF Valid, LayoutState, SameQueues
  <2>5. CASE s.active \in DOMAIN s.layouts
    <3>1. result = PutSecondary(taken, s.active, window)
      BY <2>3, <2>5
    <3> DEFINE t == PutSecondary(taken, s.active, window)
    <3>2. Valid(t) /\ SameQueues(taken, t)
      BY <1>3, <2>2, <2>4, <2>5, PutSecondaryLemma
    <3> HIDE DEF t
    <3>3. SameQueues(s, t)
      BY <2>2, <3>2 DEF SameQueues
    <3> QED
      BY <3>1, <3>2, <3>3 DEF result, t
  <2>6. CASE /\ s.active \notin DOMAIN s.layouts
             /\ taken.layouts[p.index].primary = NoWindow
    <3> DEFINE t == [taken EXCEPT !.active = p.index]
    <3>1. result = t
      BY <2>3, <2>6
    <3>2. p.index \in Nat
      BY DEF Position
    <3>3. Valid(t) /\ SameQueues(taken, t) /\ t.layouts = taken.layouts
      BY <2>2, <3>2, ActivateLemma
    <3> HIDE DEF t
    <3>4. SameQueues(s, t)
      BY <1>1, <2>2, <3>3 DEF SameQueues
    <3> QED
      BY <3>1, <3>3, <3>4 DEF result
  <2>7. CASE /\ s.active \notin DOMAIN s.layouts
             /\ taken.layouts[p.index].primary # NoWindow
    <3>1. result = PutSecondary(opened, last, window)
      BY <2>3, <2>7
    <3>2. last = Len(taken.layouts) + 1
      BY <2>2 DEF last
    <3>3. /\ Valid(opened) /\ SameQueues(taken, opened)
          /\ Len(opened.layouts) = last
          /\ Unplaced(window, opened.layouts)
      BY <2>1, <2>2, <3>2, OpenLayoutLemma
    <3> HIDE DEF opened
    <3>4. last \in DOMAIN opened.layouts /\ window \in opened.created
      BY <1>1, <2>2, <2>4, <3>2, <3>3 DEF Valid, LayoutState, SameQueues
    <3> DEFINE t == PutSecondary(opened, last, window)
    <3>5. Valid(t) /\ SameQueues(opened, t)
      BY <1>3, <3>3, <3>4, PutSecondaryLemma
    <3>6. Len(t.layouts) \in Nat
      BY <3>5 DEF Valid, LayoutState
    <3> HIDE DEF t
    <3>7. SameQueues(s, t)
      BY <1>1, <2>2, <3>2, <3>3, <3>5, <3>6 DEF SameQueues
    <3> QED
      BY <3>1, <3>5, <3>7 DEF result, t
  <2> QED
    BY <2>5, <2>6, <2>7
<1> QED
  BY <1>2, <1>3

LEMMA ApplyStagedLemma ==
    ASSUME NEW s, Valid(s), NEW t \in Transaction
    PROVE  LET r == ApplyStaged(s, t)
           IN  Valid(r) /\ SameQueues(s, r)
<1>1. t.position \in Position /\ t.position.index \in Nat
  BY DEF Transaction, Position
<1>2. CASE t.kind = "active"
  <2>1. ApplyStaged(s, t) = ApplySetActive(s, t.position.index)
    BY <1>2 DEF ApplyStaged
  <2>2. Len(s.layouts) \in Nat
    BY DEF Valid, LayoutState
  <2> QED
    BY <1>1, <2>1, <2>2, ApplySetActiveLemma
<1>3. CASE t.kind = "primary"
  BY <1>1, <1>3, ApplyPrimaryLemma DEF ApplyStaged
<1>4. CASE t.kind = "secondary"
  BY <1>1, <1>4, ApplySecondaryLemma DEF ApplyStaged
<1> QED
  BY <1>2, <1>3, <1>4 DEF Transaction

\* After the loop over the staged transactions.
LEMMA StagedRunValid ==
    ASSUME NEW s, Valid(s)
    PROVE  LET r == StagedRun(s)[Len(s.staged)] IN Valid(r) /\ SameQueues(s, r)
<1> DEFINE n == Len(s.staged)
           run == StagedRun(s)
           good == {k \in 0..n : Valid(run[k]) /\ SameQueues(s, run[k])}
<1>1. s.staged \in Seq(Transaction) /\ n \in Nat /\ DOMAIN s.staged = 1..n
  BY DEF Valid, LayoutState
<1>2. /\ run[0] = s
      /\ \A k \in 1..n : run[k] = ApplyStaged(run[k - 1], s.staged[k])
  BY <1>1, StagedRunLemma
<1> HIDE DEF n, run
<1>3. 0 \in good
  BY <1>1, <1>2 DEF SameQueues
<1>4. ASSUME NEW k \in 1..n, k - 1 \in good PROVE k \in good
  <2> DEFINE q == run[k - 1]
             r == run[k]
             t == s.staged[k]
  <2>1. Valid(q) /\ SameQueues(s, q)
    BY <1>4
  <2>2. t \in Transaction
    BY <1>1
  <2>3. r = ApplyStaged(q, t)
    BY <1>2
  <2> HIDE DEF q, t
  <2>4. Valid(r) /\ SameQueues(q, r)
    BY <2>1, <2>2, <2>3, ApplyStagedLemma
  <2> HIDE DEF r
  <2>5. SameQueues(s, r)
    BY <2>1, <2>4 DEF SameQueues
  <2> QED
    BY <2>4, <2>5 DEF r
<1> HIDE DEF good
<1>5. good \in SUBSET (0..n)
  BY DEF good
<1>6. n \in good
  BY <1>1, <1>3, <1>4, <1>5, LoopInduction
<1> QED
  BY <1>6 DEF good, run, n

----------------------------------------------------------------------------
(* Reaping.                                                                *)

LEMMA SurvivorLemma ==
    ASSUME NEW layout \in Layout, NEW dead \in SUBSET Windows,
           layout.primary = layout.secondary => layout.primary = NoWindow
    PROVE  LET rest == Survivor(layout, dead)
           IN  /\ rest \in Layout
               /\ WindowsOf(rest) = WindowsOf(layout) \ dead
               /\ rest.primary = rest.secondary => rest.primary = NoWindow
<1>1. NoWindow \notin dead
  BY WindowsAssumption
<1>2. CASE layout.primary \in dead
  BY <1>1, <1>2 DEF Survivor, WindowsOf, Layout, WindowOrNone
<1>3. CASE layout.primary \notin dead
  BY <1>1, <1>3 DEF Survivor, WindowsOf, Layout, WindowOrNone
<1> QED
  BY <1>2, <1>3

NoneEmpty(layouts) == \A i \in DOMAIN layouts : WindowsOf(layouts[i]) # {}

\* What holds of the kept layouts after k rounds of `retain_mut`.
ReapInv(s, k, r) ==
    /\ r \in [kept : Seq(Layout), active : Nat, clear : BOOLEAN]
    /\ Disjoint(r.kept)
    /\ Within(r.kept, s.created \ s.dead)
    /\ NoneEmpty(r.kept)
    /\ \A i \in DOMAIN r.kept, j \in DOMAIN s.layouts :
         j > k => WindowsOf(r.kept[i]) \cap WindowsOf(s.layouts[j]) = {}

LEMMA ReapLayoutLemma ==
    ASSUME NEW s, Valid(s), NEW k \in DOMAIN s.layouts, NEW r, ReapInv(s, k - 1, r)
    PROVE  ReapInv(s, k, ReapLayout(r, k, Survivor(s.layouts[k], s.dead)))
<1> DEFINE layout == s.layouts[k]
           rest == Survivor(layout, s.dead)
           result == ReapLayout(r, k, rest)
<1>1. /\ layout \in Layout /\ k \in Nat \ {0} /\ s.dead \in SUBSET Windows
      /\ layout.primary = layout.secondary => layout.primary = NoWindow
      /\ WindowsOf(layout) \subseteq s.created
      /\ DOMAIN s.layouts \subseteq Nat
  BY DEF Valid, LayoutState, Disjoint, Within
<1>2. /\ rest \in Layout
      /\ WindowsOf(rest) = WindowsOf(layout) \ s.dead
      /\ rest.primary = rest.secondary => rest.primary = NoWindow
  BY <1>1, SurvivorLemma
<1>3. /\ r \in [kept : Seq(Layout), active : Nat, clear : BOOLEAN]
      /\ r.kept \in Seq(Layout)
  BY DEF ReapInv
<1>4. \A i \in DOMAIN r.kept, j \in DOMAIN s.layouts :
        j >= k => WindowsOf(r.kept[i]) \cap WindowsOf(s.layouts[j]) = {}
  BY <1>1 DEF ReapInv
<1>5. \A j \in DOMAIN s.layouts :
        j > k => WindowsOf(layout) \cap WindowsOf(s.layouts[j]) = {}
  BY <1>1 DEF Valid, Disjoint
<1> HIDE DEF layout, rest
<1>6. CASE WindowsOf(rest) # {}
  <2> DEFINE longer == Append(r.kept, rest)
  <2>1. result = [r EXCEPT !.kept = longer]
    BY <1>6 DEF ReapLayout
  <2>2. Fits(rest, r.kept, 0, s.created \ s.dead)
    BY <1>1, <1>2, <1>4 DEF Fits, layout
  <2>3. longer \in Seq(Layout) /\ Disjoint(longer) /\ Within(longer, s.created \ s.dead)
    BY <1>3, <2>2, AppendFits DEF ReapInv
  <2>4. \A i \in DOMAIN longer :
          (i \in DOMAIN r.kept /\ longer[i] = r.kept[i]) \/ longer[i] = rest
    BY <1>2, <1>3
  <2> HIDE DEF longer
  <2>5. NoneEmpty(longer)
    BY <1>6, <2>4 DEF NoneEmpty, ReapInv
  <2>6. \A i \in DOMAIN longer, j \in DOMAIN s.layouts :
          j > k => WindowsOf(longer[i]) \cap WindowsOf(s.layouts[j]) = {}
    BY <1>1, <1>2, <1>4, <1>5, <2>4
  <2>7. /\ result \in [kept : Seq(Layout), active : Nat, clear : BOOLEAN]
        /\ result.kept = longer
    BY <1>3, <2>1, <2>3
  <2> HIDE DEF result
  <2>8. ReapInv(s, k, result)
    BY <2>3, <2>5, <2>6, <2>7 DEF ReapInv
  <2> QED
    BY <2>8 DEF result, rest, layout
<1>7. CASE WindowsOf(rest) = {}
  <2>1. ASSUME k < r.active
        PROVE  /\ result \in [kept : Seq(Layout), active : Nat, clear : BOOLEAN]
               /\ result.kept = r.kept
    <3>1. result = [r EXCEPT !.active = r.active - 1]
      BY <1>7, <2>1 DEF ReapLayout
    <3>2. r.active - 1 \in Nat
      BY <1>1, <1>3, <2>1
    <3> HIDE DEF result
    <3> QED
      BY <1>3, <3>1, <3>2
  <2>2. ASSUME k >= r.active
        PROVE  /\ result \in [kept : Seq(Layout), active : Nat, clear : BOOLEAN]
               /\ result.kept = r.kept
    <3>1. result \in {r, [r EXCEPT !.clear = TRUE]}
      BY <1>1, <1>3, <1>7, <2>2 DEF ReapLayout
    <3> HIDE DEF result
    <3> QED
      BY <1>3, <3>1
  <2>3. /\ result \in [kept : Seq(Layout), active : Nat, clear : BOOLEAN]
        /\ result.kept = r.kept
    BY <1>1, <1>3, <2>1, <2>2
  <2> HIDE DEF result
  <2>4. \A i \in DOMAIN result.kept, j \in DOMAIN s.layouts :
          j > k => WindowsOf(result.kept[i]) \cap WindowsOf(s.layouts[j]) = {}
    <3>1. \A j \in DOMAIN s.layouts : j > k => j >= k
      BY <1>1
    <3> QED
      BY <1>4, <2>3, <3>1
  <2>5. ReapInv(s, k, result)
    BY <2>3, <2>4 DEF ReapInv
  <2> QED
    BY <2>5 DEF result, rest, layout
<1> QED
  BY <1>6, <1>7

\* During the loop over the layouts.
LEMMA ReapRunInv ==
    ASSUME NEW s, Valid(s)
    PROVE  \A k \in 0..Len(s.layouts) : ReapInv(s, k, ReapRun(s)[k])
<1> DEFINE n == Len(s.layouts)
           run == ReapRun(s)
           good == {k \in 0..n : ReapInv(s, k, run[k])}
<1>1. /\ n \in Nat /\ DOMAIN s.layouts = 1..n /\ s.active \in Nat
  BY DEF Valid, LayoutState
<1>2. /\ run[0] = [kept |-> <<>>, active |-> s.active, clear |-> FALSE]
      /\ \A k \in 1..n :
           run[k] = ReapLayout(run[k - 1], k, Survivor(s.layouts[k], s.dead))
  BY <1>1, ReapRunLemma
<1> HIDE DEF n, run
<1>3. 0 \in good
  <2> DEFINE r == [kept |-> <<>>, active |-> s.active, clear |-> FALSE]
  <2>1. r \in [kept : Seq(Layout), active : Nat, clear : BOOLEAN]
        /\ r.kept = <<>> /\ DOMAIN r.kept = {}
    BY <1>1
  <2> HIDE DEF r
  <2>2. ReapInv(s, 0, r)
    BY <2>1 DEF ReapInv, Disjoint, Within, NoneEmpty
  <2> QED
    BY <1>1, <1>2, <2>2 DEF r
<1>4. ASSUME NEW k \in 1..n, k - 1 \in good PROVE k \in good
  <2>1. k \in DOMAIN s.layouts /\ k \in 0..n
    BY <1>1
  <2>2. ReapInv(s, k - 1, run[k - 1])
    BY <1>4
  <2>3. ReapInv(s, k, run[k])
    BY <1>2, <2>1, <2>2, ReapLayoutLemma
  <2> QED
    BY <2>1, <2>3
<1> HIDE DEF good
<1>5. good \in SUBSET (0..n)
  BY DEF good
<1>6. \A k \in 0..n : k \in good
  BY <1>1, <1>3, <1>4, <1>5, LoopInvariant
<1> QED
  BY <1>6 DEF good, run, n

\* After it.
LEMMA ReapRunValid ==
    ASSUME NEW s, Valid(s)
    PROVE  ReapInv(s, Len(s.layouts), ReapRun(s)[Len(s.layouts)])
<1>1. Len(s.layouts) \in 0..Len(s.layouts)
  BY DEF Valid, LayoutState
<1> QED
  BY <1>1, ReapRunInv

LEMMA IndexLemma ==
    ASSUME NEW s \in LayoutState
    PROVE  ParentIndex(s) \in Nat /\ HomeOrFirst(s) \in Nat
<1>1. DOMAIN s.layouts \subseteq Nat
  BY DEF LayoutState
<1>2. HomeIndex(s) \in Nat
  BY <1>1, FirstLemma DEF HomeIndex
<1>3. ASSUME NEW id PROVE IndexOfId(s, id) \in Nat
  BY <1>1, FirstLemma DEF IndexOfId
<1> QED
  BY <1>2, <1>3 DEF ParentIndex, HomeOrFirst

\* What reaping leaves alone.
SameWindows(s, t) ==
    /\ t.staged = s.staged
    /\ t.focus = s.focus
    /\ t.created = s.created
    /\ t.dead = s.dead

LEMMA RestoreParentLemma ==
    ASSUME NEW s, Valid(s)
    PROVE  LET t == RestoreParent(s)
           IN  Valid(t) /\ SameWindows(s, t) /\ t.layouts = s.layouts
<1>1. s \in LayoutState /\ s.parents \in Seq(Nat)
  BY DEF Valid, LayoutState
<1> DEFINE t == RestoreParent(s)
<1>2. PICK active \in Nat, parents \in Seq(Nat) :
        t = [s EXCEPT !.active = active, !.parents = parents]
  <2>1. CASE ParentIndex(s) # 0
    <3>1. s.parents # <<>>
      BY <2>1 DEF ParentIndex
    <3>2. Front(s.parents) \in Seq(Nat)
      BY <1>1, <3>1 DEF Front
    <3>3. t = [s EXCEPT !.active = ParentIndex(s), !.parents = Front(s.parents)]
      BY <2>1 DEF RestoreParent
    <3> QED
      BY <1>1, <3>2, <3>3, IndexLemma
  <2>2. CASE ParentIndex(s) = 0
    <3>1. t = [s EXCEPT !.active = HomeOrFirst(s), !.parents = <<>>]
      BY <2>2 DEF RestoreParent
    <3>2. <<>> \in Seq(Nat)
      OBVIOUS
    <3> QED
      BY <1>1, <3>1, <3>2, IndexLemma
  <2> QED
    BY <2>1, <2>2
<1> HIDE DEF t
<1>3. t \in LayoutState /\ t.layouts = s.layouts /\ SameWindows(s, t)
  BY <1>1, <1>2 DEF LayoutState, SameWindows
<1>4. Valid(t)
  BY <1>3 DEF Valid, SameWindows
<1> QED
  BY <1>3, <1>4 DEF t

\* Reaping leaves layouts of live windows only, and no empty one.
LEMMA ReapLemma ==
    ASSUME NEW s, Valid(s)
    PROVE  LET t == Reap(s)
           IN  /\ Valid(t) /\ SameWindows(s, t)
               /\ NoneEmpty(t.layouts)
               /\ Within(t.layouts, s.created \ s.dead)
<1> DEFINE end == ReapRun(s)[Len(s.layouts)]
           reaped == [s EXCEPT !.layouts = end.kept, !.active = end.active]
<1>1. /\ end \in [kept : Seq(Layout), active : Nat, clear : BOOLEAN]
      /\ Disjoint(end.kept)
      /\ Within(end.kept, s.created \ s.dead)
      /\ NoneEmpty(end.kept)
  BY ReapRunValid DEF ReapInv
<1>2. Reap(s) = IF end.clear THEN RestoreParent(reaped) ELSE reaped
  BY DEF Reap
<1> HIDE DEF end
<1>3. /\ reaped \in LayoutState /\ SameWindows(s, reaped)
      /\ reaped.layouts = end.kept
  BY <1>1 DEF Valid, LayoutState, SameWindows
<1> HIDE DEF reaped
<1>4. Valid(reaped)
  BY <1>1, <1>3 DEF Valid, Within, SameWindows
<1>5. CASE end.clear
  <2> DEFINE t == RestoreParent(reaped)
  <2>1. Valid(t) /\ SameWindows(reaped, t) /\ t.layouts = reaped.layouts
    BY <1>4, RestoreParentLemma
  <2>2. Reap(s) = t
    BY <1>2, <1>5
  <2> HIDE DEF t
  <2>3. SameWindows(s, t)
    BY <1>3, <2>1 DEF SameWindows
  <2> QED
    BY <1>1, <1>3, <2>1, <2>2, <2>3
<1>6. CASE ~end.clear
  BY <1>1, <1>2, <1>3, <1>4, <1>6
<1> QED
  BY <1>5, <1>6

LEMMA ApplyTransactionLemma ==
    ASSUME NEW s, Valid(s)
    PROVE  LET t == ApplyTransaction(s)
           IN  /\ Valid(t)
               /\ t.staged = <<>> /\ t.created = s.created /\ t.dead = s.dead
               /\ NoneEmpty(t.layouts)
               /\ Within(t.layouts, s.created \ s.dead)
<1> DEFINE end == StagedRun(s)[Len(s.staged)]
           applied == [end EXCEPT !.staged = <<>>]
           t == Reap(applied)
<1>1. Valid(end) /\ SameQueues(s, end)
  BY StagedRunValid
<1>2. ApplyTransaction(s) = t
  BY DEF ApplyTransaction
<1> HIDE DEF end
<1>3. /\ applied \in LayoutState
      /\ applied.layouts = end.layouts /\ applied.staged = <<>>
      /\ applied.created = end.created /\ applied.dead = end.dead
  <2>1. <<>> \in Seq(Transaction)
    OBVIOUS
  <2> QED
    BY <1>1, <2>1 DEF Valid, LayoutState
<1> HIDE DEF applied
<1>4. Valid(applied)
  BY <1>1, <1>3 DEF Valid
<1>5. /\ Valid(t) /\ SameWindows(applied, t)
      /\ NoneEmpty(t.layouts)
      /\ Within(t.layouts, applied.created \ applied.dead)
  BY <1>4, ReapLemma
<1> HIDE DEF t
<1> QED
  BY <1>1, <1>2, <1>3, <1>5 DEF SameQueues, SameWindows

----------------------------------------------------------------------------
(* Adding a window; what was staged.                                       *)

LEMMA StageGrows ==
    ASSUME NEW s \in LayoutState, NEW p \in Position,
           NEW kind \in {"active", "primary", "secondary"}
    PROVE  Stage(s, kind, p).staged # s.staged
<1>1. Stage(s, kind, p).staged = Append(s.staged, [kind |-> kind, position |-> p])
  BY StageLemma
<1>2. s.staged \in Seq(Transaction)
  BY DEF LayoutState
<1>3. \A seq \in Seq(Transaction) : \A t : Append(seq, t) # seq
  OBVIOUS
<1> QED BY <1>1, <1>2, <1>3

LEMMA SetActiveGrows ==
    ASSUME NEW s \in LayoutState, NEW p \in Position, NEW clear \in BOOLEAN
    PROVE  SetActive(s, p, clear).staged # s.staged
<1>1. SetActive(s, p, clear).staged
        = Append(s.staged, [kind |-> "active", position |-> PrimaryOf(p.index)])
  BY SetActiveLemma
<1>2. s.staged \in Seq(Transaction)
  BY DEF LayoutState
<1>3. \A seq \in Seq(Transaction) : \A t : Append(seq, t) # seq
  OBVIOUS
<1> QED BY <1>1, <1>2, <1>3

LEMMA EnterAndStageGrows ==
    ASSUME NEW s \in LayoutState, NEW p \in Position,
           NEW kind \in {"primary", "secondary"}
    PROVE  Stage(EnterWindow(s, WindowAt(s, p)), kind, p).staged # s.staged
<1> DEFINE entered == EnterWindow(s, WindowAt(s, p))
<1>1. entered \in LayoutState /\ entered.staged = s.staged
  BY WindowAtLemma, EnterWindowLemma
<1> HIDE DEF entered
<1>2. Stage(entered, kind, p).staged # entered.staged
  BY <1>1, StageGrows
<1> QED BY <1>1, <1>2 DEF entered

LEMMA CycleActiveGrows ==
    ASSUME NEW s \in LayoutState, NEW step \in {-1, 1}, s.layouts # <<>>
    PROVE  CycleActive(s, step).staged # s.staged
<1> DEFINE count == Len(s.layouts)
           target == IF s.active = 0 THEN 0 ELSE (s.active - 1 + step) % count
           p == PrimaryOf(target + 1)
<1>1. count \in Nat \ {0} /\ s.active \in Nat
  BY DEF LayoutState
<1>2. target \in Nat
  BY <1>1
<1>3. CycleActive(s, step) = SetActive(s, p, TRUE)
  BY <1>1 DEF CycleActive
<1> HIDE DEF target
<1>4. p \in Position
  BY <1>2 DEF PrimaryOf, Position
<1> HIDE DEF p
<1> QED BY <1>3, <1>4, SetActiveGrows

LEMMA DropGrows ==
    ASSUME NEW s \in LayoutState, NEW p \in Position, p.index \in DOMAIN s.layouts
    PROVE  SetPrimary(s, p).staged # s.staged /\ SetSecondary(s, p).staged # s.staged
<1>1. SetPrimary(s, p).staged # s.staged
  <2>1. CASE SetPrimary(s, p) = SetActive(s, p, TRUE)
    BY <2>1, SetActiveGrows
  <2>2. CASE SetPrimary(s, p) = Stage(EnterWindow(s, WindowAt(s, p)), "primary", p)
    BY <2>2, EnterAndStageGrows
  <2> QED BY <2>1, <2>2 DEF SetPrimary
<1>2. SetSecondary(s, p).staged # s.staged
  <2>1. CASE SetSecondary(s, p) = SetPrimary(s, p)
    BY <1>1, <2>1
  <2>2. CASE SetSecondary(s, p)
               = Stage(EnterWindow(s, WindowAt(s, p)), "secondary", p)
    BY <2>2, EnterAndStageGrows
  <2> QED BY <2>1, <2>2 DEF SetSecondary
<1> QED BY <1>1, <1>2

\* A new window gets a layout of its own, at the end, and its activation is staged.
LEMMA CreateLemma ==
    ASSUME NEW s, Valid(s), NEW w \in Windows, w \notin s.created
    PROVE  LET t == Create([s EXCEPT !.created = @ \cup {w}], w)
           IN  /\ Valid(t)
               /\ NoneEmpty(s.layouts) => NoneEmpty(t.layouts)
               /\ t.staged # s.staged
<1> DEFINE begun == [s EXCEPT !.created = @ \cup {w}]
           pushed == PushActiveToParent(begun)
           added == AppendLayout(pushed, w)
           p == PrimaryOf(Len(added.layouts))
           t == SetActive(added, p, FALSE)
<1>1. Create(begun, w) = t
  BY DEF Create
<1>2. w # NoWindow
  BY WindowsAssumption
<1>3. /\ begun \in LayoutState /\ begun.layouts = s.layouts
      /\ begun.created = s.created \cup {w} /\ begun.staged = s.staged
  BY DEF Valid, LayoutState
<1>4. \A j \in DOMAIN s.layouts : w \notin WindowsOf(s.layouts[j])
  BY DEF Valid, Within
<1>5. Valid(begun)
  BY <1>3 DEF Valid, Within
<1> HIDE DEF begun
<1>6. /\ pushed \in LayoutState /\ SameLayouts(begun, pushed)
      /\ pushed.staged = begun.staged
  BY <1>3, PushActiveToParentLemma
<1>7. Valid(pushed) /\ pushed.layouts = s.layouts /\ w \in pushed.created
  BY <1>3, <1>5, <1>6 DEF Valid, SameLayouts
<1> HIDE DEF pushed
<1>8. /\ Valid(added) /\ added.staged = s.staged
      /\ Len(added.layouts) = Len(s.layouts) + 1
      /\ \A i \in DOMAIN s.layouts : added.layouts[i] = s.layouts[i]
      /\ WindowsOf(added.layouts[Len(added.layouts)]) = {w}
  <2>1. \A j \in DOMAIN pushed.layouts : w \notin WindowsOf(pushed.layouts[j])
    BY <1>4, <1>7
  <2>2. /\ Valid(added) /\ SameQueues(pushed, added)
        /\ Len(added.layouts) = Len(pushed.layouts) + 1
        /\ \A i \in DOMAIN pushed.layouts : added.layouts[i] = pushed.layouts[i]
        /\ WindowsOf(added.layouts[Len(added.layouts)]) = {w}
    BY <1>2, <1>7, <2>1, AppendLayoutLemma
  <2> HIDE DEF added
  <2> QED
    BY <1>3, <1>6, <1>7, <2>2 DEF SameQueues
<1> HIDE DEF added
<1>9. NoneEmpty(s.layouts) => NoneEmpty(added.layouts)
  <2>1. /\ s.layouts \in Seq(Layout) /\ added.layouts \in Seq(Layout)
    BY <1>8 DEF Valid, LayoutState
  <2>2. \A i \in DOMAIN added.layouts :
          i \in DOMAIN s.layouts \/ i = Len(added.layouts)
    BY <1>8, <2>1
  <2> QED
    BY <1>8, <2>2 DEF NoneEmpty
<1>10. added \in LayoutState /\ p \in Position
  BY <1>8 DEF Valid, LayoutState, PrimaryOf, Position
<1> HIDE DEF p
<1>11. t \in LayoutState /\ SameLayouts(added, t) /\ t.staged # added.staged
  BY <1>10, SetActiveLemma, SetActiveGrows
<1> HIDE DEF t
<1>12. /\ Valid(t)
       /\ NoneEmpty(s.layouts) => NoneEmpty(t.layouts)
       /\ t.staged # s.staged
  BY <1>8, <1>9, <1>11 DEF Valid, SameLayouts
<1> QED
  BY <1>1, <1>12 DEF begun

----------------------------------------------------------------------------
(* Following layouts through the closure of `retain_mut`.                  *)

\* The layout at an index does not outlive its windows.
Gone(s, i) == WindowsOf(Survivor(s.layouts[i], s.dead)) = {}

\* After k rounds every layout that outlives its windows is kept.
SurvivorsKept(s, k, r) ==
    \A i \in DOMAIN s.layouts :
        i <= k /\ ~Gone(s, i)
          => \E j \in DOMAIN r.kept : r.kept[j] = Survivor(s.layouts[i], s.dead)

\* One round appends, or moves the index along, or finds the active one gone.
LEMMA ReapRound ==
    ASSUME NEW s, Valid(s), NEW k \in DOMAIN s.layouts, NEW r,
           r \in [kept : Seq(Layout), active : Nat, clear : BOOLEAN]
    PROVE  LET t == ReapLayout(r, k, Survivor(s.layouts[k], s.dead))
           IN  /\ ~Gone(s, k) =>
                    /\ t.active = r.active /\ t.clear = r.clear
                    /\ t.kept = Append(r.kept, Survivor(s.layouts[k], s.dead))
                    /\ Len(t.kept) = Len(r.kept) + 1
                    /\ t.kept[Len(r.kept) + 1] = Survivor(s.layouts[k], s.dead)
               /\ Gone(s, k) =>
                    /\ t.kept = r.kept
                    /\ t.active = IF k < r.active THEN r.active - 1 ELSE r.active
                    /\ t.clear = (r.clear \/ k = r.active)
               /\ \A i \in DOMAIN r.kept : i \in DOMAIN t.kept /\ t.kept[i] = r.kept[i]
<1> DEFINE layout == Survivor(s.layouts[k], s.dead)
           t == ReapLayout(r, k, layout)
<1>1. /\ layout \in Layout /\ r.kept \in Seq(Layout) /\ r.active \in Nat /\ k \in Nat
      /\ r.clear \in BOOLEAN
  <2>1. /\ s.layouts[k] \in Layout /\ s.dead \in SUBSET Windows /\ k \in Nat
        /\ s.layouts[k].primary = s.layouts[k].secondary
             => s.layouts[k].primary = NoWindow
    BY DEF Valid, LayoutState, Disjoint
  <2> QED
    BY <2>1, SurvivorLemma
<1>2. Gone(s, k) <=> WindowsOf(layout) = {}
  BY DEF Gone
<1> HIDE DEF layout
<1>3. CASE ~Gone(s, k)
  <2> DEFINE longer == Append(r.kept, layout)
  <2>1. t = [r EXCEPT !.kept = longer]
    BY <1>2, <1>3 DEF ReapLayout
  <2>2. /\ Len(longer) = Len(r.kept) + 1
        /\ longer[Len(r.kept) + 1] = layout
        /\ \A i \in DOMAIN r.kept : i \in DOMAIN longer /\ longer[i] = r.kept[i]
    BY <1>1
  <2> HIDE DEF longer
  <2>3. t.kept = longer /\ t.active = r.active /\ t.clear = r.clear
    BY <2>1
  <2> HIDE DEF t
  <2> QED
    BY <1>3, <2>2, <2>3 DEF longer, layout, t
<1>4. CASE Gone(s, k)
  <2>1. CASE k < r.active
    <3>1. t = [r EXCEPT !.active = r.active - 1]
      BY <1>2, <1>4, <2>1 DEF ReapLayout
    <3>2. /\ t.kept = r.kept /\ t.active = r.active - 1 /\ t.clear = r.clear
          /\ k # r.active
      BY <1>1, <2>1, <3>1
    <3> HIDE DEF t
    <3> QED
      BY <1>1, <1>4, <2>1, <3>2 DEF t, layout
  <2>2. CASE k = r.active
    <3>1. t = [r EXCEPT !.clear = TRUE] /\ ~(k < r.active)
      BY <1>1, <1>2, <1>4, <2>2 DEF ReapLayout
    <3>2. t.kept = r.kept /\ t.active = r.active /\ t.clear = TRUE
      BY <1>1, <3>1
    <3> HIDE DEF t
    <3> QED
      BY <1>1, <1>4, <2>2, <3>1, <3>2 DEF t, layout
  <2>3. CASE k > r.active
    <3>1. t = r /\ ~(k < r.active) /\ k # r.active
      BY <1>1, <1>2, <1>4, <2>3 DEF ReapLayout
    <3> HIDE DEF t
    <3> QED
      BY <1>1, <1>4, <3>1 DEF t, layout
  <2> QED
    BY <1>1, <2>1, <2>2, <2>3
<1> QED
  BY <1>3, <1>4

\* The rounds of the loop, and the type of what they work on.
LEMMA ReapRounds ==
    ASSUME NEW s, Valid(s)
    PROVE  LET run == ReapRun(s)
           IN  /\ run[0] = [kept |-> <<>>, active |-> s.active, clear |-> FALSE]
               /\ \A k \in 1..Len(s.layouts) :
                    run[k] = ReapLayout(run[k - 1], k, Survivor(s.layouts[k], s.dead))
               /\ \A k \in 0..Len(s.layouts) :
                    run[k] \in [kept : Seq(Layout), active : Nat, clear : BOOLEAN]
               /\ Len(s.layouts) \in Nat
               /\ DOMAIN s.layouts = 1..Len(s.layouts)
<1>1. Len(s.layouts) \in Nat /\ DOMAIN s.layouts = 1..Len(s.layouts)
  BY DEF Valid, LayoutState
<1>2. \A k \in 0..Len(s.layouts) :
        ReapRun(s)[k] \in [kept : Seq(Layout), active : Nat, clear : BOOLEAN]
  BY ReapRunInv DEF ReapInv
<1> QED
  BY <1>1, <1>2, ReapRunLemma

\* The loop keeps every layout that outlives its windows.
LEMMA SurvivorsAreKept ==
    ASSUME NEW s, Valid(s)
    PROVE  SurvivorsKept(s, Len(s.layouts), ReapRun(s)[Len(s.layouts)])
<1> DEFINE n == Len(s.layouts)
           run == ReapRun(s)
           good == {k \in 0..n : SurvivorsKept(s, k, run[k])}
<1>1. /\ \A k \in 1..n :
           run[k] = ReapLayout(run[k - 1], k, Survivor(s.layouts[k], s.dead))
      /\ \A k \in 0..n : run[k] \in [kept : Seq(Layout), active : Nat, clear : BOOLEAN]
      /\ n \in Nat /\ DOMAIN s.layouts = 1..n
  BY ReapRounds
<1> HIDE DEF n, run
<1>2. 0 \in good
  BY <1>1 DEF SurvivorsKept
<1>3. ASSUME NEW k \in 1..n, k - 1 \in good PROVE k \in good
  <2> DEFINE r == run[k - 1]
             t == run[k]
  <2>1. /\ k \in DOMAIN s.layouts /\ k \in 0..n /\ k - 1 \in 0..n
        /\ SurvivorsKept(s, k - 1, r)
        /\ r \in [kept : Seq(Layout), active : Nat, clear : BOOLEAN]
        /\ t = ReapLayout(r, k, Survivor(s.layouts[k], s.dead))
    BY <1>1, <1>3
  <2> HIDE DEF r, t
  <2>2. /\ ~Gone(s, k) => Len(t.kept) = Len(r.kept) + 1
                          /\ t.kept[Len(r.kept) + 1] = Survivor(s.layouts[k], s.dead)
        /\ \A i \in DOMAIN r.kept : i \in DOMAIN t.kept /\ t.kept[i] = r.kept[i]
    BY <2>1, ReapRound
  <2>3. r.kept \in Seq(Layout) /\ t.kept \in Seq(Layout)
    BY <1>1, <2>1 DEF t
  <2>4. ASSUME NEW i \in DOMAIN s.layouts, i <= k, ~Gone(s, i)
        PROVE  \E j \in DOMAIN t.kept : t.kept[j] = Survivor(s.layouts[i], s.dead)
    <3>1. CASE i = k
      <4>1. Len(r.kept) + 1 \in DOMAIN t.kept
        BY <2>2, <2>3, <2>4, <3>1
      <4> QED
        BY <2>2, <2>4, <3>1, <4>1
    <3>2. CASE i # k
      <4>1. i <= k - 1
        BY <1>1, <2>4, <3>2
      <4>2. PICK j \in DOMAIN r.kept : r.kept[j] = Survivor(s.layouts[i], s.dead)
        BY <2>1, <2>4, <4>1 DEF SurvivorsKept
      <4> QED
        BY <2>2, <4>2
    <3> QED
      BY <3>1, <3>2
  <2>5. SurvivorsKept(s, k, t)
    BY <2>4 DEF SurvivorsKept
  <2> QED
    BY <2>1, <2>5 DEF t
<1> HIDE DEF good
<1>4. good \in SUBSET (0..n)
  BY DEF good
<1>5. n \in good
  BY <1>1, <1>2, <1>3, <1>4, LoopInduction
<1> QED
  BY <1>5 DEF good, run, n

\* How often a loop that ends with the index `gone` has taken an index down.
Shift(gone, k) == IF gone # 0 /\ gone <= k THEN 1 ELSE 0

\* While at most one layout before the active one, the one at `gone`, dies.
ActiveMovesAlong(s, gone, k, r) ==
    /\ r.clear = FALSE
    /\ IF k < s.active
       THEN /\ r.active = s.active - Shift(gone, k)
            /\ Len(r.kept) = k - Shift(gone, k)
       ELSE /\ r.active \in DOMAIN r.kept
            /\ r.active <= s.active
            /\ r.kept[r.active] = Survivor(s.layouts[s.active], s.dead)

LEMMA ActiveMovesRound ==
    ASSUME NEW s, Valid(s), s.active \in DOMAIN s.layouts, ~Gone(s, s.active),
           NEW gone \in Nat, gone < s.active,
           \A i \in DOMAIN s.layouts : i < s.active => (Gone(s, i) <=> i = gone),
           NEW k \in DOMAIN s.layouts, NEW r,
           r \in [kept : Seq(Layout), active : Nat, clear : BOOLEAN],
           ActiveMovesAlong(s, gone, k - 1, r)
    PROVE  ActiveMovesAlong(s, gone, k,
                            ReapLayout(r, k, Survivor(s.layouts[k], s.dead)))
<1> DEFINE t == ReapLayout(r, k, Survivor(s.layouts[k], s.dead))
<1> SUFFICES ActiveMovesAlong(s, gone, k, t)
  OBVIOUS
<1>1. /\ ~Gone(s, k) =>
           /\ t.active = r.active /\ t.clear = r.clear
           /\ Len(t.kept) = Len(r.kept) + 1
           /\ t.kept[Len(r.kept) + 1] = Survivor(s.layouts[k], s.dead)
      /\ Gone(s, k) =>
           /\ t.kept = r.kept
           /\ t.active = IF k < r.active THEN r.active - 1 ELSE r.active
           /\ t.clear = (r.clear \/ k = r.active)
      /\ \A i \in DOMAIN r.kept : i \in DOMAIN t.kept /\ t.kept[i] = r.kept[i]
  BY ReapRound
<1>2. /\ k \in Nat \ {0} /\ s.active \in Nat \ {0} /\ r.active \in Nat
      /\ r.clear \in BOOLEAN /\ r.kept \in Seq(Layout) /\ Len(r.kept) \in Nat
  BY DEF Valid, LayoutState
<1>3. ~Gone(s, k) => Len(r.kept) + 1 \in DOMAIN t.kept
  <2>1. ASSUME ~Gone(s, k) PROVE t.kept \in Seq(Layout)
    <3>1. s.layouts[k] \in Layout /\ s.dead \in SUBSET Windows
          /\ (s.layouts[k].primary = s.layouts[k].secondary
                => s.layouts[k].primary = NoWindow)
      BY DEF Valid, LayoutState, Disjoint
    <3>2. Survivor(s.layouts[k], s.dead) \in Layout
      BY <3>1, SurvivorLemma
    <3>3. t.kept = Append(r.kept, Survivor(s.layouts[k], s.dead))
      BY <2>1, ReapRound
    <3> HIDE DEF t
    <3> QED
      BY <1>2, <3>2, <3>3
  <2> HIDE DEF t
  <2> QED
    BY <1>1, <1>2, <2>1
<1> HIDE DEF t
<1>4. CASE k < s.active
  <2>1. /\ r.clear = FALSE /\ r.active = s.active - Shift(gone, k - 1)
        /\ Len(r.kept) = k - 1 - Shift(gone, k - 1)
    BY <1>2, <1>4 DEF ActiveMovesAlong
  <2>2. CASE k = gone
    <3>1. Shift(gone, k - 1) = 0 /\ Shift(gone, k) = 1 /\ Gone(s, k)
      BY <1>2, <1>4, <2>2 DEF Shift
    <3> QED
      BY <1>1, <1>2, <1>4, <2>1, <3>1 DEF ActiveMovesAlong
  <2>3. CASE k # gone
    <3>1. Shift(gone, k - 1) = Shift(gone, k) /\ ~Gone(s, k) /\ Shift(gone, k) \in {0, 1}
      BY <1>2, <1>4, <2>3 DEF Shift
    <3> QED
      BY <1>1, <1>2, <1>4, <2>1, <3>1 DEF ActiveMovesAlong
  <2> QED
    BY <2>2, <2>3
<1>5. CASE k = s.active
  <2>1. /\ r.clear = FALSE /\ r.active = s.active - Shift(gone, k - 1)
        /\ Len(r.kept) = k - 1 - Shift(gone, k - 1)
        /\ Shift(gone, k - 1) \in {0, 1} /\ ~Gone(s, k)
    BY <1>2, <1>5 DEF ActiveMovesAlong, Shift
  <2>2. t.active = Len(r.kept) + 1 /\ t.clear = FALSE /\ t.active <= s.active
    BY <1>1, <1>2, <1>5, <2>1
  <2> QED
    BY <1>1, <1>2, <1>3, <1>5, <2>1, <2>2 DEF ActiveMovesAlong
<1>6. CASE k > s.active
  <2>1. /\ r.clear = FALSE /\ r.active \in DOMAIN r.kept /\ r.active <= s.active
        /\ r.kept[r.active] = Survivor(s.layouts[s.active], s.dead)
    BY <1>2, <1>6 DEF ActiveMovesAlong
  <2>2. t.active = r.active /\ t.clear = FALSE
    BY <1>1, <1>2, <1>6, <2>1
  <2> QED
    BY <1>1, <1>2, <1>6, <2>1, <2>2 DEF ActiveMovesAlong
<1> QED
  BY <1>2, <1>4, <1>5, <1>6

\* The active layout stays active, without the windows of it that died.
LEMMA ActiveIsKept ==
    ASSUME NEW s, Valid(s), s.active \in DOMAIN s.layouts, ~Gone(s, s.active),
           NEW gone \in Nat, gone < s.active,
           \A i \in DOMAIN s.layouts : i < s.active => (Gone(s, i) <=> i = gone)
    PROVE  ActiveLayout(Reap(s)) = Survivor(ActiveLayout(s), s.dead)
<1> DEFINE n == Len(s.layouts)
           run == ReapRun(s)
           good == {k \in 0..n : ActiveMovesAlong(s, gone, k, run[k])}
<1>1. /\ run[0] = [kept |-> <<>>, active |-> s.active, clear |-> FALSE]
      /\ \A k \in 1..n :
           run[k] = ReapLayout(run[k - 1], k, Survivor(s.layouts[k], s.dead))
      /\ \A k \in 0..n : run[k] \in [kept : Seq(Layout), active : Nat, clear : BOOLEAN]
      /\ n \in Nat /\ DOMAIN s.layouts = 1..n
  BY ReapRounds
<1>2. Reap(s) = LET reaped == [s EXCEPT !.layouts = run[n].kept, !.active = run[n].active]
                IN  IF run[n].clear THEN RestoreParent(reaped) ELSE reaped
  BY DEF Reap
<1> HIDE DEF n, run
<1>3. 0 \in good
  <2>1. Shift(gone, 0) = 0 /\ s.active \in 1..n
    BY <1>1 DEF Shift
  <2>2. ActiveMovesAlong(s, gone, 0, run[0])
    BY <1>1, <2>1 DEF ActiveMovesAlong
  <2> QED
    BY <1>1, <2>2
<1>4. ASSUME NEW k \in 1..n, k - 1 \in good PROVE k \in good
  <2> DEFINE r == run[k - 1]
  <2>1. /\ k \in DOMAIN s.layouts /\ k \in 0..n /\ k - 1 \in 0..n
        /\ ActiveMovesAlong(s, gone, k - 1, r)
        /\ r \in [kept : Seq(Layout), active : Nat, clear : BOOLEAN]
        /\ run[k] = ReapLayout(r, k, Survivor(s.layouts[k], s.dead))
    BY <1>1, <1>4
  <2> HIDE DEF r
  <2>2. ActiveMovesAlong(s, gone, k, run[k])
    BY <2>1, ActiveMovesRound
  <2> QED
    BY <2>1, <2>2
<1> HIDE DEF good
<1>5. good \in SUBSET (0..n)
  BY DEF good
<1>6. n \in good
  BY <1>1, <1>3, <1>4, <1>5, LoopInduction
<1> DEFINE end == run[n]
<1>7. /\ end.clear = FALSE /\ end.active \in DOMAIN end.kept
      /\ end.kept[end.active] = Survivor(s.layouts[s.active], s.dead)
  <2>1. ActiveMovesAlong(s, gone, n, run[n]) /\ ~(n < s.active)
    BY <1>1, <1>6 DEF good
  <2> QED
    BY <2>1 DEF ActiveMovesAlong
<1>8. Reap(s) = [s EXCEPT !.layouts = end.kept, !.active = end.active]
  BY <1>2, <1>7
<1> HIDE DEF end
<1>9. Reap(s).layouts = end.kept /\ Reap(s).active = end.active
  BY <1>8 DEF Valid, LayoutState
<1> QED
  BY <1>7, <1>9 DEF ActiveLayout, LayoutAt

\* While no layout before the active one, which dies, does.
ActiveDies(s, k, r) == r.active = s.active /\ r.clear = (s.active <= k)

\* The parent is the active layout when it outlives the one that was active.
LEMMA ParentComesBack ==
    ASSUME NEW s, Valid(s), s.active \in DOMAIN s.layouts, Gone(s, s.active),
           \A i \in DOMAIN s.layouts : Gone(s, i) => s.active <= i,
           s.parents # <<>>,
           NEW m \in DOMAIN s.layouts, s.layouts[m].id = Last(s.parents), ~Gone(s, m)
    PROVE  ActiveLayout(Reap(s)).id = Last(s.parents)
<1> DEFINE n == Len(s.layouts)
           run == ReapRun(s)
           good == {k \in 0..n : ActiveDies(s, k, run[k])}
<1>0. s \in LayoutState /\ s.active \in Nat \ {0}
  BY DEF Valid, LayoutState
<1>1. /\ run[0] = [kept |-> <<>>, active |-> s.active, clear |-> FALSE]
      /\ \A k \in 1..n :
           run[k] = ReapLayout(run[k - 1], k, Survivor(s.layouts[k], s.dead))
      /\ \A k \in 0..n : run[k] \in [kept : Seq(Layout), active : Nat, clear : BOOLEAN]
      /\ n \in Nat /\ DOMAIN s.layouts = 1..n
  BY ReapRounds
<1>2. SurvivorsKept(s, n, run[n])
  BY SurvivorsAreKept
<1>3. Reap(s) = LET reaped == [s EXCEPT !.layouts = run[n].kept, !.active = run[n].active]
                IN  IF run[n].clear THEN RestoreParent(reaped) ELSE reaped
  BY DEF Reap
<1> HIDE DEF n, run
<1>4. 0 \in good
  BY <1>0, <1>1 DEF ActiveDies
<1>5. ASSUME NEW k \in 1..n, k - 1 \in good PROVE k \in good
  <2> DEFINE r == run[k - 1]
             t == run[k]
  <2>1. /\ k \in DOMAIN s.layouts /\ k \in 0..n /\ k - 1 \in 0..n
        /\ r.active = s.active /\ r.clear = (s.active <= k - 1)
        /\ r \in [kept : Seq(Layout), active : Nat, clear : BOOLEAN]
        /\ t = ReapLayout(r, k, Survivor(s.layouts[k], s.dead))
    BY <1>1, <1>5 DEF ActiveDies
  <2> HIDE DEF r, t
  <2>2. /\ ~Gone(s, k) => t.active = r.active /\ t.clear = r.clear
        /\ Gone(s, k) => /\ t.active = IF k < r.active THEN r.active - 1 ELSE r.active
                         /\ t.clear = (r.clear \/ k = r.active)
    BY <2>1, ReapRound
  <2>3. CASE Gone(s, k)
    <3>1. s.active <= k /\ ~(k < r.active)
      BY <1>0, <1>1, <2>1, <2>3
    <3>2. t.active = s.active
      BY <2>1, <2>2, <2>3, <3>1
    <3>3. t.clear = TRUE
      <4>1. s.active <= k - 1 \/ k = s.active
        BY <1>0, <1>1, <3>1
      <4>2. t.clear = (r.clear \/ k = s.active)
        BY <2>1, <2>2, <2>3
      <4>3. r.clear = (s.active <= k - 1)
        BY <2>1
      <4> QED
        BY <4>1, <4>2, <4>3, Zenon
    <3>4. ActiveDies(s, k, t)
      BY <3>1, <3>2, <3>3 DEF ActiveDies
    <3> QED
      BY <2>1, <3>4 DEF t
  <2>4. CASE ~Gone(s, k)
    <3>1. s.active # k
      BY <2>4
    <3>2. (s.active <= k - 1) = (s.active <= k)
      BY <1>0, <1>1, <3>1
    <3>3. ActiveDies(s, k, t)
      BY <2>1, <2>2, <2>4, <3>2 DEF ActiveDies
    <3> QED
      BY <2>1, <3>3 DEF t
  <2> QED
    BY <2>3, <2>4
<1> HIDE DEF good
<1>6. good \in SUBSET (0..n)
  BY DEF good
<1>7. n \in good
  BY <1>1, <1>4, <1>5, <1>6, LoopInduction
<1> DEFINE end == run[n]
           reaped == [s EXCEPT !.layouts = end.kept, !.active = end.active]
           id == Last(s.parents)
<1>8. end \in [kept : Seq(Layout), active : Nat, clear : BOOLEAN] /\ end.clear
  <2>1. ActiveDies(s, n, end) /\ s.active <= n
    BY <1>1, <1>7 DEF good
  <2> QED
    BY <1>1, <2>1 DEF ActiveDies
<1>9. Reap(s) = RestoreParent(reaped)
  BY <1>3, <1>8
<1>10. PICK j \in DOMAIN end.kept : end.kept[j].id = id
  <2>1. PICK j \in DOMAIN end.kept : end.kept[j] = Survivor(s.layouts[m], s.dead)
    BY <1>1, <1>2 DEF SurvivorsKept
  <2>2. Survivor(s.layouts[m], s.dead).id = s.layouts[m].id
    BY <1>0 DEF LayoutState, Layout, Survivor
  <2> QED
    BY <2>1, <2>2
<1> HIDE DEF end
<1>11. /\ reaped.layouts = end.kept /\ reaped.parents = s.parents
       /\ reaped \in LayoutState
  BY <1>0, <1>8 DEF LayoutState
<1> HIDE DEF reaped, id
<1>12. /\ ParentIndex(reaped) \in DOMAIN reaped.layouts
       /\ reaped.layouts[ParentIndex(reaped)].id = id
  <2> DEFINE found == {i \in DOMAIN reaped.layouts : reaped.layouts[i].id = id}
  <2>1. found \in SUBSET Nat /\ found # {}
    BY <1>10, <1>11 DEF LayoutState
  <2>2. ParentIndex(reaped) = First(found)
    BY <1>11 DEF ParentIndex, IndexOfId, id
  <2> HIDE DEF found
  <2>3. First(found) \in found
    BY <2>1, FirstLemma
  <2> QED
    BY <2>2, <2>3 DEF found
<1>13. ParentIndex(reaped) # 0
  BY <1>11, <1>12 DEF LayoutState
<1>14. RestoreParent(reaped)
         = [reaped EXCEPT !.active = ParentIndex(reaped), !.parents = Front(reaped.parents)]
  BY <1>13 DEF RestoreParent
<1>15. /\ RestoreParent(reaped).layouts = reaped.layouts
       /\ RestoreParent(reaped).active = ParentIndex(reaped)
  BY <1>11, <1>14 DEF LayoutState
<1> QED
  BY <1>9, <1>12, <1>15 DEF ActiveLayout, LayoutAt, id

----------------------------------------------------------------------------
(* No operation loses a window that lives.                                 *)

Placed(w, layouts) == \E i \in DOMAIN layouts : w \in WindowsOf(layouts[i])

\* Layouts are only added, and the windows in them stay in one.
Grows(s, t) ==
    /\ Len(t.layouts) >= Len(s.layouts)
    /\ \A w \in Windows : Placed(w, s.layouts) => Placed(w, t.layouts)

LEMMA GrowsTransitive ==
    ASSUME NEW s, NEW t, NEW u, Len(s.layouts) \in Nat, Len(t.layouts) \in Nat,
           Len(u.layouts) \in Nat, Grows(s, t), Grows(t, u)
    PROVE  Grows(s, u)
BY DEF Grows

\* An appended layout holds the window it is for.
LEMMA AppendGrows ==
    ASSUME NEW s, Valid(s), NEW w \in s.created, w # NoWindow, Unplaced(w, s.layouts)
    PROVE  LET t == AppendLayout(s, w)
           IN  /\ t.active = s.active
               /\ Len(t.layouts) = Len(s.layouts) + 1
               /\ Grows(s, t)
               /\ Placed(w, t.layouts)
<1> DEFINE t == AppendLayout(s, w)
<1>1. /\ Valid(t) /\ Len(t.layouts) = Len(s.layouts) + 1
      /\ \A i \in DOMAIN s.layouts : t.layouts[i] = s.layouts[i]
      /\ WindowsOf(t.layouts[Len(t.layouts)]) = {w}
  BY AppendLayoutLemma DEF Unplaced
<1>2. t.active = s.active
  BY DEF AppendLayout, Valid, LayoutState
<1> HIDE DEF t
<1>3. /\ Len(s.layouts) \in Nat /\ DOMAIN s.layouts = 1..Len(s.layouts)
      /\ DOMAIN t.layouts = 1..Len(t.layouts)
  BY <1>1 DEF Valid, LayoutState
<1>4. DOMAIN s.layouts \subseteq DOMAIN t.layouts /\ Len(t.layouts) \in DOMAIN t.layouts
  BY <1>1, <1>3
<1>5. Placed(w, t.layouts)
  BY <1>1, <1>4 DEF Placed
<1>6. ASSUME NEW v \in Windows, Placed(v, s.layouts) PROVE Placed(v, t.layouts)
  BY <1>1, <1>4, <1>6 DEF Placed
<1>7. Grows(s, t)
  BY <1>1, <1>3, <1>6 DEF Grows
<1> QED
  BY <1>1, <1>2, <1>5, <1>7 DEF t

\* A layout that is replaced: what it held is left, or is still in it.
LEMMA ReplaceKeeps ==
    ASSUME NEW s, Valid(s), NEW i \in DOMAIN s.layouts, NEW layout, NEW left,
           WindowsOf(s.layouts[i]) \subseteq WindowsOf(layout) \cup {left},
           NEW t, t.layouts = [s.layouts EXCEPT ![i] = layout]
    PROVE  /\ \A w \in Windows \ {left} : Placed(w, s.layouts) => Placed(w, t.layouts)
           /\ \A w \in WindowsOf(layout) : Placed(w, t.layouts)
<1>1. s.layouts \in Seq(Layout)
  BY DEF Valid, LayoutState
<1>2. /\ DOMAIN t.layouts = DOMAIN s.layouts /\ t.layouts[i] = layout
      /\ \A j \in DOMAIN s.layouts \ {i} : t.layouts[j] = s.layouts[j]
  BY <1>1
<1>3. ASSUME NEW w \in Windows \ {left}, Placed(w, s.layouts) PROVE Placed(w, t.layouts)
  <2>1. PICK j \in DOMAIN s.layouts : w \in WindowsOf(s.layouts[j])
    BY <1>3 DEF Placed
  <2>2. w \in WindowsOf(t.layouts[j])
    BY <1>2, <2>1
  <2> QED
    BY <1>2, <2>2 DEF Placed
<1> QED
  BY <1>2, <1>3 DEF Placed

LEMMA SplitSecondaryGrows ==
    ASSUME NEW s, Valid(s), NEW i \in DOMAIN s.layouts
    PROVE  LET t == SplitSecondary(s, i)
           IN  Grows(s, t) /\ t.active = s.active
<1> DEFINE window == s.layouts[i].secondary
           layout == [s.layouts[i] EXCEPT !.secondary = NoWindow]
           alone == [s EXCEPT !.layouts[i] = layout]
<1>0. /\ s \in LayoutState /\ s.layouts \in Seq(Layout) /\ s.layouts[i] \in Layout
      /\ Len(s.layouts) \in Nat
  BY DEF Valid, LayoutState
<1>1. CASE window = NoWindow
  BY <1>0, <1>1 DEF SplitSecondary, Grows
<1>2. CASE window # NoWindow
  <2>1. /\ Fits(layout, s.layouts, i, s.created) /\ window \notin WindowsOf(layout)
        /\ WindowsOf(s.layouts[i]) \subseteq WindowsOf(layout) \cup {window}
    BY <1>0, <1>2 DEF Fits, Valid, Disjoint, Within, WindowsOf, Layout, WindowOrNone
  <2>2. window \in WindowsOf(s.layouts[i]) /\ window \in s.created
    BY <1>2 DEF WindowsOf, Valid, Within
  <2>3. SplitSecondary(s, i) = AppendLayout(alone, window)
    BY <1>0, <1>2 DEF SplitSecondary, LayoutState
  <2>4. alone.active = s.active
    BY <1>0 DEF LayoutState
  <2> HIDE DEF layout
  <2>5. /\ Valid(alone) /\ SameQueues(s, alone)
        /\ alone.layouts = [s.layouts EXCEPT ![i] = layout]
        /\ Len(alone.layouts) = Len(s.layouts)
    BY <2>1, ReplaceLemma
  <2> HIDE DEF alone
  <2>6. Unplaced(window, alone.layouts) /\ window \in alone.created
    BY <1>0, <2>1, <2>2, <2>5 DEF Valid, Disjoint, Unplaced, SameQueues
  <2> DEFINE t == AppendLayout(alone, window)
  <2>7. /\ t.active = alone.active /\ Len(t.layouts) = Len(alone.layouts) + 1
        /\ Grows(alone, t) /\ Placed(window, t.layouts)
    BY <1>2, <2>5, <2>6, AppendGrows
  <2> HIDE DEF t, window
  <2>8. ASSUME NEW w \in Windows, Placed(w, s.layouts) PROVE Placed(w, t.layouts)
    <3>1. w # window => Placed(w, alone.layouts)
      BY <2>1, <2>5, <2>8, ReplaceKeeps
    <3> QED
      BY <2>7, <3>1 DEF Grows
  <2>9. Grows(s, t)
    BY <1>0, <2>5, <2>7, <2>8 DEF Grows
  <2> QED
    BY <2>3, <2>4, <2>7, <2>9 DEF t
<1> QED
  BY <1>1, <1>2

LEMMA ApplyPrimaryGrows ==
    ASSUME NEW s, Valid(s), NEW p \in Position
    PROVE  LET t == ApplyPrimary(s, p)
           IN  /\ Grows(s, t)
               /\ s.active \in DOMAIN s.layouts => t.active \in DOMAIN t.layouts
<1> DEFINE split == SplitSecondary(s, p.index)
           left == LeaveActive(split)
           index == IF p.secondary THEN Len(split.layouts) ELSE p.index
           t == [left EXCEPT !.active = index]
<1>0. Len(s.layouts) \in Nat /\ DOMAIN s.layouts = 1..Len(s.layouts)
  BY DEF Valid, LayoutState
<1>1. CASE WindowAt(s, p) = NoWindow
  BY <1>0, <1>1 DEF ApplyPrimary, Grows
<1>2. CASE WindowAt(s, p) # NoWindow
  <2>1. ApplyPrimary(s, p) = t
    BY <1>2 DEF ApplyPrimary
  <2>2. p.index \in DOMAIN s.layouts
    BY <1>2, OccupiedLemma
  <2>3. Valid(split) /\ Grows(s, split)
    BY <2>2, SplitSecondaryLemma, SplitSecondaryGrows
  <2> HIDE DEF split
  <2>4. Valid(left) /\ left.layouts = split.layouts
    BY <2>3, LeaveActiveLemma
  <2>5. Len(split.layouts) \in Nat /\ DOMAIN split.layouts = 1..Len(split.layouts)
    BY <2>3 DEF Valid, LayoutState
  <2>6. index \in DOMAIN split.layouts /\ index \in Nat
    BY <1>0, <2>2, <2>3, <2>5 DEF Grows
  <2> HIDE DEF left, index
  <2>7. t.layouts = split.layouts /\ t.active = index
    BY <2>4 DEF Valid, LayoutState
  <2> HIDE DEF t
  <2> QED
    BY <2>1, <2>3, <2>6, <2>7 DEF Grows
<1> QED
  BY <1>1, <1>2

\* A window that is taken is the only one to leave.
LEMMA TakeWindowKeeps ==
    ASSUME NEW s, Valid(s), NEW p \in Position, WindowAt(s, p) # NoWindow
    PROVE  \A w \in Windows \ {WindowAt(s, p)} :
             Placed(w, s.layouts) => Placed(w, TakeWindow(s, p).layouts)
<1> DEFINE i == p.index
           from == s.layouts[i]
           sibling == Occupant(from, ~p.secondary)
           layout == [from EXCEPT !.primary = sibling, !.secondary = NoWindow]
           t == TakeWindow(s, p)
<1>0. i \in DOMAIN s.layouts
  BY OccupiedLemma
<1>1. /\ s \in LayoutState /\ s.layouts \in Seq(Layout) /\ from \in Layout
      /\ p.secondary \in BOOLEAN
  BY <1>0 DEF Valid, LayoutState, Position
<1>2. WindowAt(s, p) = Occupant(from, p.secondary)
  BY <1>0 DEF WindowAt, LayoutAt
<1>3. WindowsOf(from) \subseteq WindowsOf(layout) \cup {WindowAt(s, p)}
  <2>1. CASE p.secondary
    BY <1>1, <1>2, <2>1 DEF Occupant, WindowsOf, Layout
  <2>2. CASE ~p.secondary
    BY <1>1, <1>2, <2>2 DEF Occupant, WindowsOf, Layout
  <2> QED
    BY <1>1, <2>1, <2>2
<1>4. t.layouts = [s.layouts EXCEPT ![i] = layout]
  BY <1>1 DEF TakeWindow, LayoutState
<1> HIDE DEF t, layout
<1> QED
  BY <1>0, <1>3, <1>4, ReplaceKeeps DEF t

\* The window is put, and the one it boots gets a layout of its own.
LEMMA PutSecondaryGrows ==
    ASSUME NEW s, Valid(s), NEW i \in DOMAIN s.layouts,
           NEW w \in s.created, w # NoWindow, Unplaced(w, s.layouts)
    PROVE  LET t == PutSecondary(s, i, w)
           IN  Grows(s, t) /\ Placed(w, t.layouts) /\ t.active = s.active
<1> DEFINE booted == s.layouts[i].secondary
           layout == [s.layouts[i] EXCEPT !.secondary = w]
           placed == [s EXCEPT !.layouts[i] = layout]
<1>1. /\ s \in LayoutState /\ s.layouts \in Seq(Layout) /\ s.layouts[i] \in Layout
      /\ w \in Windows /\ Len(s.layouts) \in Nat
  BY DEF Valid, LayoutState
<1>2. /\ Fits(layout, s.layouts, i, s.created)
      /\ WindowsOf(s.layouts[i]) \subseteq WindowsOf(layout) \cup {booted}
      /\ w \in WindowsOf(layout)
      /\ booted # NoWindow => booted \notin WindowsOf(layout)
                              /\ booted \in WindowsOf(s.layouts[i])
  <2>1. /\ layout.primary = s.layouts[i].primary /\ layout.secondary = w
        /\ layout \in Layout
    BY <1>1 DEF Layout, WindowOrNone
  <2>2. w \notin WindowsOf(s.layouts[i])
    BY DEF Unplaced
  <2>3. layout.primary # layout.secondary
    BY <2>1, <2>2 DEF WindowsOf
  <2>4. /\ WindowsOf(layout) \subseteq WindowsOf(s.layouts[i]) \cup {w}
        /\ WindowsOf(s.layouts[i]) \subseteq WindowsOf(layout) \cup {booted}
        /\ w \in WindowsOf(layout)
    BY <2>1 DEF WindowsOf
  <2>5. \A j \in DOMAIN s.layouts \ {i} :
          WindowsOf(layout) \cap WindowsOf(s.layouts[j]) = {}
    BY <2>4 DEF Valid, Disjoint, Unplaced
  <2>6. WindowsOf(layout) \subseteq s.created
    BY <2>4 DEF Valid, Within
  <2>7. booted # NoWindow => booted \notin WindowsOf(layout)
                             /\ booted \in WindowsOf(s.layouts[i])
    BY <2>1, <2>2 DEF Valid, Disjoint, WindowsOf
  <2> HIDE DEF layout
  <2> QED
    BY <2>1, <2>3, <2>4, <2>5, <2>6, <2>7 DEF Fits
<1>3. PutSecondary(s, i, w) = IF booted = NoWindow THEN placed
                              ELSE AppendLayout(placed, booted)
  BY <1>1 DEF PutSecondary, LayoutState
<1>4. placed.active = s.active
  BY <1>1 DEF LayoutState
<1> HIDE DEF layout
<1>5. /\ Valid(placed) /\ SameQueues(s, placed)
      /\ placed.layouts = [s.layouts EXCEPT ![i] = layout]
      /\ Len(placed.layouts) = Len(s.layouts)
  BY <1>2, ReplaceLemma
<1> HIDE DEF placed
<1>6. /\ \A v \in Windows \ {booted} : Placed(v, s.layouts) => Placed(v, placed.layouts)
      /\ Placed(w, placed.layouts)
  BY <1>2, <1>5, ReplaceKeeps
<1>7. CASE booted = NoWindow
  <2>1. Grows(s, placed)
    BY <1>1, <1>5, <1>6, <1>7, WindowsAssumption DEF Grows
  <2> QED
    BY <1>3, <1>4, <1>6, <1>7, <2>1
<1>8. CASE booted # NoWindow
  <2>1. booted \in placed.created /\ Unplaced(booted, placed.layouts)
    BY <1>1, <1>2, <1>5, <1>8 DEF SameQueues, Valid, Within, Disjoint, Unplaced
  <2> HIDE DEF booted
  <2> DEFINE t == AppendLayout(placed, booted)
  <2>2. /\ t.active = placed.active /\ Len(t.layouts) = Len(placed.layouts) + 1
        /\ Grows(placed, t) /\ Placed(booted, t.layouts)
    BY <1>5, <1>8, <2>1, AppendGrows
  <2> HIDE DEF t
  <2>3. \A v \in Windows : Placed(v, s.layouts) => Placed(v, t.layouts)
    BY <1>6, <2>2 DEF Grows
  <2>4. Grows(s, t) /\ Placed(w, t.layouts)
    BY <1>1, <1>5, <1>6, <2>2, <2>3 DEF Grows
  <2> QED
    BY <1>3, <1>4, <1>8, <2>2, <2>4 DEF t
<1> QED
  BY <1>7, <1>8

\* A window is moved to the secondary slot of the layout that is active.
LEMMA ApplySecondaryGrows ==
    ASSUME NEW s, Valid(s), NEW p \in Position, s.active \in DOMAIN s.layouts
    PROVE  LET t == ApplySecondary(s, p)
           IN  Grows(s, t) /\ t.active \in DOMAIN t.layouts
<1> DEFINE window == WindowAt(s, p)
           taken == TakeWindow(s, p)
           t == PutSecondary(taken, s.active, window)
<1>0. Len(s.layouts) \in Nat /\ DOMAIN s.layouts = 1..Len(s.layouts)
  BY DEF Valid, LayoutState
<1>1. CASE window = NoWindow
  BY <1>0, <1>1 DEF ApplySecondary, Grows
<1>2. CASE window # NoWindow
  <2>1. ApplySecondary(s, p) = t
    BY <1>2 DEF ApplySecondary
  <2>2. window \in s.created
    <3>1. window \in WindowsOf(s.layouts[p.index])
      BY <1>2, OccupiedLemma DEF WindowAt, LayoutAt, Occupant, WindowsOf
    <3> QED
      BY <1>2, <3>1, OccupiedLemma DEF Valid, Within
  <2>3. /\ Valid(taken) /\ SameQueues(s, taken) /\ Len(taken.layouts) = Len(s.layouts)
        /\ taken.active = s.active /\ Unplaced(window, taken.layouts)
        /\ \A w \in Windows \ {window} :
             Placed(w, s.layouts) => Placed(w, taken.layouts)
    BY <1>2, TakeWindowLemma, TakeWindowKeeps
  <2> HIDE DEF taken, window
  <2>4. s.active \in DOMAIN taken.layouts /\ window \in taken.created
    BY <1>0, <2>2, <2>3 DEF Valid, LayoutState, SameQueues
  <2>5. Grows(taken, t) /\ Placed(window, t.layouts) /\ t.active = taken.active
    BY <1>2, <2>3, <2>4, PutSecondaryGrows
  <2>6. Valid(t)
    BY <1>2, <2>3, <2>4, PutSecondaryLemma
  <2> HIDE DEF t
  <2>7. \A w \in Windows : Placed(w, s.layouts) => Placed(w, t.layouts)
    BY <2>3, <2>5 DEF Grows
  <2>8. Len(t.layouts) \in Nat /\ DOMAIN t.layouts = 1..Len(t.layouts)
    BY <2>6 DEF Valid, LayoutState
  <2>9. Grows(s, t) /\ t.active \in DOMAIN t.layouts
    BY <1>0, <2>3, <2>5, <2>7, <2>8 DEF Grows
  <2> QED
    BY <2>1, <2>9
<1> QED
  BY <1>1, <1>2

LEMMA ApplyStagedGrows ==
    ASSUME NEW s, Valid(s), NEW t \in Transaction,
           t.kind = "secondary" => s.active \in DOMAIN s.layouts
    PROVE  LET r == ApplyStaged(s, t)
           IN  /\ Grows(s, r)
               /\ /\ s.active \in DOMAIN s.layouts
                  /\ t.kind = "active" => t.position.index \in DOMAIN s.layouts
                  => r.active \in DOMAIN r.layouts
<1> DEFINE r == ApplyStaged(s, t)
           arrives == /\ s.active \in DOMAIN s.layouts
                      /\ t.kind = "active" => t.position.index \in DOMAIN s.layouts
<1> SUFFICES Grows(s, r) /\ (arrives => r.active \in DOMAIN r.layouts)
  OBVIOUS
<1>1. t.position \in Position /\ t.position.index \in Nat /\ Len(s.layouts) \in Nat
  BY DEF Transaction, Position, Valid, LayoutState
<1>2. CASE t.kind = "active"
  <2>1. r = ApplySetActive(s, t.position.index)
    BY <1>2 DEF ApplyStaged
  <2>2. r.layouts = s.layouts
    BY <1>1, <2>1, ApplySetActiveLemma
  <2>3. r.active = t.position.index
    BY <2>1 DEF ApplySetActive, LeaveActive, Valid, LayoutState
  <2> HIDE DEF r
  <2> QED
    BY <1>1, <1>2, <2>2, <2>3 DEF Grows
<1>3. CASE t.kind = "primary"
  <2>1. r = ApplyPrimary(s, t.position)
    BY <1>3 DEF ApplyStaged
  <2> HIDE DEF r
  <2> QED
    BY <1>1, <2>1, ApplyPrimaryGrows
<1>4. CASE t.kind = "secondary"
  <2>1. r = ApplySecondary(s, t.position) /\ s.active \in DOMAIN s.layouts
    BY <1>4 DEF ApplyStaged
  <2> HIDE DEF r
  <2> QED
    BY <1>1, <2>1, ApplySecondaryGrows
<1> QED
  BY <1>2, <1>3, <1>4 DEF Transaction

\* A move to the secondary slot is staged while there is an active layout.
MovesHaveActive(s) ==
    \A j \in DOMAIN s.staged :
        s.staged[j].kind = "secondary" => s.active \in DOMAIN s.layouts

\* No staged activation gives the layouts up before a staged move.
NotGivenUp(s) ==
    \A i, j \in DOMAIN s.staged :
        i < j /\ s.staged[i].kind = "active" /\ s.staged[j].kind = "secondary"
          => s.staged[i].position.index \in DOMAIN s.layouts

\* After k staged transactions: moves that are left have an active layout.
StagedGrows(s, k, r) ==
    /\ Valid(r)
    /\ Grows(s, r)
    /\ \A j \in DOMAIN s.staged :
         j > k /\ s.staged[j].kind = "secondary" => r.active \in DOMAIN r.layouts

LEMMA StagedRound ==
    ASSUME NEW s, Valid(s), NotGivenUp(s), NEW k \in DOMAIN s.staged,
           NEW q, StagedGrows(s, k - 1, q)
    PROVE  StagedGrows(s, k, ApplyStaged(q, s.staged[k]))
<1> DEFINE t == s.staged[k]
           r == ApplyStaged(q, t)
<1>1. /\ t \in Transaction /\ k \in Nat /\ DOMAIN s.staged \subseteq Nat
      /\ Len(s.layouts) \in Nat /\ DOMAIN s.layouts = 1..Len(s.layouts)
  BY DEF Valid, LayoutState
<1>2. /\ Valid(q) /\ Grows(s, q)
      /\ t.kind = "secondary" => q.active \in DOMAIN q.layouts
      /\ \A j \in DOMAIN s.staged :
           j > k /\ s.staged[j].kind = "secondary" => q.active \in DOMAIN q.layouts
  BY <1>1 DEF StagedGrows
<1>3. \A j \in DOMAIN s.staged :
        j > k /\ s.staged[j].kind = "secondary" /\ t.kind = "active"
          => t.position.index \in DOMAIN s.layouts
  BY <1>1 DEF NotGivenUp
<1> HIDE DEF t
<1>4. /\ Valid(r) /\ Grows(q, r)
      /\ /\ q.active \in DOMAIN q.layouts
         /\ t.kind = "active" => t.position.index \in DOMAIN q.layouts
         => r.active \in DOMAIN r.layouts
  BY <1>1, <1>2, ApplyStagedLemma, ApplyStagedGrows
<1> HIDE DEF r
<1>5. /\ Len(q.layouts) \in Nat /\ DOMAIN q.layouts = 1..Len(q.layouts)
      /\ Len(r.layouts) \in Nat
  BY <1>2, <1>4 DEF Valid, LayoutState
<1>6. DOMAIN s.layouts \subseteq DOMAIN q.layouts
  BY <1>1, <1>2, <1>5 DEF Grows
<1>7. Grows(s, r)
  BY <1>1, <1>2, <1>4, <1>5, GrowsTransitive
<1>8. StagedGrows(s, k, r)
  BY <1>2, <1>3, <1>4, <1>6, <1>7 DEF StagedGrows
<1> QED
  BY <1>8 DEF r, t

LEMMA StagedRunGrows ==
    ASSUME NEW s, Valid(s), MovesHaveActive(s), NotGivenUp(s)
    PROVE  Grows(s, StagedRun(s)[Len(s.staged)])
<1> DEFINE n == Len(s.staged)
           run == StagedRun(s)
           good == {k \in 0..n : StagedGrows(s, k, run[k])}
<1>1. /\ n \in Nat /\ DOMAIN s.staged = 1..n /\ Len(s.layouts) \in Nat
  BY DEF Valid, LayoutState
<1>2. /\ run[0] = s
      /\ \A k \in 1..n : run[k] = ApplyStaged(run[k - 1], s.staged[k])
  BY <1>1, StagedRunLemma
<1> HIDE DEF n, run
<1>3. 0 \in good
  BY <1>1, <1>2 DEF StagedGrows, Grows, MovesHaveActive
<1>4. ASSUME NEW k \in 1..n, k - 1 \in good PROVE k \in good
  <2> DEFINE q == run[k - 1]
  <2>1. k \in DOMAIN s.staged /\ k \in 0..n /\ StagedGrows(s, k - 1, q)
    BY <1>1, <1>4
  <2>2. run[k] = ApplyStaged(q, s.staged[k])
    BY <1>2
  <2> HIDE DEF q
  <2>3. StagedGrows(s, k, run[k])
    BY <2>1, <2>2, StagedRound
  <2> QED
    BY <2>1, <2>3
<1> HIDE DEF good
<1>5. good \in SUBSET (0..n)
  BY DEF good
<1>6. n \in good
  BY <1>1, <1>3, <1>4, <1>5, LoopInduction
<1> QED
  BY <1>6 DEF good, run, n, StagedGrows

\* Reaping takes dead windows only.
LEMMA ReapKeepsLive ==
    ASSUME NEW s, Valid(s), NEW w \in Windows \ s.dead, Placed(w, s.layouts)
    PROVE  Placed(w, Reap(s).layouts)
<1> DEFINE end == ReapRun(s)[Len(s.layouts)]
           reaped == [s EXCEPT !.layouts = end.kept, !.active = end.active]
<1>1. PICK i \in DOMAIN s.layouts : w \in WindowsOf(s.layouts[i])
  BY DEF Placed
<1>2. w \in WindowsOf(Survivor(s.layouts[i], s.dead))
  <2>1. /\ s.layouts[i] \in Layout /\ s.dead \in SUBSET Windows
        /\ s.layouts[i].primary = s.layouts[i].secondary
             => s.layouts[i].primary = NoWindow
    BY DEF Valid, LayoutState, Disjoint
  <2>2. WindowsOf(Survivor(s.layouts[i], s.dead)) = WindowsOf(s.layouts[i]) \ s.dead
    BY <2>1, SurvivorLemma
  <2> QED
    BY <1>1, <2>2
<1>3. /\ end \in [kept : Seq(Layout), active : Nat, clear : BOOLEAN]
      /\ Disjoint(end.kept) /\ Within(end.kept, s.created \ s.dead)
  BY ReapRunValid DEF ReapInv
<1>4. Placed(w, end.kept)
  <2>1. Len(s.layouts) \in Nat /\ i <= Len(s.layouts)
    BY DEF Valid, LayoutState
  <2>2. SurvivorsKept(s, Len(s.layouts), end)
    BY SurvivorsAreKept
  <2> HIDE DEF end
  <2>3. ~Gone(s, i)
    BY <1>2 DEF Gone
  <2>4. PICK j \in DOMAIN end.kept : end.kept[j] = Survivor(s.layouts[i], s.dead)
    BY <2>1, <2>2, <2>3 DEF SurvivorsKept
  <2> QED
    BY <1>2, <2>4 DEF Placed
<1>5. Reap(s) = IF end.clear THEN RestoreParent(reaped) ELSE reaped
  BY DEF Reap
<1> HIDE DEF end
<1>6. reaped.layouts = end.kept /\ Valid(reaped)
  BY <1>3 DEF Valid, LayoutState, Within
<1> HIDE DEF reaped
<1>7. RestoreParent(reaped).layouts = reaped.layouts
  BY <1>6, RestoreParentLemma
<1> QED
  BY <1>4, <1>5, <1>6, <1>7

\* A live window is in a layout after an apply when it was before.
LEMMA ApplyKeepsLive ==
    ASSUME NEW s, Valid(s), MovesHaveActive(s), NotGivenUp(s),
           NEW w \in Windows \ s.dead, Placed(w, s.layouts)
    PROVE  Placed(w, ApplyTransaction(s).layouts)
<1> DEFINE end == StagedRun(s)[Len(s.staged)]
           applied == [end EXCEPT !.staged = <<>>]
<1>1. Valid(end) /\ SameQueues(s, end) /\ Grows(s, end)
  BY StagedRunValid, StagedRunGrows
<1>2. ApplyTransaction(s) = Reap(applied)
  BY DEF ApplyTransaction
<1> HIDE DEF end
<1>3. /\ applied \in LayoutState /\ applied.layouts = end.layouts
      /\ applied.created = end.created /\ applied.dead = end.dead
  <2>1. <<>> \in Seq(Transaction)
    OBVIOUS
  <2> QED
    BY <1>1, <2>1 DEF Valid, LayoutState
<1> HIDE DEF applied
<1>4. Valid(applied) /\ applied.dead = s.dead /\ Placed(w, applied.layouts)
  BY <1>1, <1>3 DEF Valid, SameQueues, Grows
<1> QED
  BY <1>2, <1>4, ReapKeepsLive

----------------------------------------------------------------------------
(* Where staged activations lead.                                          *)

\* The run of `pending_active`.
IsPendingRun(run, s, n) ==
    run = [k \in 0..n |-> IF k = 0 THEN ActiveLayout(s)
                          ELSE PendingStep(s, run[k - 1], s.staged[k])]

LEMMA PendingRunExists ==
    ASSUME NEW s, NEW n \in Nat
    PROVE  \E run : IsPendingRun(run, s, n)
<1> DEFINE first == ActiveLayout(s)
           round(r, k) == PendingStep(s, r, s.staged[k])
           bad == {k \in Nat : ~ \E run : IsPendingRun(run, s, k)}
<1>1. SUFFICES ASSUME bad # {} PROVE FALSE
  OBVIOUS
<1>2. PICK m \in bad : \A k \in bad : m <= k
  BY <1>1, LeastElement
<1>3. \A run, k :
        IsPendingRun(run, s, k) <=>
          run = [i \in 0..k |-> IF i = 0 THEN first ELSE round(run[i - 1], i)]
  BY DEF IsPendingRun
<1> HIDE DEF first, round
<1>4. m # 0
  <2> DEFINE run == [i \in 0..0 |-> first]
  <2>1. run = [i \in 0..0 |-> IF i = 0 THEN first ELSE round(run[i - 1], i)]
    OBVIOUS
  <2> HIDE DEF run
  <2>2. IsPendingRun(run, s, 0)
    BY <1>3, <2>1
  <2> QED
    BY <2>2
<1>5. PICK p : IsPendingRun(p, s, m - 1)
  BY <1>2, <1>4
<1> DEFINE q == [k \in 0..m |-> IF k = 0 THEN first ELSE round(p[k - 1], k)]
<1>6. \A k \in 0..(m - 1) : q[k] = p[k]
  BY <1>3, <1>4, <1>5
<1>7. IsPendingRun(q, s, m)
  <2>1. ASSUME NEW k \in 0..m, k # 0 PROVE q[k - 1] = p[k - 1]
    <3>1. k - 1 \in 0..(m - 1)
      BY <2>1
    <3> HIDE DEF q
    <3> QED
      BY <1>6, <3>1
  <2>2. q = [k \in 0..m |-> IF k = 0 THEN first ELSE round(q[k - 1], k)]
    BY <2>1
  <2> HIDE DEF q
  <2> QED
    BY <1>3, <2>2
<1> QED
  BY <1>7

LEMMA PendingRunLemma ==
    ASSUME NEW s, Len(s.staged) \in Nat
    PROVE  /\ PendingRun(s)[0] = ActiveLayout(s)
           /\ \A k \in 1..Len(s.staged) :
                PendingRun(s)[k] = PendingStep(s, PendingRun(s)[k - 1], s.staged[k])
<1> DEFINE n == Len(s.staged)
           run == PendingRun(s)
<1>1. IsPendingRun(run, s, n)
  BY PendingRunExists, Zenon DEF PendingRun, IsPendingRun
<1>2. n \in Nat
  OBVIOUS
<1> HIDE DEF n, run
<1>3. \A k \in 0..n : run[k] = IF k = 0 THEN ActiveLayout(s)
                             ELSE PendingStep(s, run[k - 1], s.staged[k])
  BY <1>1, Zenon DEF IsPendingRun
<1>4. /\ 0 \in 0..n
      /\ \A k \in 1..n : k \in 0..n /\ k # 0
  BY <1>2
<1> QED
  BY <1>3, <1>4, Zenon DEF n, run

\* Staged is nothing but the activation of layouts there are, or of none.
OnlyActivations(s) ==
    \A k \in DOMAIN s.staged :
        /\ s.staged[k].kind = "active"
        /\ s.staged[k].position.index \in {0} \cup DOMAIN s.layouts

\* What was applied so far, and what `pending_active` makes of it.
LEMMA ActivationsLead ==
    ASSUME NEW s, Valid(s), OnlyActivations(s)
    PROVE  LET end == StagedRun(s)[Len(s.staged)]
           IN  /\ Valid(end) /\ end.layouts = s.layouts /\ end.dead = s.dead
               /\ LayoutAt(s, end.active) = PendingActive(s)
<1> DEFINE n == Len(s.staged)
           run == StagedRun(s)
           pending == PendingRun(s)
           good == {k \in 0..n : /\ Valid(run[k]) /\ SameQueues(s, run[k])
                                 /\ run[k].layouts = s.layouts
                                 /\ LayoutAt(s, run[k].active) = pending[k]}
<1>1. /\ n \in Nat /\ DOMAIN s.staged = 1..n /\ s.staged \in Seq(Transaction)
  BY DEF Valid, LayoutState
<1>2. /\ run[0] = s /\ pending[0] = ActiveLayout(s)
      /\ \A k \in 1..n : run[k] = ApplyStaged(run[k - 1], s.staged[k])
      /\ \A k \in 1..n : pending[k] = PendingStep(s, pending[k - 1], s.staged[k])
  BY <1>1, StagedRunLemma, PendingRunLemma
<1>3. PendingActive(s) = pending[n]
  BY DEF PendingActive
<1> HIDE DEF n, run, pending
<1>4. 0 \in good
  BY <1>1, <1>2 DEF SameQueues, ActiveLayout
<1>5. ASSUME NEW k \in 1..n, k - 1 \in good PROVE k \in good
  <2> DEFINE q == run[k - 1]
             t == s.staged[k]
             i == t.position.index
             r == run[k]
  <2>1. /\ Valid(q) /\ SameQueues(s, q) /\ q.layouts = s.layouts
    BY <1>5
  <2>2. t.kind = "active" /\ i \in {0} \cup DOMAIN s.layouts /\ i \in Nat
    <3>1. k \in DOMAIN s.staged /\ DOMAIN s.layouts \subseteq Nat
      BY <1>1 DEF Valid, LayoutState
    <3> QED
      BY <3>1 DEF OnlyActivations
  <2>3. r = ApplySetActive(q, i)
    BY <1>2, <2>2 DEF ApplyStaged
  <2>4. pending[k] = LayoutAt(s, i)
    BY <1>2, <2>2 DEF PendingStep
  <2> HIDE DEF q, i
  <2>5. Valid(r) /\ SameQueues(q, r) /\ r.layouts = q.layouts
    BY <2>1, <2>2, <2>3, ApplySetActiveLemma
  <2>6. r.active = i
    BY <2>1, <2>3 DEF ApplySetActive, LeaveActive, Valid, LayoutState
  <2> HIDE DEF r
  <2>7. SameQueues(s, r)
    BY <2>1, <2>5 DEF SameQueues
  <2> QED
    BY <2>1, <2>4, <2>5, <2>6, <2>7 DEF r
<1> HIDE DEF good
<1>6. good \in SUBSET (0..n)
  BY DEF good
<1>7. n \in good
  BY <1>1, <1>4, <1>5, <1>6, LoopInduction
<1> QED
  BY <1>3, <1>7 DEF good, run, n, SameQueues

\* A layout whose windows all live is its own survivor.
LEMMA SurvivorOfLive ==
    ASSUME NEW layout \in Layout, NEW dead \in SUBSET Windows,
           WindowsOf(layout) \cap dead = {}
    PROVE  Survivor(layout, dead) = layout
<1>1. NoWindow \notin dead
  BY WindowsAssumption
<1>2. layout.primary \notin dead /\ layout.secondary \notin dead
  BY <1>1 DEF WindowsOf
<1>3. Survivor(layout, dead) = [layout EXCEPT !.secondary = layout.secondary]
  BY <1>2 DEF Survivor
<1> QED
  BY <1>3 DEF Layout

\* With nothing to reap the loop copies the layouts.
Copies(s, k, r) ==
    /\ r.active = s.active
    /\ r.clear = FALSE
    /\ Len(r.kept) = k
    /\ \A i \in 1..k : r.kept[i] = s.layouts[i]

LEMMA NothingReaped ==
    ASSUME NEW s, Valid(s), NoneEmpty(s.layouts),
           \A i \in DOMAIN s.layouts : WindowsOf(s.layouts[i]) \cap s.dead = {}
    PROVE  ActiveLayout(Reap(s)) = ActiveLayout(s)
<1> DEFINE n == Len(s.layouts)
           run == ReapRun(s)
           good == {k \in 0..n : Copies(s, k, run[k])}
<1>0. /\ s \in LayoutState /\ s.layouts \in Seq(Layout) /\ s.dead \in SUBSET Windows
      /\ s.active \in Nat
  BY DEF Valid, LayoutState
<1>1. /\ run[0] = [kept |-> <<>>, active |-> s.active, clear |-> FALSE]
      /\ \A k \in 1..n :
           run[k] = ReapLayout(run[k - 1], k, Survivor(s.layouts[k], s.dead))
      /\ \A k \in 0..n : run[k] \in [kept : Seq(Layout), active : Nat, clear : BOOLEAN]
      /\ n \in Nat /\ DOMAIN s.layouts = 1..n
  BY ReapRounds
<1>2. \A i \in DOMAIN s.layouts :
        Survivor(s.layouts[i], s.dead) = s.layouts[i] /\ ~Gone(s, i)
  <2>1. \A i \in DOMAIN s.layouts : Survivor(s.layouts[i], s.dead) = s.layouts[i]
    BY <1>0, SurvivorOfLive
  <2> QED
    BY <2>1 DEF Gone, NoneEmpty
<1>3. Reap(s) = LET reaped == [s EXCEPT !.layouts = run[n].kept, !.active = run[n].active]
                IN  IF run[n].clear THEN RestoreParent(reaped) ELSE reaped
  BY DEF Reap
<1> HIDE DEF n, run
<1>4. 0 \in good
  BY <1>1 DEF Copies
<1>5. ASSUME NEW k \in 1..n, k - 1 \in good PROVE k \in good
  <2> DEFINE r == run[k - 1]
             t == run[k]
  <2>1. /\ k \in DOMAIN s.layouts /\ k \in 0..n /\ k - 1 \in 0..n
        /\ Copies(s, k - 1, r)
        /\ r \in [kept : Seq(Layout), active : Nat, clear : BOOLEAN]
        /\ t = ReapLayout(r, k, Survivor(s.layouts[k], s.dead))
    BY <1>1, <1>5
  <2> HIDE DEF r, t
  <2>2. /\ t.active = r.active /\ t.clear = r.clear
        /\ Len(t.kept) = Len(r.kept) + 1
        /\ t.kept[Len(r.kept) + 1] = s.layouts[k]
        /\ \A i \in DOMAIN r.kept : i \in DOMAIN t.kept /\ t.kept[i] = r.kept[i]
    BY <1>2, <2>1, ReapRound
  <2>3. DOMAIN r.kept = 1..(k - 1) /\ k \in Nat
    BY <1>1, <2>1 DEF Copies
  <2>4. Len(t.kept) = k /\ t.kept[k] = s.layouts[k]
    BY <2>1, <2>2, <2>3 DEF Copies
  <2>5. \A i \in 1..k : t.kept[i] = s.layouts[i]
    <3>1. \A i \in 1..k : i = k \/ i \in 1..(k - 1)
      BY <2>3
    <3> QED
      BY <2>1, <2>2, <2>3, <2>4, <3>1 DEF Copies
  <2>6. Copies(s, k, t)
    BY <2>1, <2>2, <2>4, <2>5 DEF Copies
  <2> QED
    BY <2>1, <2>6 DEF t
<1> HIDE DEF good
<1>6. good \in SUBSET (0..n)
  BY DEF good
<1>7. n \in good
  BY <1>1, <1>4, <1>5, <1>6, LoopInduction
<1> DEFINE end == run[n]
<1>8. /\ end.active = s.active /\ ~end.clear /\ DOMAIN end.kept = DOMAIN s.layouts
      /\ \A i \in DOMAIN s.layouts : end.kept[i] = s.layouts[i]
  <2>1. Copies(s, n, end) /\ end.kept \in Seq(Layout)
    BY <1>1, <1>7 DEF good
  <2> QED
    BY <1>1, <2>1 DEF Copies
<1>9. Reap(s) = [s EXCEPT !.layouts = end.kept, !.active = end.active]
  BY <1>3, <1>8
<1> HIDE DEF end
<1>10. Reap(s).layouts = end.kept /\ Reap(s).active = end.active
  BY <1>0, <1>9 DEF LayoutState
<1> QED
  BY <1>8, <1>10 DEF ActiveLayout, LayoutAt

\* Activations end where `pending_active` said, when nothing died meanwhile.
LEMMA PendingIsReached ==
    ASSUME NEW s, Valid(s), NoneEmpty(s.layouts), OnlyActivations(s),
           \A i \in DOMAIN s.layouts : WindowsOf(s.layouts[i]) \cap s.dead = {}
    PROVE  ActiveLayout(ApplyTransaction(s)) = PendingActive(s)
<1> DEFINE end == StagedRun(s)[Len(s.staged)]
           applied == [end EXCEPT !.staged = <<>>]
<1>1. /\ Valid(end) /\ end.layouts = s.layouts /\ end.dead = s.dead
      /\ LayoutAt(s, end.active) = PendingActive(s)
  BY ActivationsLead
<1>2. ApplyTransaction(s) = Reap(applied)
  BY DEF ApplyTransaction
<1> HIDE DEF end
<1>3. /\ applied \in LayoutState /\ applied.layouts = end.layouts
      /\ applied.created = end.created /\ applied.dead = end.dead
      /\ applied.active = end.active
  <2>1. <<>> \in Seq(Transaction)
    OBVIOUS
  <2> QED
    BY <1>1, <2>1 DEF Valid, LayoutState
<1> HIDE DEF applied
<1>4. Valid(applied)
  BY <1>1, <1>3 DEF Valid
<1>5. ActiveLayout(Reap(applied)) = ActiveLayout(applied)
  BY <1>1, <1>3, <1>4, NothingReaped
<1> QED
  BY <1>1, <1>2, <1>3, <1>5 DEF ActiveLayout, LayoutAt

\* With nothing staged, applying is reaping.
LEMMA ApplyNothingStaged ==
    ASSUME NEW s, Valid(s), s.staged = <<>>
    PROVE  ApplyTransaction(s) = Reap(s)
<1>1. StagedRun(s)[Len(s.staged)] = s
  BY StagedRunLemma
<1>2. [s EXCEPT !.staged = <<>>] = s
  BY DEF Valid, LayoutState
<1> QED
  BY <1>1, <1>2 DEF ApplyTransaction

\* Of a finite set of at most one number two elements are the same.
LEMMA AtMostOne ==
    ASSUME NEW n \in Nat, NEW T \in SUBSET (0..n), Cardinality(T) <= 1,
           NEW i \in T, NEW j \in T
    PROVE  i = j
<1>1. SUFFICES ASSUME i # j PROVE FALSE
  OBVIOUS
<1>2. IsFiniteSet(T)
  <2>1. IsFiniteSet(0..n)
    BY FS_Interval
  <2> QED
    BY <2>1, FS_Subset
<1>3. Cardinality({i}) = 1 /\ IsFiniteSet({i})
  BY FS_Singleton
<1>4. Cardinality({i} \cup {j}) = 2
  BY <1>1, <1>3, FS_AddElement
<1>5. {i} \cup {j} \subseteq T
  OBVIOUS
<1>6. Cardinality({i} \cup {j}) <= Cardinality(T)
  BY <1>2, <1>5, FS_Subset
<1>7. Cardinality(T) \in Nat
  BY <1>2, FS_CardinalityType
<1> QED
  BY <1>4, <1>6, <1>7

----------------------------------------------------------------------------
(* A move is staged for an active layout only.                             *)

LEMMA MovesAppend ==
    ASSUME NEW s \in LayoutState, MovesHaveActive(s), NEW t, NEW x \in Transaction,
           t.staged = Append(s.staged, x),
           t.active = s.active, DOMAIN s.layouts \subseteq DOMAIN t.layouts,
           x.kind = "secondary" => t.active \in DOMAIN t.layouts
    PROVE  MovesHaveActive(t)
<1>1. s.staged \in Seq(Transaction)
  BY DEF LayoutState
<1>2. \A j \in DOMAIN t.staged :
        (j \in DOMAIN s.staged /\ t.staged[j] = s.staged[j]) \/ t.staged[j] = x
  BY <1>1
<1> QED
  BY <1>2 DEF MovesHaveActive

LEMMA SetActiveMoves ==
    ASSUME NEW s \in LayoutState, MovesHaveActive(s), NEW p \in Position,
           NEW clear \in BOOLEAN
    PROVE  MovesHaveActive(SetActive(s, p, clear))
<1> DEFINE t == SetActive(s, p, clear)
           x == [kind |-> "active", position |-> PrimaryOf(p.index)]
<1>1. SameLayouts(s, t) /\ t.staged = Append(s.staged, x)
  BY SetActiveLemma
<1>2. x \in Transaction /\ x.kind # "secondary"
  BY DEF Transaction, Position, PrimaryOf
<1> HIDE DEF t, x
<1>3. MovesHaveActive(t)
  BY <1>1, <1>2, MovesAppend DEF SameLayouts
<1> QED
  BY <1>3 DEF t

LEMMA EnterAndStageMoves ==
    ASSUME NEW s \in LayoutState, MovesHaveActive(s), NEW p \in Position,
           NEW kind \in {"primary", "secondary"},
           kind = "secondary" => s.active \in DOMAIN s.layouts
    PROVE  MovesHaveActive(Stage(EnterWindow(s, WindowAt(s, p)), kind, p))
<1> DEFINE entered == EnterWindow(s, WindowAt(s, p))
           t == Stage(entered, kind, p)
           x == [kind |-> kind, position |-> p]
<1>1. entered \in LayoutState /\ SameLayouts(s, entered) /\ entered.staged = s.staged
  BY WindowAtLemma, EnterWindowLemma
<1>2. kind \in {"active", "primary", "secondary"}
  OBVIOUS
<1> HIDE DEF entered
<1>3. SameLayouts(entered, t) /\ t.staged = Append(entered.staged, x)
  BY <1>1, <1>2, StageLemma
<1>4. x \in Transaction /\ (x.kind = "secondary" => s.active \in DOMAIN s.layouts)
  BY <1>2 DEF Transaction
<1> HIDE DEF t, x
<1>5. MovesHaveActive(t)
  BY <1>1, <1>3, <1>4, MovesAppend DEF SameLayouts
<1> QED
  BY <1>5 DEF t, entered

LEMMA CycleActiveMoves ==
    ASSUME NEW s \in LayoutState, MovesHaveActive(s), NEW step \in {-1, 1}
    PROVE  MovesHaveActive(CycleActive(s, step))
<1> DEFINE count == Len(s.layouts)
           target == IF s.active = 0 THEN 0 ELSE (s.active - 1 + step) % count
           p == PrimaryOf(target + 1)
<1>1. count \in Nat /\ s.active \in Nat
  BY DEF LayoutState
<1>2. CASE count = 0
  <2>1. CycleActive(s, step) = s
    BY <1>2 DEF CycleActive
  <2> QED
    BY <2>1
<1>3. CASE count # 0
  <2>1. target \in Nat
    BY <1>1, <1>3
  <2> HIDE DEF target
  <2>2. p \in Position
    BY <2>1 DEF PrimaryOf, Position
  <2>3. CycleActive(s, step) = SetActive(s, p, TRUE)
    BY <1>3 DEF CycleActive, target
  <2> HIDE DEF p
  <2> QED
    BY <2>2, <2>3, SetActiveMoves
<1> QED
  BY <1>2, <1>3

LEMMA SetPrimaryMoves ==
    ASSUME NEW s \in LayoutState, MovesHaveActive(s), NEW p \in Position
    PROVE  MovesHaveActive(SetPrimary(s, p))
<1>1. CASE SetPrimary(s, p) = s
  BY <1>1
<1>2. CASE SetPrimary(s, p) = SetActive(s, p, TRUE)
  BY <1>2, SetActiveMoves
<1>3. CASE SetPrimary(s, p) = Stage(EnterWindow(s, WindowAt(s, p)), "primary", p)
  BY <1>3, EnterAndStageMoves
<1> QED
  BY <1>1, <1>2, <1>3 DEF SetPrimary

\* `set_secondary` is one for the primary half while there is no primary.
LEMMA SetSecondaryMoves ==
    ASSUME NEW s \in LayoutState, MovesHaveActive(s), NEW p \in Position
    PROVE  MovesHaveActive(SetSecondary(s, p))
<1>1. CASE SetSecondary(s, p) = s
  BY <1>1
<1>2. CASE SetSecondary(s, p) = SetPrimary(s, p)
  BY <1>2, SetPrimaryMoves
<1>3. CASE /\ ActiveLayout(s).primary # NoWindow
           /\ SetSecondary(s, p) = Stage(EnterWindow(s, WindowAt(s, p)), "secondary", p)
  <2>1. s.active \in DOMAIN s.layouts
    BY <1>3 DEF ActiveLayout, LayoutAt, DefaultLayout
  <2> QED
    BY <1>3, <2>1, EnterAndStageMoves
<1> QED
  BY <1>1, <1>2, <1>3 DEF SetSecondary

LEMMA PushMoves ==
    ASSUME NEW s \in LayoutState, MovesHaveActive(s)
    PROVE  MovesHaveActive(PushActiveToParent(s))
BY PushActiveToParentLemma DEF MovesHaveActive, SameLayouts

LEMMA CreateMoves ==
    ASSUME NEW s, Valid(s), MovesHaveActive(s), NEW w \in Windows, w \notin s.created
    PROVE  MovesHaveActive(Create([s EXCEPT !.created = @ \cup {w}], w))
<1> DEFINE begun == [s EXCEPT !.created = @ \cup {w}]
           pushed == PushActiveToParent(begun)
           added == AppendLayout(pushed, w)
           p == PrimaryOf(Len(added.layouts))
<1>1. w # NoWindow
  BY WindowsAssumption
<1>2. /\ Valid(begun) /\ begun.layouts = s.layouts /\ begun.staged = s.staged
      /\ begun.active = s.active /\ w \in begun.created
  <2>1. /\ begun \in LayoutState /\ begun.layouts = s.layouts /\ begun.staged = s.staged
        /\ begun.active = s.active /\ begun.created = s.created \cup {w}
    BY DEF Valid, LayoutState
  <2> HIDE DEF begun
  <2> QED
    BY <2>1 DEF Valid, Within
<1>3. Unplaced(w, s.layouts)
  BY DEF Valid, Within, Unplaced
<1>4. Create(begun, w) = SetActive(added, p, FALSE)
  BY DEF Create
<1> HIDE DEF begun
<1>5. /\ pushed \in LayoutState /\ SameLayouts(begun, pushed)
      /\ pushed.staged = begun.staged
  BY <1>2, PushActiveToParentLemma DEF Valid
<1>6. Valid(pushed) /\ Unplaced(w, pushed.layouts) /\ w \in pushed.created
  BY <1>2, <1>3, <1>5 DEF Valid, SameLayouts
<1> HIDE DEF pushed
<1>7. /\ Valid(added) /\ added.staged = pushed.staged /\ added.active = pushed.active
      /\ Len(added.layouts) = Len(pushed.layouts) + 1
  BY <1>1, <1>6, AppendLayoutLemma, AppendGrows DEF Unplaced, SameQueues
<1> HIDE DEF added
<1>8. added \in LayoutState /\ p \in Position
  BY <1>7 DEF Valid, LayoutState, PrimaryOf, Position
<1>9. DOMAIN s.layouts \subseteq DOMAIN added.layouts
  <2>1. /\ pushed.layouts \in Seq(Layout) /\ added.layouts \in Seq(Layout)
        /\ pushed.layouts = s.layouts
    BY <1>2, <1>5, <1>7 DEF Valid, LayoutState, SameLayouts
  <2> QED
    BY <1>7, <2>1
<1>10. MovesHaveActive(added)
  BY <1>2, <1>5, <1>7, <1>9 DEF MovesHaveActive, SameLayouts
<1> HIDE DEF p
<1>11. MovesHaveActive(SetActive(added, p, FALSE))
  BY <1>8, <1>10, SetActiveMoves
<1> QED
  BY <1>4, <1>11 DEF begun
============================================================================
