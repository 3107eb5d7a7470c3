---------------------------- MODULE PopupsProofs ----------------------------
(***************************************************************************)
(* Proofs about the popups, for any windows, layer surfaces and popups, and *)
(* about where a popup is put, for any positioners and sizes.              *)
(*                                                                         *)
(* Popups: a tree is the least set with what hangs below it, so it shrinks *)
(* with the vectors and does not notice what is dropped outside of it.     *)
(* Popups have parents that were there before, and hang below them; with   *)
(* this no popup is in two places, is lost or waits for an answer.         *)
(*                                                                         *)
(* Placement: all that is used of the constrainer is what it answers, a    *)
(* location that is inside, or one that is slid without flipping anything. *)
(***************************************************************************)
EXTENDS Popups, Placement, FiniteSetTheorems, WellFoundedInduction, TLAPS

----------------------------------------------------------------------------
(* Popups.  Trees. *)

Vectors == [Surfaces -> Seq(PopupSurfaces)]

LEMMA RangeTyped ==
    ASSUME NEW S, NEW seq \in Seq(S)
    PROVE  Range(seq) \subseteq S
BY DEF Range

\* The roots are in their trees, and so is what hangs below anything in them.
LEMMA TreesClosed ==
    ASSUME NEW ch \in Vectors, NEW roots \in SUBSET Surfaces
    PROVE  /\ roots \subseteq Trees(ch, roots)
           /\ Trees(ch, roots) \subseteq Surfaces
           /\ \A s \in Trees(ch, roots) : Range(ch[s]) \subseteq Trees(ch, roots)
<1>1. roots \subseteq Trees(ch, roots) /\ Trees(ch, roots) \subseteq Surfaces
  BY DEF Trees, Surfaces
<1>2. ASSUME NEW s \in Trees(ch, roots), NEW q \in Range(ch[s])
      PROVE  q \in Trees(ch, roots)
  <2>1. q \in PopupSurfaces
    BY <1>1, <1>2, RangeTyped DEF Vectors
  <2>2. ASSUME NEW set \in SUBSET PopupSurfaces, Below(ch, roots \cup set) \subseteq set
        PROVE  q \in set
    <3>1. s \in roots \cup set
      BY <2>2 DEF Trees
    <3> QED BY <2>2, <3>1 DEF Below
  <2> QED BY <2>1, <2>2 DEF Trees
<1> QED BY <1>1, <1>2

\* A tree has no more than any set that is closed in the same way.
LEMMA TreesLeast ==
    ASSUME NEW ch, NEW roots, NEW set \in SUBSET PopupSurfaces,
           Below(ch, roots \cup set) \subseteq set
    PROVE  Trees(ch, roots) \subseteq roots \cup set
BY DEF Trees

\* With less in the vectors and fewer roots there is less in the trees.
LEMMA TreesMonotone ==
    ASSUME NEW ch \in Vectors, NEW less \in Vectors,
           NEW roots \in SUBSET Surfaces, NEW fewer \in SUBSET roots,
           \A s \in Surfaces : Range(less[s]) \subseteq Range(ch[s])
    PROVE  Trees(less, fewer) \subseteq Trees(ch, roots)
<1> SUFFICES ASSUME NEW set \in SUBSET PopupSurfaces,
                    Below(ch, roots \cup set) \subseteq set
             PROVE  Below(less, fewer \cup set) \subseteq set
  BY DEF Trees
<1> QED BY DEF Below, Surfaces

\* What is in a tree without being a root is in the vector of something in it.
LEMMA TreesBelow ==
    ASSUME NEW ch \in Vectors, NEW roots \in SUBSET Surfaces,
           NEW q \in Trees(ch, roots) \ roots
    PROVE  q \in PopupSurfaces /\ \E s \in Trees(ch, roots) : q \in Range(ch[s])
<1>1. q \in PopupSurfaces
  BY DEF Trees
<1>2. ASSUME \A s \in Trees(ch, roots) : q \notin Range(ch[s]) PROVE FALSE
  <2> DEFINE others == (Trees(ch, roots) \cap PopupSurfaces) \ {q}
  <2>1. roots \cup others \subseteq Trees(ch, roots)
    BY TreesClosed
  <2>2. Below(ch, roots \cup others) \subseteq others
    <3> SUFFICES ASSUME NEW s \in roots \cup others, NEW r \in Range(ch[s])
                 PROVE  r \in others
      BY DEF Below
    <3>1. s \in Trees(ch, roots) /\ s \in Surfaces
      BY <2>1, TreesClosed
    <3>2. r \in Trees(ch, roots) /\ r \in PopupSurfaces
      BY <3>1, TreesClosed, RangeTyped DEF Vectors
    <3> QED BY <1>2, <3>1, <3>2
  <2>3. Trees(ch, roots) \subseteq roots \cup others
    BY <2>2, TreesLeast
  <2> QED BY <2>3
<1> QED BY <1>1, <1>2

\* Dropping what is in none of the trees leaves them as they are.
LEMMA TreesAfterDropping ==
    ASSUME NEW ch \in Vectors, NEW roots \in SUBSET Surfaces
    PROVE  /\ Dropping(ch, roots) \in Vectors
           /\ Trees(Dropping(ch, roots), roots) = Trees(ch, roots)
           /\ \A s \in Surfaces : Range(Dropping(ch, roots)[s]) \subseteq Range(ch[s])
<1> DEFINE trees == Trees(ch, roots)
           left == Dropping(ch, roots)
<1>1. /\ roots \subseteq trees /\ trees \subseteq Surfaces
      /\ \A s \in trees : Range(ch[s]) \subseteq trees
  BY TreesClosed
<1>2. left = [s \in Surfaces |-> IF s \in trees THEN ch[s] ELSE <<>>]
  BY DEF Dropping
<1>3. <<>> \in Seq(PopupSurfaces) /\ Range(<<>>) = {}
  BY DEF Range
<1>4. left \in Vectors
  BY <1>2, <1>3 DEF Vectors
<1> HIDE DEF trees
<1>5. \A s \in Surfaces : Range(left[s]) \subseteq Range(ch[s])
  BY <1>2, <1>3
<1> HIDE DEF left
<1>6. Trees(left, roots) \subseteq trees
  BY <1>4, <1>5, TreesMonotone DEF trees
<1>7. trees \subseteq Trees(left, roots)
  <2> SUFFICES ASSUME NEW set \in SUBSET PopupSurfaces,
                      Below(left, roots \cup set) \subseteq set
               PROVE  trees \subseteq roots \cup set
    BY DEF Trees, trees
  <2> DEFINE inside == set \cap trees
  <2>1. Below(ch, roots \cup inside) \subseteq inside
    <3> SUFFICES ASSUME NEW s \in roots \cup inside, NEW r \in Range(ch[s])
                 PROVE  r \in inside
      BY DEF Below
    <3>1. s \in trees /\ left[s] = ch[s]
      BY <1>1, <1>2
    <3>2. r \in set
      BY <3>1 DEF Below
    <3> QED BY <1>1, <3>1, <3>2
  <2>2. inside \in SUBSET PopupSurfaces
    OBVIOUS
  <2>3. trees \subseteq roots \cup inside
    <3> HIDE DEF inside
    <3> QED BY <2>1, <2>2, TreesLeast DEF trees
  <2> QED BY <2>3
<1> QED BY <1>4, <1>5, <1>6, <1>7 DEF trees, left

----------------------------------------------------------------------------
(* Vectors. *)

\* A nonempty set of positions has a least one.
LEMMA LeastPosition ==
    ASSUME NEW T \in SUBSET Nat, T # {}
    PROVE  \E m \in T : \A k \in T : m <= k
<1> DEFINE D == {0..n : n \in T}
<1>1. D \subseteq FiniteSubsetsOf(Nat) /\ D # {}
  <2>1. \A n \in T : IsFiniteSet(0..n) /\ (0..n) \subseteq Nat
    BY FS_Interval
  <2> QED BY <2>1 DEF FiniteSubsetsOf
<1>2. PICK x \in D : \A y \in D : <<y, x>> \notin StrictSubsetOrdering(Nat)
  BY <1>1, FS_StrictSubsetOrderingWellFounded, WFMin
<1>3. PICK m \in T : x = 0..m
  OBVIOUS
<1>4. ASSUME NEW k \in T, k < m PROVE FALSE
  <2>1. <<0..k, 0..m>> \notin StrictSubsetOrdering(Nat)
    BY <1>2, <1>3
  <2>2. IsFiniteSet(0..m) /\ IsFiniteSet(0..k)
    BY FS_Interval
  <2>3. (0..k) \in SUBSET Nat /\ (0..m) \in SUBSET Nat /\ (0..k) \subseteq (0..m)
    BY <1>4
  <2>4. m \in 0..m /\ m \notin 0..k
    BY <1>4
  <2> QED BY <2>1, <2>2, <2>3, <2>4 DEF StrictSubsetOrdering, FiniteSubsetsOf
<1> QED BY <1>4

\* A vector without repetitions loses exactly what is removed, and what is before
\* the place of the removal stays where it is.
LEMMA SwapRemoveLemma ==
    ASSUME NEW S, NEW seq \in Seq(S), IsInjective(seq), NEW i \in 1..Len(seq)
    PROVE  /\ SwapRemove(seq, i) \in Seq(S)
           /\ IsInjective(SwapRemove(seq, i))
           /\ Len(SwapRemove(seq, i)) = Len(seq) - 1
           /\ \A j \in 1..(i - 1) : SwapRemove(seq, i)[j] = seq[j]
           /\ Range(SwapRemove(seq, i)) = Range(seq) \ {seq[i]}
<1> DEFINE n == Len(seq)
           front == Front(seq)
           left == SwapRemove(seq, i)
<1>1. /\ n \in Nat /\ n >= 1 /\ i \in 1..n /\ DOMAIN seq = 1..n
      /\ \A j \in 1..n : seq[j] \in S
  OBVIOUS
<1>2. /\ front \in Seq(S) /\ Len(front) = n - 1 /\ DOMAIN front = 1..(n - 1)
      /\ \A j \in 1..(n - 1) : front[j] = seq[j]
  BY <1>1 DEF Front
<1>3. Last(seq) = seq[n]
  BY DEF Last
<1> HIDE DEF front
<1>4. /\ left \in Seq(S) /\ Len(left) = n - 1
      /\ \A j \in 1..(n - 1) : left[j] = IF j = i THEN seq[n] ELSE seq[j]
  <2>1. CASE i = n
    <3>1. left = front
      BY <2>1 DEF SwapRemove, front
    <3> QED BY <1>1, <1>2, <2>1, <3>1
  <2>2. CASE i # n
    <3>1. left = [front EXCEPT ![i] = seq[n]]
      BY <1>3, <2>2 DEF SwapRemove, front
    <3> HIDE DEF left, n
    <3>2. i \in 1..(n - 1) /\ n \in 1..n
      BY <1>1, <2>2
    <3>4. seq[n] \in S
      BY <1>1, <3>2
    <3>3. /\ left \in Seq(S) /\ Len(left) = Len(front)
          /\ \A j \in 1..(n - 1) : left[j] = IF j = i THEN seq[n] ELSE front[j]
      BY <1>2, <3>1, <3>2, <3>4
    <3> QED BY <1>2, <3>3
  <2> QED BY <2>1, <2>2
<1> HIDE DEF left
<1>5. DOMAIN left = 1..(n - 1)
  BY <1>4
<1> HIDE DEF n
<1>6. IsInjective(left)
  <2> SUFFICES ASSUME NEW a \in 1..(n - 1), NEW b \in 1..(n - 1), left[a] = left[b]
               PROVE  a = b
    BY <1>5 DEF IsInjective
  <2> DEFINE x == IF a = i THEN n ELSE a
             y == IF b = i THEN n ELSE b
  <2>1. x \in 1..n /\ y \in 1..n /\ left[a] = seq[x] /\ left[b] = seq[y]
    BY <1>1, <1>4
  <2>2. x = y => a = b
    BY <1>1
  <2> HIDE DEF x, y
  <2>3. x = y
    BY <1>1, <2>1 DEF IsInjective
  <2> QED BY <2>2, <2>3
<1>7. Range(left) \subseteq Range(seq) \ {seq[i]}
  <2> SUFFICES ASSUME NEW a \in 1..(n - 1)
               PROVE  left[a] \in Range(seq) /\ left[a] # seq[i]
    BY <1>5 DEF Range
  <2> DEFINE x == IF a = i THEN n ELSE a
  <2>1. x \in 1..n /\ left[a] = seq[x] /\ x # i
    BY <1>1, <1>4
  <2> HIDE DEF x
  <2> QED BY <1>1, <2>1 DEF IsInjective, Range
<1>8. Range(seq) \ {seq[i]} \subseteq Range(left)
  <2> SUFFICES ASSUME NEW a \in 1..n, seq[a] # seq[i]
               PROVE  seq[a] \in Range(left)
    BY <1>1 DEF Range
  <2> DEFINE x == IF a = n THEN i ELSE a
  <2>1. x \in 1..(n - 1) /\ left[x] = seq[a]
    BY <1>1, <1>4
  <2> HIDE DEF x
  <2> QED BY <1>5, <2>1 DEF Range
<1>9. \A j \in 1..(i - 1) : left[j] = seq[j]
  BY <1>1, <1>4
<1> QED BY <1>4, <1>6, <1>7, <1>8, <1>9 DEF left, n

\* A round of the loop of refresh_popups.
Round(run, seq, dead, n) ==
    IF seq[Len(seq) + 1 - n] \in dead THEN SwapRemove(run[n - 1], Len(seq) + 1 - n)
                                      ELSE run[n - 1]

IsRefreshRun(run, seq, dead, n) ==
    run = [k \in 0..n |-> IF k = 0 THEN seq ELSE Round(run, seq, dead, k)]

LEMMA RefreshRunExists ==
    ASSUME NEW seq, NEW dead, NEW n \in Nat
    PROVE  \E run : IsRefreshRun(run, seq, dead, n)
<1> DEFINE bad == {k \in Nat : ~ \E run : IsRefreshRun(run, seq, dead, k)}
<1>1. SUFFICES ASSUME bad # {} PROVE FALSE
  OBVIOUS
<1>2. PICK m \in bad : \A k \in bad : m <= k
  BY <1>1, LeastPosition
<1>3. m # 0
  <2>1. IsRefreshRun([k \in 0..0 |-> seq], seq, dead, 0)
    BY DEF IsRefreshRun
  <2> QED BY <2>1
<1>4. PICK p : IsRefreshRun(p, seq, dead, m - 1)
  BY <1>2, <1>3
<1> DEFINE q == [k \in 0..m |-> IF k = 0 THEN seq ELSE Round(p, seq, dead, k)]
<1>5. \A k \in 0..(m - 1) : q[k] = p[k]
  BY <1>3, <1>4 DEF IsRefreshRun
<1>6. IsRefreshRun(q, seq, dead, m)
  <2>1. ASSUME NEW k \in 0..m, k # 0
        PROVE  Round(q, seq, dead, k) = Round(p, seq, dead, k)
    <3>1. k - 1 \in 0..(m - 1)
      BY <2>1
    <3> HIDE DEF q
    <3> QED BY <1>5, <3>1 DEF Round
  <2>2. q = [k \in 0..m |-> IF k = 0 THEN seq ELSE Round(q, seq, dead, k)]
    BY <2>1
  <2> HIDE DEF q
  <2> QED BY <2>2 DEF IsRefreshRun
<1> QED BY <1>6

\* What the loop has kept, with the places 1..k to go.
Kept(left, seq, dead, k) ==
    /\ left \in Seq(PopupSurfaces)
    /\ IsInjective(left)
    /\ Len(left) >= k
    /\ \A j \in 1..k : left[j] = seq[j]
    /\ Range(left) = (Range(seq) \ dead) \cup {seq[j] : j \in 1..k}

LEMMA RoundKeeps ==
    ASSUME NEW seq \in Seq(PopupSurfaces), IsInjective(seq), NEW dead,
           NEW k \in 1..Len(seq), NEW left, Kept(left, seq, dead, k)
    PROVE  Kept(IF seq[k] \in dead THEN SwapRemove(left, k) ELSE left, seq, dead, k - 1)
<1>1. /\ k - 1 \in Nat /\ k \in 1..Len(left) /\ left[k] = seq[k]
      /\ 1..k = (1..(k - 1)) \cup {k} /\ left \in Seq(PopupSurfaces)
      /\ IsInjective(left)
  BY DEF Kept
<1>2. /\ seq[k] \in Range(seq)
      /\ \A j \in 1..(k - 1) : seq[j] # seq[k]
  BY DEF IsInjective, Range
<1>3. CASE seq[k] \notin dead
  <2>1. {seq[j] : j \in 1..k} = {seq[j] : j \in 1..(k - 1)} \cup {seq[k]}
    BY <1>1
  <2>2. Range(left) = (Range(seq) \ dead) \cup {seq[j] : j \in 1..(k - 1)}
    BY <1>2, <1>3, <2>1 DEF Kept
  <2>3. Len(left) >= k - 1 /\ \A j \in 1..(k - 1) : left[j] = seq[j]
    BY <1>1 DEF Kept
  <2> QED BY <1>1, <1>3, <2>2, <2>3 DEF Kept
<1>4. CASE seq[k] \in dead
  <2> DEFINE removed == SwapRemove(left, k)
  <2>1. /\ removed \in Seq(PopupSurfaces) /\ IsInjective(removed)
        /\ Len(removed) = Len(left) - 1
        /\ \A j \in 1..(k - 1) : removed[j] = left[j]
        /\ Range(removed) = Range(left) \ {left[k]}
    BY <1>1, SwapRemoveLemma
  <2> HIDE DEF removed
  <2>2. {seq[j] : j \in 1..k} \ {seq[k]} = {seq[j] : j \in 1..(k - 1)}
    <3>1. \A j \in 1..k : j = k \/ j \in 1..(k - 1)
      BY <1>1
    <3>2. \A j \in 1..(k - 1) : j \in 1..k
      BY <1>1
    <3>3. ASSUME NEW q PROVE q \in {seq[j] : j \in 1..k} \ {seq[k]}
                               <=> q \in {seq[j] : j \in 1..(k - 1)}
      BY <1>2, <3>1, <3>2
    <3> QED BY <3>3, Zenon
  <2>3. Range(removed) = (Range(seq) \ dead) \cup {seq[j] : j \in 1..(k - 1)}
    <3>1. Range(left) = (Range(seq) \ dead) \cup {seq[j] : j \in 1..k}
      BY DEF Kept
    <3>2. Range(removed) = Range(left) \ {seq[k]} /\ seq[k] \notin Range(seq) \ dead
      BY <1>1, <1>4, <2>1
    <3> QED BY <2>2, <3>1, <3>2, Zenon
  <2>4. Len(removed) >= k - 1 /\ \A j \in 1..(k - 1) : removed[j] = seq[j]
    BY <1>1, <2>1 DEF Kept
  <2>5. Kept(removed, seq, dead, k - 1)
    BY <2>1, <2>3, <2>4 DEF Kept
  <2> QED BY <1>4, <2>5 DEF removed
<1> QED BY <1>3, <1>4

\* However many are dead and are swapped with the last one: the loop removes them
\* all, and no other.
LEMMA WithoutLemma ==
    ASSUME NEW seq \in Seq(PopupSurfaces), IsInjective(seq), NEW dead
    PROVE  /\ Without(seq, dead) \in Seq(PopupSurfaces)
           /\ IsInjective(Without(seq, dead))
           /\ Range(Without(seq, dead)) = Range(seq) \ dead
<1> DEFINE n == Len(seq)
           run == CHOOSE rest : IsRefreshRun(rest, seq, dead, n)
<1>1. n \in Nat
  OBVIOUS
<1>2. IsRefreshRun(run, seq, dead, n)
  BY <1>1, RefreshRunExists
<1>3. Without(seq, dead) = run[n]
  BY DEF Without, IsRefreshRun, Round
<1> HIDE DEF run
<1>4. /\ run[0] = seq
      /\ \A k \in 1..n : run[k] = IF seq[n + 1 - k] \in dead
                                  THEN SwapRemove(run[k - 1], n + 1 - k) ELSE run[k - 1]
  <2> HIDE DEF n
  <2>1. \A k \in 0..n : run[k] = IF k = 0 THEN seq ELSE Round(run, seq, dead, k)
    BY <1>2, Zenon DEF IsRefreshRun
  <2>2. 0 \in 0..n /\ \A k \in 1..n : k \in 0..n /\ k # 0
    BY <1>1
  <2> QED BY <2>1, <2>2 DEF Round, n
<1> DEFINE bad == {k \in 0..n : ~ Kept(run[k], seq, dead, n - k)}
<1>5. ASSUME bad # {} PROVE FALSE
  <2>1. PICK m \in bad : \A k \in bad : m <= k
    <3>1. bad \in SUBSET Nat
      OBVIOUS
    <3> QED BY <1>5, <3>1, LeastPosition
  <2>2. m # 0
    <3>1. Range(seq) = {seq[j] : j \in 1..n}
      BY DEF Range
    <3>2. Kept(seq, seq, dead, n)
      BY <3>1 DEF Kept
    <3> QED BY <1>1, <1>4, <2>1, <3>2
  <2>3. /\ m \in 1..n /\ m - 1 \in 0..n /\ m - 1 \notin bad
        /\ n + 1 - m \in 1..n /\ n - (m - 1) = n + 1 - m /\ (n + 1 - m) - 1 = n - m
    BY <1>1, <2>1, <2>2
  <2> DEFINE k == n + 1 - m
             left == run[m - 1]
  <2>4. Kept(left, seq, dead, k)
    BY <2>3
  <2>5. k \in 1..Len(seq) /\ k - 1 = n - m
    BY <2>3
  <2>6. run[m] = IF seq[k] \in dead THEN SwapRemove(left, k) ELSE left
    BY <1>4, <2>3
  <2> HIDE DEF k, left
  <2>7. Kept(run[m], seq, dead, k - 1)
    BY <2>4, <2>5, <2>6, RoundKeeps
  <2> QED BY <2>1, <2>5, <2>7
<1>6. Kept(run[n], seq, dead, 0)
  <2>1. n \in 0..n /\ n - n = 0 /\ n \notin bad
    BY <1>1, <1>5
  <2> QED BY <2>1
<1> QED BY <1>3, <1>6 DEF Kept

\* The orphans without one of them.
LEMMA OrphansWithoutLemma ==
    ASSUME orphans \in Seq(PopupSurfaces), IsInjective(orphans), NEW p
    PROVE  /\ OrphansWithout(p) \in Seq(PopupSurfaces)
           /\ IsInjective(OrphansWithout(p))
           /\ Range(OrphansWithout(p)) = Range(orphans) \ {p}
<1>1. CASE p \notin Range(orphans)
  BY <1>1 DEF OrphansWithout
<1>2. CASE p \in Range(orphans)
  <2> DEFINE hits == {i \in 1..Len(orphans) : orphans[i] = p}
             first == SelectInSeq(orphans, LAMBDA q : q = p)
  <2>1. first = IF hits # {} THEN Min(hits) ELSE 0
    BY DEF SelectInSeq
  <2>2. hits # {} /\ hits \in SUBSET Nat
    BY <1>2 DEF Range
  <2> HIDE DEF hits
  <2>3. \E m \in hits : \A k \in hits : m <= k
    BY <2>2, LeastPosition
  <2>4. first \in hits
    BY <2>1, <2>2, <2>3 DEF Min
  <2>5. OrphansWithout(p) = SwapRemove(orphans, first)
    BY <1>2 DEF OrphansWithout
  <2> HIDE DEF first
  <2>6. first \in 1..Len(orphans) /\ orphans[first] = p
    BY <2>4 DEF hits
  <2> QED BY <2>5, <2>6, SwapRemoveLemma
<1> QED BY <1>1, <1>2

----------------------------------------------------------------------------
(* The invariant. *)

\* A popup that was not created is in no vector and nobody's parent.
NewIsNowhere ==
    \A p \in PopupSurfaces : popup[p].status = "new" =>
        /\ popup[p] = NewPopup
        /\ p \notin Range(orphans)
        /\ \A s \in Surfaces : p \notin Range(children[s])
        /\ \A q \in PopupSurfaces : popup[q].parent # p

\* Nor is a toplevel that was not created.
ParentIsKnown ==
    \A p \in PopupSurfaces, w \in Windows : window[w] = "new" => popup[p].parent # w

\* A popup is in no vector but that of its parent.
BelowParent ==
    \A s \in Surfaces : \A p \in Range(children[s]) :
        popup[p].status = "alive" => popup[p].parent = s

\* A popup is an orphan up to its first commit, and nothing is shown below it.
OrphanUntilCommit ==
    \A p \in PopupSurfaces :
        /\ popup[p].configured => popup[p].committed
        /\ popup[p].status = "alive" => (p \in Range(orphans) <=> ~popup[p].committed)
        /\ popup[p].status = "alive" /\ popup[p].configured
             => popup[p].parent \notin Range(orphans)

PopupsInv ==
    /\ TypeOK /\ TreesKept /\ Answered
    /\ NewIsNowhere /\ ParentIsKnown /\ BelowParent /\ OrphanUntilCommit

\* What PlacedOnce says of vectors, and what it says of the sets they hold.
Once(ch, orph) ==
    /\ \A s, t \in Surfaces : \A i \in DOMAIN ch[s], j \in DOMAIN ch[t] :
         ch[s][i] = ch[t][j] => s = t /\ i = j
    /\ IsInjective(orph)
    /\ Range(orph) \cap UNION {Range(ch[s]) : s \in Surfaces} = {}

Apart(ch, orph) ==
    /\ \A s \in Surfaces : IsInjective(ch[s])
    /\ \A s, t \in Surfaces : s # t => \A q \in Range(ch[s]) : q \notin Range(ch[t])
    /\ IsInjective(orph)
    /\ \A s \in Surfaces : \A q \in Range(orph) : q \notin Range(ch[s])

LEMMA ApartLemma ==
    ASSUME NEW ch, NEW orph
    PROVE  Once(ch, orph) <=> Apart(ch, orph)
<1>1. ASSUME Once(ch, orph) PROVE Apart(ch, orph)
  BY <1>1 DEF Once, Apart, IsInjective, Range
<1>2. ASSUME Apart(ch, orph) PROVE Once(ch, orph)
  <2>1. ASSUME NEW s \in Surfaces, NEW t \in Surfaces,
               NEW i \in DOMAIN ch[s], NEW j \in DOMAIN ch[t], ch[s][i] = ch[t][j]
        PROVE  s = t /\ i = j
    <3>1. ch[s][i] \in Range(ch[s]) /\ ch[t][j] \in Range(ch[t])
      BY DEF Range
    <3>2. s = t
      BY <1>2, <2>1, <3>1 DEF Apart
    <3> QED BY <1>2, <2>1, <3>2 DEF Apart, IsInjective
  <2> QED BY <1>2, <2>1 DEF Once, Apart
<1> QED BY <1>1, <1>2

LEMMA InvApart ==
    ASSUME PopupsInv
    PROVE  Apart(children, orphans)
BY ApartLemma DEF PopupsInv, TreesKept, PlacedOnce, Once

\* The trees are those of surfaces, and what is below something in them is in them.
LEMMA HeldLemma ==
    ASSUME TypeOK
    PROVE  /\ children \in Vectors
           /\ InLayouts \cup LayerSurfaces \in SUBSET Surfaces
           /\ InLayouts \cup LayerSurfaces \subseteq Held
           /\ Held \subseteq Surfaces
           /\ \A s \in Held : Range(children[s]) \subseteq Held
           /\ \A s \in Surfaces \ Held : Range(children[s]) = {}
           /\ \A s \in Surfaces : Range(children[s]) \subseteq PopupSurfaces \cap Held
<1>1. children \in Vectors /\ InLayouts \cup LayerSurfaces \in SUBSET Surfaces
  BY DEF TypeOK, Vectors, InLayouts, Surfaces
<1>2. \A s \in Surfaces : Range(children[s]) \subseteq PopupSurfaces
  BY <1>1, RangeTyped DEF Vectors
<1>3. \A s \in Surfaces \ Held : Range(children[s]) = {}
  BY DEF TypeOK, Range
<1> QED BY <1>1, <1>2, <1>3, TreesClosed DEF Held

\* An orphan has no tree.
LEMMA OrphansAreBare ==
    ASSUME PopupsInv, NEW p \in Range(orphans)
    PROVE  p \in PopupSurfaces /\ p \notin Held /\ children[p] = <<>>
<1>1. TypeOK /\ Apart(children, orphans)
  BY InvApart DEF PopupsInv
<1>2. p \in PopupSurfaces
  BY <1>1, RangeTyped DEF TypeOK
<1>3. p \notin InLayouts \cup LayerSurfaces
  BY <1>2, PopupsAssumption DEF InLayouts
<1>4. p \notin Held
  BY <1>1, <1>3, HeldLemma, TreesBelow DEF Held, Apart
<1> QED BY <1>1, <1>2, <1>4 DEF TypeOK, Surfaces

----------------------------------------------------------------------------
(* Steps that take popups away. *)

\* Popups are taken out of vectors, all of a vector that is in no tree any more;
\* what stays in a tree loses no more than the dead ones.
Shrinks(ch, less, roots, dead) ==
    /\ less \in Vectors
    /\ \A s \in Surfaces : IsInjective(less[s]) /\ Range(less[s]) \subseteq Range(ch[s])
    /\ \A s \in Surfaces \ Trees(less, roots) : less[s] = <<>>
    /\ \A s \in Trees(less, roots) : Range(ch[s]) \ dead \subseteq Range(less[s])

LEMMA DroppingShrinks ==
    ASSUME NEW ch \in Vectors, NEW roots \in SUBSET Surfaces,
           \A s \in Surfaces : IsInjective(ch[s])
    PROVE  Shrinks(ch, Dropping(ch, roots), roots, {})
<1> DEFINE left == Dropping(ch, roots)
<1>1. /\ left \in Vectors /\ Trees(left, roots) = Trees(ch, roots)
      /\ \A s \in Surfaces : Range(left[s]) \subseteq Range(ch[s])
  BY TreesAfterDropping
<1>2. \A s \in Surfaces : left[s] = IF s \in Trees(ch, roots) THEN ch[s] ELSE <<>>
  BY DEF Dropping
<1>3. Trees(ch, roots) \subseteq Surfaces
  BY TreesClosed
<1>4. IsInjective(<<>>)
  BY DEF IsInjective
<1> HIDE DEF left
<1>5. Shrinks(ch, left, roots, {})
  BY <1>1, <1>2, <1>3, <1>4 DEF Shrinks
<1> QED BY <1>5 DEF left

LEMMA RefreshedShrinks ==
    ASSUME NEW ch \in Vectors, InLayouts \cup LayerSurfaces \in SUBSET Surfaces,
           \A s \in Surfaces : IsInjective(ch[s]), NEW dead
    PROVE  /\ Shrinks(ch, Refreshed(ch, dead), InLayouts \cup LayerSurfaces, dead)
           /\ \A s \in Trees(ch, InLayouts) : Range(Refreshed(ch, dead)[s]) \cap dead = {}
<1> DEFINE roots == InLayouts \cup LayerSurfaces
           trees == Trees(ch, InLayouts)
           looped == [s \in Surfaces |-> IF s \in trees THEN Without(ch[s], dead) ELSE ch[s]]
           left == Dropping(looped, roots)
<1>1. Refreshed(ch, dead) = left
  BY DEF Refreshed
<1>2. trees \subseteq Surfaces /\ roots \in SUBSET Surfaces
  BY TreesClosed
<1>3. \A s \in Surfaces : ch[s] \in Seq(PopupSurfaces)
  BY DEF Vectors
<1> HIDE DEF trees, roots
<1>4. ASSUME NEW s \in Surfaces
      PROVE  /\ looped[s] \in Seq(PopupSurfaces) /\ IsInjective(looped[s])
             /\ Range(looped[s]) \subseteq Range(ch[s])
             /\ Range(ch[s]) \ dead \subseteq Range(looped[s])
             /\ s \in trees => Range(looped[s]) \cap dead = {}
  <2>1. CASE s \in trees
    <3>1. looped[s] = Without(ch[s], dead)
      BY <2>1
    <3> QED BY <1>3, <3>1, WithoutLemma
  <2>2. CASE s \notin trees
    BY <1>3, <2>2
  <2> QED BY <2>1, <2>2
<1>5. looped \in Vectors
  BY <1>4 DEF Vectors
<1> HIDE DEF looped
<1>6. Shrinks(looped, left, roots, {})
  BY <1>2, <1>4, <1>5, DroppingShrinks
<1>7. Trees(left, roots) \subseteq Surfaces
  BY <1>2, <1>6, TreesClosed DEF Shrinks
<1> HIDE DEF left
<1>8. Shrinks(ch, left, roots, dead)
  BY <1>4, <1>6, <1>7 DEF Shrinks
<1>9. \A s \in trees : Range(left[s]) \cap dead = {}
  BY <1>2, <1>4, <1>6 DEF Shrinks
<1> QED BY <1>1, <1>8, <1>9 DEF trees, roots

\* Popups stay as they are or die, and windows leave the layouts or stay in them.
Leaving(dead) ==
    /\ popup' \in [PopupSurfaces -> Popup]
    /\ \A q \in PopupSurfaces :
         \/ popup'[q] = popup[q] /\ q \notin dead
         \/ /\ popup[q].status # "new" /\ popup'[q].status = "dead"
            /\ ~popup'[q].configured
            /\ popup'[q].parent \in {popup[q].parent, NoSurface}
         \/ popup'[q] = popup[q] /\ popup'[q].status = "dead"
    /\ window' \in [Windows -> Place]
    /\ \A w \in Windows : /\ window'[w] = "new" <=> window[w] = "new"
                          /\ window[w] = "gone" => window'[w] = "gone"
    /\ InLayouts' \subseteq InLayouts
    /\ orphans' = orphans
    /\ Shrinks(children, children', InLayouts' \cup LayerSurfaces, dead)

LEMMA LeavingKeeps ==
    ASSUME PopupsInv, NEW dead, Leaving(dead)
    PROVE  PopupsInv'
<1> USE DEF PopupsInv
<1>1. Apart(children, orphans) /\ children \in Vectors
  BY InvApart, HeldLemma
<1>2. /\ children' \in Vectors
      /\ \A s \in Surfaces : /\ IsInjective(children'[s])
                             /\ Range(children'[s]) \subseteq Range(children[s])
      /\ \A s \in Surfaces \ Held' : children'[s] = <<>>
      /\ \A s \in Held' : Range(children[s]) \ dead \subseteq Range(children'[s])
  BY DEF Leaving, Shrinks, Held
<1>3. Held' \subseteq Held
  <2>1. InLayouts' \cup LayerSurfaces \subseteq InLayouts \cup LayerSurfaces
    BY DEF Leaving
  <2>2. Trees(children', InLayouts' \cup LayerSurfaces)
          \subseteq Trees(children, InLayouts \cup LayerSurfaces)
    BY <1>1, <1>2, <2>1, HeldLemma, TreesMonotone
  <2> QED BY <2>2 DEF Held
<1>4. TypeOK'
  BY <1>2 DEF TypeOK, Leaving, Vectors
<1>5. PlacedOnce'
  <2>1. Apart(children', orphans')
    BY <1>1, <1>2 DEF Apart, Leaving
  <2> QED BY <2>1, ApartLemma DEF Once, PlacedOnce
<1>6. ASSUME NEW q \in PopupSurfaces, popup'[q].status = "alive"
      PROVE  popup'[q] = popup[q] /\ q \notin dead
  BY <1>6 DEF Leaving
<1>7. \A s : /\ s \in PopupSurfaces /\ popup[s].status = "dead" => popup'[s].status = "dead"
             /\ s \in Windows /\ window[s] = "gone" => window'[s] = "gone"
  BY DEF Leaving
<1>8. NotLost'
  <2> SUFFICES ASSUME NEW q \in PopupSurfaces, NEW s \in Held',
                      popup'[q].status = "alive", popup'[q].configured,
                      popup'[q].parent = s,
                      ~(s \in PopupSurfaces /\ popup'[s].status = "dead"),
                      ~(s \in Windows /\ window'[s] = "gone")
               PROVE  q \in Range(children'[s])
    BY DEF NotLost, Gone
  <2>1. popup'[q] = popup[q] /\ q \notin dead
    BY <1>6
  <2>2. q \in Range(children[s])
    BY <1>3, <1>7, <2>1 DEF TreesKept, NotLost, Gone
  <2> QED BY <1>2, <2>1, <2>2
<1>9. Answered'
  BY <1>6 DEF Answered
<1>10. NewIsNowhere'
  <2> SUFFICES ASSUME NEW p \in PopupSurfaces, popup'[p].status = "new"
               PROVE  /\ popup'[p] = NewPopup
                      /\ p \notin Range(orphans')
                      /\ \A s \in Surfaces : p \notin Range(children'[s])
                      /\ \A q \in PopupSurfaces : popup'[q].parent # p
    BY DEF NewIsNowhere
  <2>1. popup'[p] = popup[p]
    BY DEF Leaving
  <2>2. \A q \in PopupSurfaces : popup'[q].parent \in {popup[q].parent, NoSurface}
    BY DEF Leaving
  <2> QED BY <1>2, <2>1, <2>2, PopupsAssumption DEF NewIsNowhere, Leaving
<1>11. ParentIsKnown'
  <2>1. \A q \in PopupSurfaces : popup'[q].parent \in {popup[q].parent, NoSurface}
    BY DEF Leaving
  <2> QED BY <2>1, PopupsAssumption DEF ParentIsKnown, Leaving
<1>12. BelowParent'
  <2> SUFFICES ASSUME NEW s \in Surfaces, NEW q \in Range(children'[s]),
                      popup'[q].status = "alive"
               PROVE  popup'[q].parent = s
    BY DEF BelowParent
  <2>1. q \in Range(children[s]) /\ q \in PopupSurfaces
    BY <1>2, HeldLemma
  <2> QED BY <1>6, <2>1 DEF BelowParent
<1>13. OrphanUntilCommit'
  <2>1. \A q \in PopupSurfaces : popup'[q].configured => popup'[q] = popup[q]
    BY DEF Leaving
  <2> QED BY <1>6, <2>1 DEF OrphanUntilCommit, Leaving
<1> QED BY <1>4, <1>5, <1>8, <1>9, <1>10, <1>11, <1>12, <1>13 DEF TreesKept

\* A popup dies, and leaves the trees of windows with the others that have died.
LEMMA DestroyStep ==
    ASSUME PopupsInv, NEW p \in PopupSurfaces, Destroy(p)
    PROVE  PopupsInv'
<1> DEFINE dead == {q \in PopupSurfaces : popup'[q].status = "dead"}
<1>1. /\ children \in Vectors /\ InLayouts \cup LayerSurfaces \in SUBSET Surfaces
      /\ \A s \in Surfaces : IsInjective(children[s])
      /\ TypeOK
  BY InvApart, HeldLemma DEF PopupsInv, Apart
<1>2. /\ popup[p].status = "alive"
      /\ children' = Refreshed(children, dead)
      /\ window' = window /\ orphans' = orphans /\ InLayouts' = InLayouts
  BY DEF Destroy, InLayouts
<1>3. PICK s \in {popup[p].parent, NoSurface} :
        popup' = [popup EXCEPT ![p] = [NewPopup EXCEPT !.status = "dead", !.parent = s]]
  BY DEF Destroy
<1>4. /\ popup'[p].status = "dead" /\ ~popup'[p].configured /\ popup'[p].parent = s
      /\ \A q \in PopupSurfaces \ {p} : popup'[q] = popup[q]
  BY <1>1, <1>3 DEF TypeOK, NewPopup
<1>5. popup' \in [PopupSurfaces -> Popup]
  <2>1. [NewPopup EXCEPT !.status = "dead", !.parent = s] \in Popup
    BY <1>1 DEF TypeOK, NewPopup, Popup
  <2> QED BY <1>1, <1>3, <2>1 DEF TypeOK
<1> HIDE DEF dead
<1>6. Shrinks(children, children', InLayouts' \cup LayerSurfaces, dead)
  BY <1>1, <1>2, RefreshedShrinks
<1>7. \A q \in PopupSurfaces : q \in dead <=> popup'[q].status = "dead"
  BY DEF dead
<1>8. Leaving(dead)
  BY <1>1, <1>2, <1>4, <1>5, <1>6, <1>7 DEF Leaving, TypeOK
<1> QED BY <1>8, LeavingKeeps

\* Windows change places and are reaped, with what is below them.
LEMMA ChangeLayoutsStep ==
    ASSUME PopupsInv, NEW active \in SUBSET InLayouts, NEW reaped \in SUBSET InLayouts,
           ChangeLayouts(active, reaped)
    PROVE  PopupsInv'
<1>1. /\ children \in Vectors /\ InLayouts \cup LayerSurfaces \in SUBSET Surfaces
      /\ \A s \in Surfaces : IsInjective(children[s])
      /\ TypeOK
  BY InvApart, HeldLemma DEF PopupsInv, Apart
<1>2. /\ window' \in [Windows -> Place]
      /\ \A w \in Windows : /\ window'[w] = "new" <=> window[w] = "new"
                            /\ window[w] = "gone" => window'[w] = "gone"
      /\ InLayouts' \subseteq InLayouts
  BY <1>1 DEF ChangeLayouts, TypeOK, InLayouts, Place
<1>3. /\ children' = Dropping(children, InLayouts' \cup LayerSurfaces)
      /\ popup' = popup /\ orphans' = orphans
  BY DEF ChangeLayouts
<1>4. InLayouts' \cup LayerSurfaces \in SUBSET Surfaces
  BY <1>1, <1>2
<1>5. Shrinks(children, children', InLayouts' \cup LayerSurfaces, {})
  BY <1>1, <1>3, <1>4, DroppingShrinks
<1>6. Leaving({})
  BY <1>1, <1>2, <1>3, <1>5 DEF Leaving, TypeOK
<1> QED BY <1>6, LeavingKeeps

----------------------------------------------------------------------------
(* Steps that add. *)

\* A new popup is an orphan with a parent that is there, or none yet.
LEMMA AddPopupStep ==
    ASSUME PopupsInv, NEW p \in PopupSurfaces,
           NEW s \in PossibleParents \cup {NoSurface}, AddPopup(p, s)
    PROVE  PopupsInv'
<1> USE DEF PopupsInv
<1>1. /\ Apart(children, orphans) /\ orphans \in Seq(PopupSurfaces)
      /\ popup[p] = NewPopup /\ p \notin Range(orphans)
      /\ \A t \in Surfaces : p \notin Range(children[t])
      /\ \A q \in PopupSurfaces : popup[q].parent # p
  BY InvApart DEF AddPopup, NewIsNowhere, TypeOK
<1>2. /\ popup[p].status = "new"
      /\ popup' = [popup EXCEPT ![p].status = "alive", ![p].parent = s]
      /\ orphans' = Append(orphans, p)
      /\ window' = window /\ children' = children
      /\ Held' = Held
  BY DEF AddPopup, Held, InLayouts
<1>3. /\ s \in Surfaces \cup {NoSurface} /\ s # p
      /\ s \in Windows => window[s] # "new"
      /\ s \in PopupSurfaces => popup[s].status = "alive"
  BY <1>2, PopupsAssumption DEF PossibleParents, InLayouts, Surfaces
<1>4. /\ popup'[p].status = "alive" /\ popup'[p].parent = s
      /\ ~popup'[p].committed /\ ~popup'[p].configured
      /\ \A q \in PopupSurfaces \ {p} : popup'[q] = popup[q]
      /\ popup' \in [PopupSurfaces -> Popup]
  <2>1. /\ popup' = [popup EXCEPT ![p] = [NewPopup EXCEPT !.status = "alive", !.parent = s]]
        /\ popup \in [PopupSurfaces -> Popup]
    BY <1>1, <1>2 DEF TypeOK
  <2> DEFINE added == [NewPopup EXCEPT !.status = "alive", !.parent = s]
  <2>2. /\ added \in Popup /\ added.status = "alive" /\ added.parent = s
        /\ ~added.committed /\ ~added.configured
    BY <1>3 DEF NewPopup, Popup
  <2> HIDE DEF added
  <2>3. popup' = [popup EXCEPT ![p] = added]
    BY <2>1 DEF added
  <2> QED BY <2>1, <2>2, <2>3
<1>5. /\ orphans' \in Seq(PopupSurfaces) /\ Range(orphans') = Range(orphans) \cup {p}
      /\ IsInjective(orphans')
  BY <1>1, <1>2 DEF Apart, IsInjective, Range
<1>6. TypeOK'
  BY <1>2, <1>4, <1>5 DEF TypeOK
<1>7. PlacedOnce'
  <2>1. Apart(children', orphans')
    BY <1>1, <1>2, <1>5 DEF Apart
  <2> QED BY <2>1, ApartLemma DEF Once, PlacedOnce
<1>8. NotLost'
  <2> SUFFICES ASSUME NEW q \in PopupSurfaces, NEW t \in Held,
                      popup'[q].status = "alive", popup'[q].configured,
                      popup'[q].parent = t,
                      ~(t \in PopupSurfaces /\ popup'[t].status = "dead"),
                      ~(t \in Windows /\ window[t] = "gone")
               PROVE  q \in Range(children[t])
    BY <1>2 DEF NotLost, Gone
  <2>1. q # p /\ popup'[q] = popup[q] /\ t # p
    BY <1>1, <1>4
  <2>2. t \in PopupSurfaces => popup'[t] = popup[t]
    BY <1>4, <2>1
  <2> QED BY <2>1, <2>2 DEF TreesKept, NotLost, Gone
<1>9. Answered'
  BY <1>4 DEF Answered
<1>10. NewIsNowhere'
  BY <1>1, <1>2, <1>3, <1>4, <1>5 DEF NewIsNowhere
<1>11. ParentIsKnown'
  BY <1>2, <1>3, <1>4 DEF ParentIsKnown
<1>12. BelowParent'
  <2>1. \A t \in Surfaces : Range(children[t]) \subseteq PopupSurfaces
    BY HeldLemma
  <2> QED BY <1>1, <1>2, <1>4, <2>1 DEF BelowParent
<1>13. OrphanUntilCommit'
  BY <1>1, <1>4, <1>5 DEF OrphanUntilCommit
<1> QED BY <1>6, <1>7, <1>8, <1>9, <1>10, <1>11, <1>12, <1>13 DEF TreesKept

\* The parent of a popup of a layer surface is named before its first commit.
LEMMA GetPopupStep ==
    ASSUME PopupsInv, NEW l \in LayerSurfaces, NEW p \in PopupSurfaces, GetPopup(l, p)
    PROVE  PopupsInv'
<1> USE DEF PopupsInv
<1>1. /\ popup[p].status = "alive" /\ ~popup[p].committed
      /\ popup' = [popup EXCEPT ![p].parent = l]
      /\ window' = window /\ orphans' = orphans /\ children' = children
      /\ Held' = Held
  BY DEF GetPopup, Held, InLayouts
<1>2. ~popup[p].configured /\ p \in Range(orphans)
  BY <1>1 DEF OrphanUntilCommit
<1>3. \A s \in Surfaces : p \notin Range(children[s])
  BY <1>2, InvApart DEF Apart
<1>4. /\ popup'[p] = [popup[p] EXCEPT !.parent = l]
      /\ \A q \in PopupSurfaces \ {p} : popup'[q] = popup[q]
      /\ popup[p] \in Popup
  BY <1>1 DEF TypeOK
<1>5. /\ popup'[p].status = "alive" /\ popup'[p].parent = l
      /\ ~popup'[p].committed /\ ~popup'[p].configured
      /\ popup'[p] \in Popup
  BY <1>1, <1>2, <1>4 DEF Popup, Surfaces
<1>6. /\ l \in Surfaces /\ l \notin Windows /\ l \notin PopupSurfaces
      /\ l # NoSurface
  BY PopupsAssumption DEF Surfaces
<1>7. TypeOK'
  <2>1. popup' \in [PopupSurfaces -> Popup]
    BY <1>1, <1>4, <1>5 DEF TypeOK
  <2> QED BY <1>1, <2>1 DEF TypeOK
<1>8. PlacedOnce'
  BY <1>1 DEF TreesKept, PlacedOnce
<1>9. NotLost'
  <2> SUFFICES ASSUME NEW q \in PopupSurfaces, NEW t \in Held,
                      popup'[q].status = "alive", popup'[q].configured,
                      popup'[q].parent = t,
                      ~(t \in PopupSurfaces /\ popup'[t].status = "dead"),
                      ~(t \in Windows /\ window[t] = "gone")
               PROVE  q \in Range(children[t])
    BY <1>1 DEF NotLost, Gone
  <2>1. popup'[q] = popup[q]
    BY <1>4, <1>5
  <2>2. t \in PopupSurfaces => popup'[t].status = popup[t].status
    BY <1>1, <1>4, <1>5
  <2> QED BY <2>1, <2>2 DEF TreesKept, NotLost, Gone
<1>10. Answered'
  BY <1>4, <1>5 DEF Answered
<1>11. NewIsNowhere'
  BY <1>1, <1>4, <1>5, <1>6 DEF NewIsNowhere
<1>12. ParentIsKnown'
  BY <1>1, <1>4, <1>5, <1>6 DEF ParentIsKnown
<1>13. BelowParent'
  <2>1. \A t \in Surfaces : Range(children[t]) \subseteq PopupSurfaces
    BY HeldLemma
  <2> QED BY <1>1, <1>3, <1>4, <2>1 DEF BelowParent
<1>14. OrphanUntilCommit'
  BY <1>1, <1>2, <1>4, <1>5 DEF OrphanUntilCommit
<1> QED BY <1>7, <1>8, <1>9, <1>10, <1>11, <1>12, <1>13, <1>14 DEF TreesKept

\* A toplevel that is created has no popups.
LEMMA AddWindowStep ==
    ASSUME PopupsInv, NEW w \in Windows, AddWindow(w)
    PROVE  PopupsInv'
<1> USE DEF PopupsInv
<1>1. /\ window[w] = "new" /\ window' = [window EXCEPT ![w] = "hidden"]
      /\ popup' = popup /\ orphans' = orphans /\ children' = children
  BY DEF AddWindow
<1>2. /\ window'[w] = "hidden" /\ \A x \in Windows \ {w} : window'[x] = window[x]
      /\ window' \in [Windows -> Place]
  BY <1>1 DEF TypeOK, Place
<1>3. InLayouts' = InLayouts \cup {w} /\ w \notin InLayouts
  BY <1>1, <1>2 DEF InLayouts
<1>4. /\ children \in Vectors /\ InLayouts \cup LayerSurfaces \in SUBSET Surfaces
      /\ InLayouts' \cup LayerSurfaces \in SUBSET Surfaces
      /\ w \in Surfaces /\ w \notin PopupSurfaces
  BY <1>3, HeldLemma, PopupsAssumption DEF Surfaces
<1>5. w \notin Held
  <2>1. w \notin InLayouts \cup LayerSurfaces
    BY <1>3, PopupsAssumption
  <2> QED BY <1>4, <2>1, TreesBelow DEF Held
<1>6. children[w] = <<>>
  BY <1>4, <1>5 DEF TypeOK
<1>7. Held' = Held \cup {w}
  <2>1. Held' = Trees(children, InLayouts' \cup LayerSurfaces)
    BY <1>1 DEF Held
  <2>2. Held \subseteq Held'
    <3>1. InLayouts \cup LayerSurfaces \subseteq InLayouts' \cup LayerSurfaces
      BY <1>3
    <3> QED BY <1>4, <2>1, <3>1, TreesMonotone DEF Held
  <2>3. w \in Held'
    BY <1>3, <1>4, <2>1, TreesClosed
  <2> DEFINE set == Held \cap PopupSurfaces
  <2>4. Below(children, (InLayouts' \cup LayerSurfaces) \cup set) \subseteq set
    <3> SUFFICES ASSUME NEW s \in (InLayouts' \cup LayerSurfaces) \cup set,
                        NEW r \in Range(children[s])
                 PROVE  r \in set
      BY DEF Below
    <3>1. s \in Surfaces
      BY <1>4, HeldLemma
    <3>2. r \in PopupSurfaces \cap Held
      BY <3>1, HeldLemma
    <3> QED BY <3>2
  <2>5. set \in SUBSET PopupSurfaces
    OBVIOUS
  <2>6. Held' \subseteq (InLayouts' \cup LayerSurfaces) \cup set
    <3> HIDE DEF set
    <3> QED BY <2>1, <2>4, <2>5, TreesLeast
  <2> QED BY <1>3, <2>2, <2>3, <2>6, HeldLemma
<1>8. TypeOK'
  BY <1>1, <1>2, <1>7 DEF TypeOK
<1>9. PlacedOnce'
  BY <1>1 DEF TreesKept, PlacedOnce
<1>10. NotLost'
  <2> SUFFICES ASSUME NEW q \in PopupSurfaces, NEW t \in Held',
                      popup[q].status = "alive", popup[q].configured,
                      popup[q].parent = t,
                      ~(t \in PopupSurfaces /\ popup[t].status = "dead"),
                      ~(t \in Windows /\ window'[t] = "gone")
               PROVE  q \in Range(children[t])
    BY <1>1 DEF NotLost, Gone
  <2>1. t \in Held /\ ~(t \in Windows /\ window[t] = "gone")
    BY <1>1, <1>2, <1>7 DEF ParentIsKnown
  <2> QED BY <2>1 DEF TreesKept, NotLost, Gone
<1>11. Answered' /\ NewIsNowhere' /\ BelowParent' /\ OrphanUntilCommit'
  BY <1>1 DEF Answered, NewIsNowhere, BelowParent, OrphanUntilCommit
<1>12. ParentIsKnown'
  BY <1>1, <1>2 DEF ParentIsKnown
<1> QED BY <1>8, <1>9, <1>10, <1>11, <1>12 DEF TreesKept

WithAdopted(ch, s, p) == [ch EXCEPT ![s] = Append(@, p)]

\* What is adopted is put in the trees, with nothing below it.
LEMMA TreesWithAdopted ==
    ASSUME NEW ch \in Vectors, NEW roots \in SUBSET Surfaces, NEW s \in Trees(ch, roots),
           NEW p \in PopupSurfaces, p \notin Trees(ch, roots), ch[p] = <<>>
    PROVE  /\ WithAdopted(ch, s, p) \in Vectors
           /\ \A t \in Surfaces \ {s} : WithAdopted(ch, s, p)[t] = ch[t]
           /\ WithAdopted(ch, s, p)[s] = Append(ch[s], p)
           /\ Range(WithAdopted(ch, s, p)[s]) = Range(ch[s]) \cup {p}
           /\ Trees(WithAdopted(ch, s, p), roots) = Trees(ch, roots) \cup {p}
<1> DEFINE more == WithAdopted(ch, s, p)
           trees == Trees(ch, roots)
<1>1. /\ roots \subseteq trees /\ trees \subseteq Surfaces /\ s \in trees /\ s \in Surfaces
      /\ \A t \in trees : Range(ch[t]) \subseteq trees
  BY TreesClosed
<1>2. \A t \in Surfaces : ch[t] \in Seq(PopupSurfaces)
  BY DEF Vectors
<1>3. /\ Append(ch[s], p) \in Seq(PopupSurfaces)
      /\ Range(Append(ch[s], p)) = Range(ch[s]) \cup {p}
  <2> DEFINE seq == ch[s]
  <2>1. seq \in Seq(PopupSurfaces)
    BY <1>1, <1>2
  <2> HIDE DEF seq
  <2>2. /\ Append(seq, p) \in Seq(PopupSurfaces)
        /\ DOMAIN Append(seq, p) = 1..(Len(seq) + 1) /\ DOMAIN seq = 1..Len(seq)
        /\ \A i \in 1..Len(seq) : Append(seq, p)[i] = seq[i]
        /\ Append(seq, p)[Len(seq) + 1] = p /\ Len(seq) \in Nat
    BY <2>1
  <2>3. Range(Append(seq, p)) = Range(seq) \cup {p}
    <3> DEFINE longer == Append(seq, p)
    <3> HIDE DEF longer
    <3>1. 1..(Len(seq) + 1) = (1..Len(seq)) \cup {Len(seq) + 1}
      BY <2>2
    <3>2. Range(longer) = Range(seq) \cup {p}
      BY <2>2, <3>1 DEF Range, longer
    <3> QED BY <3>2 DEF longer
  <2> QED BY <2>2, <2>3 DEF seq
<1>4. /\ more \in Vectors /\ more[s] = Append(ch[s], p)
      /\ \A t \in Surfaces \ {s} : more[t] = ch[t]
  BY <1>1, <1>3 DEF Vectors, WithAdopted
<1> HIDE DEF more, trees
<1>5. trees \subseteq Trees(more, roots)
  <2>1. \A t \in Surfaces : Range(ch[t]) \subseteq Range(more[t])
    BY <1>3, <1>4
  <2> QED BY <1>4, <2>1, TreesMonotone DEF trees
<1>6. p \in Trees(more, roots)
  BY <1>1, <1>3, <1>4, <1>5, TreesClosed
<1>7. Trees(more, roots) \subseteq trees \cup {p}
  <2> DEFINE set == (trees \cup {p}) \cap PopupSurfaces
  <2>1. Below(more, roots \cup set) \subseteq set
    <3> SUFFICES ASSUME NEW t \in roots \cup set, NEW r \in Range(more[t])
                 PROVE  r \in set
      BY DEF Below
    <3>1. t \in trees \/ t = p
      BY <1>1
    <3>2. /\ t \in Surfaces
          /\ t # p => Range(ch[t]) \subseteq trees
      BY <1>1, <3>1 DEF Surfaces
    <3>3. t = p => t # s /\ Range(more[t]) = {}
      BY <1>1, <1>4 DEF trees, Range, Surfaces
    <3>4. Range(more[t]) \subseteq Range(ch[t]) \cup {p}
      BY <1>3, <1>4, <3>2
    <3>5. r \in PopupSurfaces
      BY <1>4, <3>2, RangeTyped DEF Vectors
    <3> QED BY <3>1, <3>2, <3>3, <3>4, <3>5
  <2>2. set \in SUBSET PopupSurfaces
    OBVIOUS
  <2> HIDE DEF set
  <2>3. Trees(more, roots) \subseteq roots \cup set
    BY <2>1, <2>2, TreesLeast
  <2> QED BY <1>1, <2>3 DEF set
<1> QED BY <1>3, <1>4, <1>5, <1>6, <1>7 DEF more, trees

\* What a commit does to the trees: an orphan is put below its parent, when that is
\* in a tree, or nothing happens.
Adopting(p) ==
    /\ children' \in Vectors
    /\ Apart(children', orphans')
    /\ \A s \in Surfaces \ Held' : children'[s] = <<>>
    /\ \A s \in Surfaces : Range(children[s]) \subseteq Range(children'[s])
    /\ \A s \in Surfaces : \A q \in Range(children'[s]) \ Range(children[s]) :
         q = p /\ s = popup[p].parent
    /\ Held \subseteq Held' /\ Held' \subseteq Held \cup {p}
    /\ p \in Held' \ Held => p \in Range(orphans)
    /\ p \in Range(orphans) /\ p \notin Held'
         => ~Adopts(popup[p].parent)

LEMMA CommitAdopts ==
    ASSUME PopupsInv, NEW p \in PopupSurfaces, Commit(p)
    PROVE  Adopting(p)
<1> DEFINE s == popup[p].parent
           roots == InLayouts \cup LayerSurfaces
<1>1. /\ Apart(children, orphans) /\ orphans \in Seq(PopupSurfaces)
      /\ IsInjective(orphans) /\ TypeOK
      /\ children \in Vectors /\ roots \in SUBSET Surfaces
      /\ Held \subseteq Surfaces
  BY InvApart, HeldLemma DEF PopupsInv, TypeOK, Apart
<1>2. /\ window' = window /\ Held' = Trees(children', roots)
      /\ Held = Trees(children, roots)
  BY DEF Commit, Held, InLayouts
<1>3. /\ IsInjective(orphans') /\ Range(orphans') = Range(orphans) \ {p}
  BY <1>1, OrphansWithoutLemma DEF Commit
<1>4. CASE p \in Range(orphans) /\ Adopts(s)
  <2>1. s \in Held
    <3>1. Active \cup LayerSurfaces \subseteq roots
      BY DEF Active, InLayouts
    <3>2. Trees(children, Active \cup LayerSurfaces) \subseteq Trees(children, roots)
      BY <1>1, <3>1, TreesMonotone
    <3> QED BY <1>2, <1>4, <3>2 DEF Adopts
  <2>2. p \notin Held /\ children[p] = <<>>
    BY <1>4, OrphansAreBare
  <2>3. children' = WithAdopted(children, s, p)
    BY <1>4 DEF Commit, WithAdopted
  <2> HIDE DEF s, roots
  <2>4. /\ children' \in Vectors
        /\ \A t \in Surfaces \ {s} : children'[t] = children[t]
        /\ children'[s] = Append(children[s], p)
        /\ Range(children'[s]) = Range(children[s]) \cup {p}
        /\ Held' = Held \cup {p}
    <3>1. Trees(children', roots) = Trees(children, roots) \cup {p}
      BY <1>1, <1>2, <2>1, <2>2, <2>3, TreesWithAdopted
    <3>2. Held' = Held \cup {p}
      BY <1>2, <3>1
    <3>3. s \in Trees(children, roots) /\ p \notin Trees(children, roots)
      BY <1>2, <2>1, <2>2
    <3>4. /\ children' \in Vectors
          /\ \A t \in Surfaces \ {s} : children'[t] = children[t]
          /\ children'[s] = Append(children[s], p)
          /\ Range(children'[s]) = Range(children[s]) \cup {p}
      BY <1>1, <2>2, <2>3, <3>3, TreesWithAdopted
    <3> QED BY <3>2, <3>4
  <2>5. s \in Surfaces /\ children[s] \in Seq(PopupSurfaces)
    BY <1>1, <2>1 DEF Vectors
  <2>6. \A t \in Surfaces : p \notin Range(children[t])
    BY <1>1, <1>4 DEF Apart
  <2>7. IsInjective(children'[s])
    <3> DEFINE seq == children[s]
    <3>1. seq \in Seq(PopupSurfaces) /\ IsInjective(seq) /\ p \notin Range(seq)
      BY <1>1, <2>5, <2>6 DEF Apart
    <3> HIDE DEF seq
    <3>2. IsInjective(Append(seq, p))
      BY <3>1 DEF IsInjective, Range
    <3> QED BY <2>4, <3>2 DEF seq
  <2>8. Apart(children', orphans')
    <3>1. \A t \in Surfaces : IsInjective(children'[t])
      BY <1>1, <2>4, <2>7 DEF Apart
    <3>2. \A t \in Surfaces : \A q \in Range(children'[t]) :
            q \in Range(children[t]) \/ (q = p /\ t = s)
      BY <2>4
    <3>3. ASSUME NEW t \in Surfaces, NEW u \in Surfaces, t # u,
                 NEW q \in Range(children'[t])
          PROVE  q \notin Range(children'[u])
      <4>1. CASE q = p
        BY <2>6, <3>2, <3>3, <4>1
      <4>2. CASE q # p
        BY <1>1, <3>2, <3>3, <4>2 DEF Apart
      <4> QED BY <4>1, <4>2
    <3>4. \A t \in Surfaces : \A q \in Range(orphans') : q \notin Range(children'[t])
      BY <1>1, <1>3, <3>2 DEF Apart
    <3> QED BY <1>3, <3>1, <3>3, <3>4 DEF Apart
  <2>9. \A t \in Surfaces \ Held' : children'[t] = <<>>
    BY <1>1, <2>1, <2>4 DEF TypeOK
  <2>10. /\ \A t \in Surfaces : Range(children[t]) \subseteq Range(children'[t])
         /\ \A t \in Surfaces : \A q \in Range(children'[t]) \ Range(children[t]) :
              q = p /\ t = s
    BY <2>4
  <2> QED BY <1>4, <2>4, <2>8, <2>9, <2>10 DEF Adopting, s
<1>5. CASE ~(p \in Range(orphans) /\ Adopts(s))
  <2>1. children' = children
    BY <1>5 DEF Commit
  <2>2. Held' = Held
    BY <1>2, <2>1
  <2>3. Apart(children', orphans')
    BY <1>1, <1>3, <2>1 DEF Apart
  <2> QED BY <1>1, <1>5, <2>1, <2>2, <2>3 DEF Adopting, TypeOK
<1> QED BY <1>4, <1>5

\* What a commit does to the popups.
LEMMA CommitAnswers ==
    ASSUME PopupsInv, NEW p \in PopupSurfaces, Commit(p)
    PROVE  /\ popup' \in [PopupSurfaces -> Popup]
           /\ \A q \in PopupSurfaces \ {p} : popup'[q] = popup[q]
           /\ \A q \in PopupSurfaces : /\ popup'[q].status = popup[q].status
                                       /\ popup'[q].parent = popup[q].parent
           /\ popup[p].status = "dead" => popup'[p] = popup[p]
           /\ popup[p].status # "dead" =>
                /\ popup[p].status = "alive"
                /\ popup'[p].committed
                /\ popup'[p].configured <=> popup[p].configured \/ p \in Held'
                /\ popup'[p].dismissed <=>
                     \/ popup[p].dismissed
                     \/ /\ p \in Range(orphans) /\ popup[p].parent # NoSurface
                        /\ ~Adopts(popup[p].parent)
<1>1. popup \in [PopupSurfaces -> Popup]
  BY DEF PopupsInv, TypeOK
<1>2. CASE popup[p].status = "dead"
  <2>1. popup' = popup
    BY <1>2 DEF Commit
  <2> QED BY <1>1, <1>2, <2>1
<1>3. CASE popup[p].status # "dead"
  <2> DEFINE configured == popup[p].configured \/ p \in Held'
             dismissed == \/ popup[p].dismissed
                          \/ /\ p \in Range(orphans) /\ popup[p].parent # NoSurface
                             /\ ~Adopts(popup[p].parent)
             answered == [popup[p] EXCEPT !.committed = TRUE, !.configured = configured,
                                          !.dismissed = dismissed]
  <2>1. Configures(p) <=> p \in Held'
    BY DEF Commit, Configures, Held, InLayouts
  <2>2. popup' = [popup EXCEPT ![p] = answered]
    <3>1. dismissed <=> (popup[p].dismissed \/
            (p \in Range(orphans) /\ popup[p].parent # NoSurface
               /\ ~(p \in Range(orphans) /\ Adopts(popup[p].parent))))
      OBVIOUS
    <3> QED BY <1>1, <1>3, <2>1, <3>1 DEF Commit
  <2>3. configured \in BOOLEAN /\ dismissed \in BOOLEAN /\ popup[p] \in Popup
    BY <1>1 DEF Popup
  <2> HIDE DEF configured, dismissed
  <2>4. /\ answered \in Popup /\ answered.committed
        /\ answered.configured = configured /\ answered.dismissed = dismissed
        /\ answered.status = popup[p].status /\ answered.parent = popup[p].parent
    BY <2>3 DEF Popup
  <2> HIDE DEF answered
  <2>5. popup'[p] = answered /\ \A q \in PopupSurfaces \ {p} : popup'[q] = popup[q]
    BY <1>1, <2>2
  <2>6. popup' \in [PopupSurfaces -> Popup]
    BY <1>1, <2>2, <2>4
  <2>7. popup[p].status = "alive"
    BY <1>1, <1>3 DEF Commit, PopupsInv, NewIsNowhere, Popup
  <2> QED BY <1>3, <2>4, <2>5, <2>6, <2>7 DEF configured, dismissed
<1> QED BY <1>2, <1>3

LEMMA CommitStep ==
    ASSUME PopupsInv, NEW p \in PopupSurfaces, Commit(p)
    PROVE  PopupsInv'
<1> USE DEF PopupsInv
<1>1. /\ Adopting(p) /\ Apart(children, orphans)
      /\ orphans \in Seq(PopupSurfaces) /\ IsInjective(orphans)
  BY CommitAdopts, InvApart DEF TypeOK, Apart
<1>2. /\ popup' \in [PopupSurfaces -> Popup]
      /\ \A q \in PopupSurfaces \ {p} : popup'[q] = popup[q]
      /\ \A q \in PopupSurfaces : /\ popup'[q].status = popup[q].status
                                  /\ popup'[q].parent = popup[q].parent
      /\ popup[p].status = "dead" => popup'[p] = popup[p]
      /\ popup[p].status # "dead" =>
           /\ popup[p].status = "alive"
           /\ popup'[p].committed
           /\ popup'[p].configured <=> popup[p].configured \/ p \in Held'
           /\ popup'[p].dismissed <=>
                \/ popup[p].dismissed
                \/ /\ p \in Range(orphans) /\ popup[p].parent # NoSurface
                   /\ ~Adopts(popup[p].parent)
  BY CommitAnswers
<1>3. /\ orphans' \in Seq(PopupSurfaces) /\ Range(orphans') = Range(orphans) \ {p}
      /\ window' = window
  BY <1>1, OrphansWithoutLemma DEF Commit
<1>4. /\ children' \in Vectors /\ Apart(children', orphans')
      /\ \A s \in Surfaces \ Held' : children'[s] = <<>>
      /\ \A s \in Surfaces : Range(children[s]) \subseteq Range(children'[s])
      /\ \A s \in Surfaces : \A q \in Range(children'[s]) \ Range(children[s]) :
           q = p /\ s = popup[p].parent
      /\ Held \subseteq Held' /\ Held' \subseteq Held \cup {p}
      /\ p \in Held' \ Held => p \in Range(orphans)
      /\ p \in Range(orphans) /\ p \notin Held' => ~Adopts(popup[p].parent)
  BY <1>1 DEF Adopting
<1>5. TypeOK'
  BY <1>2, <1>3, <1>4 DEF TypeOK, Vectors
<1>6. PlacedOnce'
  BY <1>4, ApartLemma DEF Once, PlacedOnce
<1>7. \A s \in Surfaces : Range(children'[s]) \subseteq PopupSurfaces
  BY <1>4, RangeTyped DEF Vectors
<1>8. BelowParent'
  <2> SUFFICES ASSUME NEW s \in Surfaces, NEW q \in Range(children'[s]),
                      popup'[q].status = "alive"
               PROVE  popup'[q].parent = s
    BY DEF BelowParent
  <2>1. q \in PopupSurfaces
    BY <1>7
  <2>2. CASE q \in Range(children[s])
    BY <1>2, <2>1, <2>2 DEF BelowParent
  <2>3. CASE q \notin Range(children[s])
    BY <1>2, <1>4, <2>1, <2>3
  <2> QED BY <2>2, <2>3
<1>9. ASSUME popup[p].status = "alive", p \in Held'
      PROVE  p \in Range(children'[popup[p].parent]) /\ popup[p].parent \in Held'
  <2>1. p \notin InLayouts' \cup LayerSurfaces
    BY PopupsAssumption DEF InLayouts
  <2>2. InLayouts' \cup LayerSurfaces \in SUBSET Surfaces
    BY DEF InLayouts, Surfaces
  <2>3. PICK s \in Held' : p \in Range(children'[s])
    BY <1>4, <1>9, <2>1, <2>2, TreesBelow DEF Held
  <2>4. s \in Surfaces
    BY <1>4, <2>2, TreesClosed DEF Held
  <2> QED BY <1>2, <1>8, <1>9, <2>3, <2>4 DEF BelowParent
<1>10. NotLost'
  <2> SUFFICES ASSUME NEW q \in PopupSurfaces, NEW t \in Held',
                      popup'[q].status = "alive", popup'[q].configured,
                      popup'[q].parent = t,
                      ~(t \in PopupSurfaces /\ popup'[t].status = "dead"),
                      ~(t \in Windows /\ window[t] = "gone")
               PROVE  q \in Range(children'[t])
    BY <1>3 DEF NotLost, Gone
  <2>1. t \in Surfaces
    <3>1. InLayouts' \cup LayerSurfaces \in SUBSET Surfaces
      BY DEF InLayouts, Surfaces
    <3> QED BY <1>4, <3>1, TreesClosed DEF Held
  <2>2. CASE ~popup[q].configured
    BY <1>2, <1>9, <2>2
  <2>3. CASE popup[q].configured
    <3>1. t \in Held
      BY <1>2, <1>4, <2>3 DEF OrphanUntilCommit
    <3>2. q \in Range(children[t])
      BY <1>2, <2>3, <3>1 DEF TreesKept, NotLost, Gone
    <3> QED BY <1>4, <2>1, <3>2
  <2> QED BY <2>2, <2>3
<1>11. Answered'
  <2> SUFFICES ASSUME NEW q \in PopupSurfaces, popup'[q].status = "alive",
                      popup'[q].committed, popup'[q].parent # NoSurface
               PROVE  popup'[q].configured \/ popup'[q].dismissed
    BY DEF Answered
  <2>1. CASE q # p
    BY <1>2, <2>1 DEF Answered
  <2>2. CASE q = p /\ p \in Range(orphans)
    BY <1>2, <1>4, <2>2
  <2>3. CASE q = p /\ p \notin Range(orphans)
    BY <1>2, <2>3 DEF Answered, OrphanUntilCommit
  <2> QED BY <2>1, <2>2, <2>3
<1>12. NewIsNowhere'
  <2> SUFFICES ASSUME NEW q \in PopupSurfaces, popup'[q].status = "new"
               PROVE  /\ popup'[q] = NewPopup
                      /\ q \notin Range(orphans')
                      /\ \A s \in Surfaces : q \notin Range(children'[s])
                      /\ \A r \in PopupSurfaces : popup'[r].parent # q
    BY DEF NewIsNowhere
  <2>1. q # p /\ popup'[q] = popup[q]
    BY <1>2
  <2>2. /\ popup[q] = NewPopup /\ q \notin Range(orphans)
        /\ \A s \in Surfaces : q \notin Range(children[s])
        /\ \A r \in PopupSurfaces : popup[r].parent # q
    BY <2>1 DEF NewIsNowhere
  <2>3. \A s \in Surfaces : q \notin Range(children'[s])
    BY <1>4, <2>1, <2>2
  <2>4. \A r \in PopupSurfaces : popup'[r].parent # q
    <3>1. \A r \in PopupSurfaces : popup'[r].parent = popup[r].parent
      BY <1>2
    <3> QED BY <2>2, <3>1
  <2> QED BY <1>3, <2>1, <2>2, <2>3, <2>4
<1>13. ParentIsKnown'
  <2>1. \A r \in PopupSurfaces : popup'[r].parent = popup[r].parent
    BY <1>2
  <2> QED BY <1>3, <2>1 DEF ParentIsKnown
<1>14. OrphanUntilCommit'
  <2> SUFFICES ASSUME NEW q \in PopupSurfaces
               PROVE  /\ popup'[q].configured => popup'[q].committed
                      /\ popup'[q].status = "alive" =>
                           (q \in Range(orphans') <=> ~popup'[q].committed)
                      /\ popup'[q].status = "alive" /\ popup'[q].configured
                           => popup'[q].parent \notin Range(orphans')
    BY DEF OrphanUntilCommit
  <2>1. CASE q # p
    BY <1>2, <1>3, <2>1 DEF OrphanUntilCommit
  <2>2. CASE q = p /\ popup[p].status = "dead"
    BY <1>2, <2>2 DEF OrphanUntilCommit
  <2>3. CASE q = p /\ popup[p].status # "dead"
    <3>1. p \in Held' => popup[p].parent \notin Range(orphans')
      <4> SUFFICES ASSUME p \in Held' PROVE popup[p].parent \notin Range(orphans')
        OBVIOUS
      <4>1. popup[p].parent \in Held \cup {p}
        BY <1>2, <1>4, <1>9, <2>3
      <4> QED BY <1>3, <4>1, OrphansAreBare
    <3> QED BY <1>2, <1>3, <2>3, <3>1 DEF OrphanUntilCommit
  <2> QED BY <2>1, <2>2, <2>3
<1> QED BY <1>5, <1>6, <1>8, <1>10, <1>11, <1>12, <1>13, <1>14 DEF TreesKept

----------------------------------------------------------------------------
(* Popups.  Theorems. *)

LEMMA InitPopupsInv == Init => PopupsInv
<1> SUFFICES ASSUME Init PROVE PopupsInv
  OBVIOUS
<1>1. /\ \A w \in Windows : window[w] = "new"
      /\ \A p \in PopupSurfaces : popup[p] = NewPopup
      /\ orphans = <<>> /\ Range(orphans) = {} /\ IsInjective(orphans)
      /\ \A s \in Surfaces : /\ children[s] = <<>> /\ Range(children[s]) = {}
                             /\ IsInjective(children[s])
  BY DEF Init, Range, IsInjective
<1>2. /\ NewPopup \in Popup /\ NewPopup.status = "new" /\ NewPopup.parent = NoSurface
      /\ ~NewPopup.committed /\ ~NewPopup.configured
  BY DEF NewPopup, Popup
<1>3. TypeOK
  <2>1. <<>> \in Seq(PopupSurfaces)
    OBVIOUS
  <2> QED BY <1>1, <1>2, <2>1 DEF Init, TypeOK, Place
<1>4. PlacedOnce
  <2>1. Apart(children, orphans)
    BY <1>1 DEF Apart
  <2> QED BY <2>1, ApartLemma DEF Once, PlacedOnce
<1>5. NotLost /\ Answered /\ BelowParent /\ OrphanUntilCommit
  BY <1>1, <1>2 DEF NotLost, Answered, BelowParent, OrphanUntilCommit
<1>6. NewIsNowhere /\ ParentIsKnown
  BY <1>1, <1>2, PopupsAssumption DEF NewIsNowhere, ParentIsKnown
<1> QED BY <1>3, <1>4, <1>5, <1>6 DEF PopupsInv, TreesKept

LEMMA NextPopupsInv == PopupsInv /\ [Next]_vars => PopupsInv'
<1> SUFFICES ASSUME PopupsInv, [Next]_vars PROVE PopupsInv'
  OBVIOUS
<1>1. ASSUME NEW p \in PopupSurfaces, NEW s \in PossibleParents \cup {NoSurface},
             AddPopup(p, s)
      PROVE  PopupsInv'
  BY <1>1, AddPopupStep
<1>2. ASSUME NEW l \in LayerSurfaces, NEW p \in PopupSurfaces, GetPopup(l, p)
      PROVE  PopupsInv'
  BY <1>2, GetPopupStep
<1>3. ASSUME NEW p \in PopupSurfaces, Commit(p) PROVE PopupsInv'
  BY <1>3, CommitStep
<1>4. ASSUME NEW p \in PopupSurfaces, Destroy(p) PROVE PopupsInv'
  BY <1>4, DestroyStep
<1>5. ASSUME NEW w \in Windows, AddWindow(w) PROVE PopupsInv'
  BY <1>5, AddWindowStep
<1>6. ASSUME NEW active \in SUBSET InLayouts, NEW reaped \in SUBSET InLayouts,
             ChangeLayouts(active, reaped)
      PROVE  PopupsInv'
  BY <1>6, ChangeLayoutsStep
<1>7. ASSUME UNCHANGED vars PROVE PopupsInv'
  BY <1>7 DEF vars, PopupsInv, TypeOK, Held, InLayouts, TreesKept, PlacedOnce, NotLost,
              Gone, Answered, NewIsNowhere, ParentIsKnown, BelowParent, OrphanUntilCommit
<1> QED BY <1>1, <1>2, <1>3, <1>4, <1>5, <1>6, <1>7 DEF Next

\* The types hold in every run, and only what is in a tree has popups.
THEOREM PopupsTypeCorrect == Spec => []TypeOK
<1>1. PopupsInv => TypeOK
  BY DEF PopupsInv
<1> QED BY <1>1, InitPopupsInv, NextPopupsInv, PTL DEF Spec

\* However many toplevels, layer surfaces and popups of popups: a popup is an orphan
\* or in one place of one tree, and one that was configured stays below its parent
\* as long as that lives, whatever is swapped, reaped and dropped around it.
THEOREM TreesAlwaysKept == Spec => []TreesKept
<1>1. PopupsInv => TreesKept
  BY DEF PopupsInv
<1> QED BY <1>1, InitPopupsInv, NextPopupsInv, PTL DEF Spec

\* orphan_surface_commit: the first commit of a popup with a parent is answered by a
\* configure or by popup_done, whatever has become of the parent.
THEOREM CommitsAreAnswered == Spec => []Answered
<1>1. PopupsInv => Answered
  BY DEF PopupsInv
<1> QED BY <1>1, InitPopupsInv, NextPopupsInv, PTL DEF Spec

\* refresh_popups: after the death of a popup no dead one is left in the tree of a
\* window, also not one that died as an orphan and was adopted by a late commit.
THEOREM DeadAlwaysLeaveTrees == Spec => DeadLeaveTrees
<1>1. ASSUME PopupsInv, NEW p \in PopupSurfaces, Destroy(p),
             NEW q \in Trees(children', InLayouts) \cap PopupSurfaces
      PROVE  popup'[q].status = "alive"
  <2> DEFINE dead == {r \in PopupSurfaces : popup'[r].status = "dead"}
  <2>1. /\ children \in Vectors /\ InLayouts \cup LayerSurfaces \in SUBSET Surfaces
        /\ \A s \in Surfaces : IsInjective(children[s])
    BY <1>1, InvApart, HeldLemma DEF PopupsInv, Apart
  <2>2. children' = Refreshed(children, dead)
    BY <1>1 DEF Destroy
  <2> HIDE DEF dead
  <2>3. /\ children' \in Vectors
        /\ \A s \in Surfaces : Range(children'[s]) \subseteq Range(children[s])
        /\ \A s \in Trees(children, InLayouts) : Range(children'[s]) \cap dead = {}
    BY <2>1, <2>2, RefreshedShrinks DEF Shrinks
  <2>4. q \notin InLayouts
    BY <1>1, PopupsAssumption DEF InLayouts
  <2>5. InLayouts \in SUBSET Surfaces
    BY <2>1
  <2>6. PICK s \in Trees(children', InLayouts) : q \in Range(children'[s])
    BY <1>1, <2>3, <2>4, <2>5, TreesBelow
  <2>7. s \in Trees(children, InLayouts) /\ s \in Surfaces
    BY <2>1, <2>3, <2>5, TreesMonotone, TreesClosed
  <2>8. q \notin dead /\ q \in Range(children[s])
    BY <2>3, <2>6, <2>7
  <2>9. popup[q].status # "new"
    BY <1>1, <2>7, <2>8 DEF PopupsInv, NewIsNowhere
  <2>10. PopupsInv'
    BY <1>1, DestroyStep
  <2>11. popup'[q] \in Popup /\ popup'[q].status # "dead"
    BY <1>1, <2>8, <2>10 DEF PopupsInv, TypeOK, dead
  <2>12. popup'[q] = popup[q]
    <3>1. q # p
      BY <1>1, <2>11 DEF Destroy, PopupsInv, TypeOK, NewPopup
    <3> QED BY <1>1, <3>1 DEF Destroy, PopupsInv, TypeOK
  <2> QED BY <2>9, <2>11, <2>12 DEF Popup
<1>2. ASSUME PopupsInv, [Next]_vars
      PROVE  [\A p \in PopupSurfaces : Destroy(p) =>
                \A q \in Trees(children', InLayouts) \cap PopupSurfaces :
                   popup'[q].status = "alive"]_vars
  BY <1>1, <1>2
<1> QED BY <1>2, InitPopupsInv, NextPopupsInv, PTL DEF Spec, DeadLeaveTrees

----------------------------------------------------------------------------
(* Placement. *)

\* The location of a popup is a point.
LEMMA GeometryType ==
    ASSUME NEW p \in [Axes -> Positioner]
    PROVE  Geometry(p) \in [Axes -> Int]
<1> SUFFICES ASSUME NEW axis \in Axes
             PROVE  p[axis].base + Along(p[axis].extent, p[axis].anchor)
                      - Along(p[axis].size, -p[axis].gravity) \in Int
  BY DEF Geometry
<1>1. \A extent \in Nat, edge \in -1..1 : Along(extent, edge) \in Int
  BY DEF Along
<1>2. /\ p[axis].base \in Int
      /\ p[axis].extent \in Nat /\ p[axis].anchor \in -1..1
      /\ p[axis].size \in Nat /\ -p[axis].gravity \in -1..1
  BY DEF Positioner
<1> QED BY <1>1, <1>2

\* Flipping makes a positioner of a positioner.
LEMMA FlippedType ==
    ASSUME NEW p \in [Axes -> Positioner], NEW size, NEW bounds
    PROVE  Flipped(p, size, bounds) \in [Axes -> Positioner]
<1> SUFFICES ASSUME NEW axis \in Axes
             PROVE  [p[axis] EXCEPT !.anchor = -@, !.gravity = -@] \in Positioner
  BY DEF Flipped
<1> DEFINE q == p[axis]
<1>1. q \in Positioner
  OBVIOUS
<1> HIDE DEF q
<1>2. -q.anchor \in -1..1 /\ -q.gravity \in -1..1
  BY <1>1 DEF Positioner
<1>3. \A anchor, gravity \in -1..1 :
        [q EXCEPT !.anchor = anchor, !.gravity = gravity] \in Positioner
  BY <1>1, Zenon DEF Positioner
<1>4. [q EXCEPT !.anchor = -@, !.gravity = -@] \in Positioner
  BY <1>2, <1>3, Zenon
<1> QED BY <1>4 DEF q

\* Where there is room, sliding ends inside.
LEMMA SlideFits ==
    ASSUME NEW at \in Int, NEW size \in Nat, NEW bounds \in Nat, size <= bounds
    PROVE  Fits(Slide(at, size, bounds), size, bounds)
BY DEF Slide, Fits, Least, Greatest

\* Sliding ends at a point.
LEMMA SlidType ==
    ASSUME NEW p \in [Axes -> Positioner],
           NEW size \in [Axes -> Nat], NEW bounds \in [Axes -> Nat]
    PROVE  Slid(p, size, bounds) \in [Axes -> Int]
BY GeometryType DEF Slid, Slide, Least, Greatest

\* What the constrainer answers has its type.
LEMMA ConstrainedType ==
    ASSUME NEW p \in [Axes -> Positioner],
           NEW size \in [Axes -> Nat], NEW bounds \in [Axes -> Nat]
    PROVE  /\ Constrained(p, size, bounds).positioner \in [Axes -> Positioner]
           /\ Constrained(p, size, bounds).location \in [Axes -> Int]
<1> DEFINE flipped == Flipped(p, size, bounds)
<1>1. flipped \in [Axes -> Positioner]
  BY FlippedType
<1>2. /\ Geometry(p) \in [Axes -> Int] /\ Geometry(flipped) \in [Axes -> Int]
      /\ Slid(p, size, bounds) \in [Axes -> Int]
  BY <1>1, GeometryType, SlidType
<1> HIDE DEF flipped
<1> QED BY <1>1, <1>2 DEF Constrained, Placed, flipped

\* Constraining what was constrained changes nothing: a location that is inside is
\* kept, and a positioner that was not flipped is not flipped the next time either.
LEMMA ConstrainedAgain ==
    ASSUME NEW p, NEW size, NEW bounds
    PROVE  LET placed == Constrained(p, size, bounds)
           IN  Constrained(placed.positioner, size, bounds) = placed
<1> DEFINE flipped == Flipped(p, size, bounds)
           placed == Constrained(p, size, bounds)
<1>1. CASE Inside(Geometry(p), size, bounds)
  <2>1. placed = Placed(p, Geometry(p))
    BY <1>1 DEF Constrained
  <2> QED BY <2>1, <1>1 DEF Placed
<1>2. CASE /\ ~Inside(Geometry(p), size, bounds)
           /\ Inside(Geometry(flipped), size, bounds)
  <2>1. placed = Placed(flipped, Geometry(flipped))
    BY <1>2 DEF Constrained
  <2>2. Constrained(flipped, size, bounds) = Placed(flipped, Geometry(flipped))
    BY <1>2 DEF Constrained
  <2> QED BY <2>1, <2>2 DEF Placed
<1>3. CASE /\ ~Inside(Geometry(p), size, bounds)
           /\ ~Inside(Geometry(flipped), size, bounds)
  <2>1. placed = Placed(p, Slid(p, size, bounds))
    BY <1>3 DEF Constrained
  <2> QED BY <2>1 DEF Placed
<1> QED BY <1>1, <1>2, <1>3

\* With room on both axes, and leave to slide along them, the location is inside.
LEMMA ConstrainedInside ==
    ASSUME NEW p \in [Axes -> Positioner],
           NEW size \in [Axes -> Nat], NEW bounds \in [Axes -> Nat],
           LET placed == Constrained(p, size, bounds).positioner
           IN  \A axis \in Axes : placed[axis].slide /\ size[axis] <= bounds[axis]
    PROVE  Inside(Constrained(p, size, bounds).location, size, bounds)
<1> DEFINE flipped == Flipped(p, size, bounds)
<1>1. CASE Inside(Geometry(p), size, bounds)
  BY <1>1 DEF Constrained, Placed
<1>2. CASE /\ ~Inside(Geometry(p), size, bounds)
           /\ Inside(Geometry(flipped), size, bounds)
  BY <1>2 DEF Constrained, Placed
<1>3. CASE /\ ~Inside(Geometry(p), size, bounds)
           /\ ~Inside(Geometry(flipped), size, bounds)
  <2>1. Constrained(p, size, bounds) = Placed(p, Slid(p, size, bounds))
    BY <1>3 DEF Constrained
  <2>2. \A axis \in Axes : p[axis].slide /\ size[axis] <= bounds[axis]
    BY <2>1 DEF Placed
  <2>3. ASSUME NEW axis \in Axes
        PROVE  Fits(Slid(p, size, bounds)[axis], size[axis], bounds[axis])
    <3>1. Slid(p, size, bounds)[axis]
            = Slide(Geometry(p)[axis], size[axis], bounds[axis])
      BY <2>2 DEF Slid
    <3>2. Geometry(p)[axis] \in Int /\ size[axis] \in Nat /\ bounds[axis] \in Nat
      BY GeometryType
    <3> QED BY <3>1, <3>2, <2>2, SlideFits
  <2> QED BY <2>1, <2>3 DEF Inside, Placed
<1> QED BY <1>1, <1>2, <1>3

----------------------------------------------------------------------------

\* A popup that was placed, with nothing changed since, is where it would be placed
\* again; there is room to slide only along the axes of that placement.
PlacingInv == PlacingTypeOK /\ SlidInside /\ Stable

\* The bounds a popup is placed in are a size.
LEMMA BoundsType ==
    ASSUME PlacingTypeOK
    PROVE  Bounds(parent) \in [Axes -> Nat]
BY PlacementAssumption DEF PlacingTypeOK, Bounds

\* Whatever the positioner, a placement establishes what the invariant says of it.
LEMMA PlaceKeeps ==
    ASSUME PlacingInv, NEW p \in [Axes -> Positioner], PlacePopup(p), committed' \in Sizes
    PROVE  PlacingInv'
<1> DEFINE bounds == Bounds(parent)
           placed == Constrained(p, cached, bounds)
<1>1. cached \in [Axes -> Nat] /\ bounds \in [Axes -> Nat]
  BY BoundsType, PlacementAssumption DEF PlacingInv, PlacingTypeOK
<1>2. /\ positioner' = placed.positioner /\ location' = placed.location
      /\ stale' = {} /\ cached' = cached /\ parent' = parent /\ nested' = nested
      /\ Bounds(parent)' = bounds
  BY DEF PlacePopup, Bounds
<1> HIDE DEF bounds
<1>3. PlacingTypeOK'
  BY <1>1, <1>2, ConstrainedType DEF PlacingInv, PlacingTypeOK
<1>4. SlidInside'
  <2>1. ASSUME CanSlide' PROVE Inside(placed.location, cached, bounds)
    <3>1. \A axis \in Axes : placed.positioner[axis].slide /\ cached[axis] <= bounds[axis]
      BY <2>1, <1>2 DEF CanSlide
    <3> QED BY <3>1, <1>1, ConstrainedInside
  <2> QED BY <2>1, <1>2 DEF SlidInside
<1>5. Stable'
  <2>1. Constrained(placed.positioner, cached, bounds) = placed
    BY ConstrainedAgain
  <2>2. placed = Placed(placed.positioner, placed.location)
    BY DEF Constrained, Placed
  <2> QED BY <2>1, <2>2, <1>2 DEF Stable
<1> QED BY <1>3, <1>4, <1>5 DEF PlacingInv

LEMMA InitPlacing == Unplaced => PlacingInv
<1> SUFFICES ASSUME Unplaced PROVE PlacingInv
  OBVIOUS
<1>1. PlacingTypeOK
  BY PlacementAssumption DEF Unplaced, PlacingTypeOK
<1>2. SlidInside /\ Stable
  BY DEF Unplaced, SlidInside, Stable
<1> QED BY <1>1, <1>2 DEF PlacingInv

LEMMA NextPlacing == PlacingInv /\ [PlacingNext]_placingVars => PlacingInv'
<1> SUFFICES ASSUME PlacingInv, [PlacingNext]_placingVars PROVE PlacingInv'
  OBVIOUS
<1> USE DEF PlacingInv
<1>1. ASSUME NEW size \in Sizes, CommitPopup(size) PROVE PlacingInv'
  <2>1. positioner \in [Axes -> Positioner]
    BY DEF PlacingTypeOK
  <2> QED BY <1>1, <2>1, PlaceKeeps DEF CommitPopup
<1>2. ASSUME NEW p \in Positioners, RepositionPopup(p) PROVE PlacingInv'
  <2>1. p \in [Axes -> Positioner] /\ committed' \in Sizes
    BY <1>2, PlacementAssumption DEF RepositionPopup, PlacingTypeOK
  <2> QED BY <1>2, <2>1, PlaceKeeps DEF RepositionPopup
<1>3. ASSUME Import PROVE PlacingInv'
  <2>1. PlacingTypeOK'
    BY <1>3 DEF Import, PlacingTypeOK
  <2>2. stale' = {} => stale = {} /\ cached' = cached
    BY <1>3 DEF Import
  <2>3. (SlidInside /\ Stable)'
    BY <1>3, <2>2 DEF Import, SlidInside, Stable, CanSlide, Bounds
  <2> QED BY <2>1, <2>3
<1>4. ASSUME NEW size \in Sizes, ResizeParent(size) PROVE PlacingInv'
  <2>1. PlacingTypeOK'
    BY <1>4 DEF ResizeParent, PlacingTypeOK
  <2>2. stale' = {} => stale = {} /\ parent' = parent
    BY <1>4 DEF ResizeParent
  <2>3. (SlidInside /\ Stable)'
    BY <1>4, <2>2 DEF ResizeParent, SlidInside, Stable, CanSlide, Bounds
  <2> QED BY <2>1, <2>3
<1>5. ASSUME UNCHANGED placingVars PROVE PlacingInv'
  BY <1>5 DEF placingVars, PlacingTypeOK, SlidInside, Stable, CanSlide, Bounds
<1> QED BY <1>1, <1>2, <1>3, <1>4, <1>5 DEF PlacingNext

\* The types hold in every run.
THEOREM PlacingTypeCorrect == PlacingSpec => []PlacingTypeOK
<1>1. PlacingInv => PlacingTypeOK
  BY DEF PlacingInv
<1> QED BY <1>1, InitPlacing, NextPlacing, PTL DEF PlacingSpec

\* constrained_location: whichever edges stick out and by how much, a popup that may
\* slide and has room is inside when its location is up to date; and as the flips
\* are written to the positioner that is read the next time, a popup that is placed
\* again is where it was.
THEOREM PopupsSettle == PlacingSpec => []Settled
<1>1. PlacingInv => Settled
  BY DEF PlacingInv, Settled
<1> QED BY <1>1, InitPlacing, NextPlacing, PTL DEF PlacingSpec

============================================================================
