---------------------------- MODULE AppsProofs ------------------------------
(***************************************************************************)
(* Proofs about the applications, for any processes, commands, cards,      *)
(* windows, patterns, groups and delay: Launch, where launches that come   *)
(* one at a time reach the first windows of their processes (LaunchInv)    *)
(* and no command is started twice (LearnInv: what was learned for a       *)
(* command names the window it was learned from), and ProcessGroups, where *)
(* the application the user works with is not left stopped.                *)
(***************************************************************************)
EXTENDS Launch, ProcessGroups, FiniteSetTheorems, SequenceTheorems,
        WellFoundedInduction, TLAPS
----------------------------------------------------------------------------
(* The order of the windows.                                               *)

\* A nonempty set of indices has a least one.
LEMMA LeastIndex ==
    ASSUME NEW T \in SUBSET Nat, T # {}
    PROVE  \E m \in T : \A k \in T : m <= k
<1> DEFINE D == {0..n : n \in T}
<1>1. D \subseteq FiniteSubsetsOf(Nat)
  <2>1. \A n \in T : IsFiniteSet(0..n) /\ (0..n) \subseteq Nat
    BY FS_Interval
  <2> QED
    BY <2>1 DEF FiniteSubsetsOf
<1>2. D # {}
  OBVIOUS
<1>3. PICK x \in D : \A y \in D : <<y, x>> \notin StrictSubsetOrdering(Nat)
  BY <1>1, <1>2, FS_StrictSubsetOrderingWellFounded, WFMin
<1>4. PICK m \in T : x = 0..m
  OBVIOUS
<1>5. ASSUME NEW k \in T, k < m PROVE FALSE
  <2>1. <<0..k, 0..m>> \notin StrictSubsetOrdering(Nat)
    BY <1>3, <1>4
  <2>2. IsFiniteSet(0..m) /\ IsFiniteSet(0..k)
    BY FS_Interval
  <2>3. (0..k) \in SUBSET Nat /\ (0..m) \in SUBSET Nat /\ (0..k) \subseteq (0..m)
    BY <1>5
  <2>4. m \in 0..m /\ m \notin 0..k
    BY <1>5
  <2> QED
    BY <2>1, <2>2, <2>3, <2>4 DEF StrictSubsetOrdering, FiniteSubsetsOf
<1> QED
  BY <1>5

\* What has a window once is removed, and everything else stays.
LEMMA RemoveFirstLemma ==
    ASSUME NEW s \in Seq(Toplevels), IsInjective(s), NEW p
    PROVE  /\ RemoveFirst(s, p) \in Seq(Toplevels)
           /\ IsInjective(RemoveFirst(s, p))
           /\ Range(RemoveFirst(s, p)) = Range(s) \ {p}
<1>1. CASE \A i \in 1..Len(s) : s[i] # p
  <2>1. RemoveFirst(s, p) = s
    BY <1>1 DEF RemoveFirst
  <2>2. p \notin Range(s)
    BY <1>1 DEF Range
  <2> QED BY <2>1, <2>2
<1>2. ASSUME NEW i \in 1..Len(s), s[i] = p
      PROVE  /\ RemoveFirst(s, p) \in Seq(Toplevels)
             /\ IsInjective(RemoveFirst(s, p))
             /\ Range(RemoveFirst(s, p)) = Range(s) \ {p}
  <2> DEFINE hits == {j \in 1..Len(s) : s[j] = p}
             left == SubSeq(s, 1, i - 1)
             right == SubSeq(s, i + 1, Len(s))
             rest == left \o right
  <2>1. hits = {i}
    BY <1>2 DEF IsInjective
  <2>2. Min(hits) = i
    BY <2>1 DEF Min
  <2>3. RemoveFirst(s, p) = rest
    BY <1>2, <2>1, <2>2 DEF RemoveFirst, RemoveAt, SelectInSeq
  <2>4. /\ left \in Seq(Toplevels) /\ Len(left) = i - 1
        /\ right \in Seq(Toplevels) /\ Len(right) = Len(s) - i
        /\ \A j \in 1..(i - 1) : left[j] = s[j]
        /\ \A j \in 1..(Len(s) - i) : right[j] = s[j + i]
    OBVIOUS
  <2> HIDE DEF left, right
  <2>5. /\ rest \in Seq(Toplevels) /\ Len(rest) = Len(s) - 1
        /\ \A j \in 1..(i - 1) : rest[j] = s[j]
        /\ \A j \in i..(Len(s) - 1) : rest[j] = s[j + 1]
    <3>1. /\ rest \in Seq(Toplevels) /\ Len(rest) = Len(left) + Len(right)
          /\ \A j \in 1..(Len(left) + Len(right)) :
               rest[j] = IF j <= Len(left) THEN left[j] ELSE right[j - Len(left)]
      BY <2>4, ConcatProperties, Zenon
    <3> HIDE DEF rest
    <3>2. ASSUME NEW j \in i..(Len(s) - 1) PROVE rest[j] = s[j + 1]
      <4>1. /\ j - (i - 1) \in 1..(Len(s) - i) /\ ~(j <= Len(left))
            /\ j \in 1..(Len(left) + Len(right))
        BY <2>4
      <4>2. rest[j] = right[j - (i - 1)] /\ right[j - (i - 1)] = s[j - (i - 1) + i]
        BY <2>4, <3>1, <4>1
      <4>3. j - (i - 1) + i = j + 1
        OBVIOUS
      <4> QED BY <4>2, <4>3
    <3>3. ASSUME NEW j \in 1..(i - 1) PROVE rest[j] = s[j]
      <4>1. j <= Len(left) /\ j \in 1..(Len(left) + Len(right))
        BY <2>4
      <4> QED BY <2>4, <3>1, <4>1
    <3>4. Len(left) + Len(right) = Len(s) - 1
      BY <2>4
    <3> QED BY <3>1, <3>2, <3>3, <3>4
  <2> HIDE DEF rest
  <2>6. IsInjective(rest)
    <3> SUFFICES ASSUME NEW a \in 1..Len(rest), NEW b \in 1..Len(rest), rest[a] = rest[b]
                 PROVE  a = b
      BY <2>5 DEF IsInjective
    <3> DEFINE x == IF a < i THEN a ELSE a + 1
               y == IF b < i THEN b ELSE b + 1
    <3>1. x \in 1..Len(s) /\ y \in 1..Len(s) /\ rest[a] = s[x] /\ rest[b] = s[y]
      BY <2>5
    <3>2. x = y => a = b
      BY <2>5
    <3> HIDE DEF x, y
    <3>3. DOMAIN s = 1..Len(s)
      OBVIOUS
    <3>4. s[x] = s[y]
      BY <3>1, Zenon
    <3>5. x = y
      BY <3>1, <3>3, <3>4, Zenon DEF IsInjective
    <3> QED BY <3>2, <3>5
  <2>7. Range(rest) \subseteq Range(s) \ {p}
    <3> SUFFICES ASSUME NEW a \in 1..Len(rest)
                 PROVE  rest[a] \in Range(s) /\ rest[a] # p
      BY <2>5 DEF Range
    <3> DEFINE at == IF a < i THEN a ELSE a + 1
    <3>1. at \in 1..Len(s) /\ at # i /\ rest[a] = s[at]
      BY <2>5
    <3> HIDE DEF at
    <3> QED BY <1>2, <3>1 DEF IsInjective, Range
  <2>8. Range(s) \ {p} \subseteq Range(rest)
    <3> SUFFICES ASSUME NEW a \in 1..Len(s), s[a] # p
                 PROVE  s[a] \in Range(rest)
      BY DEF Range
    <3> DEFINE at == IF a < i THEN a ELSE a - 1
    <3>1. at \in 1..Len(rest) /\ rest[at] = s[a]
      BY <1>2, <2>5
    <3> HIDE DEF at
    <3> QED BY <2>5, <3>1 DEF Range
  <2> QED BY <2>3, <2>5, <2>6, <2>7, <2>8
<1> QED BY <1>1, <1>2

LEMMA AppendLemma ==
    ASSUME NEW s \in Seq(Toplevels), IsInjective(s), NEW p \in Toplevels, p \notin Range(s)
    PROVE  /\ Append(s, p) \in Seq(Toplevels)
           /\ IsInjective(Append(s, p))
           /\ Range(Append(s, p)) = Range(s) \cup {p}
BY DEF IsInjective, Range

\* `focus_app` finds a window of the layouts, and finds one if any of them matches.
LEMMA FoundLemma ==
    ASSUME NEW matched, order \in Seq(Toplevels)
    PROVE  /\ Found(matched) \in Range(order) \cup {None}
           /\ \A w \in Range(order) :
                window[w].named /\ window[w].name \in matched => Found(matched) \in Range(order)
<1> DEFINE Hit(w) == window[w].named /\ window[w].name \in matched
           hits == {i \in 1..Len(order) : Hit(order[i])}
           first == SelectInSeq(order, LAMBDA w : window[w].named /\ window[w].name \in matched)
<1>1. first = IF hits # {} THEN Min(hits) ELSE 0
  BY DEF SelectInSeq
<1>2. hits # {} => first \in hits /\ first # 0
  <2> SUFFICES ASSUME hits # {} PROVE first \in hits
    OBVIOUS
  <2>1. hits \in SUBSET Nat
    OBVIOUS
  <2> HIDE DEF hits
  <2>3. \E m \in hits : \A k \in hits : m <= k
    BY <2>1, LeastIndex
  <2>2. Min(hits) \in hits
    BY <2>3 DEF Min
  <2> QED BY <1>1, <2>2
<1>3. Found(matched) = IF first = 0 THEN None ELSE order[first]
  BY DEF Found
<1> HIDE DEF first
<1>4. \A i \in 1..Len(order) : order[i] \in Range(order)
  BY DEF Range
<1>5. Found(matched) \in Range(order) \cup {None}
  BY <1>1, <1>2, <1>3, <1>4
<1>6. ASSUME NEW w \in Range(order), Hit(w)
      PROVE  Found(matched) \in Range(order)
  <2>1. PICK i \in 1..Len(order) : order[i] = w
    BY DEF Range
  <2>2. hits # {}
    BY <1>6, <2>1
  <2> QED BY <1>2, <1>3, <1>4, <2>2
<1> QED BY <1>5, <1>6

\* What is focused is a window of the layouts.
LEMMA TargetLemma ==
    ASSUME NEW c, NEW hint, NEW card, order \in Seq(Toplevels)
    PROVE  Target(c, hint, card) \in Range(order) \cup {None}
<1>1. \A matched : Found(matched) \in Range(order) \cup {None}
  BY FoundLemma
<1> QED BY <1>1 DEF Target, Mapped

----------------------------------------------------------------------------
(* The invariant.  That a window has its own group says nothing about the   *)
(* launch that is under way: as long as none has crossed another, the       *)
(* process which has yet to show a window is the one that was noted, and    *)
(* nothing is noted when there is none.                                     *)

OneLaunch ==
    ~crossed => \A p \in Outstanding : pending # NoLaunch /\ pending.group = p

NotedLaunch ==
    ~crossed /\ pending # NoLaunch => pending.group \in Outstanding

Shown == \A w \in Toplevels : window[w] # Closed => process[window[w].process].shown

LaunchInv == TypeOK /\ IsInjective(order) /\ Shown /\ OneLaunch /\ NotedLaunch /\ OwnGroup

\* What is free or closed.
LEMMA NothingThere ==
    /\ ~Free.launched /\ ~Free.shown /\ Free.key = None
    /\ Closed.process = None
    /\ Free \notin Process /\ Closed \notin Window
    /\ None \notin Processes /\ NoLaunch \notin Launches
<1>1. None \notin Processes \cup Applications /\ "no launch" \notin Processes \cup {None}
  BY LaunchAssumption DEF Names
<1>2. Free \notin Process /\ Closed \notin Window
  <2>1. \A x \in Process : x.application \in Applications
    BY DEF Process
  <2>2. \A x \in Window : x.process \in Processes
    BY DEF Window
  <2>3. Free.application = None /\ Closed.process = None
    BY DEF Free, Closed
  <2> QED BY <1>1, <2>1, <2>2, <2>3
<1>3. NoLaunch \notin Launches
  <2>1. \A x \in Launches : x.group \in Processes \cup {None}
    BY DEF Launches
  <2>2. NoLaunch.group = "no launch"
    BY DEF NoLaunch
  <2> QED BY <1>1, <2>1, <2>2
<1> QED BY <1>1, <1>2, <1>3 DEF Free, Closed

\* An open window is a window of a process, and the other way round.
LEMMA OpenIsWindow ==
    ASSUME TypeOK, NEW w \in Toplevels
    PROVE  window[w] # Closed <=> window[w] \in Window
BY NothingThere DEF TypeOK

----------------------------------------------------------------------------
(* The steps. *)

\* A session that starts, whatever the file has.
SessionStarts ==
    /\ process = SessionProcesses /\ window = SessionWindows
    /\ order = <<HomeWindow>> /\ focused = HomeWindow
    /\ pending = NoLaunch /\ crossed = FALSE /\ unsaved \in BOOLEAN
    /\ names \in [Keys \cup Cards -> Names \cup {None}]
    /\ saved \in [Keys \cup Cards -> Names \cup {None}]

LEMMA SessionInv == SessionStarts => LaunchInv
<1> SUFFICES ASSUME SessionStarts PROVE LaunchInv
  OBVIOUS
<1> USE DEF SessionStarts
<1> DEFINE homeProcess == [Free EXCEPT !.application = HomeApplication, !.shown = TRUE]
           homeWindow == [process |-> Home, first |-> TRUE, name |-> HomeApplication,
                          named |-> TRUE, group |-> None]
<1>1. homeProcess \in Process /\ ~homeProcess.launched /\ homeProcess.shown
  BY LaunchAssumption DEF Process, Free
<1>2. homeWindow \in Window /\ homeWindow.process = Home /\ homeWindow.group = None
  BY LaunchAssumption DEF Window
<1>3. process = [p \in Processes |-> IF p = Home THEN homeProcess ELSE Free]
  BY DEF SessionProcesses
<1>4. window = [w \in Toplevels |-> IF w = HomeWindow THEN homeWindow ELSE Closed]
  BY DEF SessionWindows
<1> HIDE DEF homeProcess, homeWindow
<1>5. order \in Seq(Toplevels) /\ Range(order) = {HomeWindow} /\ IsInjective(order)
  <2>1. HomeWindow \in Toplevels
    BY LaunchAssumption
  <2>2. <<HomeWindow>> \in Seq(Toplevels)
    BY <2>1
  <2>3. DOMAIN <<HomeWindow>> = {1} /\ <<HomeWindow>>[1] = HomeWindow
    OBVIOUS
  <2> QED BY <2>2, <2>3 DEF Range, IsInjective
<1>6. Range(order) = {w \in Toplevels : window[w] # Closed}
  BY <1>2, <1>4, <1>5, NothingThere, LaunchAssumption
<1>7. TypeOK
  <2>1. process \in [Processes -> Process \cup {Free}]
    BY <1>1, <1>3
  <2>2. window \in [Toplevels -> Window \cup {Closed}]
    BY <1>2, <1>4
  <2>3. focused \in Range(order) \cup {None} /\ pending \in Launches \cup {NoLaunch}
    BY <1>5
  <2> QED BY <1>5, <1>6, <2>1, <2>2, <2>3 DEF TypeOK
<1>8. Outstanding = {}
  BY <1>1, <1>3, NothingThere DEF Outstanding
<1>9. \A w \in Toplevels : window[w] # Closed => window[w] = homeWindow
  BY <1>4
<1>10. process[Home] = homeProcess
  BY <1>3, LaunchAssumption
<1>11. Shown /\ OwnGroup
  BY <1>1, <1>2, <1>9, <1>10 DEF Shown, OwnGroup
<1> QED BY <1>5, <1>7, <1>8, <1>11 DEF LaunchInv, OneLaunch, NotedLaunch

LEMMA InitLaunchInv == Init => LaunchInv
BY SessionInv, LaunchAssumption DEF Init, SessionStarts

LEMMA StartKeeps ==
    ASSUME StartSession,
           names' \in [Keys \cup Cards -> Names \cup {None}],
           saved' \in [Keys \cup Cards -> Names \cup {None}]
    PROVE  LaunchInv'
<1>1. (SessionStarts => LaunchInv)'
  BY SessionInv, PTL
<1>2. SessionStarts'
  BY DEF StartSession, SessionStarts
<1> QED BY <1>1, <1>2

LEMMA LaunchKeeps ==
    ASSUME LaunchInv, NEW c \in Commands, NEW key \in Keys \cup {None},
           NEW card \in Cards \cup {None}, LaunchOf(c, key, card)
    PROVE  LaunchInv'
<1> DEFINE new == [application |-> ApplicationOf[c], launched |-> TRUE, key |-> key,
                   shown |-> FALSE]
<1>1. ASSUME NEW p \in Processes,
             process[p] = Free,
             process' = [process EXCEPT ![p] = new],
             pending' = [key |-> key, card |-> card, group |-> p],
             crossed' = (crossed \/ Outstanding # {})
      PROVE  LaunchInv'
  <2>1. new \in Process /\ new.launched /\ ~new.shown
    BY LaunchAssumption DEF Process
  <2> HIDE DEF new
  <2>2. process'[p] = new /\ \A q \in Processes \ {p} : process'[q] = process[q]
    BY <1>1 DEF LaunchInv, TypeOK
  <2>3. pending' \in Launches /\ pending'.group = p
    BY <1>1 DEF Launches
  <2>4. UNCHANGED <<window, order, focused, names, saved, unsaved>>
    BY DEF LaunchOf
  <2>5. TypeOK'
    BY <1>1, <2>1, <2>3, <2>4 DEF LaunchInv, TypeOK
  <2>6. Outstanding' = Outstanding \cup {p}
    BY <2>1, <2>2, NothingThere, <1>1 DEF Outstanding
  <2>7. OneLaunch' /\ NotedLaunch'
    BY <1>1, <2>3, <2>6, NothingThere DEF OneLaunch, NotedLaunch
  <2>8. ASSUME NEW w \in Toplevels, window[w] # Closed
        PROVE  window[w].process \in Processes \ {p}
    BY <1>1, <2>8, NothingThere, OpenIsWindow DEF LaunchInv, Shown, Window
  <2>9. \A w \in Toplevels : window[w] # Closed =>
          process'[window[w].process] = process[window[w].process]
    BY <2>2, <2>8
  <2>10. Shown'
    BY <2>4, <2>9 DEF LaunchInv, Shown
  <2>11. OwnGroup'
    BY <1>1, <2>4, <2>9 DEF LaunchInv, OwnGroup
  <2> QED BY <2>4, <2>5, <2>7, <2>10, <2>11 DEF LaunchInv
<1>2. CASE /\ pending' = [key |-> key, card |-> card, group |-> None]
           /\ crossed' = TRUE
           /\ UNCHANGED process
  <2>1. pending' \in Launches
    BY <1>2 DEF Launches
  <2>2. UNCHANGED <<window, order, focused, names, saved, unsaved>>
    BY DEF LaunchOf
  <2>3. TypeOK'
    BY <1>2, <2>1, <2>2 DEF LaunchInv, TypeOK
  <2> QED BY <1>2, <2>2, <2>3 DEF LaunchInv, Shown, OneLaunch, NotedLaunch, OwnGroup
<1> QED BY <1>1, <1>2 DEF LaunchOf

\* A window that is added: the first one of p, which then was outstanding if it was
\* launched, or a further one.
LEMMA WindowKeeps ==
    ASSUME LaunchInv, NEW w \in Toplevels, NEW p \in Processes, NEW name \in Applications,
           NEW first \in BOOLEAN, AddWindow(w, p, name, first),
           process' \in [Processes -> Process \cup {Free}],
           \A q \in Processes \ {p} : process'[q] = process[q],
           process'[p].shown,
           process[p].shown => process'[p].launched = process[p].launched,
           (first /\ process'[p].launched) <=> p \in Outstanding
    PROVE  LaunchInv'
<1> DEFINE group == IF pending = NoLaunch THEN None ELSE pending.group
           hasClass == name \in X11Applications
           new == [process |-> p, first |-> first, name |-> name, named |-> hasClass,
                   group |-> group]
           taken == IF hasClass THEN name ELSE Nameless
<1>1. /\ window[w] = Closed
      /\ window' = [window EXCEPT ![w] = new]
      /\ order' = Append(order, w) /\ focused' = w
      /\ TakeLaunch(taken)
      /\ crossed' = (crossed \/ Outstanding \ {p} # {})
  BY DEF AddWindow
<1>2. group \in Processes \cup {None}
  BY DEF LaunchInv, TypeOK, Launches
<1>3. taken \in Names /\ hasClass \in BOOLEAN
  BY DEF Names
<1> HIDE DEF group, taken, hasClass
<1>4. new \in Window /\ new.process = p /\ new.first = first /\ new.group = group
  BY <1>2, <1>3 DEF Window
<1> HIDE DEF new
<1>5. window'[w] = new /\ \A v \in Toplevels \ {w} : window'[v] = window[v]
  BY <1>1 DEF LaunchInv, TypeOK
<1>6. /\ order' \in Seq(Toplevels) /\ IsInjective(order')
      /\ Range(order') = Range(order) \cup {w}
  <2>1. w \notin Range(order)
    BY <1>1 DEF LaunchInv, TypeOK
  <2> QED BY <1>1, <2>1, AppendLemma DEF LaunchInv, TypeOK
<1>7. Range(order') = {v \in Toplevels : window'[v] # Closed}
  BY <1>4, <1>5, <1>6, NothingThere DEF LaunchInv, TypeOK
<1>8. /\ pending' = NoLaunch
      /\ names' \in [Keys \cup Cards -> Names \cup {None}]
      /\ saved' \in [Keys \cup Cards -> Names \cup {None}]
      /\ unsaved' \in BOOLEAN
  <2> DEFINE learned == [k \in Keys \cup Cards |->
                           IF k \in {pending.key, pending.card} THEN taken ELSE names[k]]
  <2>1. learned \in [Keys \cup Cards -> Names \cup {None}]
    BY <1>3 DEF LaunchInv, TypeOK
  <2>2. pending = NoLaunch \/ names' = learned
    BY <1>1 DEF TakeLaunch
  <2> HIDE DEF learned
  <2> QED BY <1>1, <2>1, <2>2 DEF TakeLaunch, LaunchInv, TypeOK, Unlearned
<1>9. TypeOK'
  <2>1. window' \in [Toplevels -> Window \cup {Closed}]
    BY <1>1, <1>4 DEF LaunchInv, TypeOK
  <2>2. focused' \in Range(order') \cup {None} /\ crossed' \in BOOLEAN
    BY <1>1, <1>6 DEF LaunchInv, TypeOK
  <2> QED BY <1>6, <1>7, <1>8, <2>1, <2>2 DEF TypeOK
<1>10. Outstanding' = Outstanding \ {p}
  BY DEF Outstanding
<1>11. ASSUME ~crossed' PROVE ~crossed /\ Outstanding \subseteq {p}
  BY <1>1, <1>11
<1>12. OneLaunch' /\ NotedLaunch'
  BY <1>8, <1>10, <1>11 DEF OneLaunch, NotedLaunch
<1>13. Shown'
  <2> SUFFICES ASSUME NEW v \in Toplevels, window'[v] # Closed
               PROVE  process'[window'[v].process].shown
    BY DEF Shown
  <2>1. CASE v = w
    BY <1>4, <1>5, <2>1
  <2>2. CASE v # w
    <3>1. window'[v] = window[v] /\ window[v].process \in Processes
      BY <1>5, <2>2, OpenIsWindow DEF LaunchInv, Window
    <3> QED BY <3>1 DEF LaunchInv, Shown
  <2> QED BY <2>1, <2>2
<1>14. ASSUME ~crossed' PROVE group = IF first /\ process'[p].launched THEN p ELSE None
  <2>1. CASE p \in Outstanding
    BY <1>11, <1>14, <2>1 DEF LaunchInv, OneLaunch, group
  <2>2. CASE p \notin Outstanding
    <3>1. Outstanding = {}
      BY <1>11, <1>14, <2>2
    <3>2. pending = NoLaunch
      BY <1>11, <1>14, <3>1 DEF LaunchInv, NotedLaunch
    <3> QED BY <2>2, <3>2 DEF group
  <2> QED BY <2>1, <2>2
<1>15. OwnGroup'
  <2> SUFFICES ASSUME ~crossed', NEW v \in Toplevels, window'[v] # Closed
               PROVE  window'[v].group =
                        IF window'[v].first /\ process'[window'[v].process].launched
                        THEN window'[v].process ELSE None
    BY DEF OwnGroup
  <2>1. CASE v = w
    BY <1>4, <1>5, <1>14, <2>1
  <2>2. CASE v # w
    <3>1. window'[v] = window[v] /\ window[v].process \in Processes
      BY <1>5, <2>2, OpenIsWindow DEF LaunchInv, Window
    <3>2. process'[window[v].process].launched = process[window[v].process].launched
      BY <3>1 DEF LaunchInv, Shown
    <3> QED BY <1>11, <3>1, <3>2 DEF LaunchInv, OwnGroup
  <2> QED BY <2>1, <2>2
<1> QED BY <1>6, <1>9, <1>12, <1>13, <1>15 DEF LaunchInv

\* The three ways in which a window is added.
LEMMA AddedKeeps ==
    ASSUME LaunchInv, NEW w \in Toplevels, NEW p \in Processes, NEW name \in Applications,
           Show(w, p) \/ ShowAnother(w, p, name) \/ ShowForeign(w, p, name)
    PROVE  LaunchInv'
<1>1. CASE Show(w, p)
  <2>1. process[p] \in Process /\ process[p].launched /\ ~process[p].shown /\ p \in Outstanding
    BY <1>1, NothingThere DEF Show, Outstanding, LaunchInv, TypeOK
  <2>2. process' = [process EXCEPT ![p].shown = TRUE]
    BY <1>1 DEF Show
  <2>3. /\ process'[p] = [process[p] EXCEPT !.shown = TRUE]
        /\ \A q \in Processes \ {p} : process'[q] = process[q]
    BY <2>2 DEF LaunchInv, TypeOK
  <2>4. process'[p] \in Process /\ process'[p].shown /\ process'[p].launched
    BY <2>1, <2>3 DEF Process
  <2>5. process' \in [Processes -> Process \cup {Free}]
    BY <2>2, <2>3, <2>4 DEF LaunchInv, TypeOK
  <2>6. process[p].application \in Applications
    BY <2>1 DEF Process
  <2>7. AddWindow(w, p, process[p].application, TRUE)
    BY <1>1 DEF Show
  <2> QED BY <2>1, <2>3, <2>4, <2>5, <2>6, <2>7, WindowKeeps
<1>2. CASE ShowAnother(w, p, name)
  <2>1. AddWindow(w, p, name, FALSE) /\ process' = process /\ process[p].shown
    BY <1>2 DEF ShowAnother
  <2>2. p \notin Outstanding /\ process' \in [Processes -> Process \cup {Free}]
    BY <2>1 DEF Outstanding, LaunchInv, TypeOK
  <2> QED BY <2>1, <2>2, WindowKeeps
<1>3. CASE ShowForeign(w, p, name)
  <2> DEFINE new == [application |-> name, launched |-> FALSE, key |-> None, shown |-> TRUE]
  <2>1. /\ AddWindow(w, p, name, TRUE) /\ process' = [process EXCEPT ![p] = new]
        /\ process[p] = Free
    BY <1>3 DEF ShowForeign
  <2>2. new \in Process /\ ~new.launched /\ new.shown
    BY DEF Process
  <2> HIDE DEF new
  <2>3. process'[p] = new /\ \A q \in Processes \ {p} : process'[q] = process[q]
    BY <2>1 DEF LaunchInv, TypeOK
  <2>4. process' \in [Processes -> Process \cup {Free}]
    BY <2>1, <2>2 DEF LaunchInv, TypeOK
  <2>5. p \notin Outstanding /\ ~process[p].shown
    BY <2>1, NothingThere DEF Outstanding
  <2> QED BY <2>1, <2>2, <2>3, <2>4, <2>5, WindowKeeps
<1> QED BY <1>1, <1>2, <1>3

LEMMA SetAppIdKeeps ==
    ASSUME LaunchInv, NEW w \in Toplevels, SetAppId(w)
    PROVE  LaunchInv'
<1>1. /\ window[w] # Closed
      /\ window' = [window EXCEPT ![w].named = TRUE]
      /\ UNCHANGED <<process, order, focused, pending, names, saved, crossed, unsaved>>
  BY DEF SetAppId
<1>2. window[w] \in Window
  BY <1>1, OpenIsWindow DEF LaunchInv
<1>3. /\ window'[w] = [window[w] EXCEPT !.named = TRUE]
      /\ \A v \in Toplevels \ {w} : window'[v] = window[v]
  BY <1>1 DEF LaunchInv, TypeOK
<1>4. /\ window'[w] \in Window
      /\ window'[w].process = window[w].process /\ window'[w].first = window[w].first
      /\ window'[w].group = window[w].group
  BY <1>2, <1>3 DEF Window
<1>5. \A v \in Toplevels : window'[v] # Closed <=> window[v] # Closed
  BY <1>1, <1>3, <1>4, NothingThere
<1>6. TypeOK'
  <2>1. window' \in [Toplevels -> Window \cup {Closed}]
    BY <1>1, <1>3, <1>4 DEF LaunchInv, TypeOK
  <2> QED BY <1>1, <1>5, <2>1 DEF LaunchInv, TypeOK
<1>7. Outstanding' = Outstanding
  BY <1>1 DEF Outstanding
<1>8. OneLaunch' /\ NotedLaunch'
  BY <1>1, <1>7 DEF LaunchInv, OneLaunch, NotedLaunch
<1>9. Shown' /\ OwnGroup'
  BY <1>1, <1>3, <1>4, <1>5 DEF LaunchInv, Shown, OwnGroup
<1> QED BY <1>1, <1>6, <1>8, <1>9 DEF LaunchInv

LEMMA CloseKeeps ==
    ASSUME LaunchInv, NEW w \in Toplevels, CloseWindow(w)
    PROVE  LaunchInv'
<1>1. /\ window' = [window EXCEPT ![w] = Closed]
      /\ order' = RemoveFirst(order, w)
      /\ focused' \in IF focused = w THEN {None} \cup Range(order') ELSE {focused}
      /\ UNCHANGED <<process, pending, names, saved, crossed, unsaved>>
  BY DEF CloseWindow
<1>2. window'[w] = Closed /\ \A v \in Toplevels \ {w} : window'[v] = window[v]
  BY <1>1 DEF LaunchInv, TypeOK
<1>3. /\ order' \in Seq(Toplevels) /\ IsInjective(order')
      /\ Range(order') = Range(order) \ {w}
  BY <1>1, RemoveFirstLemma DEF LaunchInv, TypeOK
<1>4. TypeOK'
  <2>1. window' \in [Toplevels -> Window \cup {Closed}]
    BY <1>1 DEF LaunchInv, TypeOK
  <2>2. Range(order') = {v \in Toplevels : window'[v] # Closed}
    BY <1>2, <1>3 DEF LaunchInv, TypeOK
  <2>3. focused' \in Range(order') \cup {None}
    BY <1>1, <1>3 DEF LaunchInv, TypeOK
  <2> QED BY <1>1, <1>3, <2>1, <2>2, <2>3 DEF LaunchInv, TypeOK
<1>5. Outstanding' = Outstanding
  BY <1>1 DEF Outstanding
<1>6. OneLaunch' /\ NotedLaunch'
  BY <1>1, <1>5 DEF LaunchInv, OneLaunch, NotedLaunch
<1>7. Shown' /\ OwnGroup'
  BY <1>1, <1>2 DEF LaunchInv, Shown, OwnGroup
<1> QED BY <1>3, <1>4, <1>6, <1>7 DEF LaunchInv

\* A process that exits before its first window was added leaves its launch noted,
\* and is one of those that cross.
LEMMA ExitKeeps ==
    ASSUME LaunchInv, NEW p \in Processes, Exit(p)
    PROVE  LaunchInv'
<1>1. /\ process' = [process EXCEPT ![p] = Free]
      /\ \A w \in Toplevels : window[w].process # p
      /\ crossed' = (crossed \/ p \in Outstanding)
      /\ UNCHANGED <<window, order, focused, pending, names, saved, unsaved>>
  BY DEF Exit
<1>2. process'[p] = Free /\ \A q \in Processes \ {p} : process'[q] = process[q]
  BY <1>1 DEF LaunchInv, TypeOK
<1>3. TypeOK'
  BY <1>1 DEF LaunchInv, TypeOK
<1>4. Outstanding' = Outstanding \ {p}
  BY <1>2, NothingThere DEF Outstanding
<1>5. OneLaunch' /\ NotedLaunch'
  BY <1>1, <1>4 DEF LaunchInv, OneLaunch, NotedLaunch
<1>6. \A w \in Toplevels : window[w] # Closed => window[w].process \in Processes \ {p}
  BY <1>1, OpenIsWindow DEF LaunchInv, Window
<1>7. \A w \in Toplevels : window[w] # Closed =>
        process'[window[w].process] = process[window[w].process]
  BY <1>2, <1>6
<1>8. Shown'
  BY <1>1, <1>7 DEF LaunchInv, Shown
<1>9. OwnGroup'
  BY <1>1, <1>7 DEF LaunchInv, OwnGroup
<1> QED BY <1>1, <1>3, <1>5, <1>8, <1>9 DEF LaunchInv

\* Focusing goes to a window of the layouts.
LEMMA FocusKeeps ==
    ASSUME LaunchInv, focused' \in Range(order) \cup {None},
           UNCHANGED <<process, window, order, pending, names, saved, crossed, unsaved>>
    PROVE  LaunchInv'
BY DEF LaunchInv, TypeOK, Shown, OneLaunch, NotedLaunch, OwnGroup, Outstanding

LEMMA NextLaunchInv == LaunchInv /\ [Next]_vars => LaunchInv'
<1> SUFFICES ASSUME LaunchInv, [Next]_vars PROVE LaunchInv'
  OBVIOUS
<1>0. order \in Seq(Toplevels)
  BY DEF LaunchInv, TypeOK
<1>1. ASSUME NEW c \in Commands, NEW hint \in Hints,
             NEW card \in Cards \cup {None}, ExecOrFocus(c, hint, card)
      PROVE  LaunchInv'
  <2>1. KeyOf[c] \in Keys \cup {None}
    BY LaunchAssumption
  <2>2. Target(c, hint, card) \in Range(order) \cup {None}
    BY <1>0, TargetLemma
  <2> QED BY <1>1, <2>1, <2>2, LaunchKeeps, FocusKeeps DEF ExecOrFocus
<1>2. ASSUME NEW c \in Commands, Exec(c)
      PROVE  LaunchInv'
  BY <1>2, LaunchKeeps DEF Exec
<1>3. ASSUME NEW w \in Toplevels, NEW p \in Processes, Show(w, p)
      PROVE  LaunchInv'
  BY <1>3, AddedKeeps, LaunchAssumption
<1>4. ASSUME NEW w \in Toplevels, NEW p \in Processes, NEW a \in Applications,
             ShowAnother(w, p, a) \/ ShowForeign(w, p, a)
      PROVE  LaunchInv'
  BY <1>4, AddedKeeps
<1>5. ASSUME NEW w \in Toplevels, SetAppId(w) \/ CloseWindow(w)
      PROVE  LaunchInv'
  BY <1>5, SetAppIdKeeps, CloseKeeps
<1>6. CASE FocusHome
  <2>1. Found({HomeApplication}) \in Range(order) \cup {None}
    BY <1>0, FoundLemma
  <2> QED BY <1>6, <2>1, FocusKeeps DEF FocusHome
<1>7. ASSUME NEW p \in Processes, Exit(p)
      PROVE  LaunchInv'
  BY <1>7, ExitKeeps
<1>8. CASE Restart \/ CrashWhileSaving
  BY <1>8, StartKeeps DEF Restart, CrashWhileSaving, LaunchInv, TypeOK, Unlearned
<1>9. CASE UNCHANGED vars
  <2>1. focused' \in Range(order) \cup {None}
    BY <1>9 DEF vars, LaunchInv, TypeOK
  <2> QED BY <1>9, <2>1, FocusKeeps DEF vars
<1> QED
  BY <1>1, <1>2, <1>3, <1>4, <1>5, <1>6, <1>7, <1>8, <1>9 DEF Next

----------------------------------------------------------------------------
(* The theorems. *)

\* The layouts have the windows that are open, each once, one of them, if any, is
\* focused, and what is learned are names.
THEOREM LaunchTypeCorrect == Spec => []TypeOK
<1>1. Spec => []LaunchInv
  BY InitLaunchInv, NextLaunchInv, PTL DEF Spec
<1>2. LaunchInv => TypeOK
  BY DEF LaunchInv
<1> QED BY <1>1, <1>2, PTL

\* As long as launches come one at a time, note_launch, update_pending_pgid and
\* `add` give the first window of a launched process the group of that process, and
\* every other window, further windows of that process among them, no group.
THEOREM GroupsAreOwn == Spec => []OwnGroup
<1>1. Spec => []LaunchInv
  BY InitLaunchInv, NextLaunchInv, PTL DEF Spec
<1>2. LaunchInv => OwnGroup
  BY DEF LaunchInv
<1> QED BY <1>1, <1>2, PTL

----------------------------------------------------------------------------
(* What the file has.                                                       *)

\* The file has what was learned, or could not be written.
Written == saved = names \/ unsaved

LEMMA WrittenKeeps == Written /\ [Next]_vars => Written'
<1> SUFFICES ASSUME Written, [Next]_vars PROVE Written'
  OBVIOUS
<1>1. ASSUME NEW w \in Toplevels, NEW p \in Processes, NEW name, NEW first,
             AddWindow(w, p, name, first)
      PROVE  Written'
  BY <1>1 DEF AddWindow, TakeLaunch, Written
<1>2. ASSUME NEW w \in Toplevels, NEW p \in Processes, NEW a,
             Show(w, p) \/ ShowAnother(w, p, a) \/ ShowForeign(w, p, a)
      PROVE  Written'
  BY <1>1, <1>2 DEF Show, ShowAnother, ShowForeign
<1>3. CASE Restart \/ CrashWhileSaving
  BY <1>3 DEF Restart, CrashWhileSaving, Written
<1>4. CASE UNCHANGED <<names, saved, unsaved>>
  BY <1>4 DEF Written
<1>5. ASSUME NEW c, NEW key, NEW card, LaunchOf(c, key, card)
      PROVE  Written'
  BY <1>4, <1>5 DEF LaunchOf
<1>6. ASSUME NEW c, NEW hint, NEW card, ExecOrFocus(c, hint, card) \/ Exec(c)
      PROVE  Written'
  BY <1>4, <1>5, <1>6 DEF ExecOrFocus, Exec
<1>7. ASSUME NEW w, SetAppId(w) \/ CloseWindow(w)
      PROVE  Written'
  BY <1>4, <1>7 DEF SetAppId, CloseWindow
<1>8. ASSUME NEW p, Exit(p)
      PROVE  Written'
  BY <1>4, <1>8 DEF Exit
<1>9. CASE FocusHome \/ UNCHANGED vars
  BY <1>4, <1>9 DEF FocusHome, vars
<1> QED
  BY <1>2, <1>3, <1>6, <1>7, <1>8, <1>9 DEF Next

\* What was learned for a command changes with a window that takes its launch and
\* at no other time, a restart included, unless the file could not be written or
\* the compositor ended while it was.
THEOREM NothingForgotten == Spec => NamesSurvive
<1> DEFINE Torn == pending # NoLaunch /\ saved' = Unlearned
           Taken ==
             /\ pending # NoLaunch /\ pending' = NoLaunch
             /\ \E w \in Toplevels : window[w] = Closed /\ window'[w] # Closed
<1>1. ASSUME LaunchInv, Written, Next, names' # names, ~unsaved, ~Torn
      PROVE  Taken
  <2>1. ASSUME NEW w \in Toplevels, NEW p \in Processes, NEW name, NEW first,
               AddWindow(w, p, name, first)
        PROVE  Taken
    <3>1. pending # NoLaunch /\ pending' = NoLaunch
      BY <1>1, <2>1 DEF AddWindow, TakeLaunch
    <3>2. window[w] = Closed /\ window'[w].process = p
      BY <1>1, <2>1 DEF AddWindow, LaunchInv, TypeOK
    <3>3. window'[w] # Closed
      BY <3>2, NothingThere
    <3> QED BY <3>1, <3>2, <3>3
  <2> HIDE DEF Taken
  <2>2. ASSUME NEW w \in Toplevels, NEW p \in Processes, NEW a \in Applications,
               Show(w, p) \/ ShowAnother(w, p, a) \/ ShowForeign(w, p, a)
        PROVE  Taken
    BY <2>1, <2>2 DEF Show, ShowAnother, ShowForeign
  <2>3. ~Restart /\ ~CrashWhileSaving
    BY <1>1 DEF Restart, CrashWhileSaving, Written
  <2>4. ASSUME NEW c \in Commands, NEW hint, NEW card
        PROVE  ~ExecOrFocus(c, hint, card) /\ ~Exec(c)
    BY <1>1 DEF ExecOrFocus, Exec, LaunchOf
  <2>5. ASSUME NEW w \in Toplevels PROVE ~SetAppId(w) /\ ~CloseWindow(w)
    BY <1>1 DEF SetAppId, CloseWindow
  <2>6. ASSUME NEW p \in Processes PROVE ~Exit(p)
    BY <1>1 DEF Exit
  <2>7. ~FocusHome
    BY <1>1 DEF FocusHome
  <2>8. ASSUME NEW w \in Toplevels, NEW p \in Processes, Show(w, p)
        PROVE  Taken
    BY <2>2, <2>8, LaunchAssumption
  <2> QED BY <1>1, <2>2, <2>3, <2>4, <2>5, <2>6, <2>7, <2>8 DEF Next
<1> HIDE DEF Taken, Torn
<1>2. Init => LaunchInv /\ Written
  BY InitLaunchInv DEF Init, Written
<1>3. LaunchInv /\ Written /\ [Next]_vars => (LaunchInv /\ Written)'
  BY NextLaunchInv, WrittenKeeps
<1>4. LaunchInv /\ Written /\ [Next]_vars
        => [names' # names => unsaved \/ Torn \/ Taken]_vars
  BY <1>1
<1> QED BY <1>2, <1>3, <1>4, PTL DEF Spec, NamesSurvive, Taken, Torn

----------------------------------------------------------------------------
(* What is learned.  No program is started twice as long as the names of    *)
(* X11 windows are learned for the keys of their launches; that a window    *)
(* learns its own key, and overwrites only what is learned from a program   *)
(* of the same name, takes the invariant of the launch that is under way    *)
(* and that keys are those of the commands programs were launched with.     *)

X11Named ==
    \A w \in Toplevels : window[w].name \in X11Applications => window[w].named

\* p runs the application of a command with this key.
RunsFor(p, key) ==
    \E c \in Commands : KeyOf[c] = key /\ process[p].application = ApplicationOf[c]

KeysOfCommands ==
    \A p \in Processes : process[p].key # None => process[p].launched /\ RunsFor(p, process[p].key)

KeyOfLaunch ==
    ~crossed /\ pending # NoLaunch => process[pending.group].key = pending.key

\* What is to be learned from p for its key.
LearnedFrom(p, key) ==
    /\ process[p].shown
    /\ process[p].key = key
    /\ process[p].application \in X11Applications
    /\ OneApplication(key)

Learned ==
    ~crossed => \A key \in Keys, p \in Processes :
                  LearnedFrom(p, key) => names[key] = process[p].application

LearnInv == LaunchInv /\ X11Named /\ KeysOfCommands /\ KeyOfLaunch /\ Learned

LEMMA SessionLearns == SessionStarts => LearnInv
<1> SUFFICES ASSUME SessionStarts PROVE LearnInv
  OBVIOUS
<1>1. \A p \in Processes : process[p].key = None
  BY DEF SessionStarts, SessionProcesses, Free
<1>2. None \notin Keys /\ None \notin Applications
  BY LaunchAssumption DEF Names
<1>3. X11Named
  <2> DEFINE homeWindow == [process |-> Home, first |-> TRUE, name |-> HomeApplication,
                            named |-> TRUE, group |-> None]
  <2>1. \A w \in Toplevels : window[w] = Closed \/ window[w] = homeWindow
    BY DEF SessionStarts, SessionWindows
  <2>2. homeWindow.named /\ Closed.name = None
    BY DEF Closed
  <2>3. None \notin X11Applications
    BY <1>2, LaunchAssumption
  <2> HIDE DEF homeWindow
  <2> QED BY <2>1, <2>2, <2>3 DEF X11Named
<1>4. KeysOfCommands /\ Learned
  BY <1>1, <1>2 DEF KeysOfCommands, Learned, LearnedFrom
<1>5. KeyOfLaunch
  BY DEF KeyOfLaunch, SessionStarts
<1> QED BY <1>3, <1>4, <1>5, SessionInv DEF LearnInv

LEMMA InitLearnInv == Init => LearnInv
BY SessionLearns, LaunchAssumption DEF Init, SessionStarts

LEMMA StartLearns ==
    ASSUME StartSession,
           names' \in [Keys \cup Cards -> Names \cup {None}],
           saved' \in [Keys \cup Cards -> Names \cup {None}]
    PROVE  LearnInv'
<1>1. (SessionStarts => LearnInv)'
  BY SessionLearns, PTL
<1>2. SessionStarts'
  BY DEF StartSession, SessionStarts
<1> QED BY <1>1, <1>2

LEMMA LaunchLearns ==
    ASSUME LearnInv, NEW c \in Commands, NEW key \in {KeyOf[c], None},
           NEW card \in Cards \cup {None}, LaunchOf(c, key, card)
    PROVE  LearnInv'
<1> DEFINE new == [application |-> ApplicationOf[c], launched |-> TRUE, key |-> key,
                   shown |-> FALSE]
<1>1. LaunchInv'
  BY LaunchKeeps, LaunchAssumption DEF LearnInv
<1>2. UNCHANGED <<window, order, focused, names, saved, unsaved>>
  BY DEF LaunchOf
<1>3. X11Named'
  BY <1>2 DEF LearnInv, X11Named
<1>4. ASSUME NEW p \in Processes,
             process[p] = Free,
             process' = [process EXCEPT ![p] = new],
             pending' = [key |-> key, card |-> card, group |-> p],
             crossed' = (crossed \/ Outstanding # {})
      PROVE  LearnInv'
  <2>1. new.launched /\ new.key = key /\ new.application = ApplicationOf[c] /\ ~new.shown
    OBVIOUS
  <2> HIDE DEF new
  <2>2. process'[p] = new /\ \A q \in Processes \ {p} : process'[q] = process[q]
    BY <1>4 DEF LearnInv, LaunchInv, TypeOK
  <2>3. KeysOfCommands'
    BY <2>1, <2>2 DEF LearnInv, KeysOfCommands, RunsFor
  <2>4. KeyOfLaunch'
    BY <1>4, <2>1, <2>2 DEF KeyOfLaunch
  <2>5. \A q \in Processes : \A k \in Keys :
          LearnedFrom(q, k)' => LearnedFrom(q, k) /\ process'[q] = process[q]
    BY <2>1, <2>2 DEF LearnedFrom, OneApplication
  <2>6. Learned'
    <3> SUFFICES ASSUME ~crossed', NEW k \in Keys, NEW q \in Processes, LearnedFrom(q, k)'
                 PROVE  names'[k] = process'[q].application
      BY DEF Learned
    <3>1. ~crossed /\ LearnedFrom(q, k) /\ process'[q] = process[q]
      BY <1>4, <2>5
    <3> QED BY <1>2, <3>1 DEF LearnInv, Learned
  <2> QED BY <1>1, <1>3, <2>3, <2>4, <2>6 DEF LearnInv
<1>5. CASE crossed' /\ UNCHANGED process
  <2>1. KeysOfCommands'
    BY <1>5 DEF LearnInv, KeysOfCommands, RunsFor
  <2> QED BY <1>1, <1>3, <1>5, <2>1 DEF LearnInv, KeyOfLaunch, Learned
<1> QED BY <1>4, <1>5 DEF LaunchOf

\* A window that is added learns its name for its own key, unless launches crossed.
LEMMA WindowLearns ==
    ASSUME LearnInv, LaunchInv', NEW w \in Toplevels, NEW p \in Processes,
           NEW name \in Applications, NEW first, AddWindow(w, p, name, first),
           KeysOfCommands',
           \A q \in Processes \ {p} : process'[q] = process[q],
           \/ process' = process /\ p \notin Outstanding
           \/ process'[p].key = None /\ p \notin Outstanding
           \/ /\ p \in Outstanding /\ name = process[p].application
              /\ process'[p].key = process[p].key
              /\ process'[p].application = process[p].application
    PROVE  LearnInv'
<1> DEFINE hasClass == name \in X11Applications
           group == IF pending = NoLaunch THEN None ELSE pending.group
           new == [process |-> p, first |-> first, name |-> name, named |-> hasClass,
                   group |-> group]
           taken == IF hasClass THEN name ELSE Nameless
<1>1. /\ window' = [window EXCEPT ![w] = new]
      /\ TakeLaunch(taken)
      /\ crossed' = (crossed \/ Outstanding \ {p} # {})
  BY DEF AddWindow
<1>2. X11Named'
  <2>1. window'[w] = new /\ \A v \in Toplevels \ {w} : window'[v] = window[v]
    BY <1>1 DEF LearnInv, LaunchInv, TypeOK
  <2>2. new.name \in X11Applications => new.named
    OBVIOUS
  <2> HIDE DEF new
  <2> QED BY <2>1, <2>2 DEF LearnInv, X11Named
<1>3. pending' = NoLaunch
  BY <1>1 DEF TakeLaunch
<1>4. KeyOfLaunch'
  BY <1>3 DEF KeyOfLaunch
<1>5. ASSUME ~crossed'
      PROVE  /\ ~crossed
             /\ p \notin Outstanding => pending = NoLaunch
             /\ p \in Outstanding => pending # NoLaunch /\ pending.key = process[p].key
  BY <1>1, <1>5 DEF LearnInv, LaunchInv, OneLaunch, NotedLaunch, KeyOfLaunch
<1>6. Learned'
  <2> SUFFICES ASSUME ~crossed', NEW key \in Keys, NEW q \in Processes, LearnedFrom(q, key)'
               PROVE  names'[key] = process'[q].application
    BY DEF Learned
  <2>1. key # None /\ key \notin Cards /\ None \notin Cards
    BY LaunchAssumption
  <2>2. /\ process'[q].key = key /\ process'[q].application \in X11Applications
        /\ OneApplication(key)
    BY DEF LearnedFrom, OneApplication
  <2>3. CASE p \notin Outstanding
    <3>1. process'[q] = process[q]
      BY <2>1, <2>2, <2>3
    <3>2. LearnedFrom(q, key)
      BY <3>1 DEF LearnedFrom, OneApplication
    <3>3. names' = names
      BY <1>1, <1>5, <2>3 DEF TakeLaunch
    <3> QED BY <1>5, <3>1, <3>2, <3>3 DEF LearnInv, Learned
  <2>4. CASE p \in Outstanding
    <3>1. /\ pending # NoLaunch /\ pending \in Launches
          /\ pending.key = process[p].key /\ pending.card # key
      BY <1>5, <2>1, <2>4 DEF LearnInv, LaunchInv, TypeOK, Launches
    <3>2. names'[key] = IF key = pending.key THEN taken ELSE names[key]
      BY <1>1, <3>1 DEF TakeLaunch
    <3>3. CASE key = pending.key
      <4>1. process[p].key = key /\ RunsFor(p, key)
        BY <2>1, <3>1, <3>3 DEF LearnInv, KeysOfCommands
      <4>2. RunsFor(q, key)'
        BY <2>1, <2>2 DEF KeysOfCommands
      <4>3. process'[q].application = process[p].application
        BY <2>2, <4>1, <4>2 DEF RunsFor, OneApplication
      <4>4. name = process[p].application
        BY <2>4
      <4> QED BY <2>2, <3>2, <3>3, <4>3, <4>4
    <3>4. CASE key # pending.key
      <4>1. q # p
        BY <2>2, <2>4, <3>1, <3>4
      <4>2. process'[q] = process[q]
        BY <4>1
      <4>3. LearnedFrom(q, key)
        BY <4>2 DEF LearnedFrom, OneApplication
      <4> QED BY <1>5, <3>2, <3>4, <4>2, <4>3 DEF LearnInv, Learned
    <3> QED BY <3>3, <3>4
  <2> QED BY <2>3, <2>4
<1> QED BY <1>2, <1>4, <1>6 DEF LearnInv

LEMMA AddedLearns ==
    ASSUME LearnInv, NEW w \in Toplevels, NEW p \in Processes, NEW name \in Applications,
           Show(w, p) \/ ShowAnother(w, p, name) \/ ShowForeign(w, p, name)
    PROVE  LearnInv'
<1>0. LaunchInv'
  BY AddedKeeps DEF LearnInv
<1>1. CASE Show(w, p)
  <2>1. process[p] \in Process /\ p \in Outstanding
    BY <1>1, NothingThere DEF Show, Outstanding, LearnInv, LaunchInv, TypeOK
  <2>2. /\ process'[p] = [process[p] EXCEPT !.shown = TRUE]
        /\ \A q \in Processes \ {p} : process'[q] = process[q]
    BY <1>1 DEF Show, LearnInv, LaunchInv, TypeOK
  <2>3. /\ process'[p].key = process[p].key /\ process'[p].launched = process[p].launched
        /\ process'[p].application = process[p].application
        /\ process[p].application \in Applications
    BY <2>1, <2>2 DEF Process
  <2>4. KeysOfCommands'
    <3>1. \A q \in Processes : /\ process'[q].key = process[q].key
                              /\ process'[q].launched = process[q].launched
                              /\ process'[q].application = process[q].application
      BY <2>2, <2>3
    <3> QED BY <3>1 DEF LearnInv, KeysOfCommands, RunsFor
  <2>5. AddWindow(w, p, process[p].application, TRUE)
    BY <1>1 DEF Show
  <2> QED BY <1>0, <2>1, <2>2, <2>3, <2>4, <2>5, WindowLearns
<1>2. CASE ShowAnother(w, p, name)
  <2>1. AddWindow(w, p, name, FALSE) /\ process' = process /\ p \notin Outstanding
    BY <1>2 DEF ShowAnother, Outstanding
  <2>2. KeysOfCommands'
    BY <2>1 DEF LearnInv, KeysOfCommands, RunsFor
  <2> QED BY <1>0, <2>1, <2>2, WindowLearns
<1>3. CASE ShowForeign(w, p, name)
  <2>1. AddWindow(w, p, name, TRUE) /\ p \notin Outstanding
    BY <1>3, NothingThere DEF ShowForeign, Outstanding
  <2>2. /\ process'[p] = [application |-> name, launched |-> FALSE, key |-> None, shown |-> TRUE]
        /\ \A q \in Processes \ {p} : process'[q] = process[q]
    BY <1>3 DEF ShowForeign, LearnInv, LaunchInv, TypeOK
  <2>3. process'[p].key = None
    BY <2>2
  <2>4. KeysOfCommands'
    BY <2>2, <2>3 DEF LearnInv, KeysOfCommands, RunsFor
  <2> QED BY <1>0, <2>1, <2>2, <2>3, <2>4, WindowLearns
<1> QED BY <1>1, <1>2, <1>3

\* Windows that are named, closed or focused teach nothing.
LEMMA WindowsLearn ==
    ASSUME LearnInv, LaunchInv', X11Named', UNCHANGED <<process, pending, names, crossed>>
    PROVE  LearnInv'
BY DEF LearnInv, KeysOfCommands, RunsFor, KeyOfLaunch, Learned, LearnedFrom, OneApplication

LEMMA SetAppIdLearns ==
    ASSUME LearnInv, NEW w \in Toplevels, SetAppId(w)
    PROVE  LearnInv'
<1>1. LaunchInv'
  BY SetAppIdKeeps DEF LearnInv
<1>2. window' = [window EXCEPT ![w] = [window[w] EXCEPT !.named = TRUE]]
  BY DEF SetAppId, LearnInv, LaunchInv, TypeOK
<1>3. window[w] \in Window
  BY OpenIsWindow DEF SetAppId, LearnInv, LaunchInv
<1>4. window'[w].named
  BY <1>2, <1>3 DEF LearnInv, LaunchInv, TypeOK, Window
<1>5. \A v \in Toplevels \ {w} : window'[v] = window[v]
  BY <1>2 DEF LearnInv, LaunchInv, TypeOK
<1>6. X11Named'
  BY <1>4, <1>5 DEF LearnInv, X11Named
<1> QED BY <1>1, <1>6, WindowsLearn DEF SetAppId

LEMMA CloseLearns ==
    ASSUME LearnInv, NEW w \in Toplevels, CloseWindow(w)
    PROVE  LearnInv'
<1>1. LaunchInv'
  BY CloseKeeps DEF LearnInv
<1>2. window'[w] = Closed /\ \A v \in Toplevels \ {w} : window'[v] = window[v]
  BY DEF CloseWindow, LearnInv, LaunchInv, TypeOK
<1>3. Closed.name \notin X11Applications
  BY LaunchAssumption DEF Closed, Names
<1>4. X11Named'
  BY <1>2, <1>3 DEF LearnInv, X11Named
<1> QED BY <1>1, <1>4, WindowsLearn DEF CloseWindow

LEMMA ExitLearns ==
    ASSUME LearnInv, NEW p \in Processes, Exit(p)
    PROVE  LearnInv'
<1>1. LaunchInv'
  BY ExitKeeps DEF LearnInv
<1>2. /\ crossed' = (crossed \/ p \in Outstanding)
      /\ UNCHANGED <<window, pending, names>>
  BY DEF Exit
<1>3. process'[p] = Free /\ \A q \in Processes \ {p} : process'[q] = process[q]
  BY DEF Exit, LearnInv, LaunchInv, TypeOK
<1>4. KeysOfCommands'
  BY <1>3, NothingThere DEF LearnInv, KeysOfCommands, RunsFor
<1>5. KeyOfLaunch'
  BY <1>2, <1>3 DEF LearnInv, KeyOfLaunch, LaunchInv, NotedLaunch, Outstanding
<1>6. \A q \in Processes : \A k \in Keys :
        LearnedFrom(q, k)' => LearnedFrom(q, k) /\ process'[q] = process[q]
  BY <1>3, NothingThere DEF LearnedFrom, OneApplication
<1>7. Learned'
  BY <1>2, <1>6 DEF LearnInv, Learned
<1> QED BY <1>1, <1>2, <1>4, <1>5, <1>7 DEF LearnInv, X11Named

LEMMA FocusLearns ==
    ASSUME LearnInv, focused' \in Range(order) \cup {None},
           UNCHANGED <<process, window, order, pending, names, saved, crossed, unsaved>>
    PROVE  LearnInv'
<1>1. LaunchInv'
  BY FocusKeeps DEF LearnInv
<1>2. X11Named'
  BY DEF LearnInv, X11Named
<1> QED BY <1>1, <1>2, WindowsLearn

LEMMA NextLearnInv == LearnInv /\ [Next]_vars => LearnInv'
<1> SUFFICES ASSUME LearnInv, [Next]_vars PROVE LearnInv'
  OBVIOUS
<1>0. order \in Seq(Toplevels)
  BY DEF LearnInv, LaunchInv, TypeOK
<1>1. ASSUME NEW c \in Commands, NEW hint \in Hints,
             NEW card \in Cards \cup {None}, ExecOrFocus(c, hint, card)
      PROVE  LearnInv'
  <2>1. Target(c, hint, card) \in Range(order) \cup {None}
    BY <1>0, TargetLemma
  <2> QED BY <1>1, <2>1, LaunchLearns, FocusLearns DEF ExecOrFocus
<1>2. ASSUME NEW c \in Commands, Exec(c)
      PROVE  LearnInv'
  BY <1>2, LaunchLearns DEF Exec
<1>3. ASSUME NEW w \in Toplevels, NEW p \in Processes, Show(w, p)
      PROVE  LearnInv'
  BY <1>3, AddedLearns, LaunchAssumption
<1>4. ASSUME NEW w \in Toplevels, NEW p \in Processes, NEW a \in Applications,
             ShowAnother(w, p, a) \/ ShowForeign(w, p, a)
      PROVE  LearnInv'
  BY <1>4, AddedLearns
<1>5. ASSUME NEW w \in Toplevels, SetAppId(w) \/ CloseWindow(w)
      PROVE  LearnInv'
  BY <1>5, SetAppIdLearns, CloseLearns
<1>6. CASE FocusHome
  <2>1. Found({HomeApplication}) \in Range(order) \cup {None}
    BY <1>0, FoundLemma
  <2> QED BY <1>6, <2>1, FocusLearns DEF FocusHome
<1>7. ASSUME NEW p \in Processes, Exit(p)
      PROVE  LearnInv'
  BY <1>7, ExitLearns
<1>8. CASE Restart \/ CrashWhileSaving
  BY <1>8, StartLearns DEF Restart, CrashWhileSaving, LearnInv, LaunchInv, TypeOK, Unlearned
<1>9. CASE UNCHANGED vars
  <2>1. focused' \in Range(order) \cup {None}
    BY <1>9 DEF vars, LearnInv, LaunchInv, TypeOK
  <2> QED BY <1>9, <2>1, FocusLearns DEF vars
<1> QED
  BY <1>1, <1>2, <1>3, <1>4, <1>5, <1>6, <1>7, <1>8, <1>9 DEF Next

\* A window with the name that was learned from its process is found by the key.
LEMMA MappedLemma ==
    ASSUME LearnInv, ~crossed, NEW key \in Keys, NEW w \in Range(order),
           LearnedFrom(window[w].process, key),
           window[w].name = process[window[w].process].application,
           window[w].name \in FindsItself
    PROVE  Mapped(key) # None
<1>1. w \in Toplevels /\ window[w] \in Window /\ order \in Seq(Toplevels)
  BY OpenIsWindow DEF LearnInv, LaunchInv, TypeOK
<1>2. names[key] = window[w].name
  BY <1>1 DEF LearnInv, Learned, Window
<1>3. window[w].named
  BY <1>1 DEF LearnInv, X11Named, LearnedFrom
<1>4. /\ window[w].name \in Valid /\ window[w].name \in MatchedBy[names[key]]
      /\ key # None
  BY <1>2, LaunchAssumption DEF FindsItself
<1>5. Found(MatchedBy[names[key]]) \in Range(order)
  BY <1>1, <1>3, <1>4, FoundLemma
<1>6. None \notin Range(order)
  BY LaunchAssumption DEF LearnInv, LaunchInv, TypeOK
<1> QED BY <1>2, <1>4, <1>5, <1>6 DEF Mapped

\* As long as launches come one at a time, ExecOrFocus starts no second instance of
\* a program it started while that has a window with the class it was learned by, a
\* pattern that matches itself, if the key of its command is no other application's.
THEOREM NothingStartedTwice == Spec => NotStartedTwice
<1> DEFINE Once ==
      \A p \in Processes, w \in Range(order) :
        LET q == process[window[w].process]
        IN  /\ process[p] = Free /\ process'[p].launched /\ process'[p].key # None
            /\ window[w].name = q.application
            /\ q.application \in X11Applications \cap FindsItself
            /\ OneApplication(q.key)
            => crossed \/ q.key # process'[p].key
<1>1. ASSUME LearnInv, Next PROVE Once
  <2> SUFFICES ASSUME NEW p \in Processes, NEW w \in Range(order),
                      process[p] = Free, process'[p].launched, process'[p].key # None,
                      window[w].name = process[window[w].process].application,
                      window[w].name \in X11Applications \cap FindsItself,
                      OneApplication(process[window[w].process].key), ~crossed,
                      process[window[w].process].key = process'[p].key
               PROVE  FALSE
    OBVIOUS
  <2> DEFINE q == window[w].process
  <2>1. process \in [Processes -> Process \cup {Free}]
    BY <1>1 DEF LearnInv, LaunchInv, TypeOK
  <2>2. q \in Processes /\ process[q].shown
    BY <1>1, OpenIsWindow DEF LearnInv, LaunchInv, TypeOK, Shown, Window
  <2>3. ASSUME NEW c \in Commands, NEW key, NEW card, LaunchOf(c, key, card)
        PROVE  process'[p].key = key
    <3>1. process' # process
      BY NothingThere
    <3>2. PICK r \in Processes :
            process' = [process EXCEPT ![r] =
               [application |-> ApplicationOf[c], launched |-> TRUE, key |-> key,
                shown |-> FALSE]]
      BY <2>3, <3>1 DEF LaunchOf
    <3>3. r = p
      BY <2>1, <3>2, NothingThere
    <3> QED BY <2>1, <3>2, <3>3
  <2>4. ASSUME NEW c \in Commands, NEW hint, NEW card PROVE ~ExecOrFocus(c, hint, card)
    <3> SUFFICES ASSUME ExecOrFocus(c, hint, card) PROVE FALSE
      OBVIOUS
    <3>1. Target(c, hint, card) = None /\ LaunchOf(c, KeyOf[c], card)
      BY NothingThere DEF ExecOrFocus
    <3>2. process[q].key = KeyOf[c] /\ KeyOf[c] \in Keys
      BY <2>3, <3>1, LaunchAssumption
    <3>3. LearnedFrom(q, KeyOf[c])
      BY <2>2, <3>2 DEF LearnedFrom
    <3>4. Mapped(KeyOf[c]) # None
      BY <1>1, <3>2, <3>3, MappedLemma
    <3> QED BY <3>1, <3>4 DEF Target
  <2>5. ASSUME NEW c \in Commands PROVE ~Exec(c)
    BY <2>3 DEF Exec
  <2>6. ASSUME NEW v \in Toplevels, NEW r \in Processes PROVE ~Show(v, r)
    <3> SUFFICES ASSUME Show(v, r) PROVE FALSE
      OBVIOUS
    <3>1. r # p
      BY NothingThere DEF Show, Outstanding
    <3> QED BY <2>1, <3>1, NothingThere DEF Show
  <2>7. ASSUME NEW v \in Toplevels, NEW r \in Processes, NEW a \in Applications
        PROVE  ~ShowAnother(v, r, a) /\ ~ShowForeign(v, r, a)
    <3>1. ASSUME ShowForeign(v, r, a) PROVE ~process'[p].launched
      <4>1. CASE r = p
        BY <2>1, <3>1, <4>1 DEF ShowForeign
      <4>2. CASE r # p
        BY <2>1, <3>1, <4>2, NothingThere DEF ShowForeign
      <4> QED BY <4>1, <4>2
    <3> QED BY <3>1, NothingThere DEF ShowAnother
  <2>8. ASSUME NEW r \in Processes PROVE ~Exit(r)
    BY <2>1, NothingThere DEF Exit
  <2>9. ~Restart /\ ~CrashWhileSaving
    <3>1. ~SessionProcesses[p].launched
      BY NothingThere DEF SessionProcesses, Free
    <3> QED BY <3>1 DEF Restart, CrashWhileSaving, StartSession
  <2>10. process' # process
    BY NothingThere
  <2> QED BY <1>1, <2>4, <2>5, <2>6, <2>7, <2>8, <2>9, <2>10
             DEF Next, FocusHome, SetAppId, CloseWindow
<1> HIDE DEF Once
<1>2. LearnInv /\ [Next]_vars => [Once]_vars
  BY <1>1
<1> QED BY <1>2, InitLearnInv, NextLearnInv, PTL DEF Spec, NotStartedTwice, Once

----------------------------------------------------------------------------
(* ProcessGroups.                                                          *)

\* The activated window runs, and keeps running: each part needs the others.  A
\* stop that becomes due keeps FocusedRuns only because FocusedStays promised
\* a pending continue; a continue that becomes due keeps FocusedStays only
\* because the stop, if it was pending too, became due before it or with it.
GroupsInv == GroupsTypeOK /\ FocusedRuns /\ FocusedStays /\ StopComesFirst

\* The slots hold what the activation puts there, and groups are groups.
LEMMA SlotLemma ==
    /\ Delay \in Nat /\ NoGroup \notin Groups
    /\ Nothing \in Slots /\ Nothing.group = NoGroup /\ Nothing.left = 0
    /\ \A g \in Groups :
         After(g) \in Slots /\ After(g).group = g /\ After(g).left = Delay
    /\ \A slot \in Slots :
         /\ slot.left \in Nat /\ slot.left <= Delay
         /\ slot = Nothing \/ slot.group \in Groups
         /\ Due(slot) <=> slot # Nothing /\ slot.left = 0
    /\ \A w \in Windows \cup {NoWindow} : Group(w) \in Groups \cup {NoGroup}
BY GroupsAssumption DEF Slots, Nothing, After, Group, Due

LEMMA InitGroupsInv == GroupsInit => GroupsInv
<1> SUFFICES ASSUME GroupsInit PROVE GroupsInv
  OBVIOUS
<1>1. GroupsTypeOK
  BY SlotLemma DEF GroupsInit, GroupsTypeOK
<1>2. FocusedRuns /\ FocusedStays /\ StopComesFirst
  BY DEF GroupsInit, FocusedRuns, FocusedStays, StopComesFirst
<1> QED
  BY <1>1, <1>2 DEF GroupsInv

LEMMA SetFocusStep ==
    ASSUME GroupsInv, NEW w \in open \cup {NoWindow}, SetFocus(w)
    PROVE  GroupsInv'
BY DEF GroupsInv, SetFocus, GroupsTypeOK, FocusedRuns, FocusedStays, StopComesFirst, Group

LEMMA SuspendOldLemma ==
    ASSUME GroupsTypeOK
    PROVE  SuspendOld \in Slots
BY SlotLemma DEF SuspendOld, GroupsTypeOK

LEMMA ActivateStep ==
    ASSUME GroupsInv, focus # NoWindow, Activate, UpdateFocus
    PROVE  GroupsInv'
<1> USE SlotLemma, SuspendOldLemma
<1>1. /\ GroupsTypeOK
      /\ focus \in Windows
      /\ activated' = focus
      /\ Group(activated)' = Group(focus)
  BY DEF GroupsInv, GroupsTypeOK, UpdateFocus, Group
<1>2. role' \in {"home", "nav", "none"}
  BY <1>1, GroupsAssumption DEF Activate
<1>3. CASE Group(focus) = NoGroup
  <2>1. suspend' = SuspendOld /\ resume' = Nothing /\ stopped' = stopped
    BY <1>3 DEF Activate
  <2>2. GroupsTypeOK'
    BY <1>1, <1>2, <2>1 DEF GroupsTypeOK, UpdateFocus
  <2>3. FocusedRuns'
    BY <1>1, <1>3, <2>1 DEF FocusedRuns, GroupsTypeOK
  <2>4. FocusedStays' /\ StopComesFirst'
    BY <1>1, <1>3, <2>1 DEF FocusedStays, StopComesFirst
  <2> QED
    BY <2>2, <2>3, <2>4 DEF GroupsInv
<1>4. CASE Group(focus) # NoGroup /\ Delayed
  <2>1. suspend' = SuspendOld /\ resume' = After(Group(focus)) /\ stopped' = stopped
    BY <1>4 DEF Activate
  <2>2. Group(focus) \in Groups
    BY <1>1, <1>4
  <2>3. GroupsTypeOK'
    BY <1>1, <1>2, <2>1, <2>2 DEF GroupsTypeOK, UpdateFocus
  <2>4. FocusedRuns' /\ FocusedStays'
    BY <1>1, <2>1, <2>2 DEF FocusedRuns, FocusedStays
  <2>5. StopComesFirst'
    BY <1>1, <2>1, <2>2 DEF StopComesFirst
  <2> QED
    BY <2>3, <2>4, <2>5 DEF GroupsInv
<1>5. CASE Group(focus) # NoGroup /\ ~Delayed
  <2>1. /\ suspend' = IF SuspendOld.group = Group(focus) THEN Nothing
                                                         ELSE SuspendOld
        /\ resume' = Nothing
        /\ stopped' = stopped \ {Group(focus)}
    BY <1>5 DEF Activate
  <2>2. GroupsTypeOK'
    BY <1>1, <1>2, <2>1 DEF GroupsTypeOK, UpdateFocus
  <2>3. FocusedRuns'
    BY <1>1, <2>1 DEF FocusedRuns
  <2>4. FocusedStays' /\ StopComesFirst'
    BY <1>1, <1>5, <2>1 DEF FocusedStays, StopComesFirst
  <2> QED
    BY <2>2, <2>3, <2>4 DEF GroupsInv
<1> QED
  BY <1>3, <1>4, <1>5

LEMMA UpdateFocusStep ==
    ASSUME GroupsInv, UpdateFocus
    PROVE  GroupsInv'
<1>1. CASE focus = NoWindow
  <2>1. Deactivate /\ activated' = NoWindow
    BY <1>1 DEF UpdateFocus
  <2>2. GroupsTypeOK'
    BY <1>1, <2>1, SuspendOldLemma DEF GroupsInv, GroupsTypeOK, UpdateFocus, Deactivate
  <2> QED
    BY <2>1, <2>2 DEF GroupsInv, FocusedRuns, FocusedStays, StopComesFirst
<1>2. CASE focus # NoWindow
  BY <1>2, ActivateStep DEF UpdateFocus
<1> QED
  BY <1>1, <1>2

\* A due stop of the activated window's group finds its continue pending.
LEMMA PollStep ==
    ASSUME GroupsInv, Poll
    PROVE  GroupsInv'
<1> DEFINE stops == IF Due(suspend) THEN {suspend.group} ELSE {}
           continues == IF Due(resume) THEN {resume.group} ELSE {}
<1>1. /\ stopped' = (stopped \cup stops) \ continues
      /\ suspend' = IF Due(suspend) THEN Nothing ELSE suspend
      /\ resume' = IF Due(resume) THEN Nothing ELSE resume
      /\ UNCHANGED <<open, focus, activated, role, raced>>
  BY DEF Poll
<1>2. GroupsTypeOK'
  BY <1>1, SlotLemma DEF GroupsInv, GroupsTypeOK
<1>3. Group(activated)' = Group(activated)
  BY <1>1 DEF Group
<1>4. FocusedRuns'
  <2> SUFFICES ASSUME activated # NoWindow,
                      Group(activated) \in stopped',
                      ~raced
               PROVE  resume'.group = Group(activated)
    BY <1>1, <1>3 DEF FocusedRuns
  <2>1. CASE Group(activated) \in stopped
    BY <1>1, <2>1 DEF GroupsInv, FocusedRuns
  <2>2. CASE Group(activated) \in stops
    <3>1. Due(suspend) /\ suspend # Nothing /\ suspend.group = Group(activated)
      BY <2>2 DEF Due
    <3>2. resume.group = Group(activated)
      BY <3>1, Zenon DEF GroupsInv, FocusedStays
    <3> QED
      BY <1>1, <3>2
  <2> QED
    BY <1>1, <2>1, <2>2
<1>5. FocusedStays'
  <2> SUFFICES ASSUME activated # NoWindow,
                      suspend' # Nothing,
                      suspend'.group = Group(activated),
                      ~raced
               PROVE  resume'.group = Group(activated)
    BY <1>1, <1>3 DEF FocusedStays
  <2>1. ~Due(suspend) /\ suspend' = suspend
    BY <1>1
  <2>2. resume.group = Group(activated)
    BY <2>1, Zenon DEF GroupsInv, FocusedStays
  <2>3. suspend.left <= resume.left
    BY <2>1, <2>2 DEF GroupsInv, StopComesFirst
  <2>4. suspend.left > 0
    BY <2>1, SlotLemma DEF GroupsInv, GroupsTypeOK
  <2>5. ~Due(resume)
    BY <2>3, <2>4, SlotLemma DEF GroupsInv, GroupsTypeOK
  <2> QED
    BY <1>1, <2>2, <2>5
<1>6. StopComesFirst'
  <2>1. CASE Due(suspend)
    BY <1>1, <1>2, <2>1, SlotLemma DEF StopComesFirst, GroupsTypeOK
  <2>2. CASE ~Due(suspend)
    <3> SUFFICES ASSUME activated # NoWindow,
                        suspend.group = Group(activated),
                        resume'.group = Group(activated)
                 PROVE  suspend.left <= resume'.left
      BY <1>1, <1>3, <2>2 DEF StopComesFirst
    <3>1. CASE Due(resume)
      BY <1>1, <3>1, SlotLemma DEF GroupsInv, GroupsTypeOK
    <3>2. CASE ~Due(resume)
      BY <1>1, <3>2 DEF GroupsInv, StopComesFirst
    <3> QED
      BY <3>1, <3>2
  <2> QED
    BY <2>1, <2>2
<1> QED
  BY <1>2, <1>4, <1>5, <1>6 DEF GroupsInv

LEMMA UpdateTransactionStep ==
    ASSUME GroupsInv, UpdateTransaction
    PROVE  GroupsInv'
<1>1. GroupsTypeOK'
  BY SlotLemma DEF GroupsInv, GroupsTypeOK, UpdateTransaction
<1>2. FocusedRuns'
  BY DEF GroupsInv, FocusedRuns, UpdateTransaction, Group
<1>3. FocusedStays'
  BY DEF GroupsInv, FocusedStays, UpdateTransaction, Group
<1>4. StopComesFirst'
  <2>1. resume' = Nothing /\ suspend' = suspend /\ suspend \in Slots
    BY DEF UpdateTransaction, GroupsInv, GroupsTypeOK
  <2> QED
    BY <2>1, SlotLemma DEF StopComesFirst
<1> QED
  BY <1>1, <1>2, <1>3, <1>4 DEF GroupsInv

LEMMA CloseStep ==
    ASSUME GroupsInv, NEW w \in Windows, Close(w)
    PROVE  GroupsInv'
<1>1. GroupsTypeOK'
  BY DEF GroupsInv, GroupsTypeOK, Close
<1>2. FocusedRuns' /\ FocusedStays' /\ StopComesFirst'
  BY DEF GroupsInv, FocusedRuns, FocusedStays, StopComesFirst, Close, Group
<1> QED
  BY <1>1, <1>2 DEF GroupsInv

\* A tick keeps the groups of both slots, and an empty slot empty.
LEMMA TickStep ==
    ASSUME GroupsInv, Tick
    PROVE  GroupsInv'
<1>1. \A slot \in Slots : slot.left > 0 =>
        /\ [slot EXCEPT !.left = @ - 1] \in Slots
        /\ [slot EXCEPT !.left = @ - 1].group = slot.group
  <2> SUFFICES ASSUME NEW slot \in Slots, slot.left > 0
               PROVE  /\ [slot EXCEPT !.left = @ - 1] \in Slots
                      /\ [slot EXCEPT !.left = @ - 1].group = slot.group
    OBVIOUS
  <2>1. slot \in [group : Groups, left : 0..Delay]
    BY DEF Slots, Nothing
  <2>2. slot.left - 1 \in 0..Delay
    BY <2>1, GroupsAssumption
  <2> QED
    BY <2>1, <2>2 DEF Slots
<1>2. /\ suspend \in Slots /\ resume \in Slots
      /\ suspend' \in Slots /\ suspend'.group = suspend.group
      /\ resume' \in Slots /\ resume'.group = resume.group
      /\ suspend = Nothing => suspend' = Nothing
  BY <1>1 DEF GroupsInv, GroupsTypeOK, Tick, Nothing
<1>3. GroupsTypeOK'
  BY <1>2 DEF GroupsInv, GroupsTypeOK, Tick
<1>4. FocusedRuns' /\ FocusedStays'
  BY <1>2 DEF GroupsInv, FocusedRuns, FocusedStays, Tick, Group
<1>5. StopComesFirst'
  <2>1. suspend.left <= resume.left => suspend'.left <= resume'.left
    BY SlotLemma DEF GroupsInv, GroupsTypeOK, Tick, Slots
  <2> QED
    BY <1>2, <2>1 DEF GroupsInv, StopComesFirst, Tick, Group
<1> QED
  BY <1>3, <1>4, <1>5 DEF GroupsInv

LEMMA StutterStep ==
    ASSUME GroupsInv, UNCHANGED groupsVars
    PROVE  GroupsInv'
BY DEF GroupsInv, GroupsTypeOK, FocusedRuns, FocusedStays, StopComesFirst, Group, groupsVars

LEMMA NextGroupsInv == GroupsInv /\ [GroupsNext]_groupsVars => GroupsInv'
BY SetFocusStep, UpdateFocusStep, PollStep, UpdateTransactionStep, CloseStep,
   TickStep, StutterStep
   DEF GroupsNext

LEMMA SpecIInv == GroupsSpec => []GroupsInv
BY InitGroupsInv, NextGroupsInv, PTL DEF GroupsSpec

\* The variables of the suspension slots keep their types, with any windows,
\* any assignment of them to groups and any delay.
THEOREM GroupsTypeCorrect == GroupsSpec => []GroupsTypeOK
BY SpecIInv, PTL DEF GroupsInv

\* However activations, stops and continues interleave, the group of the window
\* that `focus` activated is stopped only while its continue is pending.
THEOREM FocusedGroupRuns == GroupsSpec => []FocusedRuns
BY SpecIInv, PTL DEF GroupsInv

\* And a pending stop of that group never comes without a pending continue.
THEOREM FocusedGroupStays == GroupsSpec => []FocusedStays
BY SpecIInv, PTL DEF GroupsInv

\* When a stop and a continue of that group are both pending, the stop is due
\* no later than the continue, whatever the delay.
THEOREM StopsBeforeContinuing == GroupsSpec => []StopComesFirst
BY SpecIInv, PTL DEF GroupsInv

\* The group of the activated window runs or is about to, and no stop of it is left
\* without a continue after it.
THEOREM FocusedGroupKept == GroupsSpec => []FocusedKept
BY FocusedGroupRuns, FocusedGroupStays, StopsBeforeContinuing, PTL DEF FocusedKept

=============================================================================
